-------------------------- MODULE FileOfflineStore --------------------------
(***************************************************************************)
(* FileOfflineMessageStore (offline_message_store.cpp), called by the      *)
(* business threads.  It holds no lock: a call reads the whole file,       *)
(* truncates it by opening it for writing and writes it anew, and another  *)
(* thread's call or the end of the process may come in between.            *)
(*                                                                         *)
(* A record is a message; the records a call writes reach the file at once *)
(* (they fit the stream's buffer) and from the file's start, over whatever *)
(* another call has written since the truncation.                          *)
(***************************************************************************)
EXTENDS Filter, Functions

CONSTANTS
  Workers,
  Messages, Users,
  To,           \* message -> the user it is for
  MaxTakes,     \* bound on the takes begun
  MaxFaults,    \* bound on the faults
  None

ASSUME FileOfflineStoreAssumption ==
  /\ To \in [Messages -> Users]
  /\ MaxTakes \in Nat /\ MaxFaults \in Nat
  /\ None \notin Messages \cup Users /\ Messages \cap Users = {}

VARIABLES
  file,
  doing,     \* worker -> the message it saves or the user it takes for
  at,        \* worker -> "idle", or where it is in the call
  memory,    \* worker -> the records it has read, or those it will return
  called,    \* messages some worker was given to save
  saved,     \* messages whose save has returned
  taken,     \* user -> the messages handed out, in order
  takes, faults,
  clashed    \* two calls have been in the file at once

callVars == <<doing, at, memory>>
historyVars == <<called, saved, taken, takes, faults, clashed>>
fileVars == <<file, callVars, historyVars>>

TypeOK ==
  /\ file \in Seq(Messages)
  /\ doing \in [Workers -> Messages \cup Users \cup {None}]
  /\ at \in [Workers -> {"idle", "load", "open", "write", "return"}]
  /\ memory \in [Workers -> Seq(Messages)]
  /\ \A w \in Workers : doing[w] = None <=> at[w] = "idle"
  /\ called \in SUBSET Messages /\ saved \in SUBSET called
  /\ taken \in [Users -> Seq(Messages)]
  /\ takes \in 0..MaxTakes /\ faults \in 0..MaxFaults /\ clashed \in BOOLEAN

(* Whatever clashes, nothing is in the file that no save put there, and    *)
(* nobody is handed a message for somebody else.                           *)
Rightful ==
  LET Due(u) == {m \in saved : To[m] = u}
  IN  /\ Range(file) \subseteq saved
      /\ \A w \in Workers :
           /\ Range(memory[w]) \subseteq saved
           /\ at[w] = "return" => doing[w] \in Users /\ Range(memory[w]) \subseteq Due(doing[w])
      /\ \A u \in Users : Range(taken[u]) \subseteq Due(u)

Init ==
  /\ file = <<>>
  /\ doing = [w \in Workers |-> None]
  /\ at = [w \in Workers |-> "idle"]
  /\ memory = [w \in Workers |-> <<>>]
  /\ called = {} /\ saved = {}
  /\ taken = [u \in Users |-> <<>>]
  /\ takes = 0 /\ faults = 0 /\ clashed = FALSE

-----------------------------------------------------------------------------
InFile(w) == at[w] \in {"load", "open", "write"}

Begin(w, what) ==
  /\ at[w] = "idle"
  /\ at' = [at EXCEPT ![w] = "load"]
  /\ doing' = [doing EXCEPT ![w] = what]
  /\ clashed' = (clashed \/ \E v \in Workers : InFile(v))
  /\ UNCHANGED <<file, memory, saved, taken, faults>>

save_private_message(w, m) ==
  /\ m \notin called
  /\ called' = called \cup {m}
  /\ Begin(w, m)
  /\ UNCHANGED takes

take_private_messages_for(w, u) ==
  /\ takes < MaxTakes
  /\ takes' = takes + 1
  /\ Begin(w, u)
  /\ UNCHANGED called

load_all_message(w) ==
  /\ at[w] = "load"
  /\ memory' = [memory EXCEPT ![w] = file]
  /\ at' = [at EXCEPT ![w] = "open"]
  /\ UNCHANGED <<file, doing, historyVars>>

(* save_all_message(): the stream truncates the file when it opens it ...  *)
OpenTruncated(w) ==
  /\ at[w] = "open"
  /\ file' = <<>>
  /\ at' = [at EXCEPT ![w] = "write"]
  /\ UNCHANGED <<doing, memory, historyVars>>

(* ... and writes when it is closed.                                       *)
Matched(w) == Only(memory[w], {m \in Messages : To[m] = doing[w]})
Remaining(w) == Only(memory[w], {m \in Messages : To[m] # doing[w]})
Overwrite(old, new) == new \o SubSeq(old, Len(new) + 1, Len(old))

Return(w) ==
  /\ at' = [at EXCEPT ![w] = "idle"]
  /\ doing' = [doing EXCEPT ![w] = None]
  /\ memory' = [memory EXCEPT ![w] = <<>>]

WriteSaved(w) ==
  /\ at[w] = "write" /\ doing[w] \in Messages
  /\ file' = Overwrite(file, Append(memory[w], doing[w]))
  /\ saved' = saved \cup {doing[w]}
  /\ Return(w)
  /\ UNCHANGED <<called, taken, takes, faults, clashed>>

(* Defect: the file is written back whole. *)
WriteEverything(w) ==
  /\ at[w] = "write" /\ doing[w] \in Users
  /\ file' = Overwrite(file, memory[w])
  /\ memory' = [memory EXCEPT ![w] = Matched(w)]
  /\ at' = [at EXCEPT ![w] = "return"]
  /\ UNCHANGED <<doing, historyVars>>

(* Defect: everything that was read is returned. *)
ReturnEverything(w) ==
  /\ at[w] = "write" /\ doing[w] \in Users
  /\ file' = Overwrite(file, Remaining(w))
  /\ at' = [at EXCEPT ![w] = "return"]
  /\ UNCHANGED <<doing, memory, historyVars>>

WriteRemaining(w) ==
  /\ at[w] = "write" /\ doing[w] \in Users
  /\ file' = Overwrite(file, Remaining(w))
  /\ memory' = [memory EXCEPT ![w] = Matched(w)]
  /\ at' = [at EXCEPT ![w] = "return"]
  /\ UNCHANGED <<doing, historyVars>>

HandOut(w) ==
  /\ at[w] = "return"
  /\ taken' = [taken EXCEPT ![doing[w]] = @ \o memory[w]]
  /\ Return(w)
  /\ UNCHANGED <<file, called, saved, takes, faults, clashed>>

(* The process dies: what is in the file is what remains.                  *)
Crash ==
  /\ faults < MaxFaults
  /\ faults' = faults + 1
  /\ doing' = [w \in Workers |-> None]
  /\ at' = [w \in Workers |-> "idle"]
  /\ memory' = [w \in Workers |-> <<>>]
  /\ UNCHANGED <<file, called, saved, taken, takes, clashed>>

-----------------------------------------------------------------------------
Worker(w) ==
  \/ \E m \in Messages : save_private_message(w, m)
  \/ \E u \in Users : take_private_messages_for(w, u)
  \/ load_all_message(w)
  \/ OpenTruncated(w)
  \/ WriteSaved(w)
  \/ WriteRemaining(w)
  \/ HandOut(w)

Next == (\E w \in Workers : Worker(w)) \/ Crash

-----------------------------------------------------------------------------
(* What the store contains: while a call has the file truncated, the       *)
(* records that call has read.                                             *)
Contents ==
  IF \E w \in Workers : at[w] = "write"
  THEN memory[CHOOSE w \in Workers : at[w] = "write"]
  ELSE file
=============================================================================
