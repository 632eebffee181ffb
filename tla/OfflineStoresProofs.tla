------------------------ MODULE OfflineStoresProofs ------------------------
(***************************************************************************)
(* The offline message stores keep what the code relies on, for any        *)
(* number of threads, users and messages.                                  *)
(*                                                                         *)
(* StoresIInv is inductive.  Whatever clashes, what the calls have read    *)
(* and what the store holds was saved, and a call that is about to return  *)
(* has only its user's messages.  For the MySQL store there are also the   *)
(* connections, one per call under way besides the pool's, and a message   *)
(* that is being inserted is with one call and nowhere else.               *)
(*                                                                         *)
(* Until two calls clash, more holds.  The file is what the one call in it *)
(* has read or has been emptied by it; what a take has read from the table *)
(* is what its DELETE will delete.  That a store implements OfflineMailbox *)
(* then goes step by step: the write of the file, the INSERT and the       *)
(* DELETE are what saves and takes, the return hands out, a fault forgets  *)
(* or loses, and no other step changes anything the mailbox shows.         *)
(***************************************************************************)
EXTENDS OfflineStores, SequenceLemmas

-----------------------------------------------------------------------------
(* The file store.  Until two calls clash one call at a time is in the     *)
(* file: the file is what it has read, or it has emptied it, and the       *)
(* message it saves is nowhere yet.                                        *)
FileUnclashed ==
  /\ \A v, w \in Workers : InFile(v) /\ InFile(w) => v = w
  /\ \A w \in Workers : doing[w] \in Messages => doing[w] \notin saved
  /\ \A w \in Workers : at[w] = "open" => memory[w] = file
  /\ \A w \in Workers : at[w] = "write" => file = <<>>

FileInv ==
  /\ TypeOK /\ Rightful
  /\ \A w \in Workers : doing[w] \in Messages => InFile(w) /\ doing[w] \in called
  /\ ~clashed => FileUnclashed

(* The MySQL store.  A message to insert is nowhere yet and inserted by    *)
(* one worker; until two calls clash, what a worker has read is what it    *)
(* will delete, and no other worker is about to delete it.                 *)
For(u) == {m \in Messages : To[m] = u}
NotFor(u) == {m \in Messages : To[m] # u}

SqlUnclashed ==
  /\ \A w \in Workers : at[w] = "delete" => memory[w] = Only(table, For(doing[w]))
  /\ \A v, w \in Workers :
       at[v] = "delete" /\ at[w] = "delete" /\ doing[v] = doing[w] => v = w

SqlCalls ==
  /\ \A w \in Workers : at[w] = "insert" => doing[w] \in called \ saved
  /\ \A w \in Workers : at[w] \in {"select", "delete", "return"} => doing[w] \in Users
  /\ \A v, w \in Workers :
       at[v] = "insert" /\ at[w] = "insert" /\ doing[v] = doing[w] => v = w

SqlInv ==
  /\ MySql!TypeOK /\ MySql!Rightful /\ MySql!ConnectionsConserved
  /\ SqlCalls
  /\ ~clashed => SqlUnclashed

(* The inductive invariant, for whichever store is configured.             *)
StoresIInv == type \in Types /\ IF type = "mysql" THEN SqlInv ELSE FileInv

-----------------------------------------------------------------------------
(* The modules filter alike.                                               *)
LEMMA SameOnly ==
  ASSUME NEW s, NEW S
  PROVE  MySql!Only(s, S) = Only(s, S) /\ Mailbox!Only(s, S) = Only(s, S)
BY DEF MySql!Only, Mailbox!Only, Only

(* So is what is in a sequence.                                            *)
LEMMA SameRange ==
  ASSUME NEW s
  PROVE  Mailbox!Range(s) = Range(s) /\ MySql!Range(s) = Range(s)
BY DEF Mailbox!Range, MySql!Range, Range

-----------------------------------------------------------------------------
(* A call writes its records over what is in the file.                     *)
LEMMA FileOverwritten ==
  ASSUME NEW old \in Seq(Messages), NEW new \in Seq(Messages)
  PROVE  /\ Overwrite(old, new) \in Seq(Messages)
         /\ Range(Overwrite(old, new)) \subseteq Range(old) \cup Range(new)
         /\ old = <<>> => Overwrite(old, new) = new
BY Overwritten DEF Overwrite

(* A call that begins finds nobody in the file, or the calls clash.        *)
LEMMA FileBegins ==
  ASSUME FileInv, NEW w \in Workers, NEW what \in Messages \cup Users, Begin(w, what),
         called' \in SUBSET Messages, called \subseteq called', takes' \in 0..MaxTakes,
         what \in Messages => what \in called' \ called
  PROVE  FileInv'
<1> USE FileOfflineStoreAssumption
<1>1. /\ at[w] = "idle" /\ at' = [at EXCEPT ![w] = "load"]
      /\ doing' = [doing EXCEPT ![w] = what]
      /\ clashed' = (clashed \/ \E v \in Workers : InFile(v))
      /\ UNCHANGED <<file, memory, saved, taken, faults>>
  BY DEF Begin
<1>2. /\ \A v \in Workers : at'[v] = IF v = w THEN "load" ELSE at[v]
      /\ \A v \in Workers : doing'[v] = IF v = w THEN what ELSE doing[v]
  BY <1>1 DEF FileInv, TypeOK
<1>3. TypeOK'
  <2>1. /\ at' \in [Workers -> {"idle", "load", "open", "write", "return"}]
        /\ doing' \in [Workers -> Messages \cup Users \cup {None}]
    BY <1>1 DEF FileInv, TypeOK
  <2>2. clashed' \in BOOLEAN
    BY <1>1
  <2>3. \A v \in Workers : doing'[v] = None <=> at'[v] = "idle"
    BY <1>2 DEF FileInv, TypeOK
  <2>4. saved' \in SUBSET called'
    BY <1>1 DEF FileInv, TypeOK
  <2>5. QED
    BY <1>1, <2>1, <2>2, <2>3, <2>4 DEF FileInv, TypeOK
<1>4. \A v \in Workers : doing'[v] \in Messages => InFile(v)' /\ doing'[v] \in called'
  BY <1>2 DEF FileInv, InFile
<1>5. Rightful'
  BY <1>1, <1>2 DEF FileInv, Rightful
<1>6. ASSUME ~clashed' PROVE FileUnclashed'
  <2>1. FileUnclashed /\ \A v \in Workers : ~InFile(v)
    BY <1>1, <1>6 DEF FileInv
  <2>2. \A v \in Workers : at'[v] \in {"idle", "return"} \/ (v = w /\ at'[v] = "load")
    BY <1>2, <2>1 DEF InFile, FileInv, TypeOK
  <2>3. \A v \in Workers : doing'[v] \in Messages => doing'[v] \notin saved'
    BY <1>1, <1>2, <2>1 DEF FileInv, FileUnclashed, TypeOK
  <2>4. QED
    BY <1>1, <2>2, <2>3 DEF FileUnclashed, InFile
<1>7. QED
  BY <1>3, <1>4, <1>5, <1>6 DEF FileInv

(* A call that ends leaves its worker idle with nothing read.              *)
LEMMA FileReturns ==
  ASSUME TypeOK, NEW w \in Workers, Return(w)
  PROVE  /\ at' \in [Workers -> {"idle", "load", "open", "write", "return"}]
         /\ doing' \in [Workers -> Messages \cup Users \cup {None}]
         /\ memory' \in [Workers -> Seq(Messages)]
         /\ at'[w] = "idle" /\ doing'[w] = None /\ Range(memory'[w]) = {}
         /\ \A v \in Workers \ {w} :
              at'[v] = at[v] /\ doing'[v] = doing[v] /\ memory'[v] = memory[v]
         /\ \A v \in Workers : doing'[v] = None <=> at'[v] = "idle"
<1>1. <<>> \in Seq(Messages) /\ Range(<<>>) = {}
  BY EmptySeq, EmptyRange
<1>2. QED
  BY <1>1 DEF Return, TypeOK

(* What a call has read: the records of a user and of everybody else.      *)
LEMMA FileSplits ==
  ASSUME FileInv, NEW w \in Workers
  PROVE  /\ Matched(w) \in Seq(Messages) /\ Remaining(w) \in Seq(Messages)
         /\ Range(Matched(w)) = {m \in Range(memory[w]) : To[m] = doing[w]}
         /\ Range(Remaining(w)) \subseteq Range(memory[w])
<1>1. memory[w] \in Seq(Messages) /\ Range(memory[w]) \subseteq Messages
  BY DEF FileInv, TypeOK, Rightful
<1>2. QED
  BY <1>1, OnlyKeeps DEF Matched, Remaining

(* Every step of the file store keeps its invariant.                       *)
LEMMA FileStep ==
  ASSUME FileInv, Next
  PROVE  FileInv'
<1> USE FileOfflineStoreAssumption
<1>1. ASSUME NEW w \in Workers, NEW m \in Messages, save_private_message(w, m) PROVE FileInv'
  <2>1. /\ called' = called \cup {m} /\ m \notin called /\ takes' \in 0..MaxTakes /\ Begin(w, m)
        /\ called \in SUBSET Messages
    BY <1>1 DEF save_private_message, FileInv, TypeOK
  <2>2. QED
    BY <2>1, FileBegins
<1>2. ASSUME NEW w \in Workers, NEW u \in Users, take_private_messages_for(w, u) PROVE FileInv'
  <2>1. /\ called' = called /\ takes' \in 0..MaxTakes /\ Begin(w, u) /\ u \notin Messages
        /\ called \in SUBSET Messages
    BY <1>2 DEF take_private_messages_for, FileInv, TypeOK
  <2>2. QED
    BY <2>1, FileBegins
<1>3. ASSUME NEW w \in Workers, load_all_message(w) PROVE FileInv'
  <2>1. /\ at[w] = "load" /\ memory' = [memory EXCEPT ![w] = file]
        /\ at' = [at EXCEPT ![w] = "open"] /\ UNCHANGED <<file, doing, historyVars>>
    BY <1>3 DEF load_all_message
  <2>2. TypeOK'
    BY <2>1 DEF FileInv, TypeOK, historyVars
  <2>3. \A v \in Workers : /\ at'[v] = IF v = w THEN "open" ELSE at[v]
                           /\ memory'[v] = IF v = w THEN file ELSE memory[v]
    BY <2>1 DEF FileInv, TypeOK
  <2>4. Rightful'
    BY <2>1, <2>3 DEF FileInv, Rightful, historyVars
  <2>5. \A v \in Workers : InFile(v)' <=> InFile(v)
    BY <2>1, <2>3 DEF InFile
  <2>6. ~clashed' => FileUnclashed'
    <3>1. SUFFICES ASSUME FileUnclashed PROVE FileUnclashed'
      BY <2>1 DEF FileInv, historyVars
    <3>2. \A v \in Workers : at'[v] # "write"
      BY <2>1, <2>3, <3>1 DEF FileUnclashed, InFile
    <3>3. \A v \in Workers : at'[v] = "open" => v = w
      BY <2>1, <2>3, <3>1 DEF FileUnclashed, InFile
    <3>4. QED
      BY <2>1, <2>3, <2>5, <3>1, <3>2, <3>3 DEF FileUnclashed, historyVars
  <2>7. QED
    BY <2>1, <2>2, <2>4, <2>5, <2>6 DEF FileInv, historyVars
<1>4. ASSUME NEW w \in Workers, OpenTruncated(w) PROVE FileInv'
  <2>1. /\ at[w] = "open" /\ file' = <<>>
        /\ at' = [at EXCEPT ![w] = "write"] /\ UNCHANGED <<doing, memory, historyVars>>
    BY <1>4 DEF OpenTruncated
  <2>2. <<>> \in Seq(Messages) /\ Range(<<>>) = {}
    BY EmptySeq, EmptyRange
  <2>3. TypeOK'
    BY <2>1, <2>2 DEF FileInv, TypeOK, historyVars
  <2>4. \A v \in Workers : at'[v] = IF v = w THEN "write" ELSE at[v]
    BY <2>1 DEF FileInv, TypeOK
  <2>5. Rightful'
    BY <2>1, <2>2, <2>4 DEF FileInv, Rightful, historyVars
  <2>6. \A v \in Workers : InFile(v)' <=> InFile(v)
    BY <2>1, <2>4 DEF InFile
  <2>7. ~clashed' => FileUnclashed'
    BY <2>1, <2>4, <2>6 DEF FileInv, FileUnclashed, InFile, historyVars
  <2>8. QED
    BY <2>1, <2>3, <2>5, <2>6, <2>7 DEF FileInv, historyVars
<1>5. ASSUME NEW w \in Workers, WriteSaved(w) PROVE FileInv'
  <2>1. /\ at[w] = "write" /\ doing[w] \in Messages
        /\ file' = Overwrite(file, Append(memory[w], doing[w]))
        /\ saved' = saved \cup {doing[w]} /\ Return(w)
        /\ UNCHANGED <<called, taken, takes, faults, clashed>>
    BY <1>5 DEF WriteSaved
  <2>2. /\ file \in Seq(Messages) /\ memory[w] \in Seq(Messages)
        /\ Append(memory[w], doing[w]) \in Seq(Messages)
        /\ Range(Append(memory[w], doing[w])) = Range(memory[w]) \cup {doing[w]}
    BY <2>1, AppendRange DEF FileInv, TypeOK
  <2>3. /\ file' \in Seq(Messages)
        /\ Range(file') \subseteq Range(file) \cup Range(memory[w]) \cup {doing[w]}
    <3>1. /\ file' \in Seq(Messages)
          /\ Range(file') \subseteq Range(file) \cup Range(Append(memory[w], doing[w]))
      BY <2>1, <2>2, FileOverwritten
    <3>2. QED
      BY <2>2, <3>1
  <2>4. TypeOK'
    <3>1. saved' \in SUBSET called
      BY <2>1 DEF FileInv, TypeOK
    <3>2. QED
      BY <2>1, <2>3, <3>1, FileReturns DEF FileInv, TypeOK
  <2>5. /\ at'[w] = "idle" /\ doing'[w] = None /\ Range(memory'[w]) = {}
        /\ \A v \in Workers \ {w} :
             at'[v] = at[v] /\ doing'[v] = doing[v] /\ memory'[v] = memory[v]
    BY <2>1, FileReturns DEF FileInv
  <2>6. \A v \in Workers : InFile(v)' => v # w /\ InFile(v)
    BY <2>5 DEF InFile
  <2>7. \A v \in Workers : doing'[v] \in Messages => InFile(v)' /\ doing'[v] \in called'
    BY <2>1, <2>5 DEF FileInv, InFile
  <2>8. Rightful'
    <3>1. Range(file') \subseteq saved'
      BY <2>1, <2>3 DEF FileInv, Rightful
    <3>2. \A v \in Workers : Range(memory'[v]) \subseteq saved'
      BY <2>1, <2>5 DEF FileInv, Rightful
    <3>3. \A v \in Workers : at'[v] = "return" =>
            doing'[v] \in Users /\ Range(memory'[v]) \subseteq {m \in saved' : To[m] = doing'[v]}
      BY <2>1, <2>5 DEF FileInv, Rightful
    <3>4. \A u \in Users : Range(taken'[u]) \subseteq {m \in saved' : To[m] = u}
      BY <2>1 DEF FileInv, Rightful
    <3>5. QED
      BY <3>1, <3>2, <3>3, <3>4 DEF Rightful
  <2>9. ASSUME ~clashed' PROVE FileUnclashed'
    <3>1. FileUnclashed
      BY <2>1, <2>9 DEF FileInv
    <3>2. \A v \in Workers : ~InFile(v)'
      BY <2>1, <2>6, <3>1 DEF FileUnclashed, InFile
    <3>3. QED
      BY <2>7, <3>2 DEF FileUnclashed, InFile
  <2>10. QED
    BY <2>4, <2>7, <2>8, <2>9 DEF FileInv
<1>6. ASSUME NEW w \in Workers, WriteRemaining(w) PROVE FileInv'
  <2>1. /\ at[w] = "write" /\ doing[w] \in Users
        /\ file' = Overwrite(file, Remaining(w))
        /\ memory' = [memory EXCEPT ![w] = Matched(w)] /\ at' = [at EXCEPT ![w] = "return"]
        /\ UNCHANGED <<doing, called, saved, taken, takes, faults, clashed>>
    BY <1>6 DEF WriteRemaining, historyVars
  <2>2. /\ file \in Seq(Messages)
        /\ Matched(w) \in Seq(Messages) /\ Remaining(w) \in Seq(Messages)
        /\ Range(Matched(w)) = {m \in Range(memory[w]) : To[m] = doing[w]}
        /\ Range(Remaining(w)) \subseteq Range(memory[w])
    BY FileSplits DEF FileInv, TypeOK
  <2>3. /\ file' \in Seq(Messages)
        /\ Range(file') \subseteq Range(file) \cup Range(memory[w])
    BY <2>1, <2>2, FileOverwritten
  <2>4. \A v \in Workers : /\ at'[v] = IF v = w THEN "return" ELSE at[v]
                           /\ memory'[v] = IF v = w THEN Matched(w) ELSE memory[v]
    BY <2>1 DEF FileInv, TypeOK
  <2>5. TypeOK'
    BY <2>1, <2>2, <2>3, <2>4 DEF FileInv, TypeOK
  <2>6. \A v \in Workers : InFile(v)' => v # w /\ InFile(v)
    BY <2>4 DEF InFile
  <2>7. \A v \in Workers : doing'[v] \in Messages => InFile(v)' /\ doing'[v] \in called'
    BY <2>1, <2>4 DEF FileInv, InFile
  <2>8. Rightful'
    <3>1. Range(file') \subseteq saved' /\ \A v \in Workers : Range(memory'[v]) \subseteq saved'
      BY <2>1, <2>2, <2>3, <2>4 DEF FileInv, Rightful
    <3>2. \A v \in Workers : at'[v] = "return" =>
            doing'[v] \in Users /\ Range(memory'[v]) \subseteq {m \in saved' : To[m] = doing'[v]}
      BY <2>1, <2>2, <2>4 DEF FileInv, Rightful
    <3>3. QED
      BY <2>1, <3>1, <3>2 DEF FileInv, Rightful
  <2>9. ASSUME ~clashed' PROVE FileUnclashed'
    <3>1. FileUnclashed
      BY <2>1, <2>9 DEF FileInv
    <3>2. \A v \in Workers : ~InFile(v)'
      BY <2>1, <2>6, <3>1 DEF FileUnclashed, InFile
    <3>3. QED
      BY <2>7, <3>2 DEF FileUnclashed, InFile
  <2>10. QED
    BY <2>5, <2>7, <2>8, <2>9 DEF FileInv
<1>7. ASSUME NEW w \in Workers, HandOut(w) PROVE FileInv'
  <2>1. /\ at[w] = "return" /\ taken' = [taken EXCEPT ![doing[w]] = @ \o memory[w]] /\ Return(w)
        /\ UNCHANGED <<file, called, saved, takes, faults, clashed>>
    BY <1>7 DEF HandOut
  <2>2. /\ taken \in [Users -> Seq(Messages)] /\ memory[w] \in Seq(Messages) /\ doing[w] \in Users
        /\ Range(memory[w]) \subseteq {m \in saved : To[m] = doing[w]}
    BY <2>1 DEF FileInv, TypeOK, Rightful
  <2>3. /\ taken[doing[w]] \o memory[w] \in Seq(Messages)
        /\ Range(taken[doing[w]] \o memory[w]) = Range(taken[doing[w]]) \cup Range(memory[w])
    BY <2>2, ConcatRange
  <2>4. /\ taken' \in [Users -> Seq(Messages)]
        /\ \A u \in Users :
             taken'[u] = IF u = doing[w] THEN taken[doing[w]] \o memory[w] ELSE taken[u]
    BY <2>1, <2>2, <2>3
  <2>5. TypeOK'
    BY <2>1, <2>4, FileReturns DEF FileInv, TypeOK
  <2>6. /\ at'[w] = "idle" /\ doing'[w] = None /\ Range(memory'[w]) = {}
        /\ \A v \in Workers \ {w} :
             at'[v] = at[v] /\ doing'[v] = doing[v] /\ memory'[v] = memory[v]
    BY <2>1, FileReturns DEF FileInv
  <2>7. \A v \in Workers : InFile(v)' <=> InFile(v)
    BY <2>1, <2>6 DEF InFile
  <2>8. \A v \in Workers : doing'[v] \in Messages => InFile(v)' /\ doing'[v] \in called'
    BY <2>1, <2>6, <2>7 DEF FileInv
  <2>9. Rightful'
    <3>1. \A u \in Users : Range(taken'[u]) \subseteq {m \in saved' : To[m] = u}
      BY <2>1, <2>2, <2>3, <2>4 DEF FileInv, Rightful
    <3>2. \A v \in Workers : /\ Range(memory'[v]) \subseteq saved'
                             /\ at'[v] = "return" =>
                                  /\ doing'[v] \in Users
                                  /\ Range(memory'[v]) \subseteq {m \in saved' : To[m] = doing'[v]}
      BY <2>1, <2>6 DEF FileInv, Rightful
    <3>3. QED
      BY <2>1, <3>1, <3>2 DEF FileInv, Rightful
  <2>10. ASSUME ~clashed' PROVE FileUnclashed'
    BY <2>1, <2>6, <2>7, <2>8, <2>10 DEF FileInv, FileUnclashed, InFile
  <2>11. QED
    BY <2>5, <2>8, <2>9, <2>10 DEF FileInv
<1>8. CASE Crash
  <2>1. /\ faults' = faults + 1 /\ faults < MaxFaults
        /\ doing' = [w \in Workers |-> None] /\ at' = [w \in Workers |-> "idle"]
        /\ memory' = [w \in Workers |-> <<>>]
        /\ UNCHANGED <<file, called, saved, taken, takes, clashed>>
    BY <1>8 DEF Crash
  <2>2. <<>> \in Seq(Messages) /\ Range(<<>>) = {}
    BY EmptySeq, EmptyRange
  <2>3. faults' \in 0..MaxFaults
    BY <2>1 DEF FileInv, TypeOK
  <2>4. TypeOK'
    BY <2>1, <2>2, <2>3 DEF FileInv, TypeOK
  <2>5. Rightful'
    BY <2>1, <2>2 DEF FileInv, Rightful
  <2>6. FileUnclashed'
    BY <2>1 DEF FileUnclashed, InFile
  <2>7. QED
    BY <2>1, <2>4, <2>5, <2>6 DEF FileInv
<1>9. QED
  BY <1>1, <1>2, <1>3, <1>4, <1>5, <1>6, <1>7, <1>8 DEF Next, Worker

(* So does a save that is thrown away.                                     *)
LEMMA NullStep ==
  ASSUME FileInv, NEW m \in Messages, NullSave(m)
  PROVE  FileInv'
<1>1. /\ m \notin called /\ called' = called \cup {m} /\ saved' = saved \cup {m}
      /\ UNCHANGED <<file, doing, at, memory, taken, takes, faults, clashed>>
  BY DEF NullSave, callVars
<1>2. TypeOK' /\ Rightful'
  BY <1>1 DEF FileInv, TypeOK, Rightful
<1>3. \A w \in Workers : InFile(w)' <=> InFile(w)
  BY <1>1 DEF InFile
<1>4. ~clashed' => FileUnclashed'
  <2>1. \A w \in Workers : doing[w] \in Messages => doing[w] # m
    BY <1>1 DEF FileInv
  <2>2. QED
    BY <1>1, <1>3, <2>1 DEF FileInv, FileUnclashed
<1>5. QED
  BY <1>1, <1>2, <1>3, <1>4 DEF FileInv

-----------------------------------------------------------------------------
(* The modules count alike.                                                *)
LEMMA SameCardinality ==
  ASSUME NEW S
  PROVE  MySql!Cardinality(S) = Cardinality(S)
BY DEF MySql!Cardinality, Cardinality

(* The calls under way, counted.                                           *)
Calling == Cardinality(MySql!Busy)

(* It is the number of workers at most.                                   *)
LEMMA CallsCounted == Calling \in Nat /\ Calling <= Cardinality(Workers)
<1>1. MySql!Busy \subseteq Workers
  BY DEF MySql!Busy
<1>2. QED
  BY <1>1, OfflineStoresAssumption, FS_Subset, FS_CardinalityType DEF Calling

(* The same after a step.                                                  *)
LEMMA CallsCountedNext == Calling' \in Nat /\ Calling' <= Cardinality(Workers)
<1>1. MySql!Busy' \subseteq Workers
  BY DEF MySql!Busy
<1>2. QED
  BY <1>1, OfflineStoresAssumption, FS_Subset, FS_CardinalityType DEF Calling

(* A call that begins ...                                                  *)
LEMMA OneMoreCall ==
  ASSUME NEW w \in Workers, at[w] = "idle", at'[w] # "idle",
         \A v \in Workers \ {w} : at'[v] = at[v]
  PROVE  Calling' = Calling + 1
<1>1. MySql!Busy' = MySql!Busy \cup {w} /\ w \notin MySql!Busy
  BY DEF MySql!Busy
<1>2. IsFiniteSet(MySql!Busy)
  BY OfflineStoresAssumption, FS_Subset DEF MySql!Busy
<1>3. QED
  BY <1>1, <1>2, FS_AddElement DEF Calling

(* ... and one that ends.                                                  *)
LEMMA OneCallLess ==
  ASSUME NEW w \in Workers, at[w] # "idle", at'[w] = "idle",
         \A v \in Workers \ {w} : at'[v] = at[v]
  PROVE  Calling = Calling' + 1
<1>1. MySql!Busy = MySql!Busy' \cup {w} /\ w \notin MySql!Busy'
  BY DEF MySql!Busy
<1>2. IsFiniteSet(MySql!Busy')
  BY OfflineStoresAssumption, FS_Subset DEF MySql!Busy
<1>3. QED
  BY <1>1, <1>2, FS_AddElement DEF Calling

(* The connections in terms of the calls.                                  *)
LEMMA Connections ==
  MySql!ConnectionsConserved
    <=> created = pool_ + Calling /\ (created <= PoolSize \/ created <= Cardinality(Workers))
BY SameCardinality DEF MySql!ConnectionsConserved, Calling

(* The same after a step.                                                  *)
LEMMA ConnectionsNext ==
  MySql!ConnectionsConserved'
    <=> created' = pool_' + Calling' /\ (created' <= PoolSize \/ created' <= Cardinality(Workers))
BY SameCardinality DEF MySql!ConnectionsConserved, Calling

(* A call takes a connection from the pool, or makes one when every other  *)
(* is with a call, ...                                                     *)
LEMMA Acquires ==
  ASSUME MySql!TypeOK, MySql!ConnectionsConserved, NEW w \in Workers, MySql!acquire,
         at[w] = "idle", at'[w] # "idle", \A v \in Workers \ {w} : at'[v] = at[v]
  PROVE  pool_' \in Nat /\ created' \in Nat /\ MySql!ConnectionsConserved'
<1>1. pool_ \in Nat /\ created \in Nat /\ PoolSize \in Nat /\ Cardinality(Workers) \in Nat
  BY OfflineStoresAssumption, FS_CardinalityType DEF MySql!TypeOK
<1>2. /\ Calling \in Nat /\ Calling' = Calling + 1 /\ Calling' <= Cardinality(Workers)
      /\ created = pool_ + Calling /\ (created <= PoolSize \/ created <= Cardinality(Workers))
  BY CallsCounted, CallsCountedNext, OneMoreCall, Connections
<1>3. CASE pool_ = 0
  BY <1>1, <1>2, <1>3, ConnectionsNext DEF MySql!acquire
<1>4. CASE pool_ # 0
  BY <1>1, <1>2, <1>4, ConnectionsNext DEF MySql!acquire
<1>5. QED
  BY <1>3, <1>4

(* ... and gives it back at its end.                                       *)
LEMMA Releases ==
  ASSUME MySql!TypeOK, MySql!ConnectionsConserved, NEW w \in Workers, MySql!release,
         at[w] # "idle", at'[w] = "idle", \A v \in Workers \ {w} : at'[v] = at[v]
  PROVE  pool_' \in Nat /\ created' \in Nat /\ MySql!ConnectionsConserved'
<1>1. pool_ \in Nat /\ created \in Nat
  BY DEF MySql!TypeOK
<1>2. /\ Calling' \in Nat /\ Calling = Calling' + 1
      /\ created = pool_ + Calling /\ (created <= PoolSize \/ created <= Cardinality(Workers))
  BY CallsCounted, CallsCountedNext, OneCallLess, Connections
<1>3. QED
  BY <1>1, <1>2, ConnectionsNext DEF MySql!release

(* A call of the MySQL store that begins.                                  *)
LEMMA SqlBegins ==
  ASSUME SqlInv, NEW w \in Workers, NEW what \in Messages \cup Users,
         NEW statement \in {"insert", "select"}, MySql!Begin(w, what, statement),
         called' \in SUBSET Messages, called \subseteq called', takes' \in 0..MaxTakes,
         statement = "insert" => what \in called' \ called,
         statement = "select" => what \in Users
  PROVE  SqlInv'
<1> USE FileOfflineStoreAssumption
<1>1. /\ at[w] = "idle" /\ at' = [at EXCEPT ![w] = statement]
      /\ doing' = [doing EXCEPT ![w] = what] /\ MySql!acquire
      /\ UNCHANGED <<table, memory, saved, taken, faults, clashed>>
  BY DEF MySql!Begin
<1>2. /\ \A v \in Workers : at'[v] = IF v = w THEN statement ELSE at[v]
      /\ \A v \in Workers : doing'[v] = IF v = w THEN what ELSE doing[v]
  BY <1>1 DEF SqlInv, MySql!TypeOK
<1>3. pool_' \in Nat /\ created' \in Nat /\ MySql!ConnectionsConserved'
  BY <1>1, <1>2, Acquires DEF SqlInv
<1>4. MySql!TypeOK'
  <2>1. /\ at' \in [Workers -> {"idle", "insert", "select", "delete", "return"}]
        /\ doing' \in [Workers -> Messages \cup Users \cup {None}]
    BY <1>1 DEF SqlInv, MySql!TypeOK
  <2>2. \A v \in Workers : doing'[v] = None <=> at'[v] = "idle"
    BY <1>2 DEF SqlInv, MySql!TypeOK
  <2>3. saved' \in SUBSET called'
    BY <1>1 DEF SqlInv, MySql!TypeOK
  <2>4. QED
    BY <1>1, <1>3, <2>1, <2>2, <2>3 DEF SqlInv, MySql!TypeOK
<1>5. SqlCalls'
  <2>1. \A v \in Workers : at'[v] = "insert" => doing'[v] \in called' \ saved'
    BY <1>1, <1>2 DEF SqlInv, SqlCalls, MySql!TypeOK
  <2>2. \A v, x \in Workers :
          at'[v] = "insert" /\ at'[x] = "insert" /\ doing'[v] = doing'[x] => v = x
    BY <1>1, <1>2 DEF SqlInv, SqlCalls
  <2>3. \A v \in Workers : at'[v] \in {"select", "delete", "return"} => doing'[v] \in Users
    BY <1>2 DEF SqlInv, SqlCalls
  <2>4. QED
    BY <2>1, <2>2, <2>3 DEF SqlCalls
<1>6. ~clashed' => SqlUnclashed'
  BY <1>1, <1>2 DEF SqlInv, SqlUnclashed
<1>7. MySql!Rightful'
  BY <1>1, <1>2 DEF SqlInv, MySql!Rightful
<1>8. QED
  BY <1>3, <1>4, <1>5, <1>6, <1>7 DEF SqlInv

(* A call of the MySQL store that ends.                                    *)
LEMMA SqlReturns ==
  ASSUME SqlInv, NEW w \in Workers, at[w] # "idle", MySql!Return(w)
  PROVE  /\ pool_' \in Nat /\ created' \in Nat /\ MySql!ConnectionsConserved'
         /\ at' \in [Workers -> {"idle", "insert", "select", "delete", "return"}]
         /\ doing' \in [Workers -> Messages \cup Users \cup {None}]
         /\ memory' \in [Workers -> Seq(Messages)]
         /\ at'[w] = "idle" /\ doing'[w] = None /\ Range(memory'[w]) = {}
         /\ \A v \in Workers \ {w} :
              at'[v] = at[v] /\ doing'[v] = doing[v] /\ memory'[v] = memory[v]
         /\ \A v \in Workers : doing'[v] = None <=> at'[v] = "idle"
<1>1. <<>> \in Seq(Messages) /\ Range(<<>>) = {}
  BY EmptySeq, EmptyRange
<1>2. /\ at' = [at EXCEPT ![w] = "idle"] /\ doing' = [doing EXCEPT ![w] = None]
      /\ memory' = [memory EXCEPT ![w] = <<>>] /\ MySql!release
  BY DEF MySql!Return
<1>3. /\ at \in [Workers -> {"idle", "insert", "select", "delete", "return"}]
      /\ doing \in [Workers -> Messages \cup Users \cup {None}]
      /\ memory \in [Workers -> Seq(Messages)]
      /\ \A v \in Workers : doing[v] = None <=> at[v] = "idle"
  BY DEF SqlInv, MySql!TypeOK
<1>4. /\ at'[w] = "idle" /\ doing'[w] = None /\ memory'[w] = <<>>
      /\ \A v \in Workers \ {w} :
           at'[v] = at[v] /\ doing'[v] = doing[v] /\ memory'[v] = memory[v]
  BY <1>2, <1>3
<1>5. pool_' \in Nat /\ created' \in Nat /\ MySql!ConnectionsConserved'
  BY <1>2, <1>4, Releases DEF SqlInv
<1>6. QED
  BY <1>1, <1>2, <1>3, <1>4, <1>5

(* What the messages of one user are: when another message is stored, and  *)
(* when another user's messages are deleted, they stay as they are.        *)
LEMMA OthersMail ==
  ASSUME NEW box \in Seq(Messages), NEW u
  PROVE  /\ Only(box, For(u)) \in Seq(Messages)
         /\ Range(Only(box, For(u))) \subseteq Range(box)
         /\ \A m \in Messages : To[m] # u => Only(Append(box, m), For(u)) = Only(box, For(u))
         /\ \A o : o # u => Only(Only(box, NotFor(o)), For(u)) = Only(box, For(u))
<1>1. Only(box, For(u)) \in Seq(Messages) /\ Range(Only(box, For(u))) \subseteq Range(box)
  BY OnlyKeeps
<1>2. ASSUME NEW m \in Messages, To[m] # u
      PROVE  Only(Append(box, m), For(u)) = Only(box, For(u))
  <2>1. m \notin For(u)
    BY <1>2 DEF For
  <2>2. QED
    BY <2>1, OnlyAppend
<1>3. ASSUME NEW o, o # u
      PROVE  Only(Only(box, NotFor(o)), For(u)) = Only(box, For(u))
  <2>1. For(u) \subseteq NotFor(o)
    BY <1>3 DEF For, NotFor
  <2>2. QED
    BY <2>1, OnlyFiner
<1>4. QED
  BY <1>1, <1>2, <1>3

(* A call that ends: all it may have done is to save its message, or to    *)
(* change the messages of the user it is for.                              *)
LEMMA SqlEnds ==
  ASSUME SqlInv, NEW w \in Workers, at[w] # "idle", MySql!Return(w),
         table' \in Seq(Messages), MySql!Rightful',
         taken' \in [Users -> Seq(Messages)],
         UNCHANGED saved \/ (at[w] = "insert" /\ saved' = saved \cup {doing[w]}),
         faults' \in 0..MaxFaults, clashed' \in BOOLEAN, UNCHANGED <<called, takes>>,
         ~clashed' => ~clashed,
         ~clashed' => \A v \in Workers \ {w} : at[v] = "delete" =>
                        Only(table', For(doing[v])) = Only(table, For(doing[v]))
  PROVE  SqlInv'
<1>1. /\ pool_' \in Nat /\ created' \in Nat /\ MySql!ConnectionsConserved'
      /\ at' \in [Workers -> {"idle", "insert", "select", "delete", "return"}]
      /\ doing' \in [Workers -> Messages \cup Users \cup {None}]
      /\ memory' \in [Workers -> Seq(Messages)]
      /\ at'[w] = "idle" /\ doing'[w] = None
      /\ \A v \in Workers \ {w} :
           at'[v] = at[v] /\ doing'[v] = doing[v] /\ memory'[v] = memory[v]
      /\ \A v \in Workers : doing'[v] = None <=> at'[v] = "idle"
  BY SqlReturns
<1>2. \A v \in Workers : at'[v] # "idle" =>
        v # w /\ at'[v] = at[v] /\ doing'[v] = doing[v] /\ memory'[v] = memory[v]
  BY <1>1
<1>3. MySql!TypeOK'
  <2>1. saved' \in SUBSET called'
    BY DEF SqlInv, SqlCalls, MySql!TypeOK
  <2>2. QED
    BY <1>1, <2>1 DEF SqlInv, MySql!TypeOK
<1>4. SqlCalls'
  <2>1. \A v \in Workers : at'[v] = "insert" => doing'[v] \in called' \ saved'
    BY <1>2 DEF SqlInv, SqlCalls
  <2>2. \A v \in Workers : at'[v] \in {"select", "delete", "return"} => doing'[v] \in Users
    BY <1>2 DEF SqlInv, SqlCalls
  <2>3. \A v, x \in Workers :
          at'[v] = "insert" /\ at'[x] = "insert" /\ doing'[v] = doing'[x] => v = x
    BY <1>2 DEF SqlInv, SqlCalls
  <2>4. QED
    BY <2>1, <2>2, <2>3 DEF SqlCalls
<1>5. ASSUME ~clashed' PROVE SqlUnclashed'
  <2>1. SqlUnclashed
    BY <1>5 DEF SqlInv
  <2>2. \A v \in Workers : at'[v] = "delete" => memory'[v] = Only(table', For(doing'[v]))
    BY <1>2, <1>5, <2>1 DEF SqlUnclashed
  <2>3. \A v, x \in Workers :
          at'[v] = "delete" /\ at'[x] = "delete" /\ doing'[v] = doing'[x] => v = x
    BY <1>2, <2>1 DEF SqlUnclashed
  <2>4. QED
    BY <2>2, <2>3 DEF SqlUnclashed, For
<1>6. QED
  BY <1>1, <1>3, <1>4, <1>5 DEF SqlInv

(* The INSERT of a call, which returns or throws after it.                 *)
LEMMA SqlInsertStep ==
  ASSUME SqlInv, NEW w \in Workers, MySql!INSERT(w), MySql!Return(w), faults' \in 0..MaxFaults
  PROVE  SqlInv'
<1> USE FileOfflineStoreAssumption
<1> DEFINE m == doing[w]
<1>1. /\ at[w] = "insert" /\ table' = Append(table, m) /\ saved' = saved \cup {m}
      /\ clashed' = (clashed \/ MySql!BetweenStatements(To[m]))
      /\ UNCHANGED <<called, taken, takes>>
  BY DEF MySql!INSERT
<1>2. m \in called \ saved /\ m \in Messages /\ table \in Seq(Messages)
      /\ taken \in [Users -> Seq(Messages)]
  BY <1>1 DEF SqlInv, SqlCalls, MySql!TypeOK
<1>3. \A v \in Workers : at'[v] # "idle" =>
        at'[v] = at[v] /\ doing'[v] = doing[v] /\ memory'[v] = memory[v]
  BY <1>1, SqlReturns
<1> HIDE DEF m
<1>4. table' \in Seq(Messages) /\ Range(table') = Range(table) \cup {m}
  BY <1>1, <1>2, AppendRange
<1>5. MySql!Rightful'
  BY <1>1, <1>3, <1>4, SameRange DEF SqlInv, MySql!Rightful
<1>6. clashed' \in BOOLEAN /\ (~clashed' => ~clashed)
  BY <1>1 DEF SqlInv, MySql!TypeOK, MySql!BetweenStatements
<1>7. ASSUME ~clashed', NEW v \in Workers \ {w}, at[v] = "delete"
      PROVE  Only(table', For(doing[v])) = Only(table, For(doing[v]))
  <2>1. To[m] # doing[v]
    BY <1>1, <1>7 DEF MySql!BetweenStatements
  <2>2. QED
    BY <1>1, <1>2, <2>1, OthersMail
<1>8. QED
  BY <1>1, <1>2, <1>4, <1>5, <1>6, <1>7, SqlEnds DEF m

(* The SELECT of a call.                                                   *)
LEMMA SqlSelectStep ==
  ASSUME SqlInv, NEW w \in Workers, MySql!Select(w)
  PROVE  SqlInv'
<1>1. /\ at[w] = "select" /\ at' = [at EXCEPT ![w] = "delete"]
      /\ memory' = [memory EXCEPT ![w] = Only(table, For(doing[w]))]
      /\ clashed' = (clashed \/ MySql!BetweenStatements(doing[w]))
      /\ UNCHANGED <<table, pool_, created, doing, called, saved, taken, takes, faults>>
  BY SameOnly DEF MySql!Select, MySql!connectionVars, For
<1>2. /\ Only(table, For(doing[w])) \in Seq(Messages)
      /\ Range(Only(table, For(doing[w]))) = Range(table) \cap For(doing[w])
  BY OnlyKeeps DEF SqlInv, MySql!TypeOK
<1>3. /\ \A v \in Workers : at'[v] = IF v = w THEN "delete" ELSE at[v]
      /\ \A v \in Workers :
           memory'[v] = IF v = w THEN Only(table, For(doing[w])) ELSE memory[v]
  BY <1>1, <1>2 DEF SqlInv, MySql!TypeOK
<1>4. MySql!TypeOK'
  <2>1. clashed' \in BOOLEAN
    BY <1>1 DEF SqlInv, MySql!TypeOK, MySql!BetweenStatements
  <2>2. \A v \in Workers : doing'[v] = None <=> at'[v] = "idle"
    BY <1>1, <1>3 DEF SqlInv, MySql!TypeOK
  <2>3. /\ at' \in [Workers -> {"idle", "insert", "select", "delete", "return"}]
        /\ memory' \in [Workers -> Seq(Messages)]
    BY <1>1, <1>2 DEF SqlInv, MySql!TypeOK
  <2>4. QED
    BY <1>1, <2>1, <2>2, <2>3 DEF SqlInv, MySql!TypeOK
<1>5. MySql!ConnectionsConserved'
  <2>1. MySql!Busy' = MySql!Busy
    BY <1>1, <1>3 DEF MySql!Busy
  <2>2. QED
    BY <1>1, <2>1 DEF SqlInv, MySql!ConnectionsConserved
<1>6. SqlCalls' /\ MySql!Rightful'
  <2>1. SqlCalls'
    BY <1>1, <1>3 DEF SqlInv, SqlCalls
  <2>2. \A v \in Workers : at'[v] \in {"delete", "return"} =>
          doing'[v] \in Users /\ Range(memory'[v]) \subseteq {m \in saved' : To[m] = doing'[v]}
    BY <1>1, <1>2, <1>3, SameRange DEF SqlInv, SqlCalls, MySql!Rightful, For
  <2>3. QED
    BY <1>1, <2>1, <2>2, SameRange DEF SqlInv, MySql!Rightful
<1>7. ASSUME ~clashed' PROVE SqlUnclashed'
  <2>1. SqlUnclashed /\ ~MySql!BetweenStatements(doing[w])
    BY <1>1, <1>7 DEF SqlInv
  <2>2. \A v \in Workers : at'[v] = "delete" => memory'[v] = Only(table', For(doing'[v]))
    BY <1>1, <1>3, <2>1 DEF SqlUnclashed
  <2>3. \A v, x \in Workers :
          at'[v] = "delete" /\ at'[x] = "delete" /\ doing'[v] = doing'[x] => v = x
    BY <1>1, <1>3, <2>1 DEF SqlUnclashed, MySql!BetweenStatements
  <2>4. QED
    BY <2>2, <2>3 DEF SqlUnclashed, For
<1>8. QED
  BY <1>4, <1>5, <1>6, <1>7 DEF SqlInv

(* The DELETE leaves of the table what is for others, and with it what the *)
(* other calls have read.                                                  *)
LEMMA SqlDeletes ==
  ASSUME SqlInv, NEW w \in Workers, MySql!DELETE(w)
  PROVE  /\ doing[w] \in Users
         /\ table' \in Seq(Messages) /\ Range(table') \subseteq saved'
         /\ UNCHANGED <<called, saved, taken, takes, clashed>>
         /\ ~clashed => \A v \in Workers \ {w} : at[v] = "delete" =>
                          Only(table', For(doing[v])) = Only(table, For(doing[v]))
<1>1. /\ at[w] = "delete" /\ table' = Only(table, NotFor(doing[w]))
      /\ UNCHANGED <<called, saved, taken, takes, clashed>>
  BY SameOnly DEF MySql!DELETE, NotFor
<1>2. doing[w] \in Users /\ table \in Seq(Messages) /\ Range(table) \subseteq saved
  BY <1>1, SameRange DEF SqlInv, SqlCalls, MySql!TypeOK, MySql!Rightful
<1>3. table' \in Seq(Messages) /\ Range(table') \subseteq saved'
  BY <1>1, <1>2, OnlyKeeps
<1>4. ASSUME ~clashed, NEW v \in Workers \ {w}, at[v] = "delete"
      PROVE  Only(table', For(doing[v])) = Only(table, For(doing[v]))
  <2>1. doing[v] # doing[w]
    BY <1>1, <1>4 DEF SqlInv, SqlUnclashed
  <2>2. QED
    BY <1>1, <1>2, <2>1, OthersMail
<1>5. QED
  BY <1>1, <1>2, <1>3, <1>4

(* The DELETE of a call that goes on.                                      *)
LEMMA SqlDeleteStep ==
  ASSUME SqlInv, NEW w \in Workers, MySql!Delete(w)
  PROVE  SqlInv'
<1>1. /\ at[w] = "delete" /\ MySql!DELETE(w) /\ at' = [at EXCEPT ![w] = "return"]
      /\ UNCHANGED <<pool_, created, doing, memory, faults>>
  BY DEF MySql!Delete, MySql!DELETE, MySql!connectionVars
<1>2. /\ doing[w] \in Users
      /\ table' \in Seq(Messages) /\ Range(table') \subseteq saved'
      /\ UNCHANGED <<called, saved, taken, takes, clashed>>
      /\ ~clashed => \A v \in Workers \ {w} : at[v] = "delete" =>
                       Only(table', For(doing[v])) = Only(table, For(doing[v]))
  BY <1>1, SqlDeletes
<1>3. \A v \in Workers : at'[v] = IF v = w THEN "return" ELSE at[v]
  BY <1>1 DEF SqlInv, MySql!TypeOK
<1>4. MySql!TypeOK'
  <2>1. \A v \in Workers : doing'[v] = None <=> at'[v] = "idle"
    BY <1>1, <1>3 DEF SqlInv, MySql!TypeOK
  <2>2. at' \in [Workers -> {"idle", "insert", "select", "delete", "return"}]
    BY <1>1 DEF SqlInv, MySql!TypeOK
  <2>3. QED
    BY <1>1, <1>2, <2>1, <2>2 DEF SqlInv, MySql!TypeOK
<1>5. MySql!ConnectionsConserved'
  <2>1. MySql!Busy' = MySql!Busy
    BY <1>1, <1>3 DEF MySql!Busy
  <2>2. QED
    BY <1>1, <2>1 DEF SqlInv, MySql!ConnectionsConserved
<1>6. MySql!Rightful'
  BY <1>1, <1>2, <1>3, SameRange DEF SqlInv, MySql!Rightful
<1>7. SqlCalls'
  BY <1>1, <1>2, <1>3 DEF SqlInv, SqlCalls
<1>8. ~clashed' => SqlUnclashed'
  BY <1>1, <1>2, <1>3 DEF SqlInv, SqlUnclashed, For
<1>9. QED
  BY <1>4, <1>5, <1>6, <1>7, <1>8 DEF SqlInv

(* What was read and deleted is handed out.                                *)
LEMMA SqlHandOutStep ==
  ASSUME SqlInv, NEW w \in Workers, MySql!HandOut(w)
  PROVE  SqlInv'
<1> DEFINE u == doing[w]
<1>1. /\ at[w] = "return" /\ MySql!Return(w)
      /\ taken' = [taken EXCEPT ![u] = @ \o memory[w]]
      /\ UNCHANGED <<table, called, saved, takes, faults, clashed>>
  BY DEF MySql!HandOut
<1>2. /\ u \in Users /\ table \in Seq(Messages) /\ memory[w] \in Seq(Messages)
      /\ taken \in [Users -> Seq(Messages)]
      /\ Range(memory[w]) \subseteq {m \in saved : To[m] = u}
      /\ faults \in 0..MaxFaults /\ clashed \in BOOLEAN
  BY <1>1, SameRange DEF SqlInv, SqlCalls, MySql!TypeOK, MySql!Rightful
<1>3. \A v \in Workers : at'[v] # "idle" =>
        at'[v] = at[v] /\ doing'[v] = doing[v] /\ memory'[v] = memory[v]
  BY <1>1, SqlReturns
<1> HIDE DEF u
<1>4. /\ taken[u] \o memory[w] \in Seq(Messages)
      /\ Range(taken[u] \o memory[w]) = Range(taken[u]) \cup Range(memory[w])
  BY <1>2, ConcatRange
<1>5. /\ taken' \in [Users -> Seq(Messages)]
      /\ \A o \in Users : taken'[o] = IF o = u THEN taken[u] \o memory[w] ELSE taken[o]
  BY <1>1, <1>2, <1>4
<1>6. MySql!Rightful'
  <2>1. \A o \in Users : Range(taken'[o]) \subseteq {m \in saved' : To[m] = o}
    BY <1>1, <1>2, <1>4, <1>5, SameRange DEF SqlInv, MySql!Rightful
  <2>2. QED
    BY <1>1, <1>3, <2>1, SameRange DEF SqlInv, MySql!Rightful
<1>7. QED
  BY <1>1, <1>2, <1>5, <1>6, SqlEnds

(* A statement that throws, carried out or not, ends its call.             *)
LEMMA SqlThrowStep ==
  ASSUME SqlInv, NEW w \in Workers, MySql!StatementThrows(w)
  PROVE  SqlInv'
<1>1. /\ at[w] # "idle" /\ faults < MaxFaults /\ faults' = faults + 1 /\ MySql!Return(w)
      /\ \/ MySql!INSERT(w) \/ MySql!DELETE(w)
         \/ UNCHANGED <<table, called, saved, taken, takes, clashed>>
  BY DEF MySql!StatementThrows
<1>2. faults' \in 0..MaxFaults
  BY <1>1, FileOfflineStoreAssumption DEF SqlInv, MySql!TypeOK
<1>3. \A v \in Workers : at'[v] # "idle" =>
        at'[v] = at[v] /\ doing'[v] = doing[v] /\ memory'[v] = memory[v]
  BY <1>1, SqlReturns
<1>4. taken \in [Users -> Seq(Messages)] /\ clashed \in BOOLEAN /\ table \in Seq(Messages)
  BY DEF SqlInv, MySql!TypeOK
<1>5. CASE MySql!INSERT(w)
  BY <1>1, <1>2, <1>5, SqlInsertStep
<1>6. CASE MySql!DELETE(w)
  <2>1. /\ table' \in Seq(Messages) /\ Range(table') \subseteq saved'
        /\ UNCHANGED <<called, saved, taken, takes, clashed>>
        /\ ~clashed => \A v \in Workers \ {w} : at[v] = "delete" =>
                         Only(table', For(doing[v])) = Only(table, For(doing[v]))
    BY <1>6, SqlDeletes
  <2>2. MySql!Rightful'
    BY <1>3, <2>1, SameRange DEF SqlInv, MySql!Rightful
  <2>3. QED
    BY <1>1, <1>2, <1>4, <2>1, <2>2, SqlEnds
<1>7. CASE UNCHANGED <<table, called, saved, taken, takes, clashed>>
  <2>1. MySql!Rightful'
    BY <1>3, <1>7 DEF SqlInv, MySql!Rightful
  <2>2. QED
    BY <1>1, <1>2, <1>4, <1>7, <2>1, SqlEnds
<1>8. QED
  BY <1>1, <1>5, <1>6, <1>7

(* A pool that is started has all its connections.                         *)
LEMMA SqlStarted ==
  ASSUME \A w \in Workers : at[w] = "idle", MySql!Started
  PROVE  pool_ \in Nat /\ created \in Nat /\ MySql!ConnectionsConserved
<1>1. MySql!Busy = {}
  BY DEF MySql!Busy
<1>2. Calling = 0
  BY <1>1, FS_EmptySet DEF Calling
<1>3. QED
  BY <1>2, Connections, OfflineStoresAssumption DEF MySql!Started

(* A process that dies starts again with an idle store.                    *)
LEMMA SqlCrashStep ==
  ASSUME SqlInv, MySql!Crash
  PROVE  SqlInv'
<1>1. /\ faults < MaxFaults /\ faults' = faults + 1 /\ pool_' = PoolSize /\ created' = PoolSize
      /\ doing' = [w \in Workers |-> None] /\ at' = [w \in Workers |-> "idle"]
      /\ memory' = [w \in Workers |-> <<>>]
      /\ UNCHANGED <<table, called, saved, taken, takes, clashed>>
  BY DEF MySql!Crash
<1>2. <<>> \in Seq(Messages) /\ Range(<<>>) = {}
  BY EmptySeq, EmptyRange
<1>3. pool_' \in Nat /\ created' \in Nat /\ MySql!ConnectionsConserved'
  <2>1. MySql!Busy' = {}
    BY <1>1 DEF MySql!Busy
  <2>2. Calling' = 0
    BY <2>1, FS_EmptySet DEF Calling
  <2>3. QED
    BY <1>1, <2>2, ConnectionsNext, OfflineStoresAssumption
<1>4. faults' \in 0..MaxFaults
  BY <1>1, FileOfflineStoreAssumption DEF SqlInv, MySql!TypeOK
<1>5. MySql!TypeOK'
  BY <1>1, <1>2, <1>3, <1>4 DEF SqlInv, MySql!TypeOK
<1>6. SqlCalls' /\ MySql!Rightful'
  BY <1>1 DEF SqlInv, SqlCalls, MySql!Rightful
<1>7. SqlUnclashed'
  BY <1>1 DEF SqlUnclashed
<1>8. QED
  BY <1>3, <1>5, <1>6, <1>7 DEF SqlInv

(* Every step of the MySQL store keeps its invariant.                      *)
LEMMA SqlStep ==
  ASSUME SqlInv, MySql!Next
  PROVE  SqlInv'
<1> USE FileOfflineStoreAssumption
<1>1. ASSUME NEW w \in Workers, NEW m \in Messages, MySql!save_private_message(w, m) PROVE SqlInv'
  <2>1. /\ called' = called \cup {m} /\ m \notin called /\ takes' \in 0..MaxTakes
        /\ MySql!Begin(w, m, "insert") /\ called \in SUBSET Messages
    BY <1>1 DEF MySql!save_private_message, SqlInv, MySql!TypeOK
  <2>2. QED
    BY <2>1, SqlBegins
<1>2. ASSUME NEW w \in Workers, NEW u \in Users, MySql!take_private_messages_for(w, u)
      PROVE  SqlInv'
  <2>1. /\ called' = called /\ takes' \in 0..MaxTakes
        /\ MySql!Begin(w, u, "select") /\ called \in SUBSET Messages
    BY <1>2 DEF MySql!take_private_messages_for, SqlInv, MySql!TypeOK
  <2>2. QED
    BY <2>1, SqlBegins
<1>3. ASSUME NEW w \in Workers, MySql!ConnectThrows(w) PROVE SqlInv'
  <2>1. /\ faults < MaxFaults /\ faults' = faults + 1
        /\ UNCHANGED <<table, pool_, created, doing, at, memory, called, saved, taken, takes,
                       clashed>>
    BY <1>3 DEF MySql!ConnectThrows, MySql!connectionVars
  <2>2. faults' \in 0..MaxFaults
    BY <2>1 DEF SqlInv, MySql!TypeOK
  <2>3. MySql!TypeOK'
    BY <2>1, <2>2 DEF SqlInv, MySql!TypeOK
  <2>4. /\ MySql!ConnectionsConserved' /\ SqlCalls' /\ MySql!Rightful'
        /\ ~clashed' => SqlUnclashed'
    BY <2>1 DEF SqlInv, MySql!ConnectionsConserved, MySql!Busy, SqlCalls, MySql!Rightful, SqlUnclashed
  <2>5. QED
    BY <2>3, <2>4 DEF SqlInv
<1>4. ASSUME NEW w \in Workers, MySql!Insert(w) PROVE SqlInv'
  <2>1. faults' \in 0..MaxFaults
    BY <1>4 DEF MySql!Insert, SqlInv, MySql!TypeOK
  <2>2. QED
    BY <1>4, <2>1, SqlInsertStep DEF MySql!Insert
<1>5. QED
  BY <1>1, <1>2, <1>3, <1>4, SqlSelectStep, SqlDeleteStep, SqlHandOutStep, SqlThrowStep, SqlCrashStep
     DEF MySql!Next, MySql!Worker

-----------------------------------------------------------------------------
(* A server's store is empty when it is made.                              *)
LEMMA InitStores == StoresInit => StoresIInv
<1> SUFFICES ASSUME StoresInit PROVE StoresIInv
  OBVIOUS
<1> USE FileOfflineStoreAssumption
<1>1. /\ file = <<>> /\ table = <<>> /\ doing = [w \in Workers |-> None]
      /\ at = [w \in Workers |-> "idle"] /\ memory = [w \in Workers |-> <<>>]
      /\ called = {} /\ saved = {} /\ taken = [u \in Users |-> <<>>]
      /\ takes = 0 /\ faults = 0 /\ clashed = FALSE /\ type \in Types /\ MySql!Started
  BY DEF StoresInit, Init, MySql!Init
<1>2. <<>> \in Seq(Messages) /\ Range(<<>>) = {}
  BY EmptySeq, EmptyRange
<1>3. /\ doing \in [Workers -> Messages \cup Users \cup {None}]
      /\ memory \in [Workers -> Seq(Messages)] /\ taken \in [Users -> Seq(Messages)]
      /\ \A w \in Workers : at[w] = "idle" /\ doing[w] = None /\ Range(memory[w]) = {}
      /\ \A u \in Users : Range(taken[u]) = {}
  BY <1>1, <1>2
<1>4. /\ saved \in SUBSET called /\ called \in SUBSET Messages
      /\ takes \in 0..MaxTakes /\ faults \in 0..MaxFaults /\ clashed \in BOOLEAN
  <2>1. saved = {} /\ called = {} /\ takes = 0 /\ faults = 0 /\ clashed = FALSE
    BY <1>1
  <2>2. saved \in SUBSET called /\ called \in SUBSET Messages /\ clashed \in BOOLEAN
    BY <2>1
  <2>3. takes \in 0..MaxTakes /\ faults \in 0..MaxFaults
    BY <2>1
  <2>4. QED
    BY <2>2, <2>3
<1>5. FileInv
  <2>1. at \in [Workers -> {"idle", "load", "open", "write", "return"}]
    BY <1>1
  <2>2. TypeOK
    BY <1>1, <1>2, <1>3, <1>4, <2>1 DEF TypeOK
  <2>3. \A w \in Workers : doing[w] \notin Messages /\ at[w] = "idle"
    BY <1>3
  <2>4. FileUnclashed
    BY <2>3 DEF FileUnclashed, InFile
  <2>5. Rightful
    BY <1>1, <1>2, <1>3 DEF Rightful
  <2>6. QED
    BY <2>2, <2>3, <2>4, <2>5 DEF FileInv
<1>6. SqlInv
  <2>1. pool_ \in Nat /\ created \in Nat /\ MySql!ConnectionsConserved
    BY <1>1, SqlStarted
  <2>2. at \in [Workers -> {"idle", "insert", "select", "delete", "return"}]
    BY <1>1
  <2>3. MySql!TypeOK
    BY <1>1, <1>2, <1>3, <1>4, <2>1, <2>2 DEF MySql!TypeOK
  <2>4. SqlCalls /\ SqlUnclashed
    BY <1>1, <1>2, <1>3 DEF SqlCalls, SqlUnclashed
  <2>5. MySql!Rightful
    BY <1>1, <1>2, <1>3, SameRange DEF MySql!Rightful
  <2>6. QED
    BY <2>1, <2>3, <2>4, <2>5 DEF SqlInv
<1>7. QED
  BY <1>1, <1>5, <1>6 DEF StoresIInv

(* Whichever store is configured stays it, and keeps its invariant.        *)
LEMMA StepStores == StoresIInv /\ [StoresNext]_storeVars => StoresIInv'
<1> SUFFICES ASSUME StoresIInv, [StoresNext]_storeVars PROVE StoresIInv'
  OBVIOUS
<1>1. UNCHANGED type
  BY DEF StoresNext, otherVars, storeVars
<1>2. CASE type = "none" /\ \E m \in Messages : NullSave(m)
  BY <1>1, <1>2, NullStep DEF StoresIInv
<1>3. CASE type = "file" /\ Next
  BY <1>1, <1>3, FileStep DEF StoresIInv
<1>4. CASE type = "mysql" /\ MySql!Next
  BY <1>1, <1>4, SqlStep DEF StoresIInv
<1>5. CASE UNCHANGED storeVars
  <2>1. UNCHANGED <<file, doing, at, memory, called, saved, taken, takes, faults, clashed,
                    table, pool_, created>>
    BY <1>5 DEF storeVars, fileVars, otherVars, callVars, historyVars
  <2>2. FileInv => FileInv'
    BY <2>1 DEF FileInv, TypeOK, Rightful, InFile, FileUnclashed
  <2>3. SqlInv => SqlInv'
    BY <2>1 DEF SqlInv, MySql!TypeOK, MySql!Rightful, MySql!ConnectionsConserved, MySql!Busy,
                SqlCalls, SqlUnclashed
  <2>4. QED
    BY <1>1, <2>2, <2>3 DEF StoresIInv
<1>6. QED
  BY <1>2, <1>3, <1>4, <1>5 DEF StoresNext

(* So it always holds.                                                     *)
LEMMA AlwaysStores == StoresSpec => []StoresIInv
BY InitStores, StepStores, PTL DEF StoresSpec

(* Whatever clashes, throws and crashes, with any number of threads, users *)
(* and messages, a take is handed only messages that were saved for its    *)
(* user.                                                                   *)
THEOREM StoresRightful == StoresSpec => []StoresInv
<1>1. StoresIInv => StoresInv
  BY DEF StoresIInv, StoresInv, FileInv, SqlInv
<1>2. QED
  BY <1>1, AlwaysStores, PTL

(* MySqlConnectionPool leaks no connection, gets none back twice and never *)
(* makes more than the business threads use at once, whichever way each    *)
(* call ends, for any number of threads.                                   *)
THEOREM ConnectionsKept == StoresSpec => []ConnectionsConserved
<1>1. StoresIInv => ConnectionsConserved
  BY DEF StoresIInv, SqlInv, ConnectionsConserved
<1>2. QED
  BY <1>1, AlwaysStores, PTL

-----------------------------------------------------------------------------
(* What the file store contains, by where its calls are.                   *)
Shows ==
  /\ \A w \in Workers : at[w] = "write" => Contents = memory[w]
  /\ (\A w \in Workers : at[w] # "write") => Contents = file

(* While no two calls are in the file only the writing one's memory counts. *)
LEMMA ContentsShown ==
  ASSUME \A v, w \in Workers : InFile(v) /\ InFile(w) => v = w
  PROVE  Shows
<1>1. ASSUME NEW w \in Workers, at[w] = "write" PROVE Contents = memory[w]
  <2>1. \A v \in Workers : at[v] = "write" <=> v = w
    BY <1>1 DEF InFile
  <2>2. (CHOOSE v \in Workers : at[v] = "write") = w
    BY <2>1
  <2>3. QED
    BY <1>1, <2>2 DEF Contents
<1>2. ASSUME \A w \in Workers : at[w] # "write" PROVE Contents = file
  BY <1>2 DEF Contents
<1>3. QED
  BY <1>1, <1>2 DEF Shows

(* The same of the next state.                                             *)
LEMMA ContentsShownNext ==
  ASSUME \A v, w \in Workers : InFile(v)' /\ InFile(w)' => v = w
  PROVE  Shows'
<1>1. ASSUME NEW w \in Workers, at'[w] = "write" PROVE Contents' = memory'[w]
  <2>1. \A v \in Workers : at'[v] = "write" <=> v = w
    BY <1>1 DEF InFile
  <2>2. (CHOOSE v \in Workers : at'[v] = "write") = w
    BY <2>1
  <2>3. QED
    BY <1>1, <2>2 DEF Contents
<1>2. ASSUME \A w \in Workers : at'[w] # "write" PROVE Contents' = file'
  BY <1>2 DEF Contents
<1>3. QED
  BY <1>1, <1>2 DEF Shows

(* What the mailbox sees of the store that is configured: what the store   *)
(* holds, and what the calls have removed and not yet handed out.          *)
Stored == IF type = "file" THEN Contents ELSE table
Out == [w \in Workers |-> IF at[w] = "return" THEN memory[w] ELSE <<>>]

(* A step that changes none of these is one the mailbox does not see.      *)
LEMMA MailboxMoves ==
  ASSUME UNCHANGED <<Stored, Out, taken>>
  PROVE  UNCHANGED Mailbox!vars
BY DEF Mailbox!vars, Stored, Out

(* The mailbox's actions, said of the store.                               *)
LEMMA MailboxActions ==
  /\ \A m : Mailbox!Save(m) <=>
       /\ m \notin Range(Stored) /\ m \notin Range(taken[To[m]])
       /\ \A w \in Workers : m \notin Range(Out[w])
       /\ Stored' = Append(Stored, m) /\ UNCHANGED <<Out, taken>>
  /\ \A w, u : Mailbox!Take(w, u) <=>
       /\ Out[w] = <<>> /\ Out' = [Out EXCEPT ![w] = Only(Stored, For(u))]
       /\ Stored' = Only(Stored, NotFor(u)) /\ UNCHANGED taken
  /\ \A w, u : Mailbox!HandOut(w, u) <=>
       /\ taken' = [taken EXCEPT ![u] = @ \o Out[w]]
       /\ Out' = [Out EXCEPT ![w] = <<>>] /\ UNCHANGED Stored
  /\ \A u : Mailbox!Lose(u) <=>
       Stored' = Only(Stored, NotFor(u)) /\ UNCHANGED <<Out, taken>>
  /\ Mailbox!Forgets <=> Out' = [w \in Workers |-> <<>>] /\ UNCHANGED taken
BY SameOnly, SameRange
   DEF Mailbox!Save, Mailbox!Take, Mailbox!HandOut, Mailbox!Lose, Mailbox!Forgets, Mailbox!Nobody,
       Mailbox!ForUser, Mailbox!NotForUser, For, NotFor, Stored, Out

(* How a worker's step moves what the calls have removed: it stays unless  *)
(* the worker comes to its return, or leaves it.                           *)
LEMMA OutMoves ==
  ASSUME NEW w \in Workers,
         \A v \in Workers \ {w} : at'[v] = at[v] /\ memory'[v] = memory[v]
  PROVE  /\ at[w] # "return" /\ at'[w] # "return" => UNCHANGED Out
         /\ at[w] # "return" /\ at'[w] = "return" =>
              Out[w] = <<>> /\ Out' = [Out EXCEPT ![w] = memory'[w]]
         /\ at[w] = "return" /\ at'[w] # "return" =>
              Out[w] = memory[w] /\ Out' = [Out EXCEPT ![w] = <<>>]
BY DEF Out

(* When every worker has ended nothing is removed and not handed out.      *)
LEMMA OutForgotten ==
  ASSUME \A w \in Workers : at'[w] = "idle"
  PROVE  Out' = [w \in Workers |-> <<>>]
BY DEF Out

(* A step of the file store, until two calls clash: the write of the file  *)
(* is what saves a message or takes a user's; a crash forgets what was     *)
(* taken and not handed out, and everything when the file was truncated.   *)
LEMMA FileImplements ==
  ASSUME FileInv, Next, type = "file", UNCHANGED type, ~clashed'
  PROVE  MailboxStep \/ UNCHANGED Mailbox!vars
<1> USE FileOfflineStoreAssumption
<1>1. FileInv' /\ FileUnclashed'
  BY FileStep DEF FileInv
<1>2. ~clashed
  BY DEF Next, Worker, save_private_message, take_private_messages_for, Begin, load_all_message,
         OpenTruncated, WriteSaved, WriteRemaining, HandOut, Crash, historyVars
<1>3. FileUnclashed /\ TypeOK /\ Rightful
  BY <1>2 DEF FileInv
<1>4. Shows /\ Shows' /\ Stored = Contents /\ Stored' = Contents'
  BY <1>1, <1>3, ContentsShown, ContentsShownNext DEF FileUnclashed, Stored
<1>5. ASSUME NEW w \in Workers, NEW what, Begin(w, what) PROVE UNCHANGED Mailbox!vars
  <2>1. /\ at[w] = "idle" /\ at'[w] = "load"
        /\ \A v \in Workers \ {w} : at'[v] = at[v] /\ memory'[v] = memory[v]
        /\ UNCHANGED <<file, taken>>
    BY <1>3, <1>5 DEF Begin, TypeOK
  <2>2. /\ \A v \in Workers : at[v] # "write"
        /\ \A v \in Workers : at'[v] # "write"
    BY <1>1, <2>1 DEF FileUnclashed, InFile
  <2>3. QED
    BY <1>4, <2>1, <2>2, OutMoves, MailboxMoves DEF Shows
<1>6. ASSUME NEW w \in Workers, load_all_message(w) PROVE UNCHANGED Mailbox!vars
  <2>1. /\ at[w] = "load" /\ at'[w] = "open"
        /\ \A v \in Workers \ {w} : at'[v] = at[v] /\ memory'[v] = memory[v]
        /\ UNCHANGED <<file, taken>>
    BY <1>3, <1>6 DEF load_all_message, historyVars, TypeOK
  <2>2. /\ \A v \in Workers : at[v] # "write"
        /\ \A v \in Workers : at'[v] # "write"
    BY <1>3, <2>1 DEF FileUnclashed, InFile
  <2>3. QED
    BY <1>4, <2>1, <2>2, OutMoves, MailboxMoves DEF Shows
<1>7. ASSUME NEW w \in Workers, OpenTruncated(w) PROVE UNCHANGED Mailbox!vars
  <2>1. /\ at[w] = "open" /\ at'[w] = "write" /\ memory'[w] = memory[w]
        /\ \A v \in Workers \ {w} : at'[v] = at[v] /\ memory'[v] = memory[v]
        /\ UNCHANGED taken
    BY <1>3, <1>7 DEF OpenTruncated, historyVars, TypeOK
  <2>2. \A v \in Workers : at[v] # "write"
    BY <1>3, <2>1 DEF FileUnclashed, InFile
  <2>3. Contents = file /\ Contents' = memory[w] /\ memory[w] = file
    BY <1>3, <1>4, <2>1, <2>2 DEF Shows, FileUnclashed
  <2>4. QED
    BY <1>4, <2>1, <2>3, OutMoves, MailboxMoves
<1>8. ASSUME NEW w \in Workers, WriteSaved(w) PROVE MailboxStep
  <2> DEFINE m == doing[w]
  <2>1. /\ at[w] = "write" /\ m \in Messages /\ Return(w)
        /\ file' = Overwrite(file, Append(memory[w], m)) /\ UNCHANGED <<taken, faults>>
    BY <1>8 DEF WriteSaved
  <2>2. /\ file = <<>> /\ memory[w] \in Seq(Messages) /\ file \in Seq(Messages)
        /\ Append(memory[w], m) \in Seq(Messages)
    BY <1>3, <2>1, AppendRange DEF FileUnclashed, TypeOK
  <2>3. file' = Append(memory[w], m)
    BY <2>1, <2>2, FileOverwritten
  <2>4. /\ at'[w] = "idle"
        /\ \A v \in Workers \ {w} : at'[v] = at[v] /\ memory'[v] = memory[v]
    BY <1>3, <2>1, FileReturns
  <2>5. \A v \in Workers : at'[v] # "write"
    BY <1>3, <2>1, <2>4 DEF FileUnclashed, InFile
  <2>6. Stored = memory[w] /\ Stored' = Append(memory[w], m)
    BY <1>4, <2>1, <2>3, <2>5 DEF Shows
  <2>7. UNCHANGED Out
    BY <2>1, <2>4, OutMoves
  <2>8. m \notin saved /\ To[m] \in Users
    BY <1>3, <2>1 DEF FileUnclashed
  <2>9. /\ m \notin Range(memory[w]) /\ m \notin Range(taken[To[m]])
        /\ \A v \in Workers : m \notin Range(Out[v])
    <3>1. Range(<<>>) = {}
      BY EmptyRange
    <3>2. QED
      BY <1>3, <2>8, <3>1 DEF Rightful, Out
  <2>10. Mailbox!Save(m)
    BY <2>1, <2>6, <2>7, <2>9, MailboxActions
  <2>11. QED
    BY <2>1, <2>10 DEF MailboxStep, Mailbox!Calls
<1>9. ASSUME NEW w \in Workers, WriteRemaining(w) PROVE MailboxStep
  <2>1. /\ at[w] = "write" /\ doing[w] \in Users /\ at' = [at EXCEPT ![w] = "return"]
        /\ memory' = [memory EXCEPT ![w] = Matched(w)]
        /\ file' = Overwrite(file, Remaining(w)) /\ UNCHANGED <<taken, faults>>
    BY <1>9 DEF WriteRemaining, historyVars
  <2>2. /\ file = <<>> /\ file \in Seq(Messages) /\ Remaining(w) \in Seq(Messages)
    BY <1>3, <2>1, FileSplits DEF FileUnclashed, TypeOK
  <2>3. file' = Remaining(w)
    BY <2>1, <2>2, FileOverwritten
  <2>4. /\ at'[w] = "return" /\ memory'[w] = Matched(w)
        /\ \A v \in Workers \ {w} : at'[v] = at[v] /\ memory'[v] = memory[v]
    BY <1>3, <2>1 DEF TypeOK
  <2>5. \A v \in Workers : at'[v] # "write"
    BY <1>3, <2>1, <2>4 DEF FileUnclashed, InFile
  <2>6. Stored = memory[w] /\ Stored' = Remaining(w)
    BY <1>4, <2>1, <2>3, <2>5 DEF Shows
  <2>7. Out[w] = <<>> /\ Out' = [Out EXCEPT ![w] = Matched(w)]
    BY <2>1, <2>4, OutMoves
  <2>8. PICK u \in Users : doing[w] = u
    BY <2>1
  <2>9. Mailbox!Take(w, u)
    BY <2>1, <2>6, <2>7, <2>8, MailboxActions DEF Matched, Remaining, For, NotFor
  <2>10. QED
    BY <2>1, <2>8, <2>9 DEF MailboxStep, Mailbox!Calls
<1>10. ASSUME NEW w \in Workers, HandOut(w) PROVE MailboxStep
  <2>1. /\ at[w] = "return" /\ taken' = [taken EXCEPT ![doing[w]] = @ \o memory[w]] /\ Return(w)
        /\ UNCHANGED <<file, faults>> /\ doing[w] \in Users
    BY <1>3, <1>10 DEF HandOut, Rightful
  <2>2. /\ at'[w] = "idle"
        /\ \A v \in Workers \ {w} : at'[v] = at[v] /\ memory'[v] = memory[v]
    BY <1>3, <2>1, FileReturns
  <2>3. Out[w] = memory[w] /\ Out' = [Out EXCEPT ![w] = <<>>]
    BY <2>1, <2>2, OutMoves
  <2>4. UNCHANGED Stored
    <3>1. CASE \E v \in Workers : at[v] = "write"
      <4>1. PICK v \in Workers : at[v] = "write"
        BY <3>1
      <4>2. at'[v] = "write" /\ memory'[v] = memory[v]
        BY <2>1, <2>2, <4>1
      <4>3. QED
        BY <1>4, <4>1, <4>2 DEF Shows
    <3>2. CASE \A v \in Workers : at[v] # "write"
      <4>1. \A v \in Workers : at'[v] # "write"
        BY <2>2, <3>2
      <4>2. QED
        BY <1>4, <2>1, <3>2, <4>1 DEF Shows
    <3>3. QED
      BY <3>1, <3>2
  <2>5. PICK u \in Users : doing[w] = u
    BY <2>1
  <2>6. Mailbox!HandOut(w, u)
    BY <2>1, <2>3, <2>4, <2>5, MailboxActions
  <2>7. QED
    BY <2>1, <2>5, <2>6 DEF MailboxStep, Mailbox!Calls
<1>11. ASSUME Crash PROVE MailboxStep
  <2>1. /\ \A v \in Workers : at'[v] = "idle"
        /\ UNCHANGED <<file, taken>> /\ faults' = faults + 1 /\ faults \in Nat
    BY <1>3, <1>11 DEF Crash, TypeOK
  <2>2. Stored' = file
    BY <1>4, <2>1 DEF Shows
  <2>3. Mailbox!Forgets
    BY <2>1, OutForgotten, MailboxActions
  <2>4. Stored' = Stored \/ Stored' = <<>>
    BY <1>3, <1>4, <2>2 DEF Shows, FileUnclashed
  <2>5. Mailbox!Die \/ Mailbox!DieEmptied
    BY <2>3, <2>4 DEF Mailbox!Die, Mailbox!DieEmptied, Stored
  <2>6. faults' # faults
    BY <2>1
  <2>7. QED
    BY <2>5, <2>6 DEF MailboxStep
<1>12. QED
  BY <1>5, <1>6, <1>7, <1>8, <1>9, <1>10, <1>11
     DEF Next, Worker, save_private_message, take_private_messages_for

(* The INSERT saves, whether it returns or throws after it.                *)
LEMMA SqlInsertSaves ==
  ASSUME SqlInv, NEW w \in Workers, MySql!INSERT(w), MySql!Return(w), type = "mysql",
         UNCHANGED type
  PROVE  Mailbox!Save(doing[w]) /\ doing[w] \in Messages
<1> DEFINE m == doing[w]
<1>1. /\ at[w] = "insert" /\ table' = Append(table, m) /\ UNCHANGED taken
  BY DEF MySql!INSERT
<1>2. m \in Messages /\ m \notin saved /\ To[m] \in Users
  BY <1>1, FileOfflineStoreAssumption DEF SqlInv, SqlCalls, MySql!TypeOK
<1>3. /\ at'[w] = "idle"
      /\ \A v \in Workers \ {w} : at'[v] = at[v] /\ memory'[v] = memory[v]
  BY <1>1, SqlReturns
<1>4. UNCHANGED Out
  BY <1>1, <1>3, OutMoves
<1>5. /\ m \notin Range(table) /\ m \notin Range(taken[To[m]])
      /\ \A v \in Workers : m \notin Range(Out[v])
  <2>1. Range(<<>>) = {}
    BY EmptyRange
  <2>2. MySql!Rightful /\ \A s : MySql!Range(s) = Range(s)
    BY SameRange DEF SqlInv
  <2>3. QED
    BY <1>2, <2>1, <2>2 DEF MySql!Rightful, Out
<1>6. QED
  BY <1>1, <1>2, <1>4, <1>5, MailboxActions DEF Stored

(* A step of the MySQL store, until two calls clash: an INSERT saves, and  *)
(* a DELETE takes what its SELECT has read, which is still what the table  *)
(* has for the user.                                                       *)
LEMMA SqlImplements ==
  ASSUME SqlInv, MySql!Next, type = "mysql", UNCHANGED type, ~clashed'
  PROVE  MailboxStep \/ UNCHANGED Mailbox!vars
<1>1. ASSUME NEW w \in Workers, MySql!Insert(w) PROVE MailboxStep
  BY <1>1, SqlInsertSaves DEF MySql!Insert, MailboxStep, Mailbox!Calls
<1>2. ASSUME NEW w \in Workers, MySql!Delete(w) PROVE MailboxStep
  <2>1. /\ at[w] = "delete" /\ table' = Only(table, NotFor(doing[w]))
        /\ at' = [at EXCEPT ![w] = "return"] /\ UNCHANGED <<taken, memory, faults, clashed>>
    BY <1>2, SameOnly DEF MySql!Delete, MySql!DELETE, NotFor
  <2>2. doing[w] \in Users /\ memory[w] = Only(table, For(doing[w]))
    BY <2>1 DEF SqlInv, SqlCalls, SqlUnclashed
  <2>3. at'[w] = "return" /\ \A v \in Workers \ {w} : at'[v] = at[v] /\ memory'[v] = memory[v]
    BY <2>1 DEF SqlInv, MySql!TypeOK
  <2>4. Out[w] = <<>> /\ Out' = [Out EXCEPT ![w] = memory[w]]
    BY <2>1, <2>3, OutMoves
  <2>5. PICK u \in Users : doing[w] = u
    BY <2>1, <2>2
  <2>6. Mailbox!Take(w, u)
    BY <2>1, <2>2, <2>4, <2>5, MailboxActions DEF Stored
  <2>7. QED
    BY <2>1, <2>2, <2>5, <2>6 DEF MailboxStep, Mailbox!Calls
<1>3. ASSUME NEW w \in Workers, MySql!HandOut(w) PROVE MailboxStep
  <2>1. /\ at[w] = "return" /\ taken' = [taken EXCEPT ![doing[w]] = @ \o memory[w]]
        /\ MySql!Return(w) /\ UNCHANGED <<table, faults>> /\ doing[w] \in Users
    BY <1>3 DEF MySql!HandOut, SqlInv, SqlCalls
  <2>2. /\ at'[w] = "idle"
        /\ \A v \in Workers \ {w} : at'[v] = at[v] /\ memory'[v] = memory[v]
    BY <2>1, SqlReturns
  <2>3. Out[w] = memory[w] /\ Out' = [Out EXCEPT ![w] = <<>>]
    BY <2>1, <2>2, OutMoves
  <2>4. PICK u \in Users : doing[w] = u
    BY <2>1
  <2>5. Mailbox!HandOut(w, u)
    BY <2>1, <2>3, <2>4, MailboxActions DEF Stored
  <2>6. QED
    BY <2>1, <2>4, <2>5 DEF MailboxStep, Mailbox!Calls
<1>4. ASSUME NEW w \in Workers, NEW what, NEW statement \in {"insert", "select"},
             MySql!Begin(w, what, statement)
      PROVE  UNCHANGED Mailbox!vars
  <2>1. /\ at[w] = "idle" /\ at'[w] = statement
        /\ \A v \in Workers \ {w} : at'[v] = at[v] /\ memory'[v] = memory[v]
        /\ UNCHANGED <<table, taken>>
    BY <1>4 DEF MySql!Begin, SqlInv, MySql!TypeOK
  <2>2. QED
    BY <2>1, OutMoves, MailboxMoves DEF Stored
<1>5. ASSUME NEW w \in Workers, MySql!Select(w) PROVE UNCHANGED Mailbox!vars
  <2>1. /\ at[w] = "select" /\ at'[w] = "delete"
        /\ \A v \in Workers \ {w} : at'[v] = at[v] /\ memory'[v] = memory[v]
        /\ UNCHANGED <<table, taken>>
    BY <1>5 DEF MySql!Select, SqlInv, MySql!TypeOK
  <2>2. QED
    BY <2>1, OutMoves, MailboxMoves DEF Stored
<1>6. ASSUME NEW w \in Workers, MySql!ConnectThrows(w) PROVE UNCHANGED Mailbox!vars
  BY <1>6 DEF MySql!ConnectThrows, Mailbox!vars, Contents
<1>7. ASSUME NEW w \in Workers, MySql!StatementThrows(w)
      PROVE  MailboxStep \/ UNCHANGED Mailbox!vars
  <2>1. /\ at[w] \in {"insert", "select", "delete"} /\ faults' = faults + 1 /\ faults \in Nat
        /\ MySql!Return(w)
        /\ \/ MySql!INSERT(w)
           \/ MySql!DELETE(w)
           \/ UNCHANGED <<table, called, saved, taken, takes, clashed>>
    BY <1>7 DEF MySql!StatementThrows, SqlInv, MySql!TypeOK
  <2>2. faults' # faults
    BY <2>1
  <2>3. /\ at'[w] = "idle"
        /\ \A v \in Workers \ {w} : at'[v] = at[v] /\ memory'[v] = memory[v]
    BY <2>1, SqlReturns
  <2>4. UNCHANGED Out
    BY <2>1, <2>3, OutMoves
  <2>5. CASE MySql!INSERT(w)
    BY <2>1, <2>2, <2>5, SqlInsertSaves DEF MailboxStep
  <2>6. CASE MySql!DELETE(w)
    <3>1. /\ table' = Only(table, NotFor(doing[w])) /\ UNCHANGED taken /\ doing[w] \in Users
      BY <2>6, SameOnly DEF MySql!DELETE, NotFor, SqlInv, SqlCalls
    <3>2. Mailbox!Lose(doing[w])
      BY <2>4, <3>1, MailboxActions DEF Stored
    <3>3. QED
      BY <2>2, <3>1, <3>2 DEF MailboxStep
  <2>7. CASE UNCHANGED <<table, taken>>
    BY <2>4, <2>7, MailboxMoves DEF Stored
  <2>8. QED
    BY <2>1, <2>5, <2>6, <2>7
<1>8. ASSUME MySql!Crash PROVE MailboxStep
  <2>1. /\ \A v \in Workers : at'[v] = "idle"
        /\ UNCHANGED <<table, taken>> /\ faults' = faults + 1 /\ faults \in Nat
    BY <1>8 DEF MySql!Crash, SqlInv, MySql!TypeOK
  <2>2. Mailbox!Forgets
    BY <2>1, OutForgotten, MailboxActions
  <2>3. Mailbox!Die
    BY <2>1, <2>2 DEF Mailbox!Die
  <2>4. faults' # faults
    BY <2>1
  <2>5. QED
    BY <2>3, <2>4 DEF MailboxStep
<1>9. QED
  BY <1>1, <1>2, <1>3, <1>4, <1>5, <1>6, <1>7, <1>8
     DEF MySql!Next, MySql!Worker, MySql!save_private_message, MySql!take_private_messages_for

(* Whichever store is configured, for any number of threads, users and     *)
(* messages: until two of its calls clash it is an OfflineMailbox, whose   *)
(* only losses are those of a fault.                                       *)
THEOREM MailboxImplemented == StoresSpec => ImplementsMailbox
<1>1. StoresInit => Mailbox!Init
  <2> SUFFICES ASSUME StoresInit PROVE Mailbox!Init
    OBVIOUS
  <2>1. /\ file = <<>> /\ table = <<>> /\ taken = [u \in Users |-> <<>>]
        /\ \A w \in Workers : at[w] = "idle"
    BY DEF StoresInit, Init, MySql!Init
  <2>2. QED
    BY <2>1 DEF Mailbox!Init, Mailbox!Nobody, Contents
<1>2. StoresIInv /\ [StoresNext]_storeVars => [clashed' \/ MailboxStep]_(Mailbox!vars)
  <2> SUFFICES ASSUME StoresIInv, [StoresNext]_storeVars, ~clashed'
               PROVE  MailboxStep \/ UNCHANGED Mailbox!vars
    OBVIOUS
  <2>1. UNCHANGED type
    BY DEF StoresNext, otherVars, storeVars
  <2>2. CASE type = "none" /\ \E m \in Messages : NullSave(m)
    BY <2>2 DEF MailboxStep
  <2>3. CASE type = "file" /\ Next
    BY <2>1, <2>3, FileImplements DEF StoresIInv
  <2>4. CASE type = "mysql" /\ MySql!Next
    BY <2>1, <2>4, SqlImplements DEF StoresIInv
  <2>5. CASE UNCHANGED storeVars
    BY <2>5 DEF storeVars, fileVars, otherVars, callVars, historyVars, Mailbox!vars, Contents
  <2>6. QED
    BY <2>2, <2>3, <2>4, <2>5 DEF StoresNext
<1>3. QED
  BY <1>1, <1>2, AlwaysStores, PTL DEF StoresSpec, ImplementsMailbox
=============================================================================
