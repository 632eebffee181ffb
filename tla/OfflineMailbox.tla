--------------------------- MODULE OfflineMailbox ---------------------------
(***************************************************************************)
(* What a caller may expect of an OfflineMessageStore                      *)
(* (include/asiochat/server/offline_message_store.hpp): saving a message   *)
(* appends it; taking a user's messages removes them, all at once and in   *)
(* their order, and then hands them out.  The faults are what may happen   *)
(* besides: the process dies, a take fails although it removed.            *)
(***************************************************************************)
EXTENDS Filter, Functions

CONSTANTS Callers, Messages, Users, To

VARIABLES
  stored,   \* the messages in the store, oldest first
  out,      \* caller -> the messages it has removed and not yet handed out
  taken     \* user -> the messages handed out, in order

vars == <<stored, out, taken>>

ForUser(box, u) == Only(box, {m \in Messages : To[m] = u})
NotForUser(box, u) == Only(box, {m \in Messages : To[m] # u})
Nobody == [c \in Callers |-> <<>>]

Init == stored = <<>> /\ out = Nobody /\ taken = [u \in Users |-> <<>>]

Save(m) ==
  /\ m \notin Range(stored) /\ m \notin Range(taken[To[m]])
  /\ \A c \in Callers : m \notin Range(out[c])
  /\ stored' = Append(stored, m)
  /\ UNCHANGED <<out, taken>>

Take(c, u) ==
  /\ out[c] = <<>> /\ out' = [out EXCEPT ![c] = ForUser(stored, u)]
  /\ stored' = NotForUser(stored, u)
  /\ UNCHANGED taken

HandOut(c, u) ==
  /\ taken' = [taken EXCEPT ![u] = @ \o out[c]]
  /\ out' = [out EXCEPT ![c] = <<>>]
  /\ UNCHANGED stored

Calls ==
  \/ \E m \in Messages : Save(m)
  \/ \E c \in Callers, u \in Users : Take(c, u) \/ HandOut(c, u)

(* The process dies: what it had removed is gone; and a store that is      *)
(* being rewritten is empty.                                               *)
Forgets == out' = Nobody /\ UNCHANGED taken
Die == Forgets /\ UNCHANGED stored
DieEmptied == Forgets /\ stored' = <<>>

(* A take fails, and the messages of u are removed all the same.           *)
Lose(u) == stored' = NotForUser(stored, u) /\ UNCHANGED <<out, taken>>

Next == Calls \/ Die \/ DieEmptied \/ \E u \in Users : Lose(u)

Spec == Init /\ [][Next]_vars
=============================================================================
