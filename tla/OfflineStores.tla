--------------------------- MODULE OfflineStores ---------------------------
(***************************************************************************)
(* The offline message store of a running server: StoreFactory             *)
(* (store_factory.cpp) makes the one its configuration names, and the      *)
(* business threads call it.  The calls' state is shared: doing, at and    *)
(* memory are FileOfflineStore's or MySqlOfflineStore's as type says.      *)
(***************************************************************************)
EXTENDS FileOfflineStore, FiniteSets

CONSTANTS
  Types,        \* the store types that are configured
  PoolSize

ASSUME OfflineStoresAssumption ==
  /\ Types \subseteq {"none", "file", "mysql"}
  /\ PoolSize \in Nat
  /\ IsFiniteSet(Workers)

VARIABLES
  type,         \* offline_store_type
  table, pool_, created

MySql == INSTANCE MySqlOfflineStore

otherVars == <<type, table, pool_, created>>
storeVars == <<fileVars, otherVars>>

(* create_offline_message_store(): any other type throws, and the server   *)
(* does not start.                                                         *)
StoresInit == Init /\ MySql!Init /\ type \in Types

(* NullOfflineMessageStore: a save returns and a take finds nothing.       *)
NullSave(m) ==
  /\ m \notin called /\ called' = called \cup {m} /\ saved' = saved \cup {m}
  /\ UNCHANGED <<file, callVars, taken, takes, faults, clashed>>

StoresNext ==
  \/ type = "none" /\ (\E m \in Messages : NullSave(m)) /\ UNCHANGED otherVars
  \/ type = "file" /\ Next /\ UNCHANGED otherVars
  \/ type = "mysql" /\ MySql!Next /\ UNCHANGED <<file, type>>

StoresSpec == StoresInit /\ [][StoresNext]_storeVars

-----------------------------------------------------------------------------
(* Whatever clashes and fails, nobody is handed a message for somebody     *)
(* else, or one that was not saved.                                        *)
StoresInv ==
  /\ type \in Types
  /\ IF type = "mysql" THEN MySql!TypeOK /\ MySql!Rightful ELSE TypeOK /\ Rightful

Mailbox ==
  INSTANCE OfflineMailbox WITH
    Callers <- Workers,
    stored <- IF type = "file" THEN Contents ELSE table,
    out <- [w \in Workers |-> IF at[w] = "return" THEN memory[w] ELSE <<>>]

(* A store is an OfflineMailbox as long as no two calls clash: nothing is  *)
(* lost or handed out twice but by a fault.  For the file store calls that *)
(* are in the file together clash, and a process that dies may leave it    *)
(* empty.  For the MySQL store only calls about one user do, and only      *)
(* between a take's two statements; its faults lose no more than what a    *)
(* take had deleted.                                                       *)
MailboxStep ==
  CASE type = "none" -> TRUE
    [] type # "none" /\ faults' = faults -> Mailbox!Calls
    [] type = "file" /\ faults' # faults -> Mailbox!Die \/ Mailbox!DieEmptied
    [] type = "mysql" /\ faults' # faults ->
         \/ Mailbox!Die
         \/ \E m \in Messages : Mailbox!Save(m)
         \/ \E u \in Users : Mailbox!Lose(u)

ImplementsMailbox == Mailbox!Init /\ [][clashed' \/ MailboxStep]_Mailbox!vars

(* The MySQL store's connections.                                          *)
ConnectionsConserved == type = "mysql" => MySql!ConnectionsConserved

(* "has been queued for later delivery." (chat_session.cpp:440): when no   *)
(* call is under way, a message whose save has returned is in the store or *)
(* was handed out to its user.                                             *)
SavedNotLost ==
  (\A w \in Workers : at[w] = "idle") =>
    \A m \in saved : m \in Range(IF type = "mysql" THEN table ELSE file) \cup Range(taken[To[m]])
=============================================================================
