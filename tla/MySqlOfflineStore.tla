------------------------- MODULE MySqlOfflineStore -------------------------
(***************************************************************************)
(* MySqlOfflineMessageStore over MySqlOfflineMessageDao                    *)
(* (mysql_offline_message_dao.cpp), called by the business threads.  Each  *)
(* statement is a transaction of its own: taking a user's messages reads   *)
(* them with one and deletes them with another.  A call holds a connection *)
(* of the MySqlConnectionPool (mysql_connection_pool.cpp) from its start   *)
(* to its end: the pool makes a new one when it has none, and keeps every  *)
(* one that comes back.                                                    *)
(***************************************************************************)
EXTENDS Filter, FiniteSets, Functions

CONSTANTS
  Workers,
  Messages, Users,
  To,           \* message -> the user it is for
  MaxTakes,     \* bound on the takes begun
  MaxFaults,    \* bound on the faults
  PoolSize,     \* kDefaultPoolSize
  None

VARIABLES
  table,     \* the rows of offline_messages by id
  pool_,     \* how many connections the pool has
  created,   \* how many it has made
  doing,     \* worker -> the message it saves or the user it takes for
  at,        \* worker -> "idle", the statement it is about to execute, or "return"
  memory,    \* worker -> the rows it has read
  called,    \* messages some worker was given to save
  saved,     \* messages whose INSERT was executed
  taken,     \* user -> the messages handed out, in order
  takes, faults,
  clashed    \* a user's messages changed between their SELECT and their DELETE

connectionVars == <<pool_, created>>
mySqlVars == <<table, connectionVars, doing, at, memory, called, saved, taken, takes, faults, clashed>>

TypeOK ==
  /\ table \in Seq(Messages)
  /\ pool_ \in Nat /\ created \in Nat
  /\ doing \in [Workers -> Messages \cup Users \cup {None}]
  /\ at \in [Workers -> {"idle", "insert", "select", "delete", "return"}]
  /\ memory \in [Workers -> Seq(Messages)]
  /\ \A w \in Workers : doing[w] = None <=> at[w] = "idle"
  /\ called \in SUBSET Messages /\ saved \in SUBSET called
  /\ taken \in [Users -> Seq(Messages)]
  /\ takes \in 0..MaxTakes /\ faults \in 0..MaxFaults /\ clashed \in BOOLEAN

(* Whatever clashes and fails, nobody is handed a message for somebody     *)
(* else or one that was not saved.                                         *)
Rightful ==
  LET Due(u) == {m \in saved : To[m] = u}
  IN  /\ Range(table) \subseteq saved
      /\ \A w \in Workers :
           at[w] \in {"delete", "return"} =>
             doing[w] \in Users /\ Range(memory[w]) \subseteq Due(doing[w])
      /\ \A u \in Users : Range(taken[u]) \subseteq Due(u)

Started == pool_ = PoolSize /\ created = PoolSize

Init ==
  /\ table = <<>>
  /\ Started
  /\ doing = [w \in Workers |-> None]
  /\ at = [w \in Workers |-> "idle"]
  /\ memory = [w \in Workers |-> <<>>]
  /\ called = {} /\ saved = {}
  /\ taken = [u \in Users |-> <<>>]
  /\ takes = 0 /\ faults = 0 /\ clashed = FALSE

-----------------------------------------------------------------------------
acquire ==
  IF pool_ = 0 THEN created' = created + 1 /\ UNCHANGED pool_
  ELSE pool_' = pool_ - 1 /\ UNCHANGED created

release == pool_' = pool_ + 1 /\ UNCHANGED created

Begin(w, what, statement) ==
  /\ at[w] = "idle"
  /\ acquire
  /\ at' = [at EXCEPT ![w] = statement]
  /\ doing' = [doing EXCEPT ![w] = what]
  /\ UNCHANGED <<table, memory, saved, taken, faults, clashed>>

save_private_message(w, m) ==
  /\ m \notin called
  /\ called' = called \cup {m}
  /\ Begin(w, m, "insert")
  /\ UNCHANGED takes

take_private_messages_for(w, u) ==
  /\ takes < MaxTakes
  /\ takes' = takes + 1
  /\ Begin(w, u, "select")
  /\ UNCHANGED called

(* The pool has no connection and making one throws: the call does nothing. *)
ConnectThrows(w) ==
  /\ at[w] = "idle" /\ pool_ = 0 /\ faults < MaxFaults
  /\ faults' = faults + 1
  /\ UNCHANGED <<table, connectionVars, doing, at, memory, called, saved, taken, takes, clashed>>

(* Defect: a call does not give its connection back. *)
ReturnKeepingConnection(w) ==
  /\ UNCHANGED connectionVars
  /\ at' = [at EXCEPT ![w] = "idle"]
  /\ doing' = [doing EXCEPT ![w] = None]
  /\ memory' = [memory EXCEPT ![w] = <<>>]

Return(w) ==
  /\ release
  /\ at' = [at EXCEPT ![w] = "idle"]
  /\ doing' = [doing EXCEPT ![w] = None]
  /\ memory' = [memory EXCEPT ![w] = <<>>]

(* Another worker has read the messages of u and not yet deleted them.     *)
BetweenStatements(u) == \E v \in Workers : at[v] = "delete" /\ doing[v] = u

(* The statements, as they take effect in the table.                       *)
INSERT(w) ==
  /\ at[w] = "insert"
  /\ table' = Append(table, doing[w])
  /\ saved' = saved \cup {doing[w]}
  /\ clashed' = (clashed \/ BetweenStatements(To[doing[w]]))
  /\ UNCHANGED <<called, taken, takes>>

(* Defect: the DELETE has no WHERE. *)
DELETE_ALL(w) ==
  /\ at[w] = "delete"
  /\ table' = <<>>
  /\ UNCHANGED <<called, saved, taken, takes, clashed>>

DELETE(w) ==
  /\ at[w] = "delete"
  /\ table' = Only(table, {m \in Messages : To[m] # doing[w]})
  /\ UNCHANGED <<called, saved, taken, takes, clashed>>

Insert(w) == INSERT(w) /\ Return(w) /\ UNCHANGED faults

Select(w) ==
  /\ at[w] = "select"
  /\ memory' = [memory EXCEPT ![w] = Only(table, {m \in Messages : To[m] = doing[w]})]
  /\ at' = [at EXCEPT ![w] = "delete"]
  /\ clashed' = (clashed \/ BetweenStatements(doing[w]))
  /\ UNCHANGED <<table, connectionVars, doing, called, saved, taken, takes, faults>>

Delete(w) ==
  /\ DELETE(w)
  /\ at' = [at EXCEPT ![w] = "return"]
  /\ UNCHANGED <<connectionVars, doing, memory, faults>>

HandOut(w) ==
  /\ at[w] = "return"
  /\ taken' = [taken EXCEPT ![doing[w]] = @ \o memory[w]]
  /\ Return(w)
  /\ UNCHANGED <<table, called, saved, takes, faults, clashed>>

(* A statement throws, and the messages read are thrown away with it.  It  *)
(* may have been carried out before the connection broke.                  *)
StatementThrows(w) ==
  /\ at[w] \in {"insert", "select", "delete"} /\ faults < MaxFaults
  /\ faults' = faults + 1
  /\ Return(w)
  /\ INSERT(w) \/ DELETE(w) \/ UNCHANGED <<table, called, saved, taken, takes, clashed>>

(* The process dies, and starts again with a new pool.                     *)
Crash ==
  /\ faults < MaxFaults
  /\ faults' = faults + 1
  /\ pool_' = PoolSize /\ created' = PoolSize
  /\ doing' = [w \in Workers |-> None]
  /\ at' = [w \in Workers |-> "idle"]
  /\ memory' = [w \in Workers |-> <<>>]
  /\ UNCHANGED <<table, called, saved, taken, takes, clashed>>

Worker(w) ==
  \/ \E m \in Messages : save_private_message(w, m)
  \/ \E u \in Users : take_private_messages_for(w, u)
  \/ Insert(w) \/ Select(w) \/ Delete(w) \/ HandOut(w)
  \/ ConnectThrows(w) \/ StatementThrows(w)

Next == (\E w \in Workers : Worker(w)) \/ Crash

-----------------------------------------------------------------------------
Busy == {w \in Workers : at[w] # "idle"}

(* Every connection is in the pool or with the one call that acquired it:  *)
(* no call, whichever way it ends, leaks one or gives one back twice.  And *)
(* the pool never has more than the business threads can use at once,      *)
(* although it makes connections on demand and drops none.                 *)
ConnectionsConserved ==
  /\ created = pool_ + Cardinality(Busy)
  /\ created <= PoolSize \/ created <= Cardinality(Workers)
=============================================================================
