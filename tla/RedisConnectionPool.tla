------------------------ MODULE RedisConnectionPool ------------------------
(***************************************************************************)
(* RedisConnectionPool (src/src/server/redis_connection_pool.cpp): a fixed *)
(* set of connections and a condition variable for the callers that find   *)
(* none.  mutex_ makes each operation atomic up to its wait.  A connection *)
(* that no longer works is given back like any other; none is made anew.   *)
(***************************************************************************)
EXTENDS Naturals, Sequences, FiniteSets, Functions

CONSTANTS
  Callers,
  Connections,
  None

ASSUME RedisConnectionPoolAssumption ==
  /\ IsFiniteSet(Callers) /\ IsFiniteSet(Connections)
  /\ None \notin Connections

VARIABLES
  pool_,      \* queue of connections
  stopped_,
  held,       \* caller -> the connection it has acquired
  waiting,    \* callers in condition_.wait
  woken,      \* callers notified, which have yet to look at the pool again
  made        \* the connections the constructor made

poolVars == <<pool_, stopped_, held, waiting, woken, made>>

PoolTypeOK ==
  /\ pool_ \in Seq(Connections)
  /\ stopped_ \in BOOLEAN
  /\ held \in [Callers -> Connections \cup {None}]
  /\ waiting \in SUBSET Callers /\ woken \in SUBSET Callers
  /\ made \in SUBSET Connections

Orders == {p \in [1..Cardinality(Connections) -> Connections] : IsInjective(p)}

(* The constructor keeps the connections it could make, at least one: else *)
(* it throws and the server does not start.                                *)
Fresh(pool) ==
  \E p \in Orders, k \in 1..Cardinality(Connections) : pool = SubSeq(p, 1, k)

PoolInit ==
  /\ Fresh(pool_) /\ made = Range(pool_)
  /\ stopped_ = FALSE
  /\ held = [c \in Callers |-> None]
  /\ waiting = {} /\ woken = {}

(* acquire(), from its start or from the wake-up of its wait: it takes a   *)
(* connection, ...                                                         *)
Take(c) ==
  /\ ~stopped_ /\ pool_ # <<>>
  /\ held' = [held EXCEPT ![c] = Head(pool_)]
  /\ pool_' = Tail(pool_)
  /\ woken' = woken \ {c}
  /\ UNCHANGED <<stopped_, waiting, made>>

(* ... waits (again), ...                                                  *)
Wait(c) ==
  /\ ~stopped_ /\ pool_ = <<>>
  /\ waiting' = waiting \cup {c} /\ woken' = woken \ {c}
  /\ UNCHANGED <<pool_, stopped_, held, made>>

(* ... or returns nullptr.                                                 *)
Refused(c) ==
  /\ stopped_
  /\ woken' = woken \ {c}
  /\ UNCHANGED <<pool_, stopped_, held, waiting, made>>

(* Spurious wake-ups included.                                             *)
WakeUp(c) ==
  /\ c \in waiting
  /\ waiting' = waiting \ {c} /\ woken' = woken \cup {c}
  /\ UNCHANGED <<pool_, stopped_, held, made>>

notify_one ==
  IF waiting = {} THEN UNCHANGED <<waiting, woken>>
  ELSE \E c \in waiting : waiting' = waiting \ {c} /\ woken' = woken \cup {c}

(* Once stopped the connection is freed.                                   *)
release(c) ==
  /\ held' = [held EXCEPT ![c] = None]
  /\ IF stopped_
     THEN UNCHANGED <<pool_, waiting, woken>>
     ELSE pool_' = Append(pool_, held[c]) /\ notify_one
  /\ UNCHANGED <<stopped_, made>>

close ==
  /\ ~stopped_ /\ stopped_' = TRUE
  /\ pool_' = <<>>
  /\ waiting' = {} /\ woken' = woken \cup waiting
  /\ UNCHANGED <<held, made>>

-----------------------------------------------------------------------------
(* Until the pool stops, every connection made is in it or with a caller,  *)
(* and none with two callers or in both places, where a reply would go to  *)
(* whoever reads first.  A caller waits only while every connection is in  *)
(* use or promised: for each one in the pool somebody has been woken.  A   *)
(* stopped pool has nobody waiting and nothing to hand out.                *)
InUse == {held[c] : c \in Callers} \ {None}

PoolInv ==
  /\ PoolTypeOK
  /\ ~stopped_ => Range(pool_) \cup InUse = made
  /\ IsInjective(pool_)
  /\ \A c \in Callers : held[c] # None =>
       /\ held[c] \notin Range(pool_)
       /\ \A d \in Callers \ {c} : held[d] # held[c]
       /\ c \notin waiting \cup woken
  /\ waiting \cap woken = {}
  /\ waiting # {} => Len(pool_) <= Cardinality(woken)
  /\ stopped_ => waiting = {} /\ pool_ = <<>>
=============================================================================
