-------------------------- MODULE RedisStatusStore --------------------------
(***************************************************************************)
(* RedisOnlineStatusStore (online_status_store.cpp) as the sessions use    *)
(* it: a key per user, set with a time to live at login and heartbeat and  *)
(* deleted when the session closes.  A call acquires a connection, sends   *)
(* one command and gives the connection back.                              *)
(*                                                                         *)
(* Each user's calls come one after the other; those of different users    *)
(* may overlap, which the pool allows (the server makes all of them on its *)
(* one io thread).  Faults: a command fails on the server, a connection    *)
(* breaks before or after its command was carried out and stays broken, a  *)
(* caller wakes up for nothing, the process dies.  The keys are in Redis   *)
(* and outlive the process.                                                *)
(***************************************************************************)
EXTENDS RedisConnectionPool

CONSTANTS
  MaxCalls,    \* bound on the calls begun
  MaxFaults    \* bound on the faults

ASSUME RedisStatusStoreAssumption == MaxCalls \in Nat /\ MaxFaults \in Nat

VARIABLES
  keys,       \* users with a key
  expiring,   \* those whose key has a time to live
  online,     \* users with a session
  call,       \* user -> the call under way, or None
  broken,     \* connections that no longer work
  calls, faults

redisVars == <<keys, expiring>>
statusVars == <<poolVars, redisVars, online, call, broken, calls, faults>>

Init ==
  /\ PoolInit
  /\ keys = {} /\ expiring = {} /\ online = {}
  /\ call = [u \in Callers |-> None]
  /\ broken = {} /\ calls = 0 /\ faults = 0

-----------------------------------------------------------------------------
Begin(u, what) ==
  /\ call[u] = None /\ calls < MaxCalls
  /\ calls' = calls + 1
  /\ call' = [call EXCEPT ![u] = what]
  /\ UNCHANGED <<poolVars, redisVars, broken, faults>>

(* A login, and refresh() of a heartbeat.                                  *)
mark_online(u) == online' = online \cup {u} /\ Begin(u, "mark_online")

(* The session closes.                                                     *)
mark_offline(u) == u \in online /\ online' = online \ {u} /\ Begin(u, "mark_offline")

Acquiring(u) == call[u] # None /\ held[u] = None /\ u \notin waiting

acquire(u) ==
  /\ Acquiring(u)
  /\ Take(u) \/ Wait(u)
  /\ UNCHANGED <<redisVars, online, call, broken, calls, faults>>

(* SET key 1 EX ttl, or DEL key.                                           *)
(* Defect: the key is set without a time to live. *)
ExecuteForGood(u) ==
  IF call[u] = "mark_online"
  THEN keys' = keys \cup {u} /\ expiring' = expiring \ {u}
  ELSE keys' = keys \ {u} /\ expiring' = expiring \ {u}

Execute(u) ==
  IF call[u] = "mark_online"
  THEN keys' = keys \cup {u} /\ expiring' = expiring \cup {u}
  ELSE keys' = keys \ {u} /\ expiring' = expiring \ {u}

(* Defect: the connection of a finished call is used by the next one too. *)
FinishKeeping(u) ==
  /\ pool_' = Append(pool_, held[u]) /\ notify_one
  /\ UNCHANGED <<stopped_, held, made>> /\ call' = [call EXCEPT ![u] = None]

Finish(u) == release(u) /\ call' = [call EXCEPT ![u] = None]

Command(u) ==
  /\ held[u] # None /\ held[u] \notin broken
  /\ Execute(u) /\ Finish(u)
  /\ UNCHANGED <<online, broken, calls, faults>>

(* The process: it starts again with fresh connections and no session.     *)
Restart ==
  /\ Fresh(pool_') /\ made' = Range(pool_') /\ stopped_' = FALSE
  /\ held' = [u \in Callers |-> None] /\ waiting' = {} /\ woken' = {}
  /\ call' = [u \in Callers |-> None] /\ online' = {} /\ broken' = {}
  /\ UNCHANGED calls

(* An error reply, or none from a connection that breaks now or was broken *)
(* before: mark_online() throws out of a handler and the process ends,     *)
(* mark_offline() does not look.                                           *)
CommandFails(u) ==
  /\ held[u] # None
  /\ held[u] \notin broken => faults < MaxFaults
  /\ faults' = IF held[u] \in broken THEN faults ELSE faults + 1
  /\ (held[u] \notin broken /\ Execute(u)) \/ UNCHANGED redisVars
  /\ \/ call[u] = "mark_online" /\ Restart
     \/ /\ call[u] = "mark_offline" /\ Finish(u)
        /\ broken' \in {broken, broken \cup {held[u]}}
        /\ UNCHANGED <<online, calls>>

(* The process ends: the store's destructor closes the pool, and a call    *)
(* that gets no connection throws.                                         *)
ClosePool ==
  /\ faults < MaxFaults /\ faults' = faults + 1
  /\ close
  /\ UNCHANGED <<redisVars, online, call, broken, calls>>

RefusedThrows(u) ==
  /\ Acquiring(u) /\ Refused(u)
  /\ call' = [call EXCEPT ![u] = None]
  /\ UNCHANGED <<redisVars, online, broken, calls, faults>>

Exit == stopped_ /\ Restart /\ UNCHANGED <<redisVars, faults>>

Die ==
  /\ faults < MaxFaults /\ faults' = faults + 1
  /\ Restart
  /\ UNCHANGED redisVars

(* Redis: a key not set again for its time to live is gone.                *)
Expire(u) ==
  /\ u \in expiring
  /\ keys' = keys \ {u} /\ expiring' = expiring \ {u}
  /\ UNCHANGED <<poolVars, online, call, broken, calls, faults>>

SpuriousWakeUp(u) ==
  /\ faults < MaxFaults /\ faults' = faults + 1
  /\ WakeUp(u)
  /\ UNCHANGED <<redisVars, online, call, broken, calls>>

CallStep(u) == acquire(u) \/ Command(u) \/ CommandFails(u) \/ RefusedThrows(u)

Next ==
  \/ \E u \in Callers :
       \/ mark_online(u) \/ mark_offline(u)
       \/ CallStep(u)
       \/ Expire(u) \/ SpuriousWakeUp(u)
  \/ ClosePool \/ Exit \/ Die

(* The key of a user without a session is not set again, so that its time  *)
(* runs out.  Nothing is assumed of the calls: a command has no time-out.  *)
Fairness == \A u \in Callers : WF_statusVars(u \notin online /\ Expire(u))

Spec == Init /\ [][Next]_statusVars /\ Fairness

-----------------------------------------------------------------------------
(* PoolInv as the calls use the pool: a connection is with a caller only   *)
(* during its call, and a call over waits for nothing.                     *)
StatusInv ==
  /\ keys \in SUBSET Callers /\ expiring \in SUBSET keys
  /\ online \in SUBSET Callers
  /\ call \in [Callers -> {"mark_online", "mark_offline", None}]
  /\ broken \in SUBSET Connections
  /\ calls \in 0..MaxCalls /\ faults \in 0..MaxFaults
  /\ PoolInv
  /\ \A u \in Callers : call[u] = None => held[u] = None /\ u \notin waiting \cup woken

(* A status left behind - the DEL failed, the process died, mark_online()  *)
(* was carried out and threw - does not stay: a user with no session ends  *)
(* up with no key, or logs in again.                                       *)
StaleStatusExpires ==
  \A u \in Callers : (u \in keys /\ u \notin online) ~> (u \notin keys \/ u \in online)
=============================================================================
