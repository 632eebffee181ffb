----------------------- MODULE RedisStatusStoreProofs -----------------------
(***************************************************************************)
(* The Redis connection pool and the calls that use it, for any number of  *)
(* callers and connections, and any number of faults.                      *)
(*                                                                         *)
(* StatusInv is inductive as it stands: release() gives the pool one more  *)
(* connection and wakes one more caller, so that while somebody waits      *)
(* there are never more connections in the pool than callers woken; and a  *)
(* caller wakes, takes and gives back only during its call.  What one      *)
(* caller takes or gives back is one connection moved: until the pool is   *)
(* closed none is lost.                                                    *)
(***************************************************************************)
EXTENDS RedisStatusStore, SequenceLemmas

(* What a constructor leaves in the pool: some connections, each once.     *)
LEMMA FreshPool ==
  ASSUME NEW pool, Fresh(pool)
  PROVE  pool \in Seq(Connections) /\ Range(pool) \subseteq Connections /\ IsInjective(pool)
<1> DEFINE n == Cardinality(Connections)
<1>1. n \in Nat
  BY RedisConnectionPoolAssumption, FS_CardinalityType
<1>2. PICK p \in Orders, k \in 1..n : pool = SubSeq(p, 1, k)
  BY DEF Fresh
<1> HIDE DEF n
<1>3. p \in [1..n -> Connections] /\ IsInjective(p) /\ DOMAIN p = 1..n
  BY <1>2 DEF Orders, n
<1>4. pool = [i \in 1..k |-> p[i]]
  <2>1. k \in Nat /\ 1 + k - 1 = k
    BY <1>1, <1>2
  <2>2. QED
    BY <1>1, <1>2, <1>3, <2>1
<1>5. \A i \in 1..k : i \in 1..n
  BY <1>1, <1>2
<1>6. pool \in Seq(Connections)
  <2>1. k \in Nat
    BY <1>1, <1>2
  <2>2. \A i \in 1..k : p[i] \in Connections
    BY <1>3, <1>5
  <2>3. pool \in [1..k -> Connections]
    BY <1>4, <2>2
  <2>4. QED
    BY <2>1, <2>3, SeqDef
<1>7. IsInjective(pool)
  BY <1>3, <1>4, <1>5 DEF IsInjective
<1>8. Range(pool) \subseteq Connections
  BY <1>3, <1>4, <1>5 DEF Range
<1>9. QED
  BY <1>6, <1>7, <1>8

(* The sets of callers are finite, so their sizes can be compared.         *)
LEMMA CallersCounted ==
  ASSUME NEW S, S \in SUBSET Callers, NEW c
  PROVE  /\ Cardinality(S) \in Nat
         /\ c \notin S => Cardinality(S \cup {c}) = Cardinality(S) + 1
         /\ Cardinality(S \ {c}) \in {Cardinality(S), Cardinality(S) - 1}
<1>1. IsFiniteSet(S) /\ Cardinality(S) \in Nat
  BY RedisConnectionPoolAssumption, FS_Subset, FS_CardinalityType
<1>2. Cardinality(S \cup {c}) = IF c \in S THEN Cardinality(S) ELSE Cardinality(S) + 1
  BY <1>1, FS_AddElement
<1>3. Cardinality(S \ {c}) = IF c \in S THEN Cardinality(S) - 1 ELSE Cardinality(S)
  BY <1>1, FS_RemoveElement
<1>4. QED
  BY <1>1, <1>2, <1>3

-----------------------------------------------------------------------------
(* The operations of the pool.  A fresh pool is in order.                  *)
LEMMA FreshConsistent ==
  ASSUME Fresh(pool_), stopped_ = FALSE, held = [c \in Callers |-> None],
         waiting = {}, woken = {}, made = Range(pool_)
  PROVE  PoolInv
<1>1. pool_ \in Seq(Connections) /\ IsInjective(pool_) /\ made \in SUBSET Connections
  BY FreshPool
<1>2. InUse = {}
  BY DEF InUse
<1>3. QED
  BY <1>1, <1>2 DEF PoolInv, PoolTypeOK

(* So is one in a process that has started again.                          *)
LEMMA FreshConsistentNext ==
  ASSUME Fresh(pool_'), stopped_' = FALSE, held' = [c \in Callers |-> None],
         waiting' = {}, woken' = {}, made' = Range(pool_')
  PROVE  PoolInv'
<1>1. pool_' \in Seq(Connections) /\ IsInjective(pool_') /\ made' \in SUBSET Connections
  BY FreshPool
<1>2. InUse' = {}
  BY DEF InUse
<1>3. QED
  BY <1>1, <1>2 DEF PoolInv, PoolTypeOK

(* One more connection is in use, or one less.                             *)
LEMMA InUseMoves ==
  ASSUME PoolInv, NEW u \in Callers, NEW c \in Connections
  PROVE  /\ held[u] = None /\ held' = [held EXCEPT ![u] = c] => InUse' = InUse \cup {c}
         /\ held[u] = c /\ held' = [held EXCEPT ![u] = None] => InUse' = InUse \ {c}
<1> USE RedisConnectionPoolAssumption
<1>1. held \in [Callers -> Connections \cup {None}]
  BY DEF PoolInv, PoolTypeOK
<1>2. ASSUME held[u] = None, held' = [held EXCEPT ![u] = c] PROVE InUse' = InUse \cup {c}
  BY <1>1, <1>2 DEF InUse
<1>3. ASSUME held[u] = c, held' = [held EXCEPT ![u] = None] PROVE InUse' = InUse \ {c}
  <2>1. \A d \in Callers \ {u} : held[d] # c
    BY <1>3 DEF PoolInv
  <2>2. QED
    BY <1>1, <1>3, <2>1 DEF InUse
<1>4. QED
  BY <1>2, <1>3

(* acquire() hands out a connection nobody has, or waits for one when none *)
(* is there.                                                               *)
LEMMA AcquireConsistent ==
  ASSUME PoolInv, NEW u \in Callers, held[u] = None, u \notin waiting, Take(u) \/ Wait(u)
  PROVE  PoolInv'
<1> USE RedisConnectionPoolAssumption
<1>1. CASE Take(u)
  <2>1. /\ Head(pool_) \in Connections /\ Tail(pool_) \in Seq(Connections)
        /\ Head(pool_) \in Range(pool_) /\ Range(Tail(pool_)) \subseteq Range(pool_)
        /\ IsInjective(Tail(pool_)) /\ Head(pool_) \notin Range(Tail(pool_))
        /\ Range(pool_) = {Head(pool_)} \cup Range(Tail(pool_))
    BY <1>1, TailRange DEF Take, PoolInv, PoolTypeOK
  <2>2. Len(Tail(pool_)) = Len(pool_) - 1 /\ Len(pool_) \in Nat
    BY <1>1, HeadTailProperties, LenProperties DEF Take, PoolInv, PoolTypeOK
  <2>3. PoolTypeOK'
    BY <1>1, <2>1 DEF Take, PoolInv, PoolTypeOK
  <2>4. waiting' # {} => Len(pool_') <= Cardinality(woken')
    <3>1. woken \in SUBSET Callers
      BY DEF PoolInv, PoolTypeOK
    <3>2. /\ Cardinality(woken) \in Nat
          /\ Cardinality(woken \ {u}) \in {Cardinality(woken), Cardinality(woken) - 1}
      BY <3>1, CallersCounted
    <3>3. QED
      BY <1>1, <2>2, <3>2 DEF Take, PoolInv
  <2>5. \A c \in Callers : held'[c] # None =>
          /\ held'[c] \notin Range(pool_')
          /\ \A d \in Callers \ {c} : held'[d] # held'[c]
          /\ c \notin waiting' \cup woken'
    BY <1>1, <2>1 DEF Take, PoolInv, PoolTypeOK
  <2>6. Range(pool_') \cup InUse' = made'
    <3>1. InUse' = InUse \cup {Head(pool_)}
      BY <1>1, <2>1, InUseMoves DEF Take
    <3>2. QED
      BY <1>1, <2>1, <3>1 DEF Take, PoolInv
  <2>7. QED
    BY <1>1, <2>1, <2>3, <2>4, <2>5, <2>6 DEF Take, PoolInv
<1>2. CASE Wait(u)
  <2>1. Len(pool_') = 0
    BY <1>2, EmptySeq, LenProperties DEF Wait
  <2>2. woken' \in SUBSET Callers
    BY <1>2 DEF Wait, PoolInv, PoolTypeOK
  <2>3. Cardinality(woken') \in Nat
    BY <2>2, CallersCounted
  <2>4. PoolTypeOK'
    BY <1>2 DEF Wait, PoolInv, PoolTypeOK
  <2>5. QED
    BY <1>2, <2>1, <2>3, <2>4 DEF Wait, PoolInv, PoolTypeOK, InUse
<1>3. QED
  BY <1>1, <1>2

(* A waiter that is woken is one woken more, and the pool holds no more    *)
(* than before: n connections for as many woken.                           *)
LEMMA WokenCounted ==
  ASSUME PoolInv, NEW c \in waiting, woken' = woken \cup {c}
  PROVE  Cardinality(woken') = Cardinality(woken) + 1 /\ Cardinality(woken) \in Nat
BY CallersCounted DEF PoolInv, PoolTypeOK

(* A wake-up for no reason changes nothing else.                           *)
LEMMA WakeUpConsistent ==
  ASSUME PoolInv, NEW u \in Callers, WakeUp(u)
  PROVE  PoolInv'
<1>1. Cardinality(woken') = Cardinality(woken) + 1 /\ Cardinality(woken) \in Nat
  BY WokenCounted DEF WakeUp
<1>2. Len(pool_) \in Nat
  BY LenProperties DEF PoolInv, PoolTypeOK
<1>3. QED
  BY <1>1, <1>2 DEF WakeUp, PoolInv, PoolTypeOK, InUse

(* release() gives the connection to the pool, with a wake-up, or frees it *)
(* when the pool is stopped.                                               *)
LEMMA ReleaseConsistent ==
  ASSUME PoolInv, NEW u \in Callers, held[u] # None, release(u)
  PROVE  /\ PoolInv'
         /\ held' = [held EXCEPT ![u] = None]
         /\ \A c \in Callers : c \in waiting' \cup woken' <=> c \in waiting \cup woken
<1> USE RedisConnectionPoolAssumption
<1>1. held' = [held EXCEPT ![u] = None] /\ UNCHANGED <<stopped_, made>>
  BY DEF release
<1>2. held[u] \in Connections /\ held[u] \notin Range(pool_)
  BY DEF PoolInv, PoolTypeOK
<1>3. CASE stopped_
  <2>1. UNCHANGED <<pool_, waiting, woken>>
    BY <1>3 DEF release
  <2>2. PoolTypeOK'
    BY <1>1, <2>1 DEF PoolInv, PoolTypeOK
  <2>3. PoolInv'
    BY <1>1, <1>3, <2>1, <2>2 DEF PoolInv, PoolTypeOK
  <2>4. QED
    BY <1>1, <2>1, <2>3
<1>4. CASE ~stopped_
  <2>1. pool_' = Append(pool_, held[u]) /\ notify_one
    BY <1>4 DEF release
  <2>2. /\ pool_' \in Seq(Connections) /\ IsInjective(pool_')
        /\ Range(pool_') = Range(pool_) \cup {held[u]}
    BY <1>2, <2>1, AppendRange DEF PoolInv, PoolTypeOK
  <2>3. Len(pool_') = Len(pool_) + 1 /\ Len(pool_) \in Nat
    BY <1>2, <2>1, AppendProperties, LenProperties DEF PoolInv, PoolTypeOK
  <2>4. \/ waiting = {} /\ UNCHANGED <<waiting, woken>>
        \/ \E c \in waiting : waiting' = waiting \ {c} /\ woken' = woken \cup {c}
    BY <2>1 DEF notify_one
  <2>5. waiting' # {} => Len(pool_') <= Cardinality(woken')
    BY <2>3, <2>4, WokenCounted DEF PoolInv
  <2>6. /\ waiting' \in SUBSET Callers /\ woken' \in SUBSET Callers /\ waiting' \cap woken' = {}
        /\ \A c : c \in waiting' \cup woken' <=> c \in waiting \cup woken
    BY <2>4 DEF PoolInv, PoolTypeOK
  <2>7. PoolTypeOK'
    BY <1>1, <2>2, <2>6 DEF PoolInv, PoolTypeOK
  <2>8. \A c \in Callers : held'[c] # None =>
          /\ held'[c] \notin Range(pool_')
          /\ \A d \in Callers \ {c} : held'[d] # held'[c]
          /\ c \notin waiting' \cup woken'
    BY <1>1, <2>2, <2>6 DEF PoolInv, PoolTypeOK
  <2>9. PoolInv'
    <3>1. InUse' = InUse \ {held[u]} /\ held[u] \in InUse
      BY <1>1, <1>2, InUseMoves DEF InUse
    <3>2. Range(pool_') \cup InUse' = made'
      BY <1>1, <1>4, <2>2, <3>1 DEF PoolInv
    <3>3. QED
      BY <1>1, <1>4, <2>2, <2>5, <2>6, <2>7, <2>8, <3>2 DEF PoolInv
  <2>10. QED
    BY <1>1, <2>6, <2>9
<1>5. QED
  BY <1>3, <1>4

(* Giving up on a stopped pool, and close(), leave it in order.            *)
LEMMA StoppedConsistent ==
  ASSUME PoolInv, close \/ \E u \in Callers : Refused(u)
  PROVE  PoolInv'
<1>1. <<>> \in Seq(Connections) /\ IsInjective(<<>>) /\ Range(<<>>) = {}
  BY EmptyRange
<1>2. CASE close
  BY <1>1, <1>2 DEF close, PoolInv, PoolTypeOK
<1>3. ASSUME NEW u \in Callers, Refused(u) PROVE PoolInv'
  BY <1>3 DEF Refused, PoolInv, PoolTypeOK, InUse
<1>4. QED
  BY <1>2, <1>3

-----------------------------------------------------------------------------
(* A pool that starts, with no call under way.                             *)
LEMMA InitStatus == Init => StatusInv
<1> SUFFICES ASSUME Init PROVE StatusInv
  OBVIOUS
<1> USE RedisStatusStoreAssumption
<1>1. PoolInv
  BY FreshConsistent DEF Init, PoolInit
<1>2. QED
  BY <1>1 DEF Init, PoolInit, StatusInv

(* A restart: the keys stay in Redis, everything else is new.              *)
LEMMA RestartStatus ==
  ASSUME StatusInv, Restart, keys' \in SUBSET Callers, expiring' \in SUBSET keys',
         faults' \in 0..MaxFaults
  PROVE  StatusInv'
<1>1. PoolInv'
  BY FreshConsistentNext DEF Restart
<1>2. QED
  BY <1>1 DEF Restart, StatusInv

(* A call begins.                                                          *)
LEMMA BeginStatus ==
  ASSUME StatusInv, NEW u \in Callers, mark_online(u) \/ mark_offline(u)
  PROVE  StatusInv'
<1> USE RedisConnectionPoolAssumption, RedisStatusStoreAssumption
<1>1. /\ UNCHANGED <<pool_, stopped_, held, waiting, woken, made, keys, expiring, broken, faults>>
      /\ \E what \in {"mark_online", "mark_offline"} : call' = [call EXCEPT ![u] = what]
      /\ online' \in SUBSET Callers /\ calls < MaxCalls /\ calls' = calls + 1
  BY DEF mark_online, mark_offline, Begin, poolVars, redisVars, StatusInv
<1>2. PoolInv'
  BY <1>1 DEF StatusInv, PoolInv, PoolTypeOK, InUse
<1>3. calls' \in 0..MaxCalls
  BY <1>1 DEF StatusInv
<1>4. call' \in [Callers -> {"mark_online", "mark_offline", None}]
  BY <1>1 DEF StatusInv
<1>5. \A v \in Callers : call'[v] = None => call[v] = None \/ v = u
  BY <1>1 DEF StatusInv
<1>6. call[u] = None
  BY DEF mark_online, mark_offline, Begin
<1>7. \A v \in Callers : call'[v] = None => held'[v] = None /\ v \notin waiting' \cup woken'
  BY <1>1, <1>5, <1>6 DEF StatusInv
<1>8. QED
  BY <1>1, <1>2, <1>3, <1>4, <1>7 DEF StatusInv

(* A call acquires a connection, waits for one or is refused.              *)
LEMMA AcquireStatus ==
  ASSUME StatusInv, NEW u \in Callers, acquire(u) \/ RefusedThrows(u)
  PROVE  StatusInv'
<1> USE RedisConnectionPoolAssumption, RedisStatusStoreAssumption
<1>1. CASE acquire(u)
  <2>1. /\ call[u] # None /\ held[u] = None /\ u \notin waiting
        /\ Take(u) \/ Wait(u)
        /\ UNCHANGED <<keys, expiring, online, call, broken, calls, faults>>
    BY <1>1 DEF acquire, Acquiring, redisVars
  <2>2. PoolInv'
    BY <2>1, AcquireConsistent DEF StatusInv
  <2>3. \A v \in Callers : v # u =>
          /\ held'[v] = held[v]
          /\ v \in waiting' \cup woken' => v \in waiting \cup woken
    BY <2>1 DEF Take, Wait, StatusInv, PoolInv, PoolTypeOK
  <2>4. QED
    BY <2>1, <2>2, <2>3 DEF StatusInv
<1>2. CASE RefusedThrows(u)
  <2>1. /\ held[u] = None /\ u \notin waiting /\ Refused(u) /\ call' = [call EXCEPT ![u] = None]
        /\ UNCHANGED <<keys, expiring, online, broken, calls, faults>>
    BY <1>2 DEF RefusedThrows, Acquiring, redisVars
  <2>2. PoolInv'
    <3>1. \E v \in Callers : Refused(v)
      BY <2>1
    <3>2. QED
      BY <3>1, StoppedConsistent DEF StatusInv
  <2>3. QED
    BY <2>1, <2>2 DEF StatusInv, Refused
<1>3. QED
  BY <1>1, <1>2

(* A command is carried out, or not, and the connection given back.        *)
LEMMA FinishStatus ==
  ASSUME StatusInv, NEW u \in Callers, held[u] # None, Finish(u),
         Execute(u) \/ UNCHANGED redisVars,
         broken' \in SUBSET Connections, faults' \in 0..MaxFaults, UNCHANGED <<online, calls>>
  PROVE  StatusInv'
<1>1. /\ PoolInv'
      /\ held' = [held EXCEPT ![u] = None]
      /\ \A c \in Callers : c \in waiting' \cup woken' <=> c \in waiting \cup woken
  BY ReleaseConsistent DEF Finish, StatusInv
<1>2. keys' \in SUBSET Callers /\ expiring' \in SUBSET keys'
  BY DEF Execute, redisVars, StatusInv
<1>3. call' = [call EXCEPT ![u] = None]
  BY DEF Finish
<1>4. \A v \in Callers : call'[v] = None => held'[v] = None /\ v \notin waiting' \cup woken'
  BY <1>1, <1>3 DEF StatusInv, PoolInv, PoolTypeOK
<1>5. QED
  BY <1>1, <1>2, <1>3, <1>4 DEF StatusInv

(* A command that is answered, and one that fails.                         *)
LEMMA CommandStatus ==
  ASSUME StatusInv, NEW u \in Callers, Command(u) \/ CommandFails(u)
  PROVE  StatusInv'
<1> USE RedisStatusStoreAssumption
<1>1. CASE Command(u)
  <2>1. /\ held[u] # None /\ Execute(u) /\ Finish(u) /\ UNCHANGED <<online, calls>>
        /\ broken' \in SUBSET Connections /\ faults' \in 0..MaxFaults
    BY <1>1 DEF Command, StatusInv
  <2>2. QED
    BY <2>1, FinishStatus
<1>2. CASE CommandFails(u)
  <2>1. faults' \in 0..MaxFaults
    BY <1>2 DEF CommandFails, StatusInv
  <2>2. held[u] \in Connections /\ broken \cup {held[u]} \in SUBSET Connections
    BY <1>2 DEF CommandFails, StatusInv, PoolInv, PoolTypeOK
  <2>3. Execute(u) \/ UNCHANGED redisVars
    BY <1>2 DEF CommandFails
  <2>4. CASE Restart
    <3>1. keys' \in SUBSET Callers /\ expiring' \in SUBSET keys'
      BY <2>3 DEF Execute, redisVars, StatusInv
    <3>2. QED
      BY <2>1, <2>4, <3>1, RestartStatus
  <2>5. CASE /\ Finish(u)
             /\ broken' \in {broken, broken \cup {held[u]}}
             /\ UNCHANGED <<online, calls>>
    <3>1. broken' \in SUBSET Connections
      BY <2>2, <2>5 DEF StatusInv
    <3>2. QED
      BY <1>2, <2>1, <2>3, <2>5, <3>1, FinishStatus DEF CommandFails
  <2>6. QED
    BY <1>2, <2>4, <2>5 DEF CommandFails
<1>3. QED
  BY <1>1, <1>2

(* Every step keeps pool and calls in order.                               *)
LEMMA StepStatus == StatusInv /\ [Next]_statusVars => StatusInv'
<1> SUFFICES ASSUME StatusInv, [Next]_statusVars PROVE StatusInv'
  OBVIOUS
<1> USE RedisStatusStoreAssumption
<1>1. ASSUME NEW u \in Callers, Expire(u) PROVE StatusInv'
  <2>1. PoolInv'
    BY <1>1 DEF Expire, poolVars, StatusInv, PoolInv, PoolTypeOK, InUse
  <2>2. QED
    BY <1>1, <2>1 DEF Expire, poolVars, StatusInv
<1>2. ASSUME NEW u \in Callers, SpuriousWakeUp(u) PROVE StatusInv'
  <2>1. PoolInv'
    BY <1>2, WakeUpConsistent DEF SpuriousWakeUp, StatusInv
  <2>2. faults' \in 0..MaxFaults
    BY <1>2 DEF SpuriousWakeUp, StatusInv
  <2>3. QED
    BY <1>2, <2>1, <2>2 DEF SpuriousWakeUp, WakeUp, redisVars, StatusInv
<1>3. CASE ClosePool
  <2>1. PoolInv'
    BY <1>3, StoppedConsistent DEF ClosePool, StatusInv
  <2>2. faults' \in 0..MaxFaults
    BY <1>3 DEF ClosePool, StatusInv
  <2>3. QED
    BY <1>3, <2>1, <2>2 DEF ClosePool, close, redisVars, StatusInv
<1>4. CASE Exit \/ Die
  <2>1. /\ Restart /\ faults' \in 0..MaxFaults
        /\ keys' \in SUBSET Callers /\ expiring' \in SUBSET keys'
    BY <1>4 DEF Exit, Die, redisVars, StatusInv
  <2>2. QED
    BY <2>1, RestartStatus
<1>5. CASE UNCHANGED statusVars
  <2>1. PoolInv'
    BY <1>5 DEF statusVars, poolVars, StatusInv, PoolInv, PoolTypeOK, InUse
  <2>2. QED
    BY <1>5, <2>1 DEF statusVars, poolVars, redisVars, StatusInv
<1>6. QED
  BY <1>1, <1>2, <1>3, <1>4, <1>5, BeginStatus, AcquireStatus, CommandStatus DEF Next, CallStep

(* Until the pool is closed every connection made is in it or with one     *)
(* caller, none in two places; no caller sleeps while a connection is free *)
(* for it, and a caller has a connection only during its call; whatever    *)
(* fails and whenever the process dies.                                    *)
THEOREM StatusConsistent == Spec => []StatusInv
BY InitStatus, StepStatus, PTL DEF Spec
=============================================================================
