-------------------------- MODULE ThreadPoolProofs --------------------------
(***************************************************************************)
(* The thread pool loses no task and no wake-up and drains when stopped,   *)
(* for any number of workers and submitting threads.                       *)
(*                                                                         *)
(* That push() finds the queue open is what the argument rests on: a       *)
(* closed queue swallows the task, and reset() in start() forgets what is  *)
(* in it.  It holds because submit() keeps mutex_ from its test of         *)
(* running_ to the end of push(), and stop() keeps it from running_ =      *)
(* false to the end of close(): MutexInv says who has it, PhaseInv what    *)
(* running_, closed_ and the workers are meanwhile.  PoolIInv adds to them *)
(* the two invariants of the module, and is inductive.                     *)
(***************************************************************************)
EXTENDS ThreadPool, SequenceLemmas

-----------------------------------------------------------------------------
(* A caller is in the critical section as long as it has mutex_.           *)
Locked == {"push", "notify", "close", "notify_all"}

MutexInv ==
  /\ mutex_ # None => pc[mutex_] \in Locked
  /\ \A c \in Callers : pc[c] \in Locked => mutex_ = c
  /\ \A c \in Submitters : pc[c] \in {"idle", "push", "notify"}
  /\ pc[Control] \in {"idle", "close", "notify_all", "join"}

(* The pool runs from start() to stop(); a submit() that holds mutex_      *)
(* keeps stop() out, so what it pushes goes into an open queue.  A worker  *)
(* leaves its loop only when the queue is closed and empty, and stop()     *)
(* returns only when all have.                                             *)
PhaseInv ==
  /\ running_ => pc[Control] = "idle" /\ ~closed_
  /\ \A c \in Submitters : pc[c] # "idle" => running_
  /\ running_ \/ pc[Control] # "idle" => \A w \in Workers : worker[w] # "none"
  /\ (~running_ /\ pc[Control] = "idle") => \A w \in Workers : worker[w] \in {"none", "exited"}
  /\ (~running_ /\ pc[Control] = "idle") => queue_ = <<>>
  /\ \A w \in Workers : worker[w] = "exited" => closed_ /\ queue_ = <<>>

(* The tasks accepted were submitted; the one being pushed is not yet      *)
(* accepted, and is the last one submitted.                                *)
SubmitInv ==
  /\ accepted \subseteq 1..submitted
  /\ \A c \in Submitters : pc[c] = "push" => submitted > 0 /\ submitted \notin accepted

CallInv == TypeOK /\ MutexInv /\ PhaseInv /\ SubmitInv
PoolIInv == CallInv /\ NoLostWakeup /\ AcceptedRunsOnce

-----------------------------------------------------------------------------
(* The pool before its first start().                                      *)
LEMMA InitCalls == Init => CallInv
<1> SUFFICES ASSUME Init PROVE CallInv
  OBVIOUS
<1> USE ThreadPoolAssumption DEF Init
<1>1. TypeOK
  <2>1. queue_ \in Seq(Task) /\ done \in Seq(Task) /\ accepted \in SUBSET Task
    OBVIOUS
  <2>2. /\ worker \in [Workers -> {"none", "pop", "wait", "busy", "exited"}]
        /\ task \in [Workers -> Task \cup {None}]
        /\ \A w \in Workers : task[w] # None <=> worker[w] = "busy"
        /\ pc \in [Callers -> {"idle", "push", "notify", "close", "notify_all", "join"}]
    OBVIOUS
  <2>3. mutex_ \in Callers \cup {None} /\ running_ \in BOOLEAN /\ closed_ \in BOOLEAN
    OBVIOUS
  <2>4. submitted \in 0..MaxTasks /\ starts \in 0..MaxStarts
    OBVIOUS
  <2> HIDE DEF Init
  <2>5. QED
    BY <2>1, <2>2, <2>3, <2>4 DEF TypeOK
<1>2. MutexInv
  BY DEF MutexInv, Locked, Callers
<1>3. PhaseInv
  BY DEF PhaseInv, Callers
<1>4. SubmitInv
  BY DEF SubmitInv, Callers
<1>5. QED
  BY <1>1, <1>2, <1>3, <1>4 DEF CallInv

(* A caller's step in submit().                                            *)
LEMMA SubmitCalls ==
  ASSUME CallInv, NEW c \in Submitters, Submit(c) \/ InSubmit(c)
  PROVE  CallInv'
<1> USE ThreadPoolAssumption DEF CallInv, Callers, Become, Goto, At, queueVars, workerVars, callVars
<1>1. CASE SubmitThrows(c)
  <2>1. TypeOK'
    BY <1>1 DEF SubmitThrows, TypeOK
  <2>2. MutexInv' /\ PhaseInv'
    BY <1>1 DEF SubmitThrows, MutexInv, PhaseInv
  <2>3. \A d \in Submitters : pc[d] # "push"
    BY <1>1 DEF SubmitThrows, MutexInv, Locked
  <2>4. SubmitInv'
    BY <1>1, <2>3 DEF SubmitThrows, SubmitInv, TypeOK
  <2>5. QED
    BY <2>1, <2>2, <2>4
<1>2. CASE submit(c)
  <2>1. TypeOK'
    BY <1>2 DEF submit, TypeOK
  <2>2. \A d \in Callers : pc[d] \notin Locked
    BY <1>2 DEF submit, MutexInv
  <2>3. MutexInv' /\ PhaseInv'
    BY <1>2, <2>2 DEF submit, MutexInv, PhaseInv, Locked, TypeOK
  <2>4. SubmitInv'
    <3>1. submitted + 1 \notin accepted
      BY DEF SubmitInv, TypeOK
    <3>2. \A d \in Submitters : d # c => pc'[d] # "push"
      BY <1>2, <2>2 DEF submit, Locked, TypeOK
    <3>3. QED
      BY <1>2, <3>1, <3>2 DEF submit, SubmitInv, TypeOK
  <2>5. QED
    BY <2>1, <2>3, <2>4
<1>3. CASE push(c)
  <2>1. mutex_ = c /\ running_ /\ ~closed_ /\ submitted \in Task
    BY <1>3 DEF push, MutexInv, Locked, PhaseInv, SubmitInv, TypeOK, Task
  <2>2. /\ pc' = [pc EXCEPT ![c] = "notify"] /\ queue_' = Append(queue_, submitted)
        /\ UNCHANGED <<mutex_, running_, closed_, worker, task, done, submitted, starts>>
    BY <1>3, <2>1 DEF push
  <2>3. queue_' \in Seq(Task)
    BY <2>1, <2>2, AppendRange DEF TypeOK
  <2>4. TypeOK'
    BY <1>3, <2>1, <2>2, <2>3 DEF push, TypeOK
  <2>5. MutexInv'
    BY <2>1, <2>2 DEF MutexInv, Locked, TypeOK
  <2>6. PhaseInv'
    BY <2>1, <2>2 DEF PhaseInv, TypeOK
  <2>7. \A d \in Submitters : pc'[d] # "push"
    BY <2>1, <2>2 DEF MutexInv, Locked, TypeOK
  <2>8. SubmitInv'
    BY <1>3, <2>1, <2>2, <2>7 DEF push, SubmitInv, Task, TypeOK
  <2>9. QED
    BY <2>4, <2>5, <2>6, <2>8
<1>4. CASE notify_one(c)
  <2>1. mutex_ = c
    BY <1>4 DEF notify_one, MutexInv, Locked
  <2>2. /\ pc' = [pc EXCEPT ![c] = "idle"] /\ mutex_' = None
        /\ UNCHANGED <<running_, queue_, closed_, task, done, submitted, accepted, starts>>
        /\ \/ UNCHANGED worker
           \/ \E w \in Workers : worker[w] = "wait" /\ worker' = [worker EXCEPT ![w] = "pop"]
    BY <1>4 DEF notify_one, Waiting
  <2>3. TypeOK'
    BY <2>2 DEF TypeOK
  <2>4. MutexInv'
    BY <2>1, <2>2 DEF MutexInv, Locked, TypeOK
  <2>5. PhaseInv'
    BY <2>2 DEF PhaseInv, TypeOK
  <2>6. SubmitInv'
    BY <2>2 DEF SubmitInv, TypeOK
  <2>7. QED
    BY <2>3, <2>4, <2>5, <2>6
<1>5. QED
  BY <1>1, <1>2, <1>3, <1>4 DEF Submit, InSubmit

(* A step of the controlling thread.                                       *)
LEMMA ControlCalls ==
  ASSUME CallInv, start \/ stop \/ InStop
  PROVE  CallInv'
<1> USE ThreadPoolAssumption DEF CallInv, Callers, Goto, At, queueVars, workerVars, callVars
<1>1. CASE start
  <2>1. <<>> \in Seq(Task)
    OBVIOUS
  <2>2. task = [w \in Workers |-> None]
    BY <1>1 DEF start, PhaseInv, TypeOK
  <2>3. /\ worker' \in [Workers -> {"none", "pop", "wait", "busy", "exited"}]
        /\ \A w \in Workers : task'[w] = None /\ worker'[w] = "pop"
        /\ starts' \in 0..MaxStarts /\ queue_' = <<>>
    BY <1>1, <2>2 DEF start, TypeOK
  <2>4. TypeOK'
    BY <1>1, <2>1, <2>3 DEF start, TypeOK
  <2>5. MutexInv' /\ SubmitInv'
    BY <1>1 DEF start, MutexInv, SubmitInv
  <2>6. PhaseInv'
    BY <1>1 DEF start, PhaseInv
  <2>7. QED
    BY <2>4, <2>5, <2>6
<1>2. CASE stop
  <2>1. TypeOK'
    BY <1>2 DEF stop, TypeOK
  <2>2. MutexInv'
    BY <1>2 DEF stop, MutexInv, Locked, TypeOK
  <2>3. PhaseInv'
    BY <1>2 DEF stop, PhaseInv, MutexInv, Locked, TypeOK
  <2>4. SubmitInv'
    BY <1>2 DEF stop, SubmitInv, TypeOK
  <2>5. QED
    BY <2>1, <2>2, <2>3, <2>4
<1>3. CASE close
  <2>1. TypeOK'
    BY <1>3 DEF close, TypeOK
  <2>2. MutexInv'
    BY <1>3 DEF close, MutexInv, Locked, TypeOK
  <2>3. PhaseInv'
    BY <1>3 DEF close, PhaseInv, MutexInv, Locked, TypeOK
  <2>4. SubmitInv'
    BY <1>3 DEF close, SubmitInv, TypeOK
  <2>5. QED
    BY <2>1, <2>2, <2>3, <2>4
<1>4. CASE notify_all
  <2>1. TypeOK'
    BY <1>4 DEF notify_all, Waiting, TypeOK
  <2>2. MutexInv'
    BY <1>4 DEF notify_all, MutexInv, Locked, TypeOK
  <2>3. PhaseInv'
    BY <1>4 DEF notify_all, Waiting, PhaseInv, MutexInv, Locked, TypeOK
  <2>4. SubmitInv'
    BY <1>4 DEF notify_all, SubmitInv, TypeOK
  <2>5. QED
    BY <2>1, <2>2, <2>3, <2>4
<1>5. CASE join
  <2>1. TypeOK'
    BY <1>5 DEF join, TypeOK
  <2>2. MutexInv'
    BY <1>5 DEF join, MutexInv, Locked, TypeOK
  <2>3. PhaseInv'
    BY <1>5 DEF join, PhaseInv, MutexInv, Locked, TypeOK
  <2>4. SubmitInv'
    BY <1>5 DEF join, SubmitInv, TypeOK
  <2>5. QED
    BY <2>1, <2>2, <2>3, <2>4
<1>6. QED
  BY <1>1, <1>2, <1>3, <1>4, <1>5 DEF InStop

(* A worker's step.                                                        *)
LEMMA WorkCalls ==
  ASSUME CallInv, NEW w \in Workers, Work(w) \/ WakeUp(w)
  PROVE  CallInv'
<1> USE ThreadPoolAssumption DEF CallInv, Become, queueVars, callVars
<1>1. UNCHANGED <<mutex_, running_, closed_, pc, submitted, accepted, starts>>
  BY DEF Work, pop, TaskReturns, WakeUp
<1>2. MutexInv' /\ SubmitInv'
  BY <1>1 DEF MutexInv, SubmitInv
<1>3. CASE pop(w) /\ queue_ # <<>>
  <2>1. Head(queue_) \in Task /\ Tail(queue_) \in Seq(Task) /\ None \notin Task
    BY <1>3, TailRange DEF TypeOK, Task
  <2>2. /\ task' = [task EXCEPT ![w] = Head(queue_)] /\ queue_' = Tail(queue_)
        /\ worker' = [worker EXCEPT ![w] = "busy"] /\ UNCHANGED done
    BY <1>3 DEF pop
  <2>3. TypeOK'
    BY <1>1, <2>1, <2>2 DEF TypeOK
  <2>4. worker[w] = "pop"
    BY <1>3 DEF pop
  <2>5. PhaseInv'
    BY <1>1, <1>3, <2>2, <2>4 DEF PhaseInv, TypeOK
  <2>6. QED
    BY <1>2, <2>3, <2>5
<1>4. CASE pop(w) /\ queue_ = <<>>
  <2>1. /\ worker[w] = "pop" /\ UNCHANGED <<task, queue_, done>>
        /\ worker' = [worker EXCEPT ![w] = IF closed_ THEN "exited" ELSE "wait"]
    BY <1>4 DEF pop
  <2>2. TypeOK'
    BY <1>1, <2>1 DEF TypeOK
  <2>3. PhaseInv'
    BY <1>1, <1>4, <2>1 DEF PhaseInv, TypeOK
  <2>4. QED
    BY <1>2, <2>2, <2>3
<1>5. CASE TaskReturns(w)
  <2>1. /\ worker[w] = "busy" /\ done' = Append(done, task[w]) /\ UNCHANGED queue_
        /\ task' = [task EXCEPT ![w] = None] /\ worker' = [worker EXCEPT ![w] = "pop"]
    BY <1>5 DEF TaskReturns
  <2>2. task[w] \in Task
    BY <2>1 DEF TypeOK
  <2>3. done' \in Seq(Task)
    BY <2>1, <2>2, AppendRange DEF TypeOK
  <2>4. TypeOK'
    BY <1>1, <2>1, <2>3 DEF TypeOK
  <2>5. PhaseInv'
    BY <1>1, <2>1 DEF PhaseInv, TypeOK
  <2>6. QED
    BY <1>2, <2>4, <2>5
<1>6. CASE WakeUp(w)
  <2>1. worker[w] = "wait" /\ worker' = [worker EXCEPT ![w] = "pop"] /\ UNCHANGED <<task, done, queue_>>
    BY <1>6 DEF WakeUp
  <2>2. TypeOK'
    BY <1>1, <2>1 DEF TypeOK
  <2>3. PhaseInv'
    BY <1>1, <2>1 DEF PhaseInv, TypeOK
  <2>4. QED
    BY <1>2, <2>2, <2>3
<1>7. QED
  BY <1>3, <1>4, <1>5, <1>6 DEF Work, pop

(* So every step keeps callers, workers and flags in line.                 *)
LEMMA StepCalls == CallInv /\ [Next]_poolVars => CallInv'
<1> SUFFICES ASSUME CallInv, [Next]_poolVars PROVE CallInv'
  OBVIOUS
<1>1. CASE UNCHANGED poolVars
  BY <1>1 DEF poolVars, queueVars, workerVars, callVars, CallInv, TypeOK, MutexInv, PhaseInv,
              SubmitInv
<1>2. QED
  BY <1>1, SubmitCalls, ControlCalls, WorkCalls DEF Next

-----------------------------------------------------------------------------
(* A set of threads with one more, or one less.                            *)
LEMMA OneMoreOrLess ==
  ASSUME NEW T, IsFiniteSet(T), NEW S, S \in SUBSET T, NEW x
  PROVE  /\ Cardinality(S) \in Nat
         /\ Cardinality(S \cup {x}) = Cardinality(S) + (IF x \in S THEN 0 ELSE 1)
         /\ Cardinality(S \ {x}) = Cardinality(S) - (IF x \in S THEN 1 ELSE 0)
<1>1. IsFiniteSet(S) /\ Cardinality(S) \in Nat
  BY FS_Subset, FS_CardinalityType
<1>2. Cardinality(S \cup {x}) = IF x \in S THEN Cardinality(S) ELSE Cardinality(S) + 1
  BY <1>1, FS_AddElement
<1>3. Cardinality(S \ {x}) = IF x \in S THEN Cardinality(S) - 1 ELSE Cardinality(S)
  BY <1>1, FS_RemoveElement
<1>4. QED
  BY <1>1, <1>2, <1>3

Popping == {w \in Workers : worker[w] = "pop"}
Notifying == {c \in Submitters : pc[c] = "notify"}

(* Both are sets of finitely many threads.                                 *)
LEMMA ThreadsFinite ==
  /\ IsFiniteSet(Workers) /\ Popping \in SUBSET Workers
  /\ IsFiniteSet(Submitters) /\ Notifying \in SUBSET Submitters
BY ThreadPoolAssumption DEF Popping, Notifying

(* A caller's step loses no wake-up: push() promises the one that          *)
(* notify_one() gives.                                                     *)
LEMMA SubmitWakes ==
  ASSUME CallInv, NoLostWakeup, NEW c \in Submitters, Submit(c) \/ InSubmit(c)
  PROVE  NoLostWakeup'
<1> USE ThreadPoolAssumption
    DEF NoLostWakeup, Goto, At, queueVars, workerVars, callVars
<1>1. CASE SubmitThrows(c)
  BY <1>1 DEF SubmitThrows, Waiting
<1>2. CASE submit(c)
  <2>1. UNCHANGED <<worker, queue_, Waiting>> /\ Notifying' = Notifying
    BY <1>2 DEF submit, Waiting, Notifying, CallInv, TypeOK, Callers
  <2>2. QED
    BY <2>1 DEF Notifying
<1>3. CASE push(c)
  <2>1. ~closed_ /\ submitted \in Task
    BY <1>3 DEF push, CallInv, PhaseInv, SubmitInv, TypeOK, Task
  <2>2. /\ pc' = [pc EXCEPT ![c] = "notify"] /\ queue_' = Append(queue_, submitted)
        /\ UNCHANGED <<worker, Waiting>>
    BY <1>3, <2>1 DEF push, Waiting
  <2>3. Len(queue_') = Len(queue_) + 1 /\ Len(queue_) \in Nat
    BY <2>1, <2>2, AppendProperties, LenProperties DEF CallInv, TypeOK
  <2>4. c \notin Notifying /\ Notifying' = Notifying \cup {c}
    BY <1>3, <2>2 DEF push, Notifying, CallInv, TypeOK, Callers
  <2>5. Cardinality(Notifying') = Cardinality(Notifying) + 1 /\ Cardinality(Notifying) \in Nat
    BY <2>4, OneMoreOrLess, ThreadsFinite
  <2>6. Cardinality(Popping) \in Nat /\ Popping' = Popping
    BY <2>2, OneMoreOrLess, ThreadsFinite DEF Popping
  <2>7. QED
    BY <2>2, <2>3, <2>5, <2>6 DEF Popping, Notifying
<1>4. CASE notify_one(c)
  <2>1. CASE Waiting = {} /\ UNCHANGED worker
    BY <2>1 DEF Waiting
  <2>2. ASSUME NEW w \in Workers, worker[w] = "wait", worker' = [worker EXCEPT ![w] = "pop"]
        PROVE  NoLostWakeup'
    <3>1. w \notin Popping /\ Popping' = Popping \cup {w}
      BY <2>2 DEF Popping, CallInv, TypeOK
    <3>2. Cardinality(Popping') = Cardinality(Popping) + 1 /\ Cardinality(Popping) \in Nat
      BY <3>1, OneMoreOrLess, ThreadsFinite
    <3>3. c \in Notifying /\ Notifying' = Notifying \ {c}
      BY <1>4 DEF notify_one, Notifying, CallInv, TypeOK, Callers
    <3>4. Cardinality(Notifying') = Cardinality(Notifying) - 1 /\ Cardinality(Notifying) \in Nat
      BY <3>3, OneMoreOrLess, ThreadsFinite
    <3>5. UNCHANGED queue_ /\ Waiting # {}
      BY <1>4, <2>2 DEF notify_one, Waiting
    <3>6. Len(queue_) \in Nat
      BY LenProperties DEF CallInv, TypeOK
    <3>7. QED
      BY <3>2, <3>4, <3>5, <3>6 DEF Popping, Notifying
  <2>3. QED
    BY <1>4, <2>1, <2>2 DEF notify_one, Waiting, Become
<1>5. QED
  BY <1>1, <1>2, <1>3, <1>4 DEF Submit, InSubmit

(* Nor does one of start() or stop().                                      *)
LEMMA ControlWakes ==
  ASSUME CallInv, NoLostWakeup, start \/ stop \/ InStop
  PROVE  NoLostWakeup'
<1> USE ThreadPoolAssumption
    DEF NoLostWakeup, Goto, At, queueVars, workerVars, callVars
<1>1. CASE start
  BY <1>1 DEF start, Waiting
<1>2. CASE notify_all
  BY <1>2 DEF notify_all, Waiting
<1>3. CASE stop \/ close \/ join
  <2>1. UNCHANGED <<queue_, worker>>
    BY <1>3 DEF stop, close, join
  <2>2. Notifying' = Notifying
    BY <1>3 DEF stop, close, join, Notifying, CallInv, TypeOK, Callers
  <2>3. QED
    BY <2>1, <2>2 DEF Notifying, Waiting
<1>4. QED
  BY <1>1, <1>2, <1>3 DEF InStop

(* A worker takes the task it was woken for, or finds the queue empty.     *)
LEMMA WorkWakes ==
  ASSUME CallInv, NoLostWakeup, NEW w \in Workers, Work(w) \/ WakeUp(w)
  PROVE  NoLostWakeup'
<1> USE ThreadPoolAssumption DEF NoLostWakeup, Become, queueVars, callVars
<1>1. UNCHANGED pc /\ Notifying' = Notifying
  BY DEF Work, pop, TaskReturns, WakeUp, Notifying
<1>2. Cardinality(Notifying) \in Nat /\ Cardinality(Popping) \in Nat
  BY OneMoreOrLess, ThreadsFinite
<1>3. Len(queue_) \in Nat
  BY LenProperties DEF CallInv, TypeOK
<1>4. CASE pop(w) /\ queue_ # <<>>
  <2>1. /\ worker[w] = "pop" /\ queue_' = Tail(queue_)
        /\ worker' = [worker EXCEPT ![w] = "busy"]
    BY <1>4 DEF pop
  <2>2. Len(queue_') = Len(queue_) - 1
    BY <1>4, <2>1, HeadTailProperties DEF CallInv, TypeOK
  <2>3. w \in Popping /\ Popping' = Popping \ {w} /\ Waiting' = Waiting
    BY <2>1 DEF Popping, Waiting, CallInv, TypeOK
  <2>4. Cardinality(Popping') = Cardinality(Popping) - 1
    BY <2>3, OneMoreOrLess, ThreadsFinite
  <2>5. QED
    BY <1>1, <1>2, <1>3, <2>2, <2>3, <2>4 DEF Popping, Notifying
<1>5. CASE pop(w) /\ queue_ = <<>>
  <2>1. Len(queue_') = 0
    BY <1>5, EmptySeq, LenProperties DEF pop
  <2>2. Popping' \in SUBSET Workers /\ Notifying' \in SUBSET Submitters
    BY DEF Popping, Notifying
  <2>3. Cardinality(Popping') \in Nat /\ Cardinality(Notifying') \in Nat
    BY <2>2, OneMoreOrLess
  <2>4. QED
    BY <2>1, <2>3 DEF Popping, Notifying
<1>6. CASE TaskReturns(w) \/ WakeUp(w)
  <2>1. /\ worker[w] \in {"busy", "wait"} /\ UNCHANGED queue_
        /\ worker' = [worker EXCEPT ![w] = "pop"]
    BY <1>6 DEF TaskReturns, WakeUp
  <2>2. w \notin Popping /\ Popping' = Popping \cup {w} /\ Waiting' \subseteq Waiting
    BY <2>1 DEF Popping, Waiting, CallInv, TypeOK
  <2>3. Cardinality(Popping') = Cardinality(Popping) + 1
    BY <2>2, OneMoreOrLess, ThreadsFinite
  <2>4. QED
    BY <1>1, <1>2, <1>3, <2>1, <2>2, <2>3 DEF Popping, Notifying
<1>7. QED
  BY <1>4, <1>5, <1>6 DEF Work, pop

-----------------------------------------------------------------------------
(* The workers that run t.                                                 *)
Runners(t) == {w \in Workers : task[w] = t}

(* They are finitely many.                                                 *)
LEMMA RunnersFinite ==
  ASSUME NEW t
  PROVE  IsFiniteSet(Workers) /\ Runners(t) \in SUBSET Workers
BY ThreadPoolAssumption DEF Runners

(* Holding() in terms of what one more or one less changes.                *)
Held(t) ==
  Cardinality(Places(queue_, {t})) + Cardinality(Runners(t)) + Cardinality(Places(done, {t}))

(* AcceptedRunsOnce with it.                                               *)
LEMMA HoldingIsHeld == AcceptedRunsOnce <=> \A t \in Task : Held(t) = IF t \in accepted THEN 1 ELSE 0
BY DEF AcceptedRunsOnce, Holding, Held, Places, Runners

(* A step that moves no task and accepts none.                             *)
LEMMA NothingMoves ==
  ASSUME AcceptedRunsOnce, UNCHANGED <<queue_, task, done, accepted>>
  PROVE  AcceptedRunsOnce'
BY DEF AcceptedRunsOnce, Holding

(* A task is in the queue from its push() on, ...                          *)
LEMMA PushCounted ==
  ASSUME CallInv, AcceptedRunsOnce, NEW c \in Submitters, push(c)
  PROVE  AcceptedRunsOnce'
<1> USE ThreadPoolAssumption
<1>1. /\ ~closed_ /\ submitted \in Task /\ submitted \notin accepted
      /\ queue_ \in Seq(Task) /\ done \in Seq(Task)
  BY DEF push, CallInv, PhaseInv, SubmitInv, TypeOK, Task, At
<1>2. /\ queue_' = Append(queue_, submitted) /\ accepted' = accepted \cup {submitted}
      /\ UNCHANGED <<task, done>>
  BY <1>1 DEF push, workerVars
<1>3. SUFFICES ASSUME NEW t \in Task
               PROVE  Held(t)' = IF t \in accepted' THEN 1 ELSE 0
  BY DEF AcceptedRunsOnce, Holding, Held, Places, Runners
<1>4. Held(t) = IF t \in accepted THEN 1 ELSE 0
  BY HoldingIsHeld
<1>5. /\ Cardinality(Places(queue_, {t})) \in Nat
      /\ Cardinality(Places(queue_, {t})') = Cardinality(Places(queue_, {t})) + (IF submitted = t THEN 1 ELSE 0)
  <2>1. Places(queue_, {t})' = Places(Append(queue_, submitted), {t})
    BY <1>2 DEF Places
  <2>2. QED
    BY <1>1, <2>1, AppendPlaces, PlacesFinite
<1>6. /\ Cardinality(Runners(t)) \in Nat /\ Cardinality(Places(done, {t})) \in Nat
      /\ UNCHANGED <<Runners(t), Places(done, {t})>>
  <2>1. UNCHANGED <<Runners(t), Places(done, {t})>>
    BY <1>2 DEF Runners, Places
  <2>2. QED
    BY <1>1, <2>1, RunnersFinite, OneMoreOrLess, PlacesFinite
<1>7. QED
  BY <1>1, <1>2, <1>4, <1>5, <1>6 DEF Held

(* ... with the worker that pops it, ...                                   *)
LEMMA PopCounted ==
  ASSUME CallInv, AcceptedRunsOnce, NEW w \in Workers, pop(w), queue_ # <<>>
  PROVE  AcceptedRunsOnce'
<1> USE ThreadPoolAssumption
<1>1. /\ queue_' = Tail(queue_) /\ task' = [task EXCEPT ![w] = Head(queue_)]
      /\ UNCHANGED <<done, accepted>> /\ task[w] = None
  BY DEF pop, callVars, CallInv, TypeOK
<1>2. queue_ \in Seq(Task) /\ done \in Seq(Task) /\ Tail(queue_) \in Seq(Task)
  BY TailRange DEF CallInv, TypeOK
<1>3. SUFFICES ASSUME NEW t \in Task
               PROVE  Held(t)' = IF t \in accepted' THEN 1 ELSE 0
  BY DEF AcceptedRunsOnce, Holding, Held, Places, Runners
<1>4. Held(t) = IF t \in accepted THEN 1 ELSE 0
  BY HoldingIsHeld
<1>5. /\ Cardinality(Places(queue_, {t})') \in Nat
      /\ Cardinality(Places(queue_, {t})) = Cardinality(Places(queue_, {t})') + (IF Head(queue_) = t THEN 1 ELSE 0)
  <2>1. Places(queue_, {t})' = Places(Tail(queue_), {t})
    BY <1>1 DEF Places
  <2>2. Cardinality(Places(Tail(queue_), {t})) \in Nat
    BY <1>2, PlacesFinite
  <2>3. Cardinality(Places(queue_, {t})) =
          Cardinality(Places(Tail(queue_), {t})) + (IF Head(queue_) \in {t} THEN 1 ELSE 0)
    BY <1>2, TailPlaces
  <2>4. QED
    BY <2>1, <2>2, <2>3
<1>6. w \notin Runners(t) /\ Runners(t)' = IF Head(queue_) = t THEN Runners(t) \cup {w} ELSE Runners(t)
  BY <1>1 DEF Runners, Task, CallInv, TypeOK
<1>7. /\ Cardinality(Runners(t)) \in Nat
      /\ Cardinality(Runners(t)') = Cardinality(Runners(t)) + (IF Head(queue_) = t THEN 1 ELSE 0)
  <2>1. /\ Cardinality(Runners(t)) \in Nat
        /\ Cardinality(Runners(t) \cup {w}) = Cardinality(Runners(t)) + (IF w \in Runners(t) THEN 0 ELSE 1)
    BY RunnersFinite, OneMoreOrLess
  <2>2. QED
    BY <1>6, <2>1
<1>8. Cardinality(Places(done, {t})) \in Nat /\ UNCHANGED Places(done, {t})
  <2>1. UNCHANGED Places(done, {t})
    BY <1>1 DEF Places
  <2>2. QED
    BY <1>2, <2>1, PlacesFinite
<1>9. QED
  BY <1>1, <1>4, <1>5, <1>7, <1>8 DEF Held

(* ... and done when it returns.                                           *)
LEMMA ReturnCounted ==
  ASSUME CallInv, AcceptedRunsOnce, NEW w \in Workers, TaskReturns(w)
  PROVE  AcceptedRunsOnce'
<1> USE ThreadPoolAssumption
<1>1. /\ task' = [task EXCEPT ![w] = None] /\ done' = Append(done, task[w])
      /\ UNCHANGED <<queue_, accepted>>
  BY DEF TaskReturns, queueVars, callVars
<1>2. queue_ \in Seq(Task) /\ done \in Seq(Task) /\ task[w] \in Task
  BY DEF CallInv, TypeOK, TaskReturns
<1>3. SUFFICES ASSUME NEW t \in Task
               PROVE  Held(t)' = IF t \in accepted' THEN 1 ELSE 0
  BY DEF AcceptedRunsOnce, Holding, Held, Places, Runners
<1>4. Held(t) = IF t \in accepted THEN 1 ELSE 0
  BY HoldingIsHeld
<1>5. /\ Cardinality(Places(done, {t})) \in Nat
      /\ Cardinality(Places(done, {t})') = Cardinality(Places(done, {t})) + (IF task[w] = t THEN 1 ELSE 0)
  <2>1. Places(done, {t})' = Places(Append(done, task[w]), {t})
    BY <1>1 DEF Places
  <2>2. QED
    BY <1>2, <2>1, AppendPlaces, PlacesFinite
<1>6. /\ w \in Runners(t) <=> task[w] = t
      /\ Runners(t)' = IF task[w] = t THEN Runners(t) \ {w} ELSE Runners(t)
  BY <1>1, <1>2 DEF Runners, Task, CallInv, TypeOK
<1>7. /\ Cardinality(Runners(t)) \in Nat
      /\ Cardinality(Runners(t)') = Cardinality(Runners(t)) - (IF task[w] = t THEN 1 ELSE 0)
  <2>1. /\ Cardinality(Runners(t)) \in Nat
        /\ Cardinality(Runners(t) \ {w}) = Cardinality(Runners(t)) - (IF w \in Runners(t) THEN 1 ELSE 0)
    BY RunnersFinite, OneMoreOrLess
  <2>2. QED
    BY <1>6, <2>1
<1>8. Cardinality(Places(queue_, {t})) \in Nat /\ UNCHANGED Places(queue_, {t})
  <2>1. UNCHANGED Places(queue_, {t})
    BY <1>1 DEF Places
  <2>2. QED
    BY <1>2, <2>1, PlacesFinite
<1>9. QED
  BY <1>1, <1>4, <1>5, <1>7, <1>8 DEF Held

(* No other step moves one: start() empties a queue that is empty.         *)
LEMMA StepCounted == CallInv /\ AcceptedRunsOnce /\ [Next]_poolVars => AcceptedRunsOnce'
<1> SUFFICES ASSUME CallInv, AcceptedRunsOnce, [Next]_poolVars PROVE AcceptedRunsOnce'
  OBVIOUS
<1> USE DEF queueVars, workerVars, callVars
<1>1. CASE start
  <2>1. queue_ = <<>>
    BY <1>1 DEF CallInv, PhaseInv, start, At
  <2>2. QED
    BY <1>1, <2>1, NothingMoves DEF start
<1>2. CASE stop \/ InStop
  BY <1>2, NothingMoves DEF stop, InStop, close, notify_all, join
<1>3. ASSUME NEW c \in Submitters, SubmitThrows(c) \/ submit(c) \/ notify_one(c)
      PROVE  AcceptedRunsOnce'
  BY <1>3, NothingMoves DEF SubmitThrows, submit, notify_one
<1>4. ASSUME NEW w \in Workers, WakeUp(w) \/ (pop(w) /\ queue_ = <<>>)
      PROVE  AcceptedRunsOnce'
  BY <1>4, NothingMoves DEF WakeUp, pop
<1>5. CASE UNCHANGED poolVars
  BY <1>5, NothingMoves DEF poolVars
<1>6. QED
  BY <1>1, <1>2, <1>3, <1>4, <1>5, PushCounted, PopCounted, ReturnCounted
     DEF Next, Submit, InSubmit, Work

-----------------------------------------------------------------------------
(* The inductive invariant holds at the start ...                          *)
LEMMA InitPool == Init => PoolIInv
<1> SUFFICES ASSUME Init PROVE PoolIInv
  OBVIOUS
<1>1. NoLostWakeup
  BY DEF Init, NoLostWakeup, Waiting
<1>2. AcceptedRunsOnce
  <2> SUFFICES ASSUME NEW t \in Task PROVE Held(t) = 0 /\ t \notin accepted
    BY HoldingIsHeld
  <2>1. Places(queue_, {t}) = {} /\ Places(done, {t}) = {}
    BY EmptySeq, LenProperties DEF Init, Places
  <2>2. Runners(t) = {}
    BY ThreadPoolAssumption DEF Init, Runners, Task
  <2>3. Held(t) = 0 + 0 + 0
    BY <2>1, <2>2, FS_EmptySet DEF Held
  <2>4. QED
    BY <2>3 DEF Init
<1>3. QED
  BY <1>1, <1>2, InitCalls DEF PoolIInv

(* ... and every step keeps it, ...                                        *)
LEMMA StepPool == PoolIInv /\ [Next]_poolVars => PoolIInv'
<1> SUFFICES ASSUME PoolIInv, [Next]_poolVars PROVE PoolIInv'
  OBVIOUS
<1>1. NoLostWakeup'
  <2>1. CASE UNCHANGED poolVars
    BY <2>1 DEF PoolIInv, NoLostWakeup, Waiting, poolVars, queueVars, workerVars
  <2>2. QED
    BY <2>1, SubmitWakes, ControlWakes, WorkWakes DEF PoolIInv, Next
<1>2. QED
  BY <1>1, StepCalls, StepCounted DEF PoolIInv

(* ... so it always holds.                                                 *)
LEMMA AlwaysPool == Spec => []PoolIInv
BY InitPool, StepPool, PTL DEF Spec

(* While workers sleep, every task in the queue has a worker about to pop  *)
(* it or a push about to notify one (push() notifies after the unlock),    *)
(* and a worker holds a task exactly while it runs one, for any number of  *)
(* workers, submitters and tasks.                                          *)
THEOREM NoWakeupLost == Spec => []PoolInv
<1>1. PoolIInv => PoolInv
  BY DEF PoolIInv, CallInv, PoolInv
<1>2. QED
  BY <1>1, AlwaysPool, PTL

(* A task that submit() took is in one place, once: none is lost and none  *)
(* is run twice.                                                           *)
THEOREM NoTaskLostOrDoubled == Spec => []AcceptedRunsOnce
<1>1. PoolIInv => AcceptedRunsOnce
  BY DEF PoolIInv
<1>2. QED
  BY <1>1, AlwaysPool, PTL

(* When stop() returns every worker has left its loop, so the queue is     *)
(* empty, no worker has a task, and what was accepted is done.             *)
LEMMA JoinDrained ==
  ASSUME PoolIInv, join
  PROVE  queue_ = <<>> /\ \A t \in accepted : t \in Range(done)
<1> USE ThreadPoolAssumption DEF PoolIInv, CallInv
<1>1. queue_ = <<>> /\ \A w \in Workers : worker[w] = "exited"
  BY DEF join, PhaseInv
<1>2. ASSUME NEW t \in accepted PROVE t \in Range(done)
  <2>1. t \in Task /\ Held(t) = 1
    BY HoldingIsHeld DEF TypeOK
  <2>2. Places(queue_, {t}) = {}
    BY <1>1, EmptySeq, LenProperties DEF Places
  <2>3. Runners(t) = {}
    BY <1>1, <2>1 DEF Runners, TypeOK, Task
  <2>4. Cardinality(Places(done, {t})) = 1
    <3>1. Cardinality(Places(done, {t})) \in Nat
      BY PlacesFinite DEF TypeOK
    <3>2. QED
      BY <2>1, <2>2, <2>3, <3>1, FS_EmptySet DEF Held
  <2>5. Places(done, {t}) # {}
    BY <2>4, FS_EmptySet
  <2>6. QED
    BY <2>5 DEF Places, Range
<1>3. QED
  BY <1>1, <1>2

(* stop() drains the pool.                                                 *)
THEOREM StopHasDrained == Spec => StopDrains
<1>1. PoolIInv /\ [Next]_poolVars
        => [join => queue_ = <<>> /\ \A t \in accepted : t \in Range(done)]_poolVars
  BY JoinDrained
<1>2. QED
  BY <1>1, AlwaysPool, PTL DEF Spec, StopDrains
=============================================================================
