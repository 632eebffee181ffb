----------------------------- MODULE ThreadPool -----------------------------
(***************************************************************************)
(* The business thread pool: thread_pool.cpp over BlockingQueue            *)
(* (blocking_queue.hpp), as BusinessExecutor uses it.  Submitters call     *)
(* submit() while one controlling thread starts and stops the pool, again  *)
(* and again.                                                              *)
(*                                                                         *)
(* The pool's mutex_ is held over several steps, so its holder is a        *)
(* variable.  The queue's own mutex guards single steps here.  A worker in *)
(* cv_.wait sleeps until it is notified or wakes for no reason, and then   *)
(* tests the predicate again; push() notifies after it has let go of the   *)
(* queue's mutex, a step later.                                            *)
(***************************************************************************)
EXTENDS Naturals, Sequences, FiniteSets, Functions

CONSTANTS
  Workers,      \* the threads start() spawns
  Submitters,   \* the threads that call submit()
  Control,      \* the thread that calls start() and stop()
  MaxTasks,     \* bound on the tasks submitted
  MaxStarts,    \* bound on the calls of start()
  None

(* start() never spawns fewer than two workers; one is enough here.        *)
ASSUME ThreadPoolAssumption ==
  /\ IsFiniteSet(Workers) /\ Workers # {}
  /\ IsFiniteSet(Submitters) /\ Control \notin Submitters
  /\ MaxTasks \in Nat /\ MaxStarts \in Nat
  /\ None \notin Nat \cup Submitters \cup {Control}

VARIABLES
  mutex_,      \* who holds the pool's mutex_
  running_,
  queue_, closed_,
  worker,      \* worker -> "none", "pop", "wait", "busy" or "exited"
  task,        \* worker -> the task it runs
  pc,          \* caller -> where it is in submit(), start() or stop()
  submitted,   \* number of calls of submit()
  accepted,    \* the tasks a submit() took without throwing
  done,        \* the tasks that were run, in the order they ended
  starts

queueVars == <<queue_, closed_>>
workerVars == <<worker, task, done>>
callVars == <<submitted, accepted, starts>>
poolVars == <<mutex_, running_, queueVars, workerVars, pc, callVars>>

Callers == Submitters \cup {Control}
Task == 1..MaxTasks

TypeOK ==
  /\ mutex_ \in Callers \cup {None}
  /\ running_ \in BOOLEAN /\ closed_ \in BOOLEAN
  /\ queue_ \in Seq(Task) /\ done \in Seq(Task)
  /\ worker \in [Workers -> {"none", "pop", "wait", "busy", "exited"}]
  /\ task \in [Workers -> Task \cup {None}]
  /\ \A w \in Workers : task[w] # None <=> worker[w] = "busy"
  /\ pc \in [Callers -> {"idle", "push", "notify", "close", "notify_all", "join"}]
  /\ submitted \in 0..MaxTasks /\ starts \in 0..MaxStarts
  /\ accepted \in SUBSET Task

Init ==
  /\ mutex_ = None /\ running_ = FALSE
  /\ queue_ = <<>> /\ closed_ = FALSE
  /\ worker = [w \in Workers |-> "none"]
  /\ task = [w \in Workers |-> None]
  /\ pc = [c \in Callers |-> "idle"]
  /\ submitted = 0 /\ accepted = {} /\ done = <<>> /\ starts = 0

At(c, here) == pc[c] = here
Goto(c, there) == pc' = [pc EXCEPT ![c] = there]
Become(w, state) == worker' = [worker EXCEPT ![w] = state]

-----------------------------------------------------------------------------
(* start(), whose body runs under mutex_.  Nothing but the spawned workers *)
(* sees its steps, and they wait for no pool mutex: one action.            *)
start ==
  /\ At(Control, "idle") /\ mutex_ = None /\ ~running_
  /\ starts < MaxStarts
  /\ starts' = starts + 1
  /\ running_' = TRUE
  /\ queue_' = <<>> /\ closed_' = FALSE
  /\ worker' = [w \in Workers |-> "pop"]
  /\ UNCHANGED <<mutex_, task, done, pc, submitted, accepted>>

(* submit(): throw unless running_, else push under mutex_.                *)
SubmitThrows(c) ==
  /\ At(c, "idle") /\ mutex_ = None /\ ~running_
  /\ submitted < MaxTasks
  /\ submitted' = submitted + 1
  /\ UNCHANGED <<mutex_, running_, queueVars, workerVars, pc, accepted, starts>>

(* Defect: mutex_ is let go between the test of running_ and the push. *)
SubmitUnlocked(c) ==
  /\ At(c, "idle") /\ mutex_ = None /\ running_
  /\ submitted < MaxTasks
  /\ submitted' = submitted + 1
  /\ Goto(c, "push")
  /\ UNCHANGED <<mutex_, running_, queueVars, workerVars, accepted, starts>>

submit(c) ==
  /\ At(c, "idle") /\ mutex_ = None /\ running_
  /\ submitted < MaxTasks
  /\ submitted' = submitted + 1
  /\ mutex_' = c
  /\ Goto(c, "push")
  /\ UNCHANGED <<running_, queueVars, workerVars, accepted, starts>>

(* BlockingQueue::push() ignores the task when the queue is closed; the    *)
(* submit() returns normally all the same.  mutex_ is held from submit()'s *)
(* count to here, so the task is the one counted last.                     *)
push(c) ==
  /\ At(c, "push")
  /\ accepted' = accepted \cup {submitted}
  /\ \/ closed_ /\ Goto(c, "idle") /\ mutex_' = None /\ UNCHANGED queue_
     \/ ~closed_ /\ Goto(c, "notify") /\ queue_' = Append(queue_, submitted) /\ UNCHANGED mutex_
  /\ UNCHANGED <<running_, closed_, workerVars, submitted, starts>>

Waiting == {w \in Workers : worker[w] = "wait"}

(* Defect: only a push on an empty queue notifies. *)
NotifyIfFirst(c) ==
  /\ At(c, "notify")
  /\ \/ (Waiting = {} \/ Len(queue_) > 1) /\ UNCHANGED worker
     \/ Len(queue_) <= 1 /\ \E w \in Waiting : Become(w, "pop")
  /\ Goto(c, "idle") /\ mutex_' = None
  /\ UNCHANGED <<running_, queueVars, task, done, callVars>>

(* Defect: push() does not notify. *)
NotifyNobody(c) ==
  /\ At(c, "notify")
  /\ Goto(c, "idle") /\ mutex_' = None
  /\ UNCHANGED <<running_, queueVars, worker, task, done, callVars>>

notify_one(c) ==
  /\ At(c, "notify")
  /\ \/ Waiting = {} /\ UNCHANGED worker
     \/ \E w \in Waiting : Become(w, "pop")
  /\ Goto(c, "idle") /\ mutex_' = None
  /\ UNCHANGED <<running_, queueVars, task, done, callVars>>

-----------------------------------------------------------------------------
(* stop() *)
stop ==
  /\ At(Control, "idle") /\ mutex_ = None /\ running_
  /\ mutex_' = Control
  /\ running_' = FALSE
  /\ Goto(Control, "close")
  /\ UNCHANGED <<queueVars, workerVars, callVars>>

close ==
  /\ At(Control, "close")
  /\ closed_' = TRUE
  /\ Goto(Control, "notify_all")
  /\ UNCHANGED <<mutex_, running_, queue_, workerVars, callVars>>

(* Defect: close() notifies one worker. *)
NotifyOneOnClose ==
  /\ At(Control, "notify_all")
  /\ \/ Waiting = {} /\ UNCHANGED worker
     \/ \E w \in Waiting : Become(w, "pop")
  /\ mutex_' = None
  /\ Goto(Control, "join")
  /\ UNCHANGED <<running_, queueVars, task, done, callVars>>

notify_all ==
  /\ At(Control, "notify_all")
  /\ worker' = [w \in Workers |-> IF w \in Waiting THEN "pop" ELSE worker[w]]
  /\ mutex_' = None
  /\ Goto(Control, "join")
  /\ UNCHANGED <<running_, queueVars, task, done, callVars>>

join ==
  /\ At(Control, "join")
  /\ \A w \in Workers : worker[w] = "exited"
  /\ Goto(Control, "idle")
  /\ UNCHANGED <<mutex_, running_, queueVars, workerVars, callVars>>

-----------------------------------------------------------------------------
(* Defect: a closed queue is not popped. *)
PopUnlessClosed(w) ==
  /\ worker[w] = "pop"
  /\ \/ /\ queue_ # <<>> /\ ~closed_
        /\ task' = [task EXCEPT ![w] = Head(queue_)]
        /\ queue_' = Tail(queue_)
        /\ Become(w, "busy")
     \/ /\ queue_ = <<>> \/ closed_
        /\ Become(w, IF closed_ THEN "exited" ELSE "wait")
        /\ UNCHANGED <<task, queue_>>
  /\ UNCHANGED <<mutex_, running_, closed_, done, pc, callVars>>

(* A worker: pop(), run the task, and again.                               *)
pop(w) ==
  /\ worker[w] = "pop"
  /\ \/ /\ queue_ # <<>>
        /\ task' = [task EXCEPT ![w] = Head(queue_)]
        /\ queue_' = Tail(queue_)
        /\ Become(w, "busy")
     \/ /\ queue_ = <<>>
        /\ Become(w, IF closed_ THEN "exited" ELSE "wait")
        /\ UNCHANGED <<task, queue_>>
  /\ UNCHANGED <<mutex_, running_, closed_, done, pc, callVars>>

WakeUp(w) ==
  /\ worker[w] = "wait"
  /\ Become(w, "pop")
  /\ UNCHANGED <<mutex_, running_, queueVars, task, done, pc, callVars>>

TaskReturns(w) ==
  /\ worker[w] = "busy"
  /\ done' = Append(done, task[w])
  /\ task' = [task EXCEPT ![w] = None]
  /\ Become(w, "pop")
  /\ UNCHANGED <<mutex_, running_, queueVars, pc, callVars>>

-----------------------------------------------------------------------------
Submit(c) == SubmitThrows(c) \/ submit(c)
InSubmit(c) == push(c) \/ notify_one(c)
InStop == close \/ notify_all \/ join
Work(w) == pop(w) \/ TaskReturns(w)

Next ==
  \/ start \/ stop \/ InStop
  \/ \E c \in Submitters : Submit(c) \/ InSubmit(c)
  \/ \E w \in Workers : Work(w) \/ WakeUp(w)

Spec == Init /\ [][Next]_poolVars

(* A thread that is not asleep runs, and a task returns.  A wake-up        *)
(* without notification is not counted on.                                 *)
Fairness ==
  /\ WF_poolVars(InStop)
  /\ \A c \in Submitters : WF_poolVars(InSubmit(c))
  /\ \A w \in Workers : WF_poolVars(Work(w))

FairSpec == Spec /\ Fairness

-----------------------------------------------------------------------------
(* A task that submit() took without throwing is in the queue, at one      *)
(* worker, or done, and in one of them once: closing, the silent return of *)
(* push() on a closed queue, and reset() lose and repeat nothing.          *)
Holding(t) ==
  Cardinality({i \in DOMAIN queue_ : queue_[i] = t}) + Cardinality({w \in Workers : task[w] = t})
    + Cardinality({i \in DOMAIN done : done[i] = t})
AcceptedRunsOnce == \A t \in Task : Holding(t) = IF t \in accepted THEN 1 ELSE 0

(* notify_one() after the unlock loses no wake-up: while workers sleep,    *)
(* for every task in the queue a worker is about to pop or a push is about *)
(* to notify.                                                              *)
NoLostWakeup ==
  Waiting # {} =>
    Len(queue_) <= Cardinality({w \in Workers : worker[w] = "pop"})
                     + Cardinality({c \in Submitters : pc[c] = "notify"})

(* A worker holds a task exactly while it runs one, and no wake-up is lost. *)
PoolInv == TypeOK /\ NoLostWakeup

(* When stop() returns every task ever accepted has been run, the ones     *)
(* that were still queued when it was called included.                     *)
StopDrains ==
  [][join => queue_ = <<>> /\ \A t \in accepted : t \in Range(done)]_poolVars

(* Every accepted task is run, whether or not the pool is stopped.         *)
AcceptedRuns == \A t \in Task : t \in accepted ~> t \in Range(done)

(* stop() returns: no worker sleeps through it.                            *)
StopReturns == At(Control, "close") ~> At(Control, "idle")
=============================================================================
