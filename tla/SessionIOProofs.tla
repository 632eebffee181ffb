-------------------------- MODULE SessionIOProofs --------------------------
(***************************************************************************)
(* One session's reads, writes, queue and timer stay in step, for any      *)
(* number of messages and frames.                                          *)
(*                                                                         *)
(* The invariant counts the handlers that are ready with those in flight:  *)
(* an open session has one read, one timer and at most one write, wherever *)
(* each of them is, and a handler that runs leaves room for the operation  *)
(* it starts.  ReadInv also counts a closed session's reads against late,  *)
(* SentInv says which messages of pushed the queue still has and whether   *)
(* its front is written already, TimerInv that the notice was pushed,      *)
(* and PushInv bounds what can still be pushed.  Their conjunction,        *)
(* SessionIInv, is inductive; each part has its own step lemma.            *)
(***************************************************************************)
EXTENDS SessionIO, SequenceLemmas

-----------------------------------------------------------------------------
(* The handlers that are ready, counted by their operation.                *)
Of(op) == {h \in Handler : h.op = op}
Payloads == {h \in Of("read") : h.stage = "body" /\ h.ok}

ReadsReady == Cardinality(Places(strand_, Of("read")))
WritesReady == Cardinality(Places(strand_, Of("write")))
TimersReady == Cardinality(Places(strand_, Of("timer")))
DeliversReady == Cardinality(Places(strand_, Of("deliver")))
PayloadsReady == Cardinality(Places(strand_, Payloads))

TimersSet == IF timer = "none" THEN 0 ELSE 1

(* The queue's front is sent, its handler to come.                         *)
Written == \E h \in Range(strand_) : h.op = "write" /\ h.ok

-----------------------------------------------------------------------------
(* A session that is stopped was closed by somebody, and takes at most one *)
(* payload more: none if its only read failed, was refused or said "quit". *)
ReadInv ==
  /\ closed_by = None <=> ~stopped_
  /\ ~stopped_ => Len(reading) + ReadsReady = 1 /\ late = 0
  /\ closed_by = "reader" => Len(reading) + ReadsReady = 0 /\ late = 0
  /\ closed_by = "writer" => Len(reading) + ReadsReady + late <= 1

(* One write, of the front of the queue.                                   *)
WriteInv ==
  /\ Len(writing) + WritesReady <= 1
  /\ ~stopped_ => (write_queue_ # <<>> <=> Len(writing) + WritesReady = 1)
  /\ writing # <<>> => write_queue_ # <<>> /\ Head(writing) = Head(write_queue_)
  /\ WritesReady > 0 => write_queue_ # <<>>

(* popped messages of pushed are off the queue, and the rest is on it.     *)
(* Those are sent, and the front as well if its handler is to come.        *)
Popped(popped) ==
  /\ IF Written THEN Len(sent) = popped + 1 ELSE Len(sent) = popped
  /\ Len(pushed) = popped + Len(write_queue_)
  /\ \A i \in 1..Len(write_queue_) : write_queue_[i] = pushed[popped + i]

(* What is sent begins pushed, and what is queued ends it.                 *)
SentInv ==
  /\ Len(sent) <= Len(pushed) /\ \A i \in 1..Len(sent) : sent[i] = pushed[i]
  /\ \E popped \in Nat : Popped(popped)

(* The timer of an open session runs or its handler is to come, unless the *)
(* notice is queued.                                                       *)
TimerInv ==
  /\ ~stopped_ =>
       /\ timer # "cancelled" /\ \A h \in Range(strand_) : h.op = "timer" => h.ok
       /\ closing_after_write_ \/ TimersSet + TimersReady = 1
  /\ closing_after_write_ => ~stopped_ /\ Notice \in Range(pushed)

Notices == IF closing_after_write_ THEN 1 ELSE 0

(* A message pushed came from outside, answers a frame or is the notice.   *)
PushInv ==
  /\ ~stopped_ => Len(pushed) + DeliversReady + PayloadsReady
                    <= msgs + frames + Notices
  /\ PayloadsReady > 0 => frames > 0

SessionIInv == TypeOK /\ ReadInv /\ WriteInv /\ SentInv /\ TimerInv /\ PushInv

-----------------------------------------------------------------------------
(* The counters count.                                                     *)
Counted ==
  /\ ReadsReady \in Nat /\ WritesReady \in Nat /\ TimersReady \in Nat
  /\ DeliversReady \in Nat /\ PayloadsReady \in Nat

(* They are natural numbers.                                               *)
LEMMA HandlersCounted == strand_ \in Seq(Handler) => Counted
BY PlacesFinite DEF Counted, ReadsReady, WritesReady, TimersReady, DeliversReady, PayloadsReady

(* The same after a step.                                                  *)
LEMMA HandlersCountedNext == strand_' \in Seq(Handler) => Counted'
BY PlacesFinite DEF Counted, ReadsReady, WritesReady, TimersReady, DeliversReady, PayloadsReady

OneMore(more, n, really) == IF really THEN more = n + 1 ELSE more = n

(* What Ready(h) does to the strand ...                                    *)
Added(h) ==
  /\ strand_' \in Seq(Handler) /\ Counted /\ Counted'
  /\ Range(strand_') = Range(strand_) \cup {h}
  /\ OneMore(ReadsReady', ReadsReady, h.op = "read")
  /\ OneMore(WritesReady', WritesReady, h.op = "write")
  /\ OneMore(TimersReady', TimersReady, h.op = "timer")
  /\ OneMore(DeliversReady', DeliversReady, h.op = "deliver")
  /\ OneMore(PayloadsReady', PayloadsReady, h \in Payloads)

(* A handler that becomes ready is counted once.                           *)
LEMMA AddsHandler ==
  ASSUME strand_ \in Seq(Handler), NEW h \in Handler, Ready(h)
  PROVE  Added(h)
<1>1. strand_' = Append(strand_, h)
  BY DEF Ready
<1>2. strand_' \in Seq(Handler) /\ Range(strand_') = Range(strand_) \cup {h}
  BY <1>1, AppendRange
<1>3. ASSUME NEW S
      PROVE  OneMore(Cardinality(Places(strand_', S)), Cardinality(Places(strand_, S)), h \in S)
  <2>1. Cardinality(Places(strand_', S)) =
          Cardinality(Places(strand_, S)) + (IF h \in S THEN 1 ELSE 0)
    BY <1>1, AppendPlaces
  <2>2. Cardinality(Places(strand_, S)) \in Nat
    BY PlacesFinite
  <2>3. QED
    BY <2>1, <2>2 DEF OneMore
<1>4. \A op : h \in Of(op) <=> h.op = op
  BY DEF Of
<1>5. OneMore(ReadsReady', ReadsReady, h.op = "read")
  BY <1>3, <1>4 DEF ReadsReady
<1>6. OneMore(WritesReady', WritesReady, h.op = "write")
  BY <1>3, <1>4 DEF WritesReady
<1>7. OneMore(TimersReady', TimersReady, h.op = "timer")
  BY <1>3, <1>4 DEF TimersReady
<1>8. OneMore(DeliversReady', DeliversReady, h.op = "deliver")
  BY <1>3, <1>4 DEF DeliversReady
<1>9. OneMore(PayloadsReady', PayloadsReady, h \in Payloads)
  BY <1>3 DEF PayloadsReady
<1>10. QED
  BY <1>2, <1>5, <1>6, <1>7, <1>8, <1>9, HandlersCounted, HandlersCountedNext DEF Added

(* ... and what running the first handler does.                            *)
Dropped(h) ==
  /\ h \in Handler /\ h = Head(strand_)
  /\ strand_' \in Seq(Handler) /\ Counted /\ Counted'
  /\ Range(strand_) = Range(strand_') \cup {h}
  /\ OneMore(ReadsReady, ReadsReady', h.op = "read")
  /\ OneMore(WritesReady, WritesReady', h.op = "write")
  /\ OneMore(TimersReady, TimersReady', h.op = "timer")
  /\ OneMore(DeliversReady, DeliversReady', h.op = "deliver")
  /\ OneMore(PayloadsReady, PayloadsReady', h \in Payloads)

(* The handler that runs is counted no more.                               *)
LEMMA DropsHandler ==
  ASSUME strand_ \in Seq(Handler), strand_ # <<>>, strand_' = Tail(strand_)
  PROVE  Dropped(Head(strand_))
<1> DEFINE h == Head(strand_)
<1>1. /\ h \in Handler /\ strand_' \in Seq(Handler)
      /\ Range(strand_) = Range(strand_') \cup {h}
  BY TailRange
<1>2. ASSUME NEW S
      PROVE  OneMore(Cardinality(Places(strand_, S)), Cardinality(Places(strand_', S)), h \in S)
  <2>1. Cardinality(Places(strand_, S)) =
          Cardinality(Places(strand_', S)) + (IF h \in S THEN 1 ELSE 0)
    BY TailPlaces
  <2>2. Cardinality(Places(strand_', S)) \in Nat
    BY <1>1, PlacesFinite
  <2>3. QED
    BY <2>1, <2>2 DEF OneMore
<1> HIDE DEF h
<1>3. \A op : h \in Of(op) <=> h.op = op
  BY <1>1 DEF Of
<1>4. OneMore(ReadsReady, ReadsReady', h.op = "read")
  BY <1>2, <1>3 DEF ReadsReady
<1>5. OneMore(WritesReady, WritesReady', h.op = "write")
  BY <1>2, <1>3 DEF WritesReady
<1>6. OneMore(TimersReady, TimersReady', h.op = "timer")
  BY <1>2, <1>3 DEF TimersReady
<1>7. OneMore(DeliversReady, DeliversReady', h.op = "deliver")
  BY <1>2, <1>3 DEF DeliversReady
<1>8. OneMore(PayloadsReady, PayloadsReady', h \in Payloads)
  BY <1>2 DEF PayloadsReady
<1>9. QED
  BY <1>1, <1>4, <1>5, <1>6, <1>7, <1>8, HandlersCounted, HandlersCountedNext DEF Dropped, h

(* A write whose handler is to come is counted.                            *)
LEMMA WrittenCounted == strand_ \in Seq(Handler) /\ Written => WritesReady > 0
<1> SUFFICES ASSUME strand_ \in Seq(Handler), Written PROVE WritesReady > 0
  OBVIOUS
<1>1. Places(strand_, Of("write")) # {}
  <2>1. PICK i \in DOMAIN strand_ : strand_[i].op = "write"
    BY DEF Written, Range
  <2>2. strand_[i] \in Handler
    BY <2>1
  <2>3. QED
    BY <2>1, <2>2 DEF Places, Of
<1>2. IsFiniteSet(Places(strand_, Of("write"))) /\ WritesReady \in Nat
  BY PlacesFinite DEF WritesReady
<1>3. WritesReady # 0
  BY <1>1, <1>2, FS_EmptySet DEF WritesReady
<1>4. QED
  BY <1>2, <1>3

(* A handler that runs is the first of the strand.                         *)
LEMMA RunDrops ==
  ASSUME TypeOK, NEW op, Runs(op)
  PROVE  Dropped(Head(strand_)) /\ Head(strand_).op = op
BY DropsHandler DEF Runs, TypeOK

(* What the socket and the clock put on the strand.                        *)
LEMMA ReadAdds ==
  ASSUME TypeOK, NEW ok \in BOOLEAN, ReadCompletes(ok)
  PROVE  Added([op |-> "read", stage |-> Head(reading), ok |-> ok])
<1>1. Head(reading) \in Stages
  BY TailRange DEF ReadCompletes, TypeOK
<1>2. QED
  BY <1>1, AddsHandler DEF ReadCompletes, TypeOK, Handler

(* A write.                                                                *)
LEMMA WriteAdds ==
  ASSUME TypeOK, NEW ok \in BOOLEAN, WriteCompletes(ok)
  PROVE  Added([op |-> "write", ok |-> ok])
BY AddsHandler DEF WriteCompletes, TypeOK, Handler

(* The timer.                                                              *)
LEMMA TimerAdds ==
  ASSUME TypeOK, TimerCompletes
  PROVE  Added([op |-> "timer", ok |-> timer = "armed"])
BY AddsHandler DEF TimerCompletes, TypeOK, Handler

(* And what another session or a business thread puts there.               *)
LEMMA DeliverAdds ==
  ASSUME TypeOK, deliver
  PROVE  Added([op |-> "deliver", msg |-> msgs + 1])
<1>1. msgs + 1 \in 1..MaxMsgs
  BY SessionIOAssumption DEF deliver, TypeOK
<1>2. QED
  BY <1>1, AddsHandler DEF deliver, TypeOK, Handler

-----------------------------------------------------------------------------
(* Only a read that completes, a handler of a read and a close touch what  *)
(* ReadInv is about.                                                       *)
LEMMA ReadStep ==
  ASSUME TypeOK, ReadInv, Next
  PROVE  ReadInv'
<1> USE SessionIOAssumption DEF sessionVars, socketVars
<1>t. Counted /\ reading \in Seq(Stages) /\ Len(reading) \in Nat /\ late \in Nat
  BY HandlersCounted, LenProperties DEF TypeOK
<1>1. ASSUME NEW ok \in BOOLEAN, ReadCompletes(ok) PROVE ReadInv'
  <2>1. Len(reading') = Len(reading) - 1
    BY <1>1, <1>t, HeadTailProperties DEF ReadCompletes
  <2>2. ReadsReady' = ReadsReady + 1
    BY <1>1, ReadAdds DEF Added, OneMore
  <2>3. QED
    BY <1>1, <1>t, <2>1, <2>2 DEF ReadCompletes, ReadInv, Counted
<1>2. ASSUME UNCHANGED <<stopped_, closed_by, reading, ReadsReady, late>> PROVE ReadInv'
  BY <1>2 DEF ReadInv
<1>3. CASE deliver
  BY <1>2, <1>3, <1>t, DeliverAdds DEF deliver, Added, OneMore, Counted
<1>4. ASSUME NEW ok \in BOOLEAN, WriteCompletes(ok) PROVE ReadInv'
  BY <1>2, <1>4, <1>t, WriteAdds DEF WriteCompletes, Added, OneMore, Counted
<1>5. CASE TimerCompletes
  BY <1>2, <1>5, <1>t, TimerAdds DEF TimerCompletes, Added, OneMore, Counted
<1>6. CASE TimePasses
  <2>1. UNCHANGED ReadsReady
    BY <1>6 DEF TimePasses, ReadsReady
  <2>2. QED
    BY <1>2, <1>6, <2>1 DEF TimePasses
<1>7. ASSUME Dropped(Head(strand_)), Head(strand_).op = "read" PROVE ReadsReady = ReadsReady' + 1 /\ ReadsReady' \in Nat
  BY <1>7 DEF Dropped, OneMore, Counted
<1>8. CASE ReadFails \/ HeaderRefused \/ Quit
  <2>1. /\ UNCHANGED reading /\ stopped_' = TRUE
        /\ closed_by' = IF stopped_ THEN closed_by ELSE "reader"
        /\ late' \in {late, IF stopped_ THEN late + 1 ELSE late}
        /\ ReadsReady = ReadsReady' + 1 /\ ReadsReady' \in Nat
    BY <1>7, <1>8, RunDrops DEF ReadFails, HeaderRefused, Quit, PayloadRead, close_session
  <2>2. QED
    BY <1>t, <2>1 DEF ReadInv, Counted, TypeOK
<1>9. CASE HeaderRead \/ Answered
  <2>1. /\ UNCHANGED <<stopped_, closed_by>>
        /\ \/ UNCHANGED reading /\ late' = late + 1 /\ stopped_
           \/ (\E st \in Stages : reading' = Append(reading, st)) /\ UNCHANGED late
        /\ ReadsReady = ReadsReady' + 1 /\ ReadsReady' \in Nat
    BY <1>7, <1>9, RunDrops DEF HeaderRead, Answered, PayloadRead, Stages
  <2>2. Len(reading') \in {Len(reading), Len(reading) + 1}
    BY <1>t, <2>1, AppendProperties
  <2>3. \/ UNCHANGED <<reading, stopped_, closed_by>> /\ late' = late + 1 /\ stopped_
        \/ Len(reading') = Len(reading) + 1 /\ UNCHANGED <<late, stopped_, closed_by>>
    BY <1>t, <2>1, AppendProperties
  <2>4. CASE UNCHANGED <<reading, stopped_, closed_by>> /\ late' = late + 1 /\ stopped_
    BY <1>t, <2>1, <2>4 DEF ReadInv, Counted, TypeOK
  <2>5. CASE Len(reading') = Len(reading) + 1 /\ UNCHANGED <<late, stopped_, closed_by>>
    BY <1>t, <2>1, <2>5 DEF ReadInv, Counted, TypeOK
  <2>6. QED
    BY <2>3, <2>4, <2>5
<1>10. ASSUME Dropped(Head(strand_)), Head(strand_).op # "read" PROVE ReadsReady' = ReadsReady
  BY <1>10 DEF Dropped, OneMore
<1>11. CASE WriteFails \/ WriteDone
  <2>1. /\ UNCHANGED <<reading, late>>
        /\ \/ UNCHANGED <<stopped_, closed_by>>
           \/ stopped_' = TRUE /\ closed_by' = IF stopped_ THEN closed_by ELSE "writer"
    BY <1>11 DEF WriteFails, WriteDone, close_session
  <2>2. UNCHANGED ReadsReady
    BY <1>10, <1>11, RunDrops DEF WriteFails, WriteDone
  <2>3. QED
    BY <1>t, <2>1, <2>2 DEF ReadInv, Counted, TypeOK
<1>12. CASE RunDeliver \/ TimerIgnored \/ schedule_idle_check \/ notify_idle_timeout_and_close
  <2>1. UNCHANGED <<reading, late, stopped_, closed_by>>
    BY <1>12 DEF RunDeliver, TimerIgnored, schedule_idle_check, notify_idle_timeout_and_close
  <2>2. UNCHANGED ReadsReady
    BY <1>10, <1>12, RunDrops
       DEF RunDeliver, TimerIgnored, schedule_idle_check, notify_idle_timeout_and_close
  <2>3. QED
    BY <1>2, <2>1, <2>2
<1>13. QED
  BY <1>1, <1>3, <1>4, <1>5, <1>6, <1>8, <1>9, <1>11, <1>12 DEF Next, Completes, Run

-----------------------------------------------------------------------------
(* What Push() does to the queue and to what was pushed.                   *)
LEMMA PushAdds ==
  ASSUME TypeOK, NEW m, m \in Queueable, Push(m)
  PROVE  /\ write_queue_' \in Seq(Queueable) /\ pushed' \in Seq(Queueable)
         /\ writing' \in Seq(Queueable)
         /\ Len(write_queue_') = Len(write_queue_) + 1 /\ Len(pushed') = Len(pushed) + 1
         /\ Len(write_queue_) \in Nat /\ Len(pushed) \in Nat
         /\ \A i \in 1..Len(write_queue_) : write_queue_'[i] = write_queue_[i]
         /\ \A i \in 1..Len(pushed) : pushed'[i] = pushed[i]
         /\ write_queue_'[Len(write_queue_) + 1] = pushed'[Len(pushed) + 1]
         /\ Range(pushed') = Range(pushed) \cup {m}
<1>1. /\ write_queue_' = Append(write_queue_, m) /\ pushed' = Append(pushed, m)
      /\ writing' \in {writing, Append(writing, m)}
  BY DEF Push
<1>2. /\ Append(write_queue_, m) \in Seq(Queueable) /\ Append(pushed, m) \in Seq(Queueable)
      /\ Append(writing, m) \in Seq(Queueable)
      /\ Range(Append(pushed, m)) = Range(pushed) \cup {m}
  BY AppendRange DEF TypeOK
<1>3. /\ Len(Append(write_queue_, m)) = Len(write_queue_) + 1
      /\ \A i \in 1..Len(write_queue_) : Append(write_queue_, m)[i] = write_queue_[i]
      /\ Append(write_queue_, m)[Len(write_queue_) + 1] = m
      /\ Len(write_queue_) \in Nat
  BY AppendProperties, LenProperties DEF TypeOK
<1>4. /\ Len(Append(pushed, m)) = Len(pushed) + 1
      /\ \A i \in 1..Len(pushed) : Append(pushed, m)[i] = pushed[i]
      /\ Append(pushed, m)[Len(pushed) + 1] = m
      /\ Len(pushed) \in Nat
  BY AppendProperties, LenProperties DEF TypeOK
<1>5. QED
  BY <1>1, <1>2, <1>3, <1>4 DEF TypeOK

(* A handler that pushes: whose message, and that there is room for it.    *)
Pushes(m) ==
  \/ RunDeliver /\ ~stopped_ /\ m = Head(strand_).msg
  \/ Answered /\ ~stopped_ /\ m = Reply(frames)
  \/ notify_idle_timeout_and_close /\ ~closing_after_write_ /\ m = Notice

(* There is room for a message pushed, and the session is open.            *)
LEMMA PushTyped ==
  ASSUME TypeOK, PushInv, NEW m, Pushes(m)
  PROVE  m \in Queueable /\ Push(m) /\ ~stopped_ /\ Len(pushed) <= Reply(MaxFrames)
<1> USE SessionIOAssumption DEF Reply
<1>t. /\ Counted /\ Len(pushed) \in Nat
      /\ frames \in 0..MaxFrames /\ msgs \in 0..MaxMsgs
      /\ Notices \in 0..1 /\ (~closing_after_write_ => Notices = 0)
  BY HandlersCounted, LenProperties DEF TypeOK, Notices
<1>1. CASE RunDeliver /\ ~stopped_ /\ m = Head(strand_).msg
  <2>1. Dropped(Head(strand_)) /\ Head(strand_).op = "deliver"
    BY <1>1, RunDrops DEF RunDeliver
  <2>2. m \in 1..MaxMsgs
    BY <1>1, <2>1 DEF Dropped, Handler
  <2>3. DeliversReady = DeliversReady' + 1 /\ DeliversReady' \in Nat
    BY <2>1 DEF Dropped, OneMore, Counted
  <2>4. Len(pushed) <= MaxMsgs + MaxFrames
    BY <1>1, <1>t, <2>3 DEF PushInv, Counted
  <2>5. QED
    BY <1>1, <2>2, <2>4 DEF RunDeliver, Queueable
<1>2. CASE Answered /\ ~stopped_ /\ m = Reply(frames)
  <2>1. /\ Dropped(Head(strand_)) /\ Head(strand_).op = "read"
        /\ Head(strand_).stage = "body" /\ Head(strand_).ok
    BY <1>2, RunDrops DEF Answered, PayloadRead, Ok
  <2>2. PayloadsReady = PayloadsReady' + 1 /\ PayloadsReady' \in Nat /\ PayloadsReady \in Nat
    BY <2>1 DEF Dropped, OneMore, Counted, Payloads, Of
  <2>3. frames > 0 /\ Len(pushed) <= MaxMsgs + MaxFrames
    <3>1. frames > 0
      <4>1. PayloadsReady > 0
        <5>1. \A n \in Nat : n + 1 > 0
          OBVIOUS
        <5>2. PayloadsReady' + 1 > 0
          BY <2>2, <5>1
        <5>3. QED
          BY <2>2, <5>2
      <4>2. QED
        BY <4>1 DEF PushInv
    <3>2. Len(pushed) + 1 <= msgs + frames + 1
      BY <1>2, <1>t, <2>2 DEF PushInv, Counted
    <3>3. QED
      BY <1>t, <3>1, <3>2
  <2>4. m \in 1..(MaxMsgs + MaxFrames)
    BY <1>2, <1>t, <2>3
  <2>5. QED
    BY <1>2, <2>3, <2>4 DEF Answered, Queueable
<1>3. CASE notify_idle_timeout_and_close /\ ~closing_after_write_ /\ m = Notice
  <2>1. Push(m) /\ ~stopped_
    BY <1>3 DEF notify_idle_timeout_and_close
  <2>2. Len(pushed) <= MaxMsgs + MaxFrames
    BY <1>3, <1>t, <2>1 DEF PushInv, Counted
  <2>3. QED
    BY <1>3, <2>1, <2>2 DEF Queueable
<1>4. QED
  BY <1>1, <1>2, <1>3 DEF Pushes

(* Those handlers push, or leave the queue, the writes and the reads.      *)
Quiet == UNCHANGED <<write_queue_, pushed, writing, reading>>

(* There is no third way.                                                  *)
LEMMA PushedOrNot ==
  ASSUME RunDeliver \/ Answered \/ notify_idle_timeout_and_close
  PROVE  (\E m : Pushes(m)) \/ Quiet
BY DEF RunDeliver, Answered, notify_idle_timeout_and_close, Pushes, Quiet

(* The types are kept.                                                     *)
LEMMA TypeStep ==
  ASSUME TypeOK, WriteInv, PushInv, Next
  PROVE  TypeOK'
<1> USE SessionIOAssumption DEF sessionVars, socketVars, countVars
<1>1. ASSUME NEW m, Pushes(m) PROVE TypeOK'
  <2>1. /\ write_queue_' \in Seq(Queueable) /\ pushed' \in Seq(Queueable)
        /\ writing' \in Seq(Queueable) /\ Len(pushed') <= Reply(MaxFrames) + 1
    <3>1. m \in Queueable /\ Push(m) /\ Len(pushed) <= Reply(MaxFrames)
      BY <1>1, PushTyped
    <3>2. /\ write_queue_' \in Seq(Queueable) /\ pushed' \in Seq(Queueable)
          /\ writing' \in Seq(Queueable)
          /\ Len(pushed') = Len(pushed) + 1 /\ Len(pushed) \in Nat
      BY <3>1, PushAdds
    <3>3. QED
      BY <3>1, <3>2 DEF Reply
  <2>2. strand_' \in Seq(Handler)
    BY <1>1, RunDrops DEF Pushes, RunDeliver, Answered, PayloadRead, notify_idle_timeout_and_close,
                          Dropped
  <2>3. reading' \in Seq(Stages)
    <3>1. Append(reading, "header") \in Seq(Stages)
      BY AppendRange DEF TypeOK, Stages
    <3>2. QED
      BY <1>1, <3>1 DEF Pushes, RunDeliver, Answered, notify_idle_timeout_and_close, TypeOK
  <2>4. QED
    BY <1>1, <2>1, <2>2, <2>3
       DEF Pushes, RunDeliver, Answered, PayloadRead, notify_idle_timeout_and_close, TypeOK
<1>2. CASE deliver
  <2>1. strand_' \in Seq(Handler)
    BY <1>2, DeliverAdds DEF Added
  <2>2. msgs' \in 0..MaxMsgs
    BY <1>2 DEF deliver, TypeOK
  <2>3. QED
    BY <1>2, <2>1, <2>2 DEF deliver, TypeOK
<1>3. CASE TimePasses
  BY <1>3 DEF TimePasses, TypeOK
<1>4. ASSUME NEW ok \in BOOLEAN, ReadCompletes(ok) PROVE TypeOK'
  <2>1. strand_' \in Seq(Handler)
    BY <1>4, ReadAdds DEF Added
  <2>2. reading' \in Seq(Stages)
    BY <1>4, TailRange DEF ReadCompletes, TypeOK
  <2>3. frames' \in 0..MaxFrames
    BY <1>4 DEF ReadCompletes, TypeOK
  <2>4. QED
    BY <1>4, <2>1, <2>2, <2>3 DEF ReadCompletes, TypeOK
<1>5. ASSUME NEW ok \in BOOLEAN, WriteCompletes(ok) PROVE TypeOK'
  <2>1. strand_' \in Seq(Handler)
    BY <1>5, WriteAdds DEF Added
  <2>2. Head(writing) \in Queueable /\ Tail(writing) \in Seq(Queueable)
    BY <1>5, TailRange DEF WriteCompletes, TypeOK
  <2>3. Append(sent, Head(writing)) \in Seq(Queueable)
    BY <2>2, AppendRange DEF TypeOK
  <2>4. QED
    BY <1>5, <2>1, <2>2, <2>3 DEF WriteCompletes, TypeOK
<1>6. CASE TimerCompletes
  <2>1. strand_' \in Seq(Handler)
    BY <1>6, TimerAdds DEF Added
  <2>2. QED
    BY <1>6, <2>1 DEF TimerCompletes, TypeOK
<1>7. CASE Run
  <2>1. strand_' \in Seq(Handler)
    BY <1>7, RunDrops
       DEF Run, RunDeliver, ReadFails, HeaderRefused, HeaderRead, Answered, Quit, PayloadRead,
           WriteFails, WriteDone, TimerIgnored, schedule_idle_check, notify_idle_timeout_and_close,
           Dropped
  <2>2. CASE HeaderRead \/ TimerIgnored \/ schedule_idle_check
    <3>1. Append(reading, "body") \in Seq(Stages)
      BY AppendRange DEF TypeOK, Stages
    <3>2. QED
      BY <2>1, <2>2, <3>1 DEF HeaderRead, TimerIgnored, schedule_idle_check, TypeOK
  <2>3. CASE (RunDeliver \/ Answered \/ notify_idle_timeout_and_close) /\ Quiet
    <3>1. late' \in Nat
      <4>1. late \in Nat
        BY DEF TypeOK
      <4>2. late' = late \/ late' = late + 1
        BY <2>3 DEF RunDeliver, Answered, PayloadRead, notify_idle_timeout_and_close
      <4>3. QED
        BY ONLY <4>1, <4>2
    <3>t. idle' \in BOOLEAN /\ closing_after_write_' \in BOOLEAN
      BY <2>3, Zenon
         DEF RunDeliver, Answered, PayloadRead, notify_idle_timeout_and_close, TypeOK
    <3>2. UNCHANGED <<stopped_, closed_by, sent, frames, msgs, timer>>
      BY <2>3 DEF RunDeliver, Answered, notify_idle_timeout_and_close
    <3>3. QED
      BY <2>1, <2>3, <3>1, <3>t, <3>2 DEF Quiet, TypeOK
  <2>4. CASE ReadFails \/ HeaderRefused \/ Quit \/ WriteFails
    <3>1. late' \in Nat
      <4>1. late \in Nat
        BY DEF TypeOK
      <4>2. late' = late \/ late' = late + 1
        BY <2>4 DEF ReadFails, HeaderRefused, Quit, PayloadRead, WriteFails
      <4>3. QED
        BY ONLY <4>1, <4>2
    <3>t. idle' \in BOOLEAN
      BY <2>4, Zenon DEF ReadFails, HeaderRefused, Quit, PayloadRead, WriteFails, TypeOK
    <3>2. \E by \in {"reader", "writer"} : close_session(by)
      BY <2>4 DEF ReadFails, HeaderRefused, Quit, WriteFails
    <3>3. /\ stopped_' \in BOOLEAN /\ closing_after_write_' \in BOOLEAN
          /\ closed_by' \in {None, "reader", "writer"} /\ timer' \in {"none", "armed", "cancelled"}
      BY <3>2 DEF close_session, TypeOK
    <3>4. UNCHANGED <<reading, writing, sent, frames, msgs, write_queue_, pushed>>
      BY <2>4 DEF ReadFails, HeaderRefused, Quit, WriteFails
    <3>5. QED
      BY <2>1, <3>1, <3>t, <3>3, <3>4 DEF TypeOK
  <2>5. CASE WriteDone
    <3>1. write_queue_ # <<>>
      <4>1. WritesReady > 0
        BY <2>5, RunDrops DEF WriteDone, Dropped, OneMore, Counted
      <4>2. QED
        BY <4>1 DEF WriteInv
    <3>2. Tail(write_queue_) \in Seq(Queueable)
      BY <3>1, TailRange DEF TypeOK
    <3>3. Tail(write_queue_) # <<>> => write_queue_[2] \in Queueable
      BY <3>1, <3>2, HeadTailProperties, EmptySeq, LenProperties DEF TypeOK
    <3>4. writing' \in Seq(Queueable)
      <4>1. Tail(write_queue_) # <<>> => Append(writing, write_queue_[2]) \in Seq(Queueable)
        BY <3>3, AppendRange DEF TypeOK
      <4>2. QED
        BY <2>5, <4>1 DEF WriteDone, TypeOK
    <3>5. QED
      BY <2>1, <2>5, <3>2, <3>4 DEF WriteDone, close_session, TypeOK
  <2>6. QED
    BY <1>1, <1>7, <2>2, <2>3, <2>4, <2>5, PushedOrNot DEF Run
<1>8. QED
  BY <1>1, <1>2, <1>3, <1>4, <1>5, <1>6, <1>7 DEF Next, Completes

-----------------------------------------------------------------------------
(* What a handler that is not a write's, the socket's reads and the clock  *)
(* leave: the writes in flight and those with their handler to come.       *)
WritesKept == UNCHANGED <<writing, WritesReady>>

(* Handlers other than those of writes leave their number alone.           *)
LEMMA OtherHandlers ==
  ASSUME TypeOK, NEW op, Runs(op), op # "write"
  PROVE  UNCHANGED WritesReady
BY RunDrops DEF Dropped, OneMore

(* The steps of the others leave the queue as well.                        *)
LEMMA QueueKept ==
  ASSUME TypeOK, Next,
         ~(\E ok \in BOOLEAN : WriteCompletes(ok)), ~(WriteFails \/ WriteDone), ~(\E m : Pushes(m))
  PROVE  WritesKept /\ UNCHANGED <<write_queue_, pushed>> /\ (stopped_ => stopped_')
<1> USE DEF sessionVars, socketVars, countVars, WritesKept
<1>1. CASE deliver
  BY <1>1, DeliverAdds DEF deliver, Added, OneMore
<1>2. CASE TimePasses
  BY <1>2 DEF TimePasses, WritesReady
<1>3. ASSUME NEW ok \in BOOLEAN, ReadCompletes(ok)
      PROVE  WritesKept /\ UNCHANGED <<write_queue_, pushed>> /\ (stopped_ => stopped_')
  BY <1>3, ReadAdds DEF ReadCompletes, Added, OneMore
<1>4. CASE TimerCompletes
  BY <1>4, TimerAdds DEF TimerCompletes, Added, OneMore
<1>5. CASE ReadFails \/ HeaderRefused \/ HeaderRead \/ Quit
  <2>1. UNCHANGED WritesReady
    BY <1>5, OtherHandlers DEF ReadFails, HeaderRefused, HeaderRead, Quit, PayloadRead
  <2>2. UNCHANGED <<writing, write_queue_, pushed>>
    BY <1>5 DEF ReadFails, HeaderRefused, HeaderRead, Quit
  <2>3. stopped_ => stopped_'
    BY <1>5 DEF ReadFails, HeaderRefused, HeaderRead, Quit, close_session
  <2>4. QED
    BY <2>1, <2>2, <2>3
<1>6. CASE TimerIgnored \/ schedule_idle_check
  BY <1>6, OtherHandlers DEF TimerIgnored, schedule_idle_check
<1>7. CASE (RunDeliver \/ Answered \/ notify_idle_timeout_and_close) /\ Quiet
  BY <1>7, OtherHandlers
     DEF RunDeliver, Answered, PayloadRead, notify_idle_timeout_and_close, Quiet
<1>8. QED
  BY <1>1, <1>2, <1>3, <1>4, <1>5, <1>6, <1>7, PushedOrNot DEF Next, Completes, Run

(* A push is a handler of something else than a write.                     *)
LEMMA PushKeeps ==
  ASSUME TypeOK, NEW m, Pushes(m)
  PROVE  UNCHANGED WritesReady /\ UNCHANGED <<stopped_, sent>>
BY OtherHandlers
   DEF Pushes, RunDeliver, Answered, PayloadRead, notify_idle_timeout_and_close, sessionVars

(* One write at a time, of the front of the queue.                         *)
LEMMA WriteStep ==
  ASSUME TypeOK, WriteInv, PushInv, Next
  PROVE  WriteInv'
<1>t. /\ Counted /\ WritesReady \in Nat
      /\ writing \in Seq(Queueable) /\ Len(writing) \in Nat
      /\ write_queue_ \in Seq(Queueable) /\ Len(write_queue_) \in Nat
  BY HandlersCounted, LenProperties DEF TypeOK, Counted
<1>e. writing = <<>> <=> Len(writing) = 0
  BY <1>t, EmptySeq
<1>1. ASSUME NEW ok \in BOOLEAN, WriteCompletes(ok) PROVE WriteInv'
  <2>1. /\ Len(writing') = Len(writing) - 1 /\ writing' \in Seq(Queueable)
        /\ UNCHANGED <<stopped_, write_queue_>>
    BY <1>1, <1>t, HeadTailProperties DEF WriteCompletes, sessionVars
  <2>2. WritesReady' = WritesReady + 1
    BY <1>1, WriteAdds DEF Added, OneMore
  <2>3. Len(writing) = 1 /\ WritesReady = 0 /\ write_queue_ # <<>>
    <3>1. writing # <<>>
      BY <1>1 DEF WriteCompletes
    <3>2. Len(writing) + WritesReady <= 1 /\ write_queue_ # <<>>
      BY <3>1 DEF WriteInv
    <3>3. Len(writing) # 0
      BY <1>e, <3>1
    <3>4. \A a, b \in Nat : a + b <= 1 /\ a # 0 => a = 1 /\ b = 0
      OBVIOUS
    <3>5. QED
      BY <1>t, <3>2, <3>3, <3>4
  <2>4. writing' = <<>>
    BY <2>1, <2>3, EmptySeq
  <2>5. QED
    BY <2>1, <2>2, <2>3, <2>4 DEF WriteInv
<1>2. ASSUME NEW m, Pushes(m) PROVE WriteInv'
  <2>1. m \in Queueable /\ Push(m) /\ ~stopped_ /\ UNCHANGED <<stopped_, WritesReady>>
    BY <1>2, PushTyped, PushKeeps
  <2>2. /\ Len(Append(write_queue_, m)) = Len(write_queue_) + 1
        /\ Append(write_queue_, m) # <<>>
        /\ write_queue_ # <<>> => Head(Append(write_queue_, m)) = Head(write_queue_)
        /\ write_queue_ = <<>> => Head(Append(write_queue_, m)) = m
    BY <1>t, <2>1, AppendProperties, HeadTailProperties, EmptySeq, LenProperties
  <2>3. writing = <<>> => Len(Append(writing, m)) = 1 /\ Head(Append(writing, m)) = m
    BY <1>t, <2>1, AppendProperties, HeadTailProperties, EmptySeq, LenProperties
  <2>4. CASE write_queue_ = <<>>
    <3>1. writing = <<>> /\ WritesReady = 0
      BY <1>t, <1>e, <2>1, <2>4 DEF WriteInv
    <3>2. writing' = Append(writing, m) /\ write_queue_' = Append(write_queue_, m)
      BY <2>1, <2>4 DEF Push
    <3>3. QED
      BY <2>1, <2>2, <2>3, <2>4, <3>1, <3>2 DEF WriteInv
  <2>5. CASE write_queue_ # <<>>
    <3>1. UNCHANGED writing /\ write_queue_' = Append(write_queue_, m)
      BY <2>1, <2>5 DEF Push
    <3>2. QED
      BY <2>1, <2>2, <2>5, <3>1 DEF WriteInv
  <2>6. QED
    BY <2>4, <2>5
<1>3. ASSUME Runs("write")
      PROVE  WritesReady = 1 /\ WritesReady' = 0 /\ writing = <<>> /\ write_queue_ # <<>>
  <2>1. WritesReady = WritesReady' + 1 /\ WritesReady' \in Nat
    BY <1>3, RunDrops DEF Dropped, OneMore, Counted
  <2>2. Len(writing) + WritesReady <= 1
    BY DEF WriteInv
  <2>3. WritesReady = 1 /\ WritesReady' = 0 /\ Len(writing) = 0
    <3>1. \A a, b, c \in Nat : a + b <= 1 /\ b = c + 1 => b = 1 /\ c = 0 /\ a = 0
      OBVIOUS
    <3>2. QED
      BY <1>t, <2>1, <2>2, <3>1
  <2>4. WritesReady > 0
    BY <2>3
  <2>5. QED
    BY <1>e, <2>3, <2>4 DEF WriteInv
<1>4. CASE WriteFails
  <2>1. stopped_' = TRUE /\ UNCHANGED <<writing, write_queue_>>
    BY <1>4 DEF WriteFails, close_session, socketVars
  <2>2. WritesReady' = 0 /\ writing = <<>>
    BY <1>3, <1>4 DEF WriteFails
  <2>3. QED
    BY <1>e, <2>1, <2>2 DEF WriteInv
<1>5. CASE WriteDone
  <2>1. WritesReady' = 0 /\ writing = <<>> /\ write_queue_ # <<>>
    BY <1>3, <1>5 DEF WriteDone
  <2>2. Tail(write_queue_) # <<>> =>
          /\ Head(Tail(write_queue_)) = write_queue_[2]
          /\ Len(Append(writing, write_queue_[2])) = 1
          /\ Head(Append(writing, write_queue_[2])) = write_queue_[2]
          /\ Append(writing, write_queue_[2]) # <<>>
    <3> SUFFICES ASSUME Tail(write_queue_) # <<>>
                 PROVE  /\ Head(Tail(write_queue_)) = write_queue_[2]
                        /\ Len(Append(writing, write_queue_[2])) = 1
                        /\ Head(Append(writing, write_queue_[2])) = write_queue_[2]
                        /\ Append(writing, write_queue_[2]) # <<>>
      OBVIOUS
    <3>1. Tail(write_queue_) \in Seq(Queueable) /\ Len(Tail(write_queue_)) \in Nat \ {0}
      BY <1>t, <2>1, HeadTailProperties, EmptySeq, LenProperties
    <3>2. /\ Head(Tail(write_queue_)) = Tail(write_queue_)[1]
          /\ Tail(write_queue_)[1] = write_queue_[2] /\ write_queue_[2] \in Queueable
      BY <1>t, <2>1, <3>1, HeadTailProperties, LenProperties
    <3>3. QED
      BY <1>t, <2>1, <3>2, AppendProperties, HeadTailProperties, EmptySeq, LenProperties
  <2>3. write_queue_' = Tail(write_queue_)
    BY <1>5 DEF WriteDone
  <2>4. CASE stopped_'
    <3>1. \/ writing' = writing
          \/ Tail(write_queue_) # <<>> /\ writing' = Append(writing, write_queue_[2])
      BY <1>5 DEF WriteDone
    <3>2. CASE writing' = writing
      BY <1>e, <2>1, <2>4, <3>2 DEF WriteInv
    <3>3. CASE Tail(write_queue_) # <<>> /\ writing' = Append(writing, write_queue_[2])
      <4>1. /\ Len(writing') = 1 /\ write_queue_' # <<>>
            /\ Head(writing') = Head(write_queue_')
        BY <2>2, <2>3, <3>3
      <4>2. QED
        BY <2>1, <2>4, <4>1 DEF WriteInv
    <3>4. QED
      BY <3>1, <3>2, <3>3
  <2>5. CASE ~stopped_'
    <3>1. writing' = IF Tail(write_queue_) # <<>> THEN Append(writing, write_queue_[2]) ELSE writing
      <4>1. stopped_' # TRUE
        BY <2>5
      <4>2. UNCHANGED stopped_ /\ ~(closing_after_write_ /\ Tail(write_queue_) = <<>>)
        BY <1>5, <4>1 DEF WriteDone, close_session, sessionVars
      <4>3. QED
        BY <1>5, <2>5, <4>2 DEF WriteDone
    <3>2. QED
      BY <1>e, <2>1, <2>2, <2>3, <2>5, <3>1 DEF WriteInv
  <2>6. QED
    BY <2>4, <2>5
<1>6. CASE /\ ~(\E ok \in BOOLEAN : WriteCompletes(ok)) /\ ~(WriteFails \/ WriteDone)
           /\ ~(\E m : Pushes(m))
  BY <1>6, QueueKept DEF WritesKept, WriteInv
<1>7. QED
  BY <1>1, <1>2, <1>4, <1>5, <1>6

-----------------------------------------------------------------------------
(* A handler that is not that of a write done leaves Written as it was, on *)
(* its way in ...                                                          *)
LEMMA OtherAdded ==
  ASSUME NEW h, Added(h), ~(h.op = "write" /\ h.ok)
  PROVE  Written' <=> Written
BY DEF Added, Written

(* ... and on its way out.                                                 *)
LEMMA OtherDropped ==
  ASSUME TypeOK, NEW op, Runs(op), op # "write"
  PROVE  Written' <=> Written
<1>1. /\ Range(strand_) = Range(strand_') \cup {Head(strand_)}
      /\ Head(strand_).op # "write"
  BY RunDrops DEF Dropped
<1>2. QED
  BY <1>1 DEF Written

(* The steps that touch neither the queue nor the writes.                  *)
LEMMA SentKept ==
  ASSUME TypeOK, Next,
         ~(\E ok \in BOOLEAN : WriteCompletes(ok)), ~(WriteFails \/ WriteDone), ~(\E m : Pushes(m))
  PROVE  UNCHANGED sent /\ (Written' <=> Written)
<1> USE DEF socketVars
<1>1. CASE deliver
  BY <1>1, DeliverAdds, OtherAdded DEF deliver
<1>2. CASE TimePasses
  BY <1>2 DEF TimePasses, Written
<1>3. ASSUME NEW ok \in BOOLEAN, ReadCompletes(ok)
      PROVE  UNCHANGED sent /\ (Written' <=> Written)
  <2>1. Written' <=> Written
    BY <1>3, ReadAdds, OtherAdded
  <2>2. QED
    BY <1>3, <2>1 DEF ReadCompletes
<1>4. CASE TimerCompletes
  BY <1>4, TimerAdds, OtherAdded DEF TimerCompletes
<1>5. CASE ReadFails \/ HeaderRefused \/ HeaderRead \/ Quit
  BY <1>5, OtherDropped DEF ReadFails, HeaderRefused, HeaderRead, Quit, PayloadRead
<1>6. CASE TimerIgnored \/ schedule_idle_check
  BY <1>6, OtherDropped DEF TimerIgnored, schedule_idle_check
<1>7. CASE RunDeliver \/ Answered \/ notify_idle_timeout_and_close
  BY <1>7, OtherDropped DEF RunDeliver, Answered, PayloadRead, notify_idle_timeout_and_close
<1>8. QED
  BY <1>1, <1>2, <1>3, <1>4, <1>5, <1>6, <1>7 DEF Next, Completes, Run

(* What is sent keeps to what was pushed.                                  *)
LEMMA SentStep ==
  ASSUME TypeOK, WriteInv, SentInv, PushInv, Next
  PROVE  SentInv'
<1>t. /\ strand_ \in Seq(Handler) /\ strand_' \in Seq(Handler)
      /\ WritesReady \in Nat /\ Len(writing) \in Nat
      /\ sent \in Seq(Queueable) /\ pushed \in Seq(Queueable)
      /\ write_queue_ \in Seq(Queueable) /\ writing \in Seq(Queueable)
      /\ Len(sent) \in Nat /\ Len(pushed) \in Nat /\ Len(write_queue_) \in Nat
  BY HandlersCounted, LenProperties, TypeStep DEF TypeOK, Counted
<1>1. ASSUME UNCHANGED <<sent, pushed>>, \E n \in Nat : Popped(n)'
      PROVE  SentInv'
  BY <1>1 DEF SentInv
<1>2. ASSUME NEW ok \in BOOLEAN, WriteCompletes(ok) PROVE SentInv'
  <2>1. Added([op |-> "write", ok |-> ok])
    BY <1>2, WriteAdds
  <2>2. UNCHANGED <<pushed, write_queue_, stopped_>>
    BY <1>2 DEF WriteCompletes, sessionVars
  <2>3. CASE ~ok
    <3>1. UNCHANGED sent /\ (Written' <=> Written)
      BY <1>2, <2>1, <2>3, OtherAdded DEF WriteCompletes
    <3>2. ASSUME NEW n \in Nat, Popped(n) PROVE Popped(n)'
      BY <2>2, <3>1, <3>2 DEF Popped
    <3>3. QED
      BY <1>1, <2>2, <3>1, <3>2 DEF SentInv
  <2>4. CASE ok
    <3>1. Written'
      BY <2>1, <2>4 DEF Added, Written
    <3>2. ~Written
      <4>1. writing # <<>> /\ Len(writing) + WritesReady <= 1
        BY <1>2 DEF WriteCompletes, WriteInv
      <4>2. Len(writing) # 0
        BY <1>t, <4>1, EmptySeq
      <4>3. \A a, b \in Nat : a + b <= 1 /\ a # 0 => ~(b > 0)
        OBVIOUS
      <4>4. ~(WritesReady > 0)
        BY <1>t, <4>1, <4>2, <4>3
      <4>5. QED
        BY <1>t, <4>4, WrittenCounted
    <3>3. sent' = Append(sent, Head(writing))
      BY <1>2, <2>4 DEF WriteCompletes
    <3>4. write_queue_ # <<>> /\ Head(writing) = write_queue_[1] /\ Head(writing) \in Queueable
      BY <1>2, <1>t, HeadTailProperties DEF WriteCompletes, WriteInv
    <3>5. Len(write_queue_) >= 1
      BY <1>t, <3>4, EmptySeq
    <3>6. /\ Len(sent') = Len(sent) + 1 /\ sent'[Len(sent) + 1] = Head(writing)
          /\ \A i \in 1..Len(sent) : sent'[i] = sent[i]
      BY <1>t, <3>3, <3>4, AppendProperties
    <3>7. PICK n \in Nat : Popped(n)
      BY DEF SentInv
    <3>8. /\ Len(sent) = n /\ Len(pushed) = n + Len(write_queue_)
          /\ \A i \in 1..Len(write_queue_) : write_queue_[i] = pushed[n + i]
      BY <3>2, <3>7 DEF Popped
    <3>9. Popped(n)'
      BY <2>2, <3>1, <3>6, <3>8 DEF Popped
    <3>10. pushed[n + 1] = Head(writing) /\ Len(sent') <= Len(pushed)
      BY <1>t, <3>4, <3>5, <3>6, <3>8
    <3>11. \A i \in 1..Len(sent') : sent'[i] = pushed[i]
      <4> SUFFICES ASSUME NEW i \in 1..Len(sent') PROVE sent'[i] = pushed[i]
        OBVIOUS
      <4>1. CASE i = n + 1
        BY <3>6, <3>8, <3>10, <4>1
      <4>2. CASE i # n + 1
        <5>1. i \in 1..Len(sent)
          BY <1>t, <3>6, <3>8, <4>2
        <5>2. QED
          BY <3>6, <5>1 DEF SentInv
      <4>3. QED
        BY <4>1, <4>2
    <3>12. QED
      BY <2>2, <3>9, <3>10, <3>11 DEF SentInv
  <2>5. QED
    BY <2>3, <2>4
<1>3. ASSUME NEW m, Pushes(m) PROVE SentInv'
  <2>1. m \in Queueable /\ Push(m) /\ ~stopped_ /\ UNCHANGED <<stopped_, sent>>
    BY <1>3, PushTyped, PushKeeps
  <2>2. Written' <=> Written
    BY <1>3, OtherDropped
       DEF Pushes, RunDeliver, Answered, PayloadRead, notify_idle_timeout_and_close
  <2>3. /\ Len(write_queue_') = Len(write_queue_) + 1 /\ Len(pushed') = Len(pushed) + 1
        /\ \A i \in 1..Len(write_queue_) : write_queue_'[i] = write_queue_[i]
        /\ \A i \in 1..Len(pushed) : pushed'[i] = pushed[i]
        /\ write_queue_'[Len(write_queue_) + 1] = pushed'[Len(pushed) + 1]
    BY <2>1, PushAdds
  <2>4. PICK n \in Nat : Popped(n)
    BY <2>1 DEF SentInv
  <2>5. Popped(n)'
    <3>1. IF Written' THEN Len(sent') = n + 1 ELSE Len(sent') = n
      BY <2>1, <2>2, <2>4 DEF Popped
    <3>2. Len(pushed') = n + Len(write_queue_')
      BY <1>t, <2>3, <2>4 DEF Popped
    <3>3. ASSUME NEW i \in 1..Len(write_queue_') PROVE write_queue_'[i] = pushed'[n + i]
      <4>1. CASE i = Len(write_queue_) + 1
        BY <1>t, <2>3, <2>4, <4>1 DEF Popped
      <4>2. CASE i # Len(write_queue_) + 1
        <5>1. i \in 1..Len(write_queue_) /\ n + i \in 1..Len(pushed)
          <6>1. Len(pushed) = n + Len(write_queue_)
            BY <2>4 DEF Popped
          <6>2. i \in 1..Len(write_queue_)
            BY <1>t, <2>3, <3>3, <4>2
          <6>3. QED
            BY <1>t, <6>1, <6>2
        <5>2. QED
          BY <2>3, <2>4, <5>1 DEF Popped
      <4>3. QED
        BY <4>1, <4>2
    <3>4. QED
      BY <3>1, <3>2, <3>3 DEF Popped
  <2>6. Len(sent') <= Len(pushed') /\ \A i \in 1..Len(sent') : sent'[i] = pushed'[i]
    <3>1. /\ sent' = sent /\ Len(sent) \in Nat /\ Len(pushed) \in Nat
          /\ Len(sent) <= Len(pushed) /\ \A i \in 1..Len(sent) : sent[i] = pushed[i]
      BY <1>t, <2>1 DEF SentInv
    <3>2. \A i \in 1..Len(sent) : i \in 1..Len(pushed)
      BY <3>1
    <3>3. Len(sent') <= Len(pushed')
      BY <2>3, <3>1
    <3>4. \A i \in 1..Len(sent') : sent'[i] = pushed'[i]
      BY <2>3, <3>1, <3>2
    <3>5. QED
      BY <3>3, <3>4
  <2>7. QED
    BY <2>5, <2>6 DEF SentInv
<1>4. CASE WriteFails
  <2>1. UNCHANGED <<sent, pushed, write_queue_>>
    BY <1>4 DEF WriteFails, socketVars
  <2>2. Written' <=> Written
    BY <1>4, RunDrops DEF WriteFails, Ok, Dropped, Written
  <2>3. ASSUME NEW n \in Nat, Popped(n) PROVE Popped(n)'
    BY <2>1, <2>2, <2>3 DEF Popped
  <2>4. QED
    BY <1>1, <2>1, <2>3 DEF SentInv
<1>5. CASE WriteDone
  <2>1. UNCHANGED <<sent, pushed>> /\ write_queue_' = Tail(write_queue_)
    BY <1>5 DEF WriteDone
  <2>2. \E n \in Nat : Popped(n)'
    <3>2. /\ Dropped(Head(strand_)) /\ Head(strand_).op = "write" /\ Head(strand_).ok
      BY <1>5, RunDrops DEF WriteDone, Ok
    <3>3. Written
      BY <3>2 DEF Dropped, Written
    <3>4. WritesReady = WritesReady' + 1 /\ WritesReady' \in Nat
      BY <3>2 DEF Dropped, OneMore, Counted
    <3>5. ~(WritesReady' > 0) /\ write_queue_ # <<>>
      <4>1. Len(writing) + WritesReady <= 1
        BY DEF WriteInv
      <4>2. \A a, b, c \in Nat : a + b <= 1 /\ b = c + 1 => ~(c > 0) /\ b > 0
        OBVIOUS
      <4>3. ~(WritesReady' > 0) /\ WritesReady > 0
        BY <1>t, <3>4, <4>1, <4>2
      <4>4. QED
        BY <4>3 DEF WriteInv
    <3>6. ~Written'
      <4>1. strand_' \in Seq(Handler) /\ Written' => WritesReady' > 0
        <5>1. (strand_ \in Seq(Handler) /\ Written => WritesReady > 0)'
          BY WrittenCounted, PTL
        <5>2. QED
          BY <5>1
      <4>2. QED
        BY <1>t, <3>5, <4>1
    <3>7. PICK n \in Nat : Popped(n)
      BY DEF SentInv
    <3>8. /\ Len(sent) = n + 1 /\ Len(pushed) = n + Len(write_queue_)
          /\ \A i \in 1..Len(write_queue_) : write_queue_[i] = pushed[n + i]
      BY <3>3, <3>7 DEF Popped
    <3>9. /\ Len(Tail(write_queue_)) = Len(write_queue_) - 1 /\ Len(write_queue_) # 0
          /\ \A i \in 1..(Len(write_queue_) - 1) : Tail(write_queue_)[i] = write_queue_[i + 1]
      BY <1>t, <3>5, HeadTailProperties, EmptySeq
    <3>10. \A i \in 1..(Len(write_queue_) - 1) :
             i + 1 \in 1..Len(write_queue_) /\ n + (i + 1) = (n + 1) + i
      BY <1>t
    <3>11. Len(pushed) = (n + 1) + (Len(write_queue_) - 1)
      BY <1>t, <3>8
    <3>12. Popped(n + 1)'
      BY <2>1, <3>6, <3>8, <3>9, <3>10, <3>11 DEF Popped
    <3>13. QED
      BY <3>12
  <2>3. QED
    BY <1>1, <2>1, <2>2
<1>6. CASE /\ ~(\E ok \in BOOLEAN : WriteCompletes(ok)) /\ ~(WriteFails \/ WriteDone)
           /\ ~(\E m : Pushes(m))
  <2>1. UNCHANGED <<sent, pushed, write_queue_>> /\ (Written' <=> Written) /\ (stopped_ => stopped_')
    BY <1>6, SentKept, QueueKept
  <2>2. ASSUME NEW n \in Nat, Popped(n) PROVE Popped(n)'
    BY <2>1, <2>2 DEF Popped
  <2>3. QED
    BY <2>1, <2>2 DEF SentInv
<1>7. QED
  BY <1>2, <1>3, <1>4, <1>5, <1>6

-----------------------------------------------------------------------------
(* The steps of neither the timer nor a close leave the timer's handler,   *)
(* and drop nothing from what was pushed.                                  *)
TimerKept ==
  /\ UNCHANGED <<stopped_, closing_after_write_, timer>> /\ TimersReady' = TimersReady
  /\ \A h \in Range(strand_') : h.op = "timer" => h \in Range(strand_)
  /\ Range(pushed) \subseteq Range(pushed')

(* A handler that is not the timer's comes in ...                          *)
LEMMA TimerNotAdded ==
  ASSUME NEW h, Added(h), h.op # "timer"
  PROVE  /\ TimersReady' = TimersReady
         /\ \A g \in Range(strand_') : g.op = "timer" => g \in Range(strand_)
BY DEF Added, OneMore

(* ... or runs.                                                            *)
LEMMA TimerNotDropped ==
  ASSUME TypeOK, NEW op, Runs(op), op # "timer"
  PROVE  /\ TimersReady' = TimersReady
         /\ \A g \in Range(strand_') : g.op = "timer" => g \in Range(strand_)
<1>1. /\ Range(strand_) = Range(strand_') \cup {Head(strand_)}
      /\ TimersReady' = TimersReady
  BY RunDrops DEF Dropped, OneMore
<1>2. QED
  BY <1>1

(* The timer of an open session.                                           *)
LEMMA TimerStep ==
  ASSUME TypeOK, TimerInv, WriteInv, PushInv, Next
  PROVE  TimerInv'
<1> USE DEF sessionVars, socketVars
<1>t. /\ Counted /\ TimersReady \in Nat /\ TimersSet \in Nat
      /\ timer \in {"none", "armed", "cancelled"}
  BY HandlersCounted DEF TypeOK, Counted, TimersSet
<1>1. ASSUME TimerKept PROVE TimerInv'
  BY <1>1 DEF TimerKept, TimerInv, TimersSet
<1>2. ASSUME NEW by, close_session(by), UNCHANGED pushed PROVE TimerInv'
  <2>1. stopped_' = TRUE
    BY <1>2 DEF close_session
  <2>2. ~closing_after_write_'
    BY <1>2 DEF close_session, TimerInv
  <2>3. QED
    BY <2>1, <2>2 DEF TimerInv
<1>3. CASE deliver
  BY <1>1, <1>3, DeliverAdds, TimerNotAdded DEF deliver, TimerKept
<1>4. CASE TimePasses
  BY <1>1, <1>4 DEF TimePasses, TimerKept, TimersReady
<1>5. ASSUME NEW ok \in BOOLEAN, ReadCompletes(ok) \/ WriteCompletes(ok) PROVE TimerInv'
  <2>1. CASE ReadCompletes(ok)
    BY <1>1, <2>1, ReadAdds, TimerNotAdded DEF ReadCompletes, TimerKept
  <2>2. CASE WriteCompletes(ok)
    BY <1>1, <2>2, WriteAdds, TimerNotAdded DEF WriteCompletes, TimerKept
  <2>3. QED
    BY <1>5, <2>1, <2>2
<1>6. CASE TimerCompletes
  <2> DEFINE h == [op |-> "timer", ok |-> timer = "armed"]
  <2>1. /\ TimersReady' = TimersReady + 1 /\ Range(strand_') = Range(strand_) \cup {h}
        /\ UNCHANGED <<stopped_, closing_after_write_, pushed>> /\ timer' = "none" /\ timer # "none"
    BY <1>6, TimerAdds DEF TimerCompletes, Added, OneMore
  <2>2. TimersSet = 1 /\ TimersSet' = 0
    BY <2>1 DEF TimersSet
  <2>3. ~stopped_ => h.ok
    BY <1>t, <2>1 DEF TimerInv
  <2>4. TimersSet' + TimersReady' = TimersSet + TimersReady
    BY <1>t, <2>1, <2>2
  <2> HIDE DEF h
  <2>5. QED
    BY <2>1, <2>3, <2>4 DEF TimerInv
<1>7. CASE ReadFails \/ HeaderRefused \/ Quit \/ WriteFails
  BY <1>2, <1>7 DEF ReadFails, HeaderRefused, Quit, WriteFails
<1>8. CASE WriteDone
  <2>1. \/ close_session("writer") /\ UNCHANGED pushed
        \/ UNCHANGED <<stopped_, closing_after_write_, timer, pushed>>
    BY <1>8 DEF WriteDone
  <2>2. /\ TimersReady' = TimersReady
        /\ \A g \in Range(strand_') : g.op = "timer" => g \in Range(strand_)
    BY <1>8, TimerNotDropped DEF WriteDone
  <2>3. QED
    BY <1>1, <1>2, <2>1, <2>2 DEF TimerKept
<1>9. CASE HeaderRead
  BY <1>1, <1>9, TimerNotDropped DEF HeaderRead, TimerKept
<1>10. ASSUME NEW m, Pushes(m) PROVE Range(pushed') = Range(pushed) \cup {m}
  BY <1>10, PushTyped, PushAdds
<1>11. CASE RunDeliver \/ Answered
  <2>1. UNCHANGED <<stopped_, closing_after_write_, timer>>
    BY <1>11 DEF RunDeliver, Answered
  <2>2. Range(pushed) \subseteq Range(pushed')
    BY <1>10, <1>11, PushedOrNot DEF Quiet
  <2>3. /\ TimersReady' = TimersReady
        /\ \A g \in Range(strand_') : g.op = "timer" => g \in Range(strand_)
    BY <1>11, TimerNotDropped DEF RunDeliver, Answered, PayloadRead
  <2>4. QED
    BY <1>1, <2>1, <2>2, <2>3 DEF TimerKept
<1>12. ASSUME Runs("timer")
       PROVE  /\ TimersReady = TimersReady' + 1 /\ TimersReady' \in Nat
              /\ Range(strand_) = Range(strand_') \cup {Head(strand_)}
              /\ Head(strand_).op = "timer"
  BY <1>12, RunDrops DEF Dropped, OneMore, Counted
<1>13. CASE TimerIgnored
  <2>1. stopped_
    BY <1>12, <1>13 DEF TimerIgnored, Ok, TimerInv
  <2>2. QED
    BY <1>13, <2>1 DEF TimerIgnored, TimerInv
<1>14. CASE schedule_idle_check
  <2>1. /\ ~stopped_ /\ timer' = "armed"
        /\ UNCHANGED <<stopped_, closing_after_write_, pushed>>
    BY <1>14 DEF schedule_idle_check
  <2>2. TimersSet' = 1
    BY <2>1 DEF TimersSet
  <2>3. closing_after_write_ \/ TimersReady' = 0
    <3>1. \A a, b, c \in Nat : a + b = 1 /\ b = c + 1 => c = 0
      OBVIOUS
    <3>2. closing_after_write_ \/ TimersSet + TimersReady = 1
      BY <2>1 DEF TimerInv
    <3>3. TimersReady = TimersReady' + 1 /\ TimersReady' \in Nat
      BY <1>12, <1>14 DEF schedule_idle_check
    <3>4. QED
      BY <1>t, <3>1, <3>2, <3>3
  <2>4. \A g \in Range(strand_') : g.op = "timer" => g.ok
    BY <1>12, <1>14, <2>1 DEF schedule_idle_check, TimerInv
  <2>5. QED
    BY <2>1, <2>2, <2>3, <2>4 DEF TimerInv
<1>15. CASE notify_idle_timeout_and_close
  <2>1. ~stopped_ /\ UNCHANGED <<stopped_, timer>>
    BY <1>15 DEF notify_idle_timeout_and_close
  <2>2. closing_after_write_' /\ Notice \in Range(pushed')
    <3>1. CASE closing_after_write_ /\ UNCHANGED <<closing_after_write_, pushed>>
      BY <3>1 DEF TimerInv
    <3>2. CASE ~closing_after_write_ /\ closing_after_write_' = TRUE
      BY <1>10, <1>15, <3>2 DEF Pushes
    <3>3. QED
      BY <1>15, <3>1, <3>2 DEF notify_idle_timeout_and_close
  <2>3. \A g \in Range(strand_') : g.op = "timer" => g.ok
    BY <1>12, <1>15, <2>1 DEF notify_idle_timeout_and_close, TimerInv
  <2>4. QED
    BY <2>1, <2>2, <2>3 DEF TimerInv
<1>16. QED
  BY <1>3, <1>4, <1>5, <1>6, <1>7, <1>8, <1>9, <1>11, <1>13, <1>14, <1>15 DEF Next, Completes, Run

-----------------------------------------------------------------------------
(* Running a handler leaves no more of them to come.                       *)
LEMMA RunsOneLess ==
  ASSUME TypeOK, NEW op, Runs(op)
  PROVE  DeliversReady' <= DeliversReady /\ PayloadsReady' <= PayloadsReady
<1>1. /\ OneMore(DeliversReady, DeliversReady', Head(strand_).op = "deliver")
      /\ OneMore(PayloadsReady, PayloadsReady', Head(strand_) \in Payloads)
      /\ DeliversReady' \in Nat /\ PayloadsReady' \in Nat
  BY RunDrops DEF Dropped, Counted
<1>2. \A a, b \in Nat : OneMore(a, b, TRUE) \/ OneMore(a, b, FALSE) => b <= a
  BY DEF OneMore
<1>3. \A a, b, c : OneMore(a, b, c) => OneMore(a, b, TRUE) \/ OneMore(a, b, FALSE)
  BY DEF OneMore
<1>4. DeliversReady \in Nat /\ PayloadsReady \in Nat
  BY HandlersCounted DEF Counted, TypeOK
<1>5. QED
  BY <1>1, <1>2, <1>3, <1>4

(* Whose message was pushed.                                               *)
LEMMA PushStep ==
  ASSUME TypeOK, WriteInv, PushInv, Next
  PROVE  PushInv'
<1> USE DEF sessionVars, socketVars, countVars
<1>t. /\ Counted /\ DeliversReady \in Nat /\ PayloadsReady \in Nat /\ Notices \in Nat
      /\ msgs \in Nat /\ frames \in Nat /\ Len(pushed) \in Nat
  BY HandlersCounted, LenProperties DEF TypeOK, Counted, Notices
<1>n. DeliversReady' \in Nat /\ PayloadsReady' \in Nat
  <2>1. strand_' \in Seq(Handler)
    BY TypeStep DEF TypeOK
  <2>2. QED
    BY <2>1, HandlersCountedNext DEF Counted
<1>1. ASSUME UNCHANGED <<stopped_, Notices, pushed, msgs, frames>>,
             DeliversReady' <= DeliversReady, PayloadsReady' <= PayloadsReady
      PROVE  PushInv'
  <2>1. \A a, d, p, e, q, b \in Nat : a + d + p <= b /\ e <= d /\ q <= p => a + e + q <= b
    OBVIOUS
  <2>2. \A p, q \in Nat : q > 0 /\ q <= p => p > 0
    OBVIOUS
  <2>3. PayloadsReady' > 0 => frames > 0
    BY <1>t, <1>n, <1>1, <2>2 DEF PushInv
  <2>4. msgs + frames + Notices \in Nat
    BY <1>t
  <2>5. ~stopped_ => Len(pushed) + DeliversReady' + PayloadsReady' <= msgs + frames + Notices
    BY <1>t, <1>n, <1>1, <2>1, <2>4 DEF PushInv
  <2>6. QED
    BY <1>1, <2>3, <2>5 DEF PushInv
<1>2. ASSUME stopped_', UNCHANGED frames, PayloadsReady' <= PayloadsReady PROVE PushInv'
  <2>1. \A p, q \in Nat : q > 0 /\ q <= p => p > 0
    OBVIOUS
  <2>2. QED
    BY <1>t, <1>n, <1>2, <2>1 DEF PushInv
<1>3. CASE deliver
  <2>1. /\ DeliversReady' = DeliversReady + 1 /\ PayloadsReady' = PayloadsReady
        /\ msgs' = msgs + 1 /\ UNCHANGED <<stopped_, closing_after_write_, pushed, frames>>
    BY <1>3, DeliverAdds DEF deliver, Added, OneMore, Payloads, Of
  <2>2. UNCHANGED Notices
    BY <2>1 DEF Notices
  <2>3. \A a, d, p, m, f, c \in Nat : a + d + p <= m + f + c => a + (d + 1) + p <= (m + 1) + f + c
    OBVIOUS
  <2>4. ~stopped_ => Len(pushed) + (DeliversReady + 1) + PayloadsReady <= (msgs + 1) + frames + Notices
    BY <1>t, <2>3 DEF PushInv
  <2>5. QED
    BY <2>1, <2>2, <2>4 DEF PushInv
<1>4. ASSUME NEW ok \in BOOLEAN, ReadCompletes(ok) PROVE PushInv'
  <2> DEFINE h == [op |-> "read", stage |-> Head(reading), ok |-> ok]
  <2>1. /\ DeliversReady' = DeliversReady
        /\ OneMore(PayloadsReady', PayloadsReady, h \in Payloads) /\ h \in Handler
        /\ UNCHANGED <<stopped_, closing_after_write_, pushed, msgs>>
    <3>1. h \in Handler
      BY <1>4, TailRange DEF ReadCompletes, TypeOK, Handler
    <3>2. QED
      BY <1>4, <3>1, ReadAdds DEF ReadCompletes, Added, OneMore
  <2>2. UNCHANGED Notices
    BY <2>1 DEF Notices
  <2>3. h \in Payloads <=> ok /\ Head(reading) = "body"
    BY <2>1 DEF Payloads, Of
  <2> HIDE DEF h
  <2>4. \/ PayloadsReady' = PayloadsReady + 1 /\ frames' = frames + 1
        \/ PayloadsReady' = PayloadsReady /\ frames' = frames
    BY <1>4, <2>1, <2>3 DEF ReadCompletes, OneMore
  <2>5. CASE PayloadsReady' = PayloadsReady + 1 /\ frames' = frames + 1
    <3>1. \A a, d, p, m, f, c \in Nat :
            /\ a + d + p <= m + f + c => a + d + (p + 1) <= m + (f + 1) + c
            /\ f + 1 > 0
      OBVIOUS
    <3>2. /\ ~stopped_ =>
               Len(pushed) + DeliversReady + (PayloadsReady + 1) <= msgs + (frames + 1) + Notices
          /\ frames + 1 > 0
      BY <1>t, <3>1 DEF PushInv
    <3>3. QED
      BY <2>1, <2>2, <2>5, <3>2 DEF PushInv
  <2>6. CASE PayloadsReady' = PayloadsReady /\ frames' = frames
    BY <2>1, <2>2, <2>6 DEF PushInv
  <2>7. QED
    BY <2>4, <2>5, <2>6
<1>5. ASSUME UNCHANGED <<stopped_, closing_after_write_, pushed, msgs, frames>>,
             DeliversReady' <= DeliversReady, PayloadsReady' <= PayloadsReady
      PROVE  PushInv'
  BY <1>1, <1>5 DEF Notices
<1>6. ASSUME UNCHANGED <<stopped_, closing_after_write_, pushed, msgs, frames>>,
             DeliversReady' = DeliversReady, PayloadsReady' = PayloadsReady
      PROVE  PushInv'
  <2>1. \A n \in Nat : n <= n
    OBVIOUS
  <2>2. QED
    BY <1>t, <1>5, <1>6, <2>1
<1>7. CASE TimePasses
  BY <1>6, <1>7 DEF TimePasses, DeliversReady, PayloadsReady
<1>8. ASSUME NEW ok \in BOOLEAN, WriteCompletes(ok) PROVE PushInv'
  <2>1. DeliversReady' = DeliversReady /\ PayloadsReady' = PayloadsReady
    BY <1>8, WriteAdds DEF Added, OneMore, Payloads, Of
  <2>2. QED
    BY <1>6, <1>8, <2>1 DEF WriteCompletes
<1>9. CASE TimerCompletes
  <2>1. DeliversReady' = DeliversReady /\ PayloadsReady' = PayloadsReady
    BY <1>9, TimerAdds DEF Added, OneMore, Payloads, Of
  <2>2. QED
    BY <1>6, <1>9, <2>1 DEF TimerCompletes
<1>10. CASE ReadFails \/ HeaderRefused \/ Quit \/ WriteFails
  BY <1>2, <1>10, RunsOneLess
     DEF ReadFails, HeaderRefused, Quit, PayloadRead, WriteFails, close_session
<1>11. CASE WriteDone
  <2>1. DeliversReady' <= DeliversReady /\ PayloadsReady' <= PayloadsReady
    BY <1>11, RunsOneLess DEF WriteDone
  <2>2. /\ UNCHANGED <<pushed, msgs, frames>>
        /\ UNCHANGED <<stopped_, closing_after_write_>> \/ stopped_'
    BY <1>11 DEF WriteDone, close_session
  <2>3. QED
    BY <1>2, <1>5, <2>1, <2>2
<1>12. CASE HeaderRead \/ TimerIgnored \/ schedule_idle_check
  <2>1. DeliversReady' <= DeliversReady /\ PayloadsReady' <= PayloadsReady
    BY <1>12, RunsOneLess DEF HeaderRead, TimerIgnored, schedule_idle_check
  <2>2. QED
    BY <1>5, <1>12, <2>1 DEF HeaderRead, TimerIgnored, schedule_idle_check
<1>13. CASE (RunDeliver \/ Answered \/ notify_idle_timeout_and_close) /\ Quiet
  <2>1. DeliversReady' <= DeliversReady /\ PayloadsReady' <= PayloadsReady
    BY <1>13, RunsOneLess DEF RunDeliver, Answered, PayloadRead, notify_idle_timeout_and_close
  <2>2. UNCHANGED <<stopped_, closing_after_write_, pushed, msgs, frames>>
    BY <1>13 DEF RunDeliver, Answered, notify_idle_timeout_and_close, Quiet, Push
  <2>3. QED
    BY <1>5, <2>1, <2>2
<1>14. ASSUME NEW m, Pushes(m) PROVE PushInv'
  <2>1. ~stopped_ /\ Len(pushed') = Len(pushed) + 1 /\ UNCHANGED <<stopped_, msgs, frames>>
    BY <1>14, PushTyped, PushAdds
       DEF Pushes, RunDeliver, Answered, notify_idle_timeout_and_close
  <2>2. DeliversReady' <= DeliversReady /\ PayloadsReady' <= PayloadsReady
    BY <1>14, RunsOneLess
       DEF Pushes, RunDeliver, Answered, PayloadRead, notify_idle_timeout_and_close
  <2>3. PayloadsReady' > 0 => frames' > 0
    <3>1. \A p, q \in Nat : q > 0 /\ q <= p => p > 0
      OBVIOUS
    <3>2. QED
      BY <1>t, <1>n, <2>1, <2>2, <3>1 DEF PushInv
  <2>4. Len(pushed) + DeliversReady + PayloadsReady <= msgs + frames + Notices
    BY <2>1 DEF PushInv
  <2>5. CASE RunDeliver
    <3>1. DeliversReady = DeliversReady' + 1 /\ UNCHANGED Notices
      BY <2>5, RunDrops DEF RunDeliver, Dropped, OneMore, Notices
    <3>2. \A a, d, e, p, q, b \in Nat :
            a + d + p <= b /\ d = e + 1 /\ q <= p => (a + 1) + e + q <= b
      OBVIOUS
    <3>3. msgs + frames + Notices \in Nat
      BY <1>t
    <3>4. (Len(pushed) + 1) + DeliversReady' + PayloadsReady' <= msgs + frames + Notices
      BY <1>t, <1>n, <2>2, <2>4, <3>1, <3>2, <3>3
    <3>5. QED
      BY <2>1, <2>3, <3>1, <3>4 DEF PushInv
  <2>6. CASE Answered
    <3>1. PayloadsReady = PayloadsReady' + 1 /\ UNCHANGED Notices
      BY <2>6, RunDrops DEF Answered, PayloadRead, Ok, Dropped, OneMore, Payloads, Of, Notices
    <3>2. \A a, d, e, p, q, b \in Nat :
            a + d + p <= b /\ p = q + 1 /\ e <= d => (a + 1) + e + q <= b
      OBVIOUS
    <3>3. msgs + frames + Notices \in Nat
      BY <1>t
    <3>4. (Len(pushed) + 1) + DeliversReady' + PayloadsReady' <= msgs + frames + Notices
      BY <1>t, <1>n, <2>2, <2>4, <3>1, <3>2, <3>3
    <3>5. QED
      BY <2>1, <2>3, <3>1, <3>4 DEF PushInv
  <2>7. CASE notify_idle_timeout_and_close /\ ~closing_after_write_
    <3>1. Notices = 0 /\ Notices' = 1
      BY <2>7 DEF notify_idle_timeout_and_close, Notices
    <3>2. \A a, d, e, p, q, b \in Nat :
            a + d + p <= b + 0 /\ q <= p /\ e <= d => (a + 1) + e + q <= b + 1
      OBVIOUS
    <3>3. msgs + frames \in Nat
      BY <1>t
    <3>4. (Len(pushed) + 1) + DeliversReady' + PayloadsReady' <= msgs + frames + 1
      BY <1>t, <1>n, <2>2, <2>4, <3>1, <3>2, <3>3
    <3>5. QED
      BY <2>1, <2>3, <3>1, <3>4 DEF PushInv
  <2>8. QED
    BY <1>14, <2>5, <2>6, <2>7 DEF Pushes
<1>15. QED
  BY <1>3, <1>4, <1>7, <1>8, <1>9, <1>10, <1>11, <1>12, <1>13, <1>14, PushedOrNot
     DEF Next, Completes, Run

-----------------------------------------------------------------------------
(* An operation's handlers by their places, and those the counters count.  *)
LEMMA PendingPlaces ==
  ASSUME TypeOK, NEW op
  PROVE  Pending(op) = Places(strand_, Of(op))
<1>1. \A i \in DOMAIN strand_ : strand_[i] \in Handler
  BY LenProperties DEF TypeOK
<1>2. QED
  BY <1>1 DEF Pending, Places, Of

(* start() leaves one read in flight and the timer armed.                  *)
LEMMA InitSession == Init => SessionIInv
<1> SUFFICES ASSUME Init PROVE SessionIInv
  OBVIOUS
<1> USE SessionIOAssumption
<1>1. /\ strand_ = <<>> /\ Range(strand_) = {} /\ Len(<<>>) = 0
      /\ <<>> \in Seq(Queueable) /\ <<>> \in Seq(Handler)
  BY EmptyRange, EmptySeq DEF Init
<1>2. \A S : Cardinality(Places(strand_, S)) = 0
  <2>1. DOMAIN strand_ = {}
    BY <1>1, LenProperties
  <2>2. \A S : Places(strand_, S) = {}
    BY <2>1 DEF Places
  <2>3. QED
    BY <2>2, FS_EmptySet
<1>3. /\ ReadsReady = 0 /\ WritesReady = 0 /\ TimersReady = 0
      /\ DeliversReady = 0 /\ PayloadsReady = 0
  BY <1>2 DEF ReadsReady, WritesReady, TimersReady, DeliversReady, PayloadsReady
<1>4. TypeOK
  <2>1. <<"header">> \in Seq(Stages)
    BY DEF Stages
  <2>2. /\ stopped_ \in BOOLEAN /\ closing_after_write_ \in BOOLEAN /\ idle \in BOOLEAN
        /\ timer \in {"none", "armed", "cancelled"} /\ closed_by \in {None, "reader", "writer"}
    BY DEF Init
  <2>3. /\ Len(pushed) <= Reply(MaxFrames) + 1 /\ late \in Nat
        /\ frames \in 0..MaxFrames /\ msgs \in 0..MaxMsgs
    BY <1>1 DEF Init, Reply
  <2>4. QED
    BY <1>1, <2>1, <2>2, <2>3 DEF Init, TypeOK
<1>5. ReadInv
  <2>1. Len(<<"header">>) = 1
    OBVIOUS
  <2>2. QED
    BY <1>3, <2>1 DEF Init, ReadInv
<1>6. WriteInv
  BY <1>1, <1>3 DEF Init, WriteInv
<1>7. SentInv
  <2>1. Popped(0)
    BY <1>1 DEF Init, Popped, Written
  <2>2. QED
    BY <1>1, <2>1 DEF Init, SentInv
<1>8. TimerInv
  BY <1>1, <1>3 DEF Init, TimerInv, TimersSet
<1>9. PushInv
  BY <1>1, <1>3 DEF Init, PushInv, Notices
<1>10. QED
  BY <1>4, <1>5, <1>6, <1>7, <1>8, <1>9 DEF SessionIInv

(* Every step keeps the invariant, one lemma for each of its parts.        *)
LEMMA StepSession == SessionIInv /\ [Next]_ioVars => SessionIInv'
<1> SUFFICES ASSUME SessionIInv, [Next]_ioVars PROVE SessionIInv'
  OBVIOUS
<1>1. CASE Next
  BY <1>1, TypeStep, ReadStep, WriteStep, SentStep, TimerStep, PushStep DEF SessionIInv
<1>2. CASE UNCHANGED ioVars
  <2> USE <1>2 DEF ioVars, sessionVars, socketVars, countVars
  <2>1. UNCHANGED <<ReadsReady, WritesReady, TimersReady, DeliversReady, PayloadsReady>>
    BY DEF ReadsReady, WritesReady, TimersReady, DeliversReady, PayloadsReady
  <2>2. UNCHANGED <<TimersSet, Notices>> /\ (Written' <=> Written)
    BY DEF TimersSet, Notices, Written
  <2>3. TypeOK'
    BY DEF SessionIInv, TypeOK
  <2>4. ReadInv' /\ WriteInv'
    BY <2>1 DEF SessionIInv, ReadInv, WriteInv
  <2>5. SentInv'
    BY <2>2 DEF SessionIInv, SentInv, Popped
  <2>6. TimerInv' /\ PushInv'
    BY <2>1, <2>2 DEF SessionIInv, TimerInv, PushInv
  <2>7. QED
    BY <2>3, <2>4, <2>5, <2>6 DEF SessionIInv
<1>3. QED
  BY <1>1, <1>2

(* So it always holds.                                                     *)
LEMMA AlwaysSession == Spec => []SessionIInv
BY InitSession, StepSession, PTL DEF Spec

(* A session never has two writes at once and writes whenever its queue    *)
(* has something; the buffer of a write is the queue's front until its     *)
(* handler takes it off; an open session has one read and, until its       *)
(* notice, one timer (write_next, read_header, schedule_idle_check).       *)
THEOREM SessionInStep == Spec => []SessionInv
<1>1. SessionIInv => SessionInv
  <2> SUFFICES ASSUME SessionIInv PROVE SessionInv
    OBVIOUS
  <2>t. /\ TypeOK /\ Counted /\ WritesReady \in Nat
        /\ writing \in Seq(Queueable) /\ Len(writing) \in Nat
    BY HandlersCounted, LenProperties DEF SessionIInv, TypeOK, Counted
  <2>1. /\ Writes = Len(writing) + WritesReady /\ Reads = Len(reading) + ReadsReady
        /\ Timers = TimersSet + TimersReady
        /\ Cardinality(Pending("write")) = WritesReady
    BY <2>t, PendingPlaces
       DEF Writes, Reads, Timers, WritesReady, ReadsReady, TimersReady, TimersSet
  <2>2. OneWrite
    BY <2>1 DEF SessionIInv, WriteInv, OneWrite
  <2>3. WriteBufferValid
    <3>1. ASSUME NEW i \in DOMAIN writing
          PROVE  write_queue_ # <<>> /\ writing[i] = Head(write_queue_)
      <4>1. i \in 1..Len(writing) /\ writing # <<>>
        BY <2>t, <3>1, LenProperties, EmptySeq
      <4>2. Len(writing) <= 1
        BY <2>t DEF SessionIInv, WriteInv
      <4>3. i = 1 /\ Head(writing) = writing[1]
        BY <2>t, <4>1, <4>2, HeadTailProperties
      <4>4. QED
        BY <4>1, <4>3 DEF SessionIInv, WriteInv
    <3>2. ASSUME Pending("write") # {} PROVE write_queue_ # <<>>
      <4>1. IsFiniteSet(Pending("write"))
        BY <2>t, PendingPlaces, PlacesFinite DEF TypeOK
      <4>2. WritesReady # 0
        BY <2>1, <3>2, <4>1, FS_EmptySet
      <4>3. \A n \in Nat : n # 0 => n > 0
        OBVIOUS
      <4>4. WritesReady > 0
        BY <2>t, <4>2, <4>3
      <4>5. QED
        BY <4>4 DEF SessionIInv, WriteInv
    <3>3. QED
      BY <3>1, <3>2 DEF WriteBufferValid
  <2>4. LoopsAlive
    BY <2>1 DEF SessionIInv, ReadInv, TimerInv, LoopsAlive
  <2>5. QED
    BY <2>t, <2>2, <2>3, <2>4 DEF SessionInv
<1>2. QED
  BY <1>1, AlwaysSession, PTL

(* The client reads what was pushed and fits a frame, in its order and     *)
(* without a gap.                                                          *)
THEOREM WireKeepsOrder == Spec => []WireInOrder
<1>1. SessionIInv => WireInOrder
  <2> SUFFICES ASSUME SessionIInv PROVE WireInOrder
    OBVIOUS
  <2>1. /\ sent \in Seq(Queueable) /\ pushed \in Seq(Queueable)
        /\ Len(sent) \in Nat /\ Len(pushed) \in Nat
    BY LenProperties DEF SessionIInv, TypeOK
  <2>2. Len(sent) <= Len(pushed) /\ \A i \in 1..Len(sent) : sent[i] = pushed[i]
    BY DEF SessionIInv, SentInv
  <2>3. /\ Len(SubSeq(pushed, 1, Len(sent))) = Len(sent)
        /\ \A i \in 1..Len(sent) : SubSeq(pushed, 1, Len(sent))[i] = pushed[i]
        /\ SubSeq(pushed, 1, Len(sent)) \in Seq(Queueable)
    BY <2>1, <2>2
  <2>4. sent = SubSeq(pushed, 1, Len(sent))
    BY <2>1, <2>2, <2>3, SeqEqual
  <2> DEFINE rest == SubSeq(pushed, Len(sent) + 1, Len(pushed))
             unread == Only(rest, Fitting)
  <2>5. rest \in Seq(Queueable) /\ pushed = sent \o rest
    <3>1. /\ Len(sent) + 1 \in Int /\ Len(pushed) \in Int
          /\ \A i \in (Len(sent) + 1)..Len(pushed) : pushed[i] \in Queueable
      BY <2>1, LenProperties
    <3>2. rest \in Seq(Queueable)
      BY <3>1, SubSeqProperties
    <3>3. 1 \in 1..(Len(pushed) + 1) /\ Len(sent) \in (1 - 1)..Len(pushed) /\ Len(pushed) \in Len(sent)..Len(pushed)
      BY <2>1, <2>2
    <3>4. SubSeq(pushed, 1, Len(sent)) \o rest = SubSeq(pushed, 1, Len(pushed))
      BY <2>1, <3>3, ConcatAdjacentSubSeq
    <3>5. QED
      BY <2>1, <2>4, <3>2, <3>4, SubSeqFull
  <2> HIDE DEF rest
  <2>6. Only(pushed, Fitting) = wire \o unread
    BY <2>1, <2>5, OnlyConcat DEF wire
  <2>7. wire \in Seq(Queueable) /\ unread \in Seq(Queueable)
    BY <2>1, <2>5, OnlyKeeps DEF wire
  <2> HIDE DEF unread
  <2>8. QED
    BY <2>6, <2>7, ConcatPrefix DEF WireInOrder, IsPrefix
<1>2. QED
  BY <1>1, AlwaysSession, PTL

(* After a close at most one payload is still handled, and none when the   *)
(* reader closed (read_body does not look at stopped_).                    *)
THEOREM LatePayloads == Spec => []LateOnlyAfterWriter
<1>1. SessionIInv => LateOnlyAfterWriter
  <2> SUFFICES ASSUME SessionIInv PROVE LateOnlyAfterWriter
    OBVIOUS
  <2>1. /\ late \in Nat /\ ReadsReady \in Nat /\ Len(reading) \in Nat
        /\ closed_by \in {None, "reader", "writer"}
    BY HandlersCounted, LenProperties DEF SessionIInv, TypeOK, Counted
  <2>2. /\ closed_by = None => late = 0
        /\ closed_by = "reader" => late = 0
        /\ closed_by = "writer" => Len(reading) + ReadsReady + late <= 1
    BY DEF SessionIInv, ReadInv
  <2>3. closed_by = "writer" => late <= 1
    BY <2>1, <2>2
  <2>4. closed_by # "writer" => late <= 0
    BY <2>1, <2>2
  <2>5. QED
    BY <2>3, <2>4 DEF LateOnlyAfterWriter
<1>2. QED
  BY <1>1, AlwaysSession, PTL

(* The idle notice closes the session only when the client has been sent   *)
(* everything pushed, the notice with it (closing_after_write_ and the     *)
(* empty queue in write_next's handler).                                   *)
THEOREM IdleClosesClean == Spec => IdleCloseIsClean
<1> DEFINE Closes == ~stopped_ /\ stopped_' /\ Head(strand_).op = "write" /\ Ok
           Clean == wire = Only(pushed, Fitting) /\ Notice \in Range(wire)
<1>1. SessionIInv /\ [Next]_ioVars => [Closes => Clean]_ioVars
  <2> SUFFICES ASSUME SessionIInv, Next, Closes PROVE Clean
    BY DEF ioVars, sessionVars
  <2>t. /\ sent \in Seq(Queueable) /\ pushed \in Seq(Queueable)
        /\ write_queue_ \in Seq(Queueable)
        /\ Len(sent) \in Nat /\ Len(pushed) \in Nat /\ Len(write_queue_) \in Nat
    BY LenProperties DEF SessionIInv, TypeOK
  <2>1. WriteDone /\ close_session("writer") /\ closing_after_write_ /\ Tail(write_queue_) = <<>>
    <3>1. ReadFails \/ HeaderRefused \/ Quit \/ WriteFails \/ WriteDone
      BY DEF Next, deliver, TimePasses, Completes, ReadCompletes, WriteCompletes, TimerCompletes,
             Run, RunDeliver, HeaderRead, Answered, TimerIgnored, schedule_idle_check,
             notify_idle_timeout_and_close, sessionVars
    <3>2. WriteDone
      BY <3>1 DEF ReadFails, HeaderRefused, Quit, PayloadRead, WriteFails, Runs
    <3>3. QED
      BY <3>2 DEF WriteDone, sessionVars
  <2>2. Notice \in Range(pushed)
    BY <2>1 DEF SessionIInv, TimerInv
  <2>3. Written /\ WritesReady > 0
    <3>1. Dropped(Head(strand_)) /\ Head(strand_).op = "write" /\ Head(strand_).ok
      BY <2>1, RunDrops DEF WriteDone, Ok, SessionIInv
    <3>2. Written
      BY <3>1 DEF Dropped, Written
    <3>3. QED
      BY <3>2, WrittenCounted DEF SessionIInv, TypeOK
  <2>4. write_queue_ # <<>>
    BY <2>3 DEF SessionIInv, WriteInv
  <2>5. Len(write_queue_) = 1
    <3>1. Len(Tail(write_queue_)) = Len(write_queue_) - 1
      BY <2>t, <2>4, HeadTailProperties
    <3>2. Len(Tail(write_queue_)) = 0
      BY <2>1, EmptySeq
    <3>3. QED
      BY ONLY <2>t, <3>1, <3>2
  <2>6. PICK n \in Nat : Popped(n)
    BY DEF SessionIInv, SentInv
  <2>7. Len(sent) = n + 1 /\ Len(pushed) = n + 1
    BY <2>3, <2>5, <2>6 DEF Popped
  <2>8. \A i \in 1..Len(sent) : sent[i] = pushed[i]
    BY DEF SessionIInv, SentInv
  <2>9. sent = pushed
    BY <2>t, <2>7, <2>8, SeqEqual
  <2>10. Notice \in Fitting /\ Range(wire) = Range(sent) \cap Fitting
    BY <2>t, OnlyKeeps, SessionIOAssumption DEF Fitting, Queueable, wire
  <2>11. QED
    BY <2>2, <2>9, <2>10 DEF wire
<1>2. QED
  BY <1>1, AlwaysSession, PTL DEF Spec, IdleCloseIsClean
=============================================================================
