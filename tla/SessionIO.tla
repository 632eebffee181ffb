----------------------------- MODULE SessionIO -----------------------------
(***************************************************************************)
(* The asynchronous operations of one ChatSession (chat_session.cpp): its  *)
(* read loop, its write queue, its idle timer, and the strand their        *)
(* completion handlers run on, one after the other in the order they       *)
(* became ready.                                                           *)
(*                                                                         *)
(* An operation is first in flight (reading, writing, timer), then its     *)
(* handler is in strand_ with the error code it completed with, then the   *)
(* handler runs.  Closing the socket aborts what is in flight; a handler   *)
(* that is ready keeps its error code, so it can run with success after    *)
(* the session closed.  That is Asio's rule and the subject of this        *)
(* module.                                                                 *)
(*                                                                         *)
(* A message is a number: those handed to deliver() from outside the       *)
(* session are 1..MaxMsgs, the replies to its client's frames follow.      *)
(* make_frame() turns one that is longer than a frame's body may be into   *)
(* an empty frame: it is queued and written like any other, and nothing of *)
(* it goes on the wire.                                                    *)
(***************************************************************************)
EXTENDS Naturals, FiniteSets, SequencesExt, Filter

CONSTANTS
  MaxMsgs,      \* bound on the messages handed to deliver() from outside
  MaxFrames,    \* bound on the frames the client sends
  TooLong,      \* the messages that are longer than kMaxBodyLength
  Notice,       \* the "idle timeout" message
  None

ASSUME SessionIOAssumption ==
  /\ MaxMsgs \in Nat /\ MaxFrames \in Nat /\ Notice \notin TooLong
  /\ Notice \notin Nat \cup {None} /\ None \notin Nat \cup {"reader", "writer"}

VARIABLES
  stopped_, closing_after_write_, write_queue_,
  strand_,     \* the handlers that are ready, in order
  reading,     \* what the reads in flight read: "header" or "body"
  writing,     \* the messages of the writes in flight
  timer,       \* "none", "armed", or "cancelled" with its handler still to come
  idle,        \* idle_timeout_ has passed since last_activity_
  frames,      \* frames the client has sent
  msgs,        \* messages handed to deliver() from outside
  pushed,      \* messages pushed on write_queue_ so far
  sent,        \* messages whose write is done
  closed_by,   \* the handler that closed the session: None, "reader" or "writer"
  late         \* payloads handled after the session closed

socketVars == <<reading, writing, sent>>
sessionVars == <<stopped_, closing_after_write_, closed_by>>
countVars == <<frames, msgs>>
ioVars == <<sessionVars, socketVars, countVars, write_queue_, strand_, timer, idle, pushed, late>>

Stages == {"header", "body"}
Reply(frame) == MaxMsgs + frame
Queueable == 1..Reply(MaxFrames) \cup {Notice}
Handler ==
  [op : {"read"}, stage : Stages, ok : BOOLEAN] \cup [op : {"write", "timer"}, ok : BOOLEAN]
    \cup [op : {"deliver"}, msg : 1..MaxMsgs]

TypeOK ==
  /\ stopped_ \in BOOLEAN /\ closing_after_write_ \in BOOLEAN /\ idle \in BOOLEAN
  /\ write_queue_ \in Seq(Queueable) /\ sent \in Seq(Queueable)
  /\ pushed \in Seq(Queueable) /\ Len(pushed) <= Reply(MaxFrames) + 1
  /\ writing \in Seq(Queueable)
  /\ reading \in Seq(Stages)
  /\ strand_ \in Seq(Handler)
  /\ timer \in {"none", "armed", "cancelled"}
  /\ frames \in 0..MaxFrames /\ msgs \in 0..MaxMsgs
  /\ closed_by \in {None, "reader", "writer"}
  /\ late \in Nat

(* start() has run: the timer is armed and the first header is being read. *)
Init ==
  /\ stopped_ = FALSE /\ closing_after_write_ = FALSE /\ idle = FALSE
  /\ write_queue_ = <<>> /\ strand_ = <<>> /\ writing = <<>>
  /\ reading = <<"header">>
  /\ timer = "armed"
  /\ frames = 0 /\ msgs = 0 /\ pushed = <<>> /\ sent = <<>>
  /\ closed_by = None /\ late = 0

-----------------------------------------------------------------------------
(* The socket and the clock.                                               *)

Ready(h) == strand_' = Append(strand_, h)

(* A read completes with data only while the socket is open; the end of    *)
(* the stream or a close completes it with an error.                       *)
ReadCompletes(ok) ==
  /\ reading # <<>>
  /\ ok => ~stopped_ /\ frames < MaxFrames
  /\ frames' = IF ok /\ Head(reading) = "body" THEN frames + 1 ELSE frames
  /\ Ready([op |-> "read", stage |-> Head(reading), ok |-> ok])
  /\ reading' = Tail(reading)
  /\ UNCHANGED <<sessionVars, writing, sent, msgs, write_queue_, timer, idle, pushed, late>>

(* A write waits for the client to read, or fails.  That of an empty frame *)
(* is over at once, closed socket or not.                                  *)
WriteCompletes(ok) ==
  /\ writing # <<>>
  /\ IF Head(writing) \in TooLong THEN ok ELSE ok => ~stopped_
  /\ sent' = IF ok THEN Append(sent, Head(writing)) ELSE sent
  /\ Ready([op |-> "write", ok |-> ok])
  /\ writing' = Tail(writing)
  /\ UNCHANGED <<sessionVars, reading, countVars, write_queue_, timer, idle, pushed, late>>

TimerCompletes ==
  /\ timer # "none"
  /\ Ready([op |-> "timer", ok |-> timer = "armed"])
  /\ timer' = "none"
  /\ UNCHANGED <<sessionVars, socketVars, countVars, write_queue_, idle, pushed, late>>

TimePasses ==
  /\ ~idle
  /\ idle' = TRUE
  /\ UNCHANGED <<sessionVars, socketVars, countVars, write_queue_, strand_, timer, pushed, late>>

(* deliver(), called by another session's handler or a business thread.    *)
deliver ==
  /\ msgs < MaxMsgs
  /\ msgs' = msgs + 1
  /\ Ready([op |-> "deliver", msg |-> msgs + 1])
  /\ UNCHANGED <<sessionVars, socketVars, frames, write_queue_, timer, idle, pushed, late>>

-----------------------------------------------------------------------------
(* The handlers.                                                           *)

Runs(op) == strand_ # <<>> /\ Head(strand_).op = op /\ strand_' = Tail(strand_)
Ok == Head(strand_).ok

close_session(by) ==
  /\ stopped_' = TRUE
  /\ closing_after_write_' = IF stopped_ THEN closing_after_write_ ELSE FALSE
  /\ closed_by' = IF stopped_ THEN closed_by ELSE by
  /\ timer' = IF ~stopped_ /\ timer = "armed" THEN "cancelled" ELSE timer

(* Defect: a write is started for every message. *)
PushAndWrite(m) ==
  /\ write_queue_' = Append(write_queue_, m)
  /\ pushed' = Append(pushed, m)
  /\ writing' = Append(writing, m)

(* Defect: an urgent message goes to the front of the queue. *)
PushFront(m) ==
  /\ write_queue_' = IF m = Notice THEN <<m>> \o write_queue_ ELSE Append(write_queue_, m)
  /\ pushed' = Append(pushed, m)
  /\ writing' = IF write_queue_ = <<>> THEN Append(writing, m) ELSE writing

(* Push a message and start writing unless a write is in flight.           *)
Push(m) ==
  /\ write_queue_' = Append(write_queue_, m)
  /\ pushed' = Append(pushed, m)
  /\ writing' = IF write_queue_ = <<>> THEN Append(writing, m) ELSE writing

RunDeliver ==
  /\ Runs("deliver")
  /\ \/ stopped_ /\ UNCHANGED <<write_queue_, pushed, writing>>
     \/ ~stopped_ /\ Push(Head(strand_).msg)
  /\ UNCHANGED <<sessionVars, reading, sent, countVars, timer, idle, late>>

ReadFails ==
  /\ Runs("read") /\ ~Ok
  /\ close_session("reader")
  /\ UNCHANGED <<socketVars, countVars, write_queue_, idle, pushed, late>>

(* read_header(): the length is refused, or the body is read next.         *)
HeaderRefused ==
  /\ Runs("read") /\ Ok /\ Head(strand_).stage = "header"
  /\ idle' = FALSE
  /\ close_session("reader")
  /\ UNCHANGED <<socketVars, countVars, write_queue_, pushed, late>>

(* Defect: the next header is read beside the body. *)
HeaderReadAhead ==
  /\ Runs("read") /\ Ok /\ Head(strand_).stage = "header"
  /\ idle' = FALSE
  /\ reading' = reading \o <<"body", "header">>
  /\ UNCHANGED <<sessionVars, writing, sent, countVars, write_queue_, timer, pushed, late>>

HeaderRead ==
  /\ Runs("read") /\ Ok /\ Head(strand_).stage = "header"
  /\ idle' = FALSE
  /\ reading' = Append(reading, "body")
  /\ UNCHANGED <<sessionVars, writing, sent, countVars, write_queue_, timer, pushed, late>>

(* read_body(): handle_payload() replies, or closes on "quit"; the next    *)
(* header is read unless the session is stopped.  A reply is a deliver()   *)
(* on the session's own strand, which runs at once.                        *)
PayloadRead ==
  /\ Runs("read") /\ Ok /\ Head(strand_).stage = "body"
  /\ idle' = FALSE
  /\ late' = IF stopped_ THEN late + 1 ELSE late

Answered ==
  /\ PayloadRead
  /\ \/ stopped_ /\ UNCHANGED <<write_queue_, pushed, writing, reading>>
     \/ /\ ~stopped_
        /\ Push(Reply(frames))
        /\ reading' = Append(reading, "header")
  /\ UNCHANGED <<sessionVars, sent, countVars, timer>>

Quit ==
  /\ PayloadRead
  /\ close_session("reader")
  /\ UNCHANGED <<socketVars, countVars, write_queue_, pushed>>

WriteFails ==
  /\ Runs("write") /\ ~Ok
  /\ close_session("writer")
  /\ UNCHANGED <<socketVars, countVars, write_queue_, idle, pushed, late>>

(* Defect: the session closes with messages still queued. *)
WriteDoneCuttingOff ==
  /\ Runs("write") /\ Ok
  /\ write_queue_' = Tail(write_queue_)
  /\ \/ /\ closing_after_write_
        /\ close_session("writer")
        /\ UNCHANGED writing
     \/ /\ ~closing_after_write_
        /\ writing' = IF Tail(write_queue_) # <<>> /\ ~stopped_
                      THEN Append(writing, write_queue_[2]) ELSE writing
        /\ UNCHANGED <<sessionVars, timer>>
  /\ UNCHANGED <<reading, sent, countVars, idle, pushed, late>>

(* The handler of write_next(): the message written leaves the queue, then *)
(* the session closes if that was all it waited for, or the next message   *)
(* is written.                                                             *)
WriteDone ==
  /\ Runs("write") /\ Ok
  /\ write_queue_' = Tail(write_queue_)
  /\ \/ /\ closing_after_write_ /\ Tail(write_queue_) = <<>>
        /\ close_session("writer")
        /\ UNCHANGED writing
     \/ /\ ~(closing_after_write_ /\ Tail(write_queue_) = <<>>)
        /\ writing' = IF Tail(write_queue_) # <<>> /\ ~stopped_
                      THEN Append(writing, write_queue_[2]) ELSE writing
        /\ UNCHANGED <<sessionVars, timer>>
  /\ UNCHANGED <<reading, sent, countVars, idle, pushed, late>>

(* The handler of schedule_idle_check().                                   *)
TimerIgnored ==
  /\ Runs("timer") /\ (~Ok \/ stopped_)
  /\ UNCHANGED <<sessionVars, socketVars, countVars, write_queue_, timer, idle, pushed, late>>

(* Defect: the timer is armed again whatever happened. *)
AlwaysReschedule ==
  /\ Runs("timer") /\ ~idle
  /\ timer' = "armed"
  /\ UNCHANGED <<sessionVars, socketVars, countVars, write_queue_, idle, pushed, late>>

(* Defect: the timer is not armed again. *)
CheckOnce ==
  /\ Runs("timer") /\ Ok /\ ~stopped_ /\ ~idle
  /\ UNCHANGED <<sessionVars, socketVars, countVars, write_queue_, timer, idle, pushed, late>>

schedule_idle_check ==
  /\ Runs("timer") /\ Ok /\ ~stopped_ /\ ~idle
  /\ timer' = "armed"
  /\ UNCHANGED <<sessionVars, socketVars, countVars, write_queue_, idle, pushed, late>>

notify_idle_timeout_and_close ==
  /\ Runs("timer") /\ Ok /\ ~stopped_ /\ idle
  /\ \/ closing_after_write_ /\ UNCHANGED <<closing_after_write_, write_queue_, pushed, writing>>
     \/ /\ ~closing_after_write_
        /\ closing_after_write_' = TRUE
        /\ Push(Notice)
  /\ UNCHANGED <<stopped_, closed_by, reading, sent, countVars, timer, idle, late>>

-----------------------------------------------------------------------------
Completes ==
  \/ \E ok \in BOOLEAN : ReadCompletes(ok) \/ WriteCompletes(ok)
  \/ TimerCompletes

Run ==
  \/ RunDeliver \/ ReadFails \/ HeaderRefused \/ HeaderRead \/ Answered \/ Quit
  \/ WriteFails \/ WriteDone
  \/ TimerIgnored \/ schedule_idle_check \/ notify_idle_timeout_and_close

Next == deliver \/ TimePasses \/ Completes \/ Run

Spec == Init /\ [][Next]_ioVars

(* The io thread runs what is ready, and the clock runs.  The client need  *)
(* neither send nor read anything: what makes an operation complete all    *)
(* the same is a socket that is closed, or an empty frame.                 *)
NeedsNoClient == stopped_ \/ Range(writing) \cap TooLong # {}

Fairness ==
  /\ WF_ioVars(Run)
  /\ WF_ioVars(TimerCompletes)
  /\ WF_ioVars(NeedsNoClient /\ \E ok \in BOOLEAN : WriteCompletes(ok))
  /\ WF_ioVars(stopped_ /\ ReadCompletes(FALSE))

FairSpec == Spec /\ Fairness

-----------------------------------------------------------------------------
Pending(op) == {i \in DOMAIN strand_ : strand_[i].op = op}
Writes == Len(writing) + Cardinality(Pending("write"))
Reads == Len(reading) + Cardinality(Pending("read"))
Timers == (IF timer = "none" THEN 0 ELSE 1) + Cardinality(Pending("timer"))

(* Never two writes at once, which would mix frames on the wire; and an    *)
(* open session with something to write is writing, so the queue does not  *)
(* stall whichever handler filled it.                                      *)
OneWrite == Writes <= 1 /\ (~stopped_ => (write_queue_ # <<>> <=> Writes = 1))

(* The buffer of a write in flight is the front of write_queue_, still     *)
(* there when its handler pops it, after a close as well.                  *)
WriteBufferValid ==
  /\ \A i \in DOMAIN writing : write_queue_ # <<>> /\ writing[i] = Head(write_queue_)
  /\ Pending("write") # {} => write_queue_ # <<>>

(* The client reads the messages pushed, in their order and without a gap  *)
(* but for those that are longer than a frame.                             *)
Fitting == Queueable \ TooLong
wire == Only(sent, Fitting)
WireInOrder == IsPrefix(wire, Only(pushed, Fitting))

(* An open session has one read going, and one timer until its notice: the *)
(* read loop does not die or double, and idleness stays detectable.        *)
LoopsAlive ==
  ~stopped_ => Reads = 1 /\ (closing_after_write_ \/ Timers = 1)

(* One session's reads, writes, queue and timer stay in step.              *)
SessionInv == TypeOK /\ OneWrite /\ WriteBufferValid /\ LoopsAlive

(* read_body()'s handler takes a payload without looking at stopped_.  At  *)
(* most one is taken after the close, and only when the writer closed:     *)
(* this is what ChatServer's CloseFromReader and CloseFromWriter assume.   *)
LateOnlyAfterWriter == late <= IF closed_by = "writer" THEN 1 ELSE 0

(* When the idle notice closes the session, the client has been written    *)
(* everything that was pushed and fits, the notice and what came after it. *)
IdleCloseIsClean ==
  [][~stopped_ /\ stopped_' /\ Head(strand_).op = "write" /\ Ok
       => wire = Only(pushed, Fitting) /\ Notice \in Range(wire)]_ioVars

(* A closed session winds up: nothing stays in flight that would keep the  *)
(* object and its socket.                                                  *)
Released ==
  stopped_ ~> reading = <<>> /\ writing = <<>> /\ timer = "none" /\ strand_ = <<>>

(* A client that falls silent for good is disconnected, if it keeps up     *)
(* with what is written to it: from time to time nothing is left to write. *)
(* Of a client that stops reading nothing is promised: the notice waits    *)
(* behind a write that does not complete, and the timer that pushed it is  *)
(* not armed again.                                                        *)
KeepsUp == []<>(write_queue_ = <<>>)
IdleCloses == KeepsUp => (<>[]idle => <>stopped_)
=============================================================================
