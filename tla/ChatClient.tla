----------------------------- MODULE ChatClient -----------------------------
(***************************************************************************)
(* The chat client (src/src/client/): the main thread reads lines and asks *)
(* the ChatClient to write them; one network thread runs the client's      *)
(* strand, on which it connects, writes the queued frames one at a time    *)
(* and reads frames until close() stops the io_context.                    *)
(*                                                                         *)
(* A line is its command, whether what the command needs follows it, and   *)
(* the length of the message made of it.  Faults: the connection can fail  *)
(* to open or break once it is open, at any moment.                        *)
(***************************************************************************)
EXTENDS Protocol, Filter, SequencesExt

CONSTANTS
  Lines,          \* the lines the user can type: [command, complete, length]
  ReplyLengths,   \* body lengths in the headers the server sends
  MaxTyped,       \* bound on the lines typed
  MaxReplies,     \* bound on the frames the server sends
  None

Commands == {"register", "login", "join", "pm", "users", "rooms", "ping", "quit", "text", "empty"}

ASSUME ChatClientAssumption ==
  /\ Lines \subseteq [command : Commands, complete : BOOLEAN, length : 1..(2 * kMaxBodyLength)]
  /\ ReplyLengths \subseteq Nat
  /\ MaxTyped \in Nat
  /\ MaxReplies \in Nat

VARIABLES
  main,           \* the main thread: reading lines, in join(), or returned
  typed,          \* the messages asked to be written, in the order typed
  strand_,        \* the handlers ready to run, in order
  connected_,
  closed_,        \* close() has run: the io_context is stopped, no handler runs
  write_queue_,   \* frames; the head is being written once connected
  connecting,     \* the async operations outstanding
  reading,        \* "no", "header" or "body"
  writing,
  peer,           \* the server's end of the connection is open
  toServer,       \* frames sent, not read by the server
  got,            \* the messages the server has read
  replies,        \* body lengths of the frames sent by the server, not read
  replied,        \* how many it has sent
  broken          \* the connection failed or broke, or a peer refused a frame

threads == <<main, typed>>
client == <<connected_, closed_, write_queue_>>
pending == <<connecting, reading, writing>>
network == <<peer, toServer, got, replies, replied, broken>>
vars == <<threads, strand_, client, pending, network>>

TypeOf == [register |-> "register", login |-> "login", join |-> "join_room",
           pm |-> "private_message", users |-> "list_users", rooms |-> "list_rooms",
           ping |-> "heartbeat", quit |-> "quit", text |-> "chat"]

(* The type of the message a line becomes, or None when the line is empty  *)
(* or the second word its command needs is missing.                        *)
build_client_message(line) ==
  IF line.command = "empty" \/ (line.command \in {"register", "login", "pm"} /\ ~line.complete)
  THEN None
  ELSE TypeOf[line.command]

Message == [type : {TypeOf[c] : c \in DOMAIN TypeOf}, id : 1..MaxTyped, length : Nat]

(* make_frame(): a body that does not fit becomes an empty frame.          *)
make_frame(m) ==
  IF Fits(m.length) THEN [header |-> encode_header(m.length), body |-> m] ELSE None

ASSUME NoneIsNoFrame == None \notin [header : Seq(Nat), body : Message]

Completion == [do : {"connect", "header", "body", "written"}, ok : BOOLEAN]
Handler == Completion \cup [do : {"write"}, message : Message] \cup [do : {"close"}]

Completed(what, ok) == strand_' = Append(strand_, [do |-> what, ok |-> ok])

Init ==
  /\ main = "typing" /\ typed = <<>> /\ strand_ = <<>>
  /\ connected_ = FALSE /\ closed_ = FALSE /\ write_queue_ = <<>>
  /\ connecting = TRUE /\ reading = "no" /\ writing = FALSE
  /\ peer = FALSE /\ toServer = <<>> /\ got = <<>>
  /\ replies = <<>> /\ replied = 0 /\ broken = FALSE

-----------------------------------------------------------------------------
(* The main thread.  It is not the strand's, so dispatch() posts.  A line  *)
(* that makes no message changes nothing.                                  *)
(* Defect: "quit" closes the client too. *)
TypeAndClose(line) ==
  /\ main = "typing" /\ Len(typed) < MaxTyped
  /\ build_client_message(line) # None
  /\ LET m == [type |-> build_client_message(line), id |-> Len(typed) + 1, length |-> line.length]
     IN  /\ typed' = Append(typed, m)
         /\ strand_' = strand_ \o <<[do |-> "write", message |-> m]>>
                               \o IF m.type = "quit" THEN <<[do |-> "close"]>> ELSE <<>>
         /\ main' = IF m.type = "quit" THEN "join" ELSE "typing"
  /\ UNCHANGED <<client, pending, network>>

Type(line) ==
  /\ main = "typing" /\ Len(typed) < MaxTyped
  /\ build_client_message(line) # None
  /\ LET m == [type |-> build_client_message(line), id |-> Len(typed) + 1, length |-> line.length]
     IN  /\ typed' = Append(typed, m)
         /\ strand_' = Append(strand_, [do |-> "write", message |-> m])
         /\ main' = IF m.type = "quit" THEN "join" ELSE "typing"
  /\ UNCHANGED <<client, pending, network>>

(* getline() fails: close(), then join the network thread.                 *)
EndOfInput ==
  /\ main = "typing" /\ main' = "join"
  /\ strand_' = Append(strand_, [do |-> "close"])
  /\ UNCHANGED <<typed, client, pending, network>>

(* run() returns when the io_context is stopped or has nothing left to do. *)
RunReturns == closed_ \/ (strand_ = <<>> /\ ~connecting /\ reading = "no" /\ ~writing)

Join ==
  /\ main = "join" /\ RunReturns /\ main' = "done"
  /\ UNCHANGED <<typed, strand_, client, pending, network>>

-----------------------------------------------------------------------------
(* Completions of the asynchronous operations.                             *)
ConnectCompletes(ok) ==
  /\ connecting /\ ~closed_
  /\ connecting' = FALSE /\ peer' = ok /\ broken' = ~ok
  /\ Completed("connect", ok)
  /\ UNCHANGED <<threads, client, reading, writing, toServer, got, replies, replied>>

ReadCompletes(ok) ==
  /\ reading # "no" /\ ~closed_
  /\ IF ok THEN replies # <<>> ELSE ~peer
  /\ Completed(reading, ok)
  /\ reading' = "no"
  /\ UNCHANGED <<threads, client, connecting, writing, network>>

(* Of an empty frame nothing is sent.                                      *)
WriteCompletes(ok) ==
  /\ writing /\ ~closed_
  /\ ok \/ ~peer
  /\ Completed("written", ok)
  /\ writing' = FALSE
  /\ toServer' = IF ok /\ Head(write_queue_) # None THEN Append(toServer, Head(write_queue_))
                 ELSE toServer
  /\ UNCHANGED <<threads, client, connecting, reading, peer, got, replies, replied, broken>>

-----------------------------------------------------------------------------
(* The handlers, which run one after the other until one of them stops the *)
(* io_context.                                                             *)
Runs(what) ==
  /\ ~closed_ /\ strand_ # <<>> /\ Head(strand_).do = what
  /\ strand_' = Tail(strand_)
  /\ UNCHANGED <<threads, network>>

close == closed_' = TRUE /\ UNCHANGED <<connected_, write_queue_, pending>>

(* Defect: the lines typed before the connection was open stay queued. *)
ConnectedNotFlushing ==
  /\ Runs("connect") /\ Head(strand_).ok
  /\ connected_' = TRUE /\ reading' = "header"
  /\ UNCHANGED <<closed_, write_queue_, connecting, writing>>

Connected ==
  /\ Runs("connect") /\ Head(strand_).ok
  /\ connected_' = TRUE
  /\ writing' = (write_queue_ # <<>>)
  /\ reading' = "header"
  /\ UNCHANGED <<closed_, write_queue_, connecting>>

(* Defect: a frame is written although another one is still being written. *)
WriteAtOnce ==
  /\ Runs("write")
  /\ write_queue_' = Append(write_queue_, make_frame(Head(strand_).message))
  /\ writing' = connected_
  /\ UNCHANGED <<connected_, closed_, connecting, reading>>

(* Defect: the newest line overtakes the others. *)
WriteFront ==
  /\ Runs("write")
  /\ write_queue_' = <<make_frame(Head(strand_).message)>> \o write_queue_
  /\ writing' = (writing \/ (connected_ /\ write_queue_ = <<>>))
  /\ UNCHANGED <<connected_, closed_, connecting, reading>>

(* write(): the frame is queued, and written when it is the only one.      *)
Write ==
  /\ Runs("write")
  /\ write_queue_' = Append(write_queue_, make_frame(Head(strand_).message))
  /\ writing' = (writing \/ (connected_ /\ write_queue_ = <<>>))
  /\ UNCHANGED <<connected_, closed_, connecting, reading>>

Written ==
  /\ Runs("written") /\ Head(strand_).ok
  /\ write_queue_' = Tail(write_queue_)
  /\ writing' = (Tail(write_queue_) # <<>>)
  /\ UNCHANGED <<connected_, closed_, connecting, reading>>

HeaderRead ==
  /\ Runs("header") /\ Head(strand_).ok
  /\ Accepted(encode_header(Head(replies)))
  /\ reading' = "body"
  /\ UNCHANGED <<client, connecting, writing>>

(* The message is shown and the next header is read.                       *)
BodyRead ==
  /\ ~closed_ /\ strand_ # <<>> /\ Head(strand_).do = "body" /\ Head(strand_).ok
  /\ strand_' = Tail(strand_) /\ replies' = Tail(replies)
  /\ reading' = "header"
  /\ UNCHANGED <<threads, client, connecting, writing, peer, toServer, got, replied, broken>>

(* A header of a length no frame has.                                      *)
HeaderRefused ==
  /\ Runs("header") /\ Head(strand_).ok
  /\ ~Accepted(encode_header(Head(replies)))
  /\ close

(* Defect: the client reads on after an error. *)
FailedReadingOn(what) ==
  /\ Runs(what) /\ ~Head(strand_).ok
  /\ reading' = "header"
  /\ UNCHANGED <<client, connecting, writing>>

(* Connecting, reading or writing failed.                                  *)
Failed(what) == Runs(what) /\ ~Head(strand_).ok /\ close

Close == Runs("close") /\ close

Handlers ==
  \/ Connected \/ Write \/ Written \/ HeaderRead \/ BodyRead \/ HeaderRefused \/ Close
  \/ \E what \in {"connect", "header", "body", "written"} : Failed(what)

(* The strand runs its handlers in batches, and the rest of the batch in   *)
(* which the io_context was stopped runs all the same (how much that is is *)
(* left open).  What these handlers begin fails on the closed socket, and  *)
(* its completion never runs.                                              *)
RestOfBatch ==
  /\ closed_ /\ main # "done" /\ strand_ # <<>>
  /\ strand_' = Tail(strand_)
  /\ LET h == Head(strand_)
     IN  /\ connected_' = (connected_ \/ (h.do = "connect" /\ h.ok))
         /\ write_queue_' = CASE h.do = "write" -> Append(write_queue_, make_frame(h.message))
                              [] h.do = "written" /\ h.ok -> Tail(write_queue_)
                              [] OTHER -> write_queue_
         /\ replies' = IF h.do = "body" /\ h.ok THEN Tail(replies) ELSE replies
  /\ UNCHANGED <<threads, closed_, pending, peer, toServer, got, replied, broken>>

-----------------------------------------------------------------------------
(* The server: it reads frames, closes on one it refuses and on "quit",    *)
(* and sends frames; the connection may break.                             *)
Readable(f) == Accepted(f.header) /\ body_length(f.header) = f.body.length

ServerReads ==
  /\ peer /\ toServer # <<>>
  /\ LET f == Head(toServer)
     IN  /\ got' = IF Readable(f) THEN Append(got, f.body) ELSE got
         /\ peer' = (Readable(f) /\ f.body.type # "quit")
         /\ broken' = (broken \/ ~Readable(f))
  /\ toServer' = Tail(toServer)
  /\ UNCHANGED <<threads, strand_, client, pending, replies, replied>>

ServerReplies(n) ==
  /\ peer /\ replied < MaxReplies
  /\ replies' = Append(replies, n) /\ replied' = replied + 1
  /\ broken' = (broken \/ ~Fits(n))
  /\ UNCHANGED <<threads, strand_, client, pending, peer, toServer, got>>

ConnectionBreaks ==
  /\ peer /\ peer' = FALSE /\ broken' = TRUE
  /\ UNCHANGED <<threads, strand_, client, pending, toServer, got, replies, replied>>

Terminated == main = "done" /\ UNCHANGED vars

Next ==
  \/ \E line \in Lines : Type(line)
  \/ EndOfInput \/ Join \/ Handlers \/ RestOfBatch
  \/ \E ok \in BOOLEAN : ConnectCompletes(ok) \/ ReadCompletes(ok) \/ WriteCompletes(ok)
  \/ ServerReads \/ ConnectionBreaks
  \/ \E n \in ReplyLengths : ServerReplies(n)
  \/ Terminated

(* A thread that can go on goes on, an operation completes (connecting and *)
(* sending by the system's own timeouts) and the server keeps reading      *)
(* (SessionIO).  Nothing makes the user type.                              *)
Fairness ==
  /\ WF_vars(Join) /\ WF_vars(Handlers) /\ WF_vars(ServerReads)
  /\ WF_vars(\E ok \in BOOLEAN : ConnectCompletes(ok))
  /\ WF_vars(\E ok \in BOOLEAN : ReadCompletes(ok))
  /\ WF_vars(\E ok \in BOOLEAN : WriteCompletes(ok))

Spec == Init /\ [][Next]_vars /\ Fairness

-----------------------------------------------------------------------------
TypeOK ==
  /\ main \in {"typing", "join", "done"}
  /\ typed \in Seq(Message) /\ strand_ \in Seq(Handler) /\ got \in Seq(Message)
  /\ connected_ \in BOOLEAN /\ closed_ \in BOOLEAN
  /\ connecting \in BOOLEAN /\ writing \in BOOLEAN /\ reading \in {"no", "header", "body"}
  /\ peer \in BOOLEAN /\ broken \in BOOLEAN
  /\ replies \in Seq(ReplyLengths) /\ replied \in 0..MaxReplies

Ready(what) == Cardinality({i \in DOMAIN strand_ : strand_[i].do = what})
Bit(b) == IF b THEN 1 ELSE 0

(* The client's operations, until close(): it is connecting or it reads,   *)
(* so run() does not return while the user still types; it reads and       *)
(* writes once at a time, only when connected, and it writes exactly when  *)
(* it is connected and has something queued, so no frame is cut into by    *)
(* another and none waits for a later line to be sent.                     *)
ClientInv ==
  /\ TypeOK
  /\ ~closed_ =>
       /\ Bit(connecting) + Ready("connect") + Bit(connected_) = 1
       /\ Bit(reading # "no") + Ready("header") + Ready("body") = Bit(connected_)
       /\ Bit(writing) + Ready("written") = Bit(connected_ /\ write_queue_ # <<>>)

ToSend == Only(typed, {m \in Message : Fits(m.length)})

(* The server reads the messages in the order typed, each once, with no    *)
(* gap other than those too long for a frame.                              *)
SentInOrder == IsPrefix(got \o [i \in DOMAIN toServer |-> toServer[i].body], ToSend)

(* A user who leaves with /quit has left nothing behind: the process ends  *)
(* only after the server has read every message typed, "quit" included,    *)
(* unless the connection failed.                                           *)
QuitIsClean ==
  main = "done" /\ ~broken /\ typed # <<>> /\ Last(typed).type = "quit" => got = ToSend

(* A line typed at any time, before the connection is open too, reaches    *)
(* the server or the client closes.                                        *)
TypedArrives ==
  \A i \in 1..MaxTyped :
    (i <= Len(typed) /\ Fits(typed[i].length)) ~> (closed_ \/ \E m \in ToSet(got) : m.id = i)

(* Once the main thread waits for the network thread, the process ends:    *)
(* after "quit" because the server closes the connection, otherwise        *)
(* because close() stops the io_context.                                   *)
ProcessEnds == (main = "join") ~> (main = "done")
=============================================================================
