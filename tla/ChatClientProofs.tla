------------------------- MODULE ChatClientProofs ---------------------------
(***************************************************************************)
(* Framing for every length, and the chat client: its operations, the      *)
(* order in which the server reads what is typed, and leaving with "quit". *)
(*                                                                         *)
(* Three inductive invariants, one on top of the other: ClientIInv counts  *)
(* what is outstanding; with it SentInv says where each message typed is,  *)
(* between the server and the strand; with both, QuitInv says why an       *)
(* operation fails or the client closes.                                   *)
(***************************************************************************)
EXTENDS ChatClient, SequenceLemmas

-----------------------------------------------------------------------------
(* The header of a frame, for every length an unsigned 32-bit integer has. *)
Byte == 0..255
UInt32 == {n \in Nat : n < 256 * 16777216}

(* A header is four bytes.                                                 *)
LEMMA HeaderBytes ==
  ASSUME NEW n \in UInt32, NEW i \in 1..4
  PROVE  encode_header(n)[i] \in Byte
BY DEF encode_header, Byte, UInt32

(* decode_header() reads from a header the length encode_header() wrote.   *)
THEOREM HeaderRoundTrip ==
  ASSUME NEW n \in UInt32
  PROVE  body_length(encode_header(n)) = n
<1> DEFINE q == n \div 256
           p == n \div 65536
           o == n \div 16777216
<1>1. n = 256 * q + (n % 256)
  BY DEF UInt32
<1>2. q = 256 * p + (q % 256)
  BY DEF UInt32
<1>3. p = 256 * o + (p % 256)
  BY DEF UInt32
<1>4. o % 256 = o
  BY DEF UInt32
<1>5. QED
  BY <1>1, <1>2, <1>3, <1>4 DEF body_length, encode_header, UInt32

(* No two lengths have the same header.                                    *)
THEOREM HeaderInjective ==
  ASSUME NEW m \in UInt32, NEW n \in UInt32, encode_header(m) = encode_header(n)
  PROVE  m = n
BY HeaderRoundTrip

(* decode_header() refuses a header exactly when make_frame() would not    *)
(* have made it: a peer that frames with this code is never disconnected   *)
(* for the length of what it sends.                                        *)
THEOREM FramedIsAccepted ==
  ASSUME NEW n \in UInt32
  PROVE  Accepted(encode_header(n)) <=> Fits(n)
BY HeaderRoundTrip DEF Accepted, Fits

-----------------------------------------------------------------------------
(* The frames of the messages that fit, which are what is queued besides   *)
(* the empty frames of those that do not.                                  *)
Fitting == {m \in Message : Fits(m.length)}
FrameOf(m) == [header |-> encode_header(m.length), body |-> m]
Frames == {FrameOf(m) : m \in Fitting}

(* What is waiting on the strand: handlers of one kind.                    *)
With(what) == {h \in Handler : h.do = what}

(* A header or a body that was read is still among the replies.            *)
ReplyInv ==
  \A h \in Range(strand_) : h.do \in {"header", "body"} /\ h.ok => replies # <<>>

QueueInv == write_queue_ \in Seq(Frames \cup {None}) /\ toServer \in Seq(Frames)

Operations ==
  /\ Bit(connecting) + Ready("connect") + Bit(connected_) = 1
  /\ Bit(reading # "no") + Ready("header") + Ready("body") = Bit(connected_)
  /\ Bit(writing) + Ready("written") = Bit(connected_ /\ write_queue_ # <<>>)

(* Once the io_context is stopped a completion that still waits has what   *)
(* it is about.                                                            *)
Leftover ==
  /\ Ready("header") + Ready("body") <= 1 /\ Ready("written") <= 1
  /\ Ready("written") > 0 => write_queue_ # <<>>

ClientIInv ==
  /\ TypeOK /\ QueueInv /\ ReplyInv
  /\ ~closed_ => Operations
  /\ closed_ => Leftover

(* How many handlers of a kind wait.                                       *)
LEMMA ReadyCounts ==
  ASSUME strand_ \in Seq(Handler), NEW what
  PROVE  /\ Ready(what) = Cardinality(Places(strand_, With(what))) /\ Ready(what) \in Nat
         /\ Ready(what) = 0 => \A h \in Range(strand_) : h.do # what
<1>1. \A i \in DOMAIN strand_ : strand_[i] \in Handler
  BY LenProperties
<1>2. {i \in DOMAIN strand_ : strand_[i].do = what} = Places(strand_, With(what))
  BY <1>1 DEF Places, With
<1>3. /\ Ready(what) = Cardinality(Places(strand_, With(what)))
      /\ Ready(what) \in Nat /\ IsFiniteSet(Places(strand_, With(what)))
  BY <1>2, PlacesFinite DEF Ready
<1>4. ASSUME Ready(what) = 0, NEW h \in Range(strand_) PROVE h.do # what
  <2>1. Places(strand_, With(what)) = {}
    BY <1>3, <1>4, FS_EmptySet
  <2>2. PICK i \in DOMAIN strand_ : h = strand_[i]
    BY DEF Range
  <2>3. QED
    BY <1>2, <2>1, <2>2
<1>5. QED
  BY <1>3, <1>4

(* The same after a step.                                                  *)
LEMMA ReadyCountsNext ==
  ASSUME strand_' \in Seq(Handler), NEW what
  PROVE  /\ Ready(what)' = Cardinality(Places(strand_', With(what))) /\ Ready(what)' \in Nat
         /\ Ready(what)' = 0 => \A h \in Range(strand_') : h.do # what
<1>1. \A i \in DOMAIN strand_' : strand_'[i] \in Handler
  BY LenProperties
<1>2. {i \in DOMAIN strand_' : strand_'[i].do = what} = Places(strand_', With(what))
  BY <1>1 DEF Places, With
<1>3. /\ Ready(what)' = Cardinality(Places(strand_', With(what)))
      /\ Ready(what)' \in Nat /\ IsFiniteSet(Places(strand_', With(what)))
  BY <1>2, PlacesFinite DEF Ready
<1>4. ASSUME Ready(what)' = 0, NEW h \in Range(strand_') PROVE h.do # what
  <2>1. Places(strand_', With(what)) = {}
    BY <1>3, <1>4, FS_EmptySet
  <2>2. PICK i \in DOMAIN strand_' : h = strand_'[i]
    BY DEF Range
  <2>3. QED
    BY <1>2, <2>1, <2>2
<1>5. QED
  BY <1>3, <1>4

(* A handler that is posted waits behind the others.                       *)
LEMMA Posted ==
  ASSUME TypeOK, NEW h \in Handler, strand_' = Append(strand_, h)
  PROVE  /\ strand_' \in Seq(Handler) /\ Range(strand_') = Range(strand_) \cup {h}
         /\ \A what : Ready(what)' = Ready(what) + Bit(h.do = what)
<1>1. strand_ \in Seq(Handler)
  BY DEF TypeOK
<1>2. strand_' \in Seq(Handler) /\ Range(strand_') = Range(strand_) \cup {h}
  BY <1>1, AppendRange
<1>3. ASSUME NEW what PROVE Ready(what)' = Ready(what) + Bit(h.do = what)
  <2>1. /\ Ready(what) = Cardinality(Places(strand_, With(what)))
        /\ Ready(what)' = Cardinality(Places(strand_', With(what)))
    BY <1>1, <1>2, ReadyCounts, ReadyCountsNext
  <2>2. Cardinality(Places(Append(strand_, h), With(what)))
          = Cardinality(Places(strand_, With(what))) + (IF h \in With(what) THEN 1 ELSE 0)
    BY <1>1, AppendPlaces
  <2>3. h \in With(what) <=> h.do = what
    BY DEF With
  <2>4. QED
    BY <2>1, <2>2, <2>3 DEF Bit
<1>4. QED
  BY <1>2, <1>3

(* A handler that runs is the first one and no longer waits.               *)
LEMMA Popped ==
  ASSUME TypeOK, strand_ # <<>>, strand_' = Tail(strand_)
  PROVE  /\ strand_' \in Seq(Handler) /\ Head(strand_) \in Handler
         /\ Range(strand_) = Range(strand_') \cup {Head(strand_)}
         /\ \A what : Ready(what) = Ready(what)' + Bit(Head(strand_).do = what)
<1>1. strand_ \in Seq(Handler)
  BY DEF TypeOK
<1>2. /\ strand_' \in Seq(Handler) /\ Head(strand_) \in Handler
      /\ Range(strand_) = Range(strand_') \cup {Head(strand_)}
  BY <1>1, TailRange
<1>3. ASSUME NEW what PROVE Ready(what) = Ready(what)' + Bit(Head(strand_).do = what)
  <2>1. /\ Ready(what) = Cardinality(Places(strand_, With(what)))
        /\ Ready(what)' = Cardinality(Places(strand_', With(what)))
    BY <1>1, <1>2, ReadyCounts, ReadyCountsNext
  <2>2. Cardinality(Places(strand_, With(what)))
          = Cardinality(Places(Tail(strand_), With(what)))
              + (IF Head(strand_) \in With(what) THEN 1 ELSE 0)
    BY <1>1, TailPlaces
  <2>3. Head(strand_) \in With(what) <=> Head(strand_).do = what
    BY <1>2 DEF With
  <2>4. QED
    BY <2>1, <2>2, <2>3 DEF Bit
<1>4. QED
  BY <1>2, <1>3

(* A strand that nothing is posted on, and from which nothing runs.        *)
LEMMA Waits ==
  ASSUME TypeOK, UNCHANGED strand_
  PROVE  /\ strand_' \in Seq(Handler) /\ Range(strand_') = Range(strand_)
         /\ \A what : Ready(what)' = Ready(what)
BY DEF TypeOK, Ready

(* make_frame() makes a frame of a message that fits, and otherwise none.  *)
LEMMA FrameMade ==
  ASSUME NEW m \in Message
  PROVE  /\ make_frame(m) \in Frames \cup {None}
         /\ Fits(m.length) => make_frame(m) = FrameOf(m) /\ FrameOf(m) \in Frames
         /\ ~Fits(m.length) => make_frame(m) = None
BY DEF make_frame, FrameOf, Frames, Fitting

-----------------------------------------------------------------------------
(* The header and the message of a line that is typed.                     *)
LEMMA TypedMessage ==
  ASSUME TypeOK, NEW line \in Lines, Type(line)
  PROVE  \E m \in Message : /\ m = [type |-> build_client_message(line), id |-> Len(typed) + 1,
                                    length |-> line.length]
                            /\ [do |-> "write", message |-> m] \in Handler
<1> DEFINE m == [type |-> build_client_message(line), id |-> Len(typed) + 1, length |-> line.length]
<1>1. /\ line.command \in Commands /\ line.length \in 1..(2 * kMaxBodyLength)
      /\ build_client_message(line) # None /\ Len(typed) < MaxTyped
  BY ChatClientAssumption DEF Type
<1>2. line.length \in Nat
  <2>1. \A k \in Int : \A n \in 1..(2 * k) : n \in Nat
    OBVIOUS
  <2>2. kMaxBodyLength \in Int
    BY DEF kMaxBodyLength
  <2>3. QED
    BY <1>1, <2>1, <2>2
<1>3. Len(typed) + 1 \in 1..MaxTyped
  BY <1>1, ChatClientAssumption, LenProperties DEF TypeOK
<1>4. build_client_message(line) \in {TypeOf[c] : c \in DOMAIN TypeOf}
  <2>1. line.command # "empty" /\ build_client_message(line) = TypeOf[line.command]
    BY <1>1 DEF build_client_message
  <2>2. line.command \in DOMAIN TypeOf
    BY <1>1, <2>1 DEF Commands, TypeOf
  <2>3. QED
    BY <2>1, <2>2
<1>5. m \in Message
  BY <1>2, <1>3, <1>4 DEF Message
<1>6. QED
  BY <1>5 DEF Handler

(* What the main thread does keeps the invariant.                          *)
LEMMA MainStep ==
  ASSUME ClientIInv,
         (\E line \in Lines : Type(line)) \/ EndOfInput \/ Join
  PROVE  ClientIInv'
<1>1. TypeOK /\ QueueInv
  BY DEF ClientIInv
<1>2. ASSUME NEW h \in Handler, strand_' = Append(strand_, h), h.do \in {"write", "close"},
             main' \in {"typing", "join", "done"}, typed' \in Seq(Message),
             UNCHANGED <<client, pending, network>>
      PROVE  ClientIInv'
  <2>1. /\ strand_' \in Seq(Handler) /\ Range(strand_') = Range(strand_) \cup {h}
        /\ \A what : Ready(what)' = Ready(what) + Bit(h.do = what)
    BY <1>1, <1>2, Posted
  <2>2. TypeOK' /\ QueueInv'
    BY <1>1, <1>2, <2>1 DEF TypeOK, QueueInv, client, pending, network
  <2>3. ReplyInv'
    BY <1>2, <2>1 DEF ClientIInv, ReplyInv, client, network
  <2>4. \A what \in {"connect", "header", "body", "written"} : Ready(what)' = Ready(what)
    <3>1. \A what : Ready(what) \in Nat
      BY <1>1, ReadyCounts DEF TypeOK
    <3>2. \A what \in {"connect", "header", "body", "written"} : Bit(h.do = what) = 0
      BY <1>2 DEF Bit
    <3>3. QED
      BY <2>1, <3>1, <3>2
  <2>5. (~closed_' => Operations') /\ (closed_' => Leftover')
    BY <1>2, <2>4 DEF ClientIInv, Operations, Leftover, client, pending, Bit
  <2>6. QED
    BY <2>2, <2>3, <2>5 DEF ClientIInv
<1>3. ASSUME NEW line \in Lines, Type(line) PROVE ClientIInv'
  <2>1. PICK m \in Message :
          /\ m = [type |-> build_client_message(line), id |-> Len(typed) + 1, length |-> line.length]
          /\ [do |-> "write", message |-> m] \in Handler
    BY <1>1, <1>3, TypedMessage
  <2> DEFINE h == [do |-> "write", message |-> m]
  <2>2. /\ strand_' = Append(strand_, h) /\ typed' = Append(typed, m)
        /\ main' \in {"typing", "join", "done"} /\ UNCHANGED <<client, pending, network>>
    BY <1>3, <2>1 DEF Type
  <2>3. typed' \in Seq(Message)
    BY <1>1, <2>1, <2>2, AppendRange DEF TypeOK
  <2>4. h \in Handler /\ h.do \in {"write", "close"}
    BY <2>1
  <2>5. QED
    BY <1>2, <2>2, <2>3, <2>4
<1>4. CASE EndOfInput
  <2> DEFINE h == [do |-> "close"]
  <2>1. h \in Handler /\ h.do \in {"write", "close"}
    BY DEF Handler
  <2>2. /\ strand_' = Append(strand_, h) /\ typed' \in Seq(Message)
        /\ main' \in {"typing", "join", "done"} /\ UNCHANGED <<client, pending, network>>
    BY <1>1, <1>4 DEF EndOfInput, TypeOK
  <2>3. QED
    BY <1>2, <2>1, <2>2
<1>5. CASE Join
  <2>1. /\ main' = "done" /\ UNCHANGED <<typed, strand_, client, pending, network>>
    BY <1>5 DEF Join
  <2>2. \A what : Ready(what)' = Ready(what)
    BY <2>1 DEF Ready
  <2>3. TypeOK' /\ QueueInv' /\ ReplyInv'
    BY <2>1 DEF ClientIInv, TypeOK, QueueInv, ReplyInv, client, pending, network
  <2>4. (~closed_' => Operations') /\ (closed_' => Leftover')
    BY <2>1, <2>2 DEF ClientIInv, Operations, Leftover, client, pending
  <2>5. QED
    BY <2>3, <2>4 DEF ClientIInv
<1>6. QED
  BY <1>3, <1>4, <1>5

(* An operation that completes posts its completion.                       *)
LEMMA CompletionStep ==
  ASSUME ClientIInv, NEW ok \in BOOLEAN,
         ConnectCompletes(ok) \/ ReadCompletes(ok) \/ WriteCompletes(ok)
  PROVE  ClientIInv'
<1>1. TypeOK /\ QueueInv /\ ReplyInv /\ ~closed_ /\ Operations
  BY DEF ClientIInv, ConnectCompletes, ReadCompletes, WriteCompletes
<1>2. \A what : Ready(what) \in Nat
  BY <1>1, ReadyCounts DEF TypeOK
<1>3. CASE ConnectCompletes(ok)
  <2> DEFINE h == [do |-> "connect", ok |-> ok]
  <2>1. /\ strand_' = Append(strand_, h) /\ h \in Handler /\ h.do = "connect"
        /\ connecting /\ connecting' = FALSE /\ peer' = ok /\ broken' = ~ok
        /\ UNCHANGED <<threads, client, reading, writing, toServer, got, replies, replied>>
    BY <1>3 DEF ConnectCompletes, Completed, Handler, Completion
  <2> HIDE DEF h
  <2>2. /\ strand_' \in Seq(Handler) /\ Range(strand_') = Range(strand_) \cup {h}
        /\ \A what : Ready(what)' = Ready(what) + Bit(h.do = what)
    BY <1>1, <2>1, Posted
  <2>3. TypeOK' /\ QueueInv'
    BY <1>1, <2>1, <2>2 DEF TypeOK, QueueInv, threads, client
  <2>4. ReplyInv'
    BY <1>1, <2>1, <2>2 DEF ReplyInv
  <2>5. /\ Ready("connect")' = Ready("connect") + 1 /\ Ready("header")' = Ready("header")
        /\ Ready("body")' = Ready("body") /\ Ready("written")' = Ready("written")
    BY <1>2, <2>1, <2>2 DEF Bit
  <2>6. Operations'
    BY <1>1, <1>2, <2>1, <2>5 DEF Operations, Bit, client
  <2>7. QED
    BY <1>1, <2>1, <2>3, <2>4, <2>6 DEF ClientIInv, client
<1>4. CASE ReadCompletes(ok)
  <2> DEFINE h == [do |-> reading, ok |-> ok]
  <2>1. /\ strand_' = Append(strand_, h) /\ h \in Handler /\ h.do = reading /\ h.ok = ok
        /\ reading \in {"header", "body"} /\ reading' = "no" /\ (ok => replies # <<>>)
        /\ UNCHANGED <<threads, client, connecting, writing, network>>
    BY <1>1, <1>4 DEF ReadCompletes, Completed, Handler, Completion, TypeOK
  <2> HIDE DEF h
  <2>2. /\ strand_' \in Seq(Handler) /\ Range(strand_') = Range(strand_) \cup {h}
        /\ \A what : Ready(what)' = Ready(what) + Bit(h.do = what)
    BY <1>1, <2>1, Posted
  <2>3. TypeOK' /\ QueueInv'
    BY <1>1, <2>1, <2>2 DEF TypeOK, QueueInv, threads, client, network
  <2>4. ReplyInv'
    BY <1>1, <2>1, <2>2 DEF ReplyInv, client, network
  <2>5. /\ Ready("connect")' = Ready("connect") /\ Ready("written")' = Ready("written")
        /\ Ready("header")' + Ready("body")' = Ready("header") + Ready("body") + 1
    BY <1>2, <2>1, <2>2 DEF Bit
  <2>6. Operations'
    BY <1>1, <1>2, <2>1, <2>2, <2>5, ReadyCountsNext DEF Operations, Bit, client
  <2>7. QED
    BY <1>1, <2>1, <2>3, <2>4, <2>6 DEF ClientIInv, client
<1>5. CASE WriteCompletes(ok)
  <2> DEFINE h == [do |-> "written", ok |-> ok]
  <2>1. /\ strand_' = Append(strand_, h) /\ h \in Handler /\ h.do = "written"
        /\ writing /\ writing' = FALSE
        /\ toServer' = (IF ok /\ Head(write_queue_) # None
                        THEN Append(toServer, Head(write_queue_)) ELSE toServer)
        /\ UNCHANGED <<threads, client, connecting, reading, peer, got, replies, replied, broken>>
    BY <1>5 DEF WriteCompletes, Completed, Handler, Completion
  <2> HIDE DEF h
  <2>2. /\ strand_' \in Seq(Handler) /\ Range(strand_') = Range(strand_) \cup {h}
        /\ \A what : Ready(what)' = Ready(what) + Bit(h.do = what)
    BY <1>1, <2>1, Posted
  <2>3. write_queue_ # <<>>
    BY <1>1, <1>2, <2>1 DEF Operations, Bit
  <2>4. toServer' \in Seq(Frames)
    <3>1. Head(write_queue_) \in Frames \cup {None}
      BY <1>1, <2>3, TailRange DEF QueueInv
    <3>2. QED
      BY <1>1, <2>1, <3>1, AppendRange DEF QueueInv
  <2>5. TypeOK' /\ QueueInv'
    BY <1>1, <2>1, <2>2, <2>4 DEF TypeOK, QueueInv, threads, client
  <2>6. ReplyInv'
    BY <1>1, <2>1, <2>2 DEF ReplyInv, client
  <2>7. /\ Ready("connect")' = Ready("connect") /\ Ready("header")' = Ready("header")
        /\ Ready("body")' = Ready("body") /\ Ready("written")' = Ready("written") + 1
    <3>1. /\ \A what \in {"connect", "header", "body"} : Bit(h.do = what) = 0
          /\ Bit(h.do = "written") = 1
      BY <2>1 DEF Bit
    <3>2. QED
      BY <1>2, <2>2, <3>1
  <2>8. Operations'
    BY <1>1, <1>2, <2>1, <2>7 DEF Operations, Bit, client
  <2>9. QED
    BY <1>1, <2>1, <2>5, <2>6, <2>8 DEF ClientIInv, client
<1>6. QED
  BY <1>3, <1>4, <1>5

(* A handler that runs, by what it is.                                     *)
LEMMA Running ==
  ASSUME ClientIInv, NEW what, ~closed_, strand_ # <<>>, Head(strand_).do = what,
         strand_' = Tail(strand_)
  PROVE  /\ TypeOK /\ QueueInv /\ ReplyInv /\ Operations
         /\ strand_' \in Seq(Handler) /\ Head(strand_) \in Handler
         /\ Head(strand_) \in Range(strand_)
         /\ \A h \in Range(strand_') : h \in Range(strand_)
         /\ \A x : Ready(x) \in Nat /\ Ready(x)' \in Nat
         /\ Ready(what) = Ready(what)' + 1
         /\ \A x : x # what => Ready(x)' = Ready(x)
<1>1. TypeOK /\ QueueInv /\ ReplyInv /\ Operations
  BY DEF ClientIInv
<1>2. /\ strand_' \in Seq(Handler) /\ Head(strand_) \in Handler
      /\ Range(strand_) = Range(strand_') \cup {Head(strand_)}
      /\ \A x : Ready(x) = Ready(x)' + Bit(Head(strand_).do = x)
  BY <1>1, Popped
<1>3. \A x : Ready(x) \in Nat /\ Ready(x)' \in Nat
  BY <1>1, <1>2, ReadyCounts, ReadyCountsNext DEF TypeOK
<1>4. \A x : x # what => Bit(Head(strand_).do = x) = 0
  BY DEF Bit
<1>5. Bit(Head(strand_).do = what) = 1
  BY DEF Bit
<1>6. Ready(what) = Ready(what)' + 1
  BY <1>2, <1>5
<1>7. ASSUME NEW x, x # what PROVE Ready(x)' = Ready(x)
  <2>1. Ready(x) = Ready(x)' + 0
    BY <1>2, <1>4, <1>7
  <2>2. QED
    BY <1>3, <2>1
<1>8. QED
  BY <1>1, <1>2, <1>3, <1>6, <1>7

(* Of operations of which at most one is outstanding, counted.             *)
LEMMA CountsAlone ==
  ASSUME NEW c \in {0, 1}, NEW o \in {0, 1}, NEW r \in {0, 1}, NEW w \in {0, 1}, NEW q \in {0, 1},
         NEW nc \in Nat, NEW nh \in Nat, NEW nb \in Nat, NEW nw \in Nat,
         c + nc + o = 1, r + nh + nb = o, w + nw = q, o = 0 => q = 0
  PROVE  /\ nc > 0 => /\ c = 0 /\ o = 0 /\ nc = 1 /\ r = 0 /\ nh = 0 /\ nb = 0
                      /\ w = 0 /\ nw = 0
         /\ nh + nb > 0 => o = 1 /\ r = 0 /\ nh + nb = 1
         /\ nw > 0 => q = 1 /\ w = 0 /\ nw = 1
         /\ o = 1 \/ r = 1 \/ w = 1 => c = 0
<1>1. ASSUME nc > 0 PROVE c = 0 /\ o = 0 /\ nc = 1
  BY <1>1
<1>2. ASSUME o = 0 PROVE r = 0 /\ nh = 0 /\ nb = 0
  BY <1>2
<1>3. ASSUME q = 0 PROVE w = 0 /\ nw = 0
  BY <1>3
<1>4. ASSUME nh + nb > 0 PROVE o = 1 /\ r = 0 /\ nh + nb = 1
  BY <1>4
<1>5. ASSUME nw > 0 PROVE q = 1 /\ w = 0 /\ nw = 1
  BY <1>5
<1>6. ASSUME o = 1 PROVE c = 0
  BY <1>6
<1>7. o # 0 => o = 1
  OBVIOUS
<1>8. QED
  BY <1>1, <1>2, <1>3, <1>4, <1>5, <1>6, <1>7

(* A completion that waits is the client's only one of its kind: nothing   *)
(* else is connecting, or reading, or writing.                             *)
LEMMA OnlyOne ==
  ASSUME TypeOK, Operations, \A x : Ready(x) \in Nat
  PROVE  /\ Ready("connect") > 0 =>
               /\ ~connecting /\ ~connected_ /\ Ready("connect") = 1
               /\ reading = "no" /\ Ready("header") = 0 /\ Ready("body") = 0
               /\ ~writing /\ Ready("written") = 0
         /\ Ready("header") + Ready("body") > 0 =>
               connected_ /\ reading = "no" /\ Ready("header") + Ready("body") = 1
         /\ Ready("written") > 0 =>
               connected_ /\ write_queue_ # <<>> /\ ~writing /\ Ready("written") = 1
<1> DEFINE c == Bit(connecting)
           o == Bit(connected_)
           r == Bit(reading # "no")
           w == Bit(writing)
           q == Bit(connected_ /\ write_queue_ # <<>>)
<1>1. /\ c = 0 => ~connecting
      /\ o = 0 => ~connected_
      /\ o = 1 => connected_
      /\ r = 0 => reading = "no"
      /\ w = 0 => ~writing
      /\ q = 1 => connected_ /\ write_queue_ # <<>>
      /\ c \in {0, 1} /\ o \in {0, 1} /\ r \in {0, 1} /\ w \in {0, 1} /\ q \in {0, 1}
  BY DEF Bit, TypeOK
<1> DEFINE nc == Ready("connect")
           nh == Ready("header")
           nb == Ready("body")
           nw == Ready("written")
<1>2. /\ nc \in Nat /\ nh \in Nat /\ nb \in Nat /\ nw \in Nat
      /\ c + nc + o = 1 /\ r + nh + nb = o /\ w + nw = q
  BY DEF Operations
<1>3. o = 0 => q = 0
  BY DEF Bit
<1> HIDE DEF c, o, r, w, q, nc, nh, nb, nw
<1>4. /\ nc > 0 => /\ c = 0 /\ o = 0 /\ nc = 1 /\ r = 0 /\ nh = 0 /\ nb = 0
                   /\ w = 0 /\ nw = 0
      /\ nh + nb > 0 => o = 1 /\ r = 0 /\ nh + nb = 1
      /\ nw > 0 => q = 1 /\ w = 0 /\ nw = 1
  BY <1>1, <1>2, <1>3, CountsAlone
<1>5. QED
  BY <1>1, <1>4 DEF nc, nh, nb, nw

(* A handler that closes the client keeps the invariant.                   *)
LEMMA ClosingStep ==
  ASSUME ClientIInv, NEW what, Runs(what), close
  PROVE  ClientIInv'
<1>1. /\ ~closed_ /\ strand_ # <<>> /\ Head(strand_).do = what /\ strand_' = Tail(strand_)
      /\ closed_' = TRUE /\ UNCHANGED <<threads, network, connected_, write_queue_, pending>>
  BY DEF Runs, close
<1>2. /\ TypeOK /\ QueueInv /\ ReplyInv /\ Operations /\ strand_' \in Seq(Handler)
      /\ \A h \in Range(strand_') : h \in Range(strand_)
  BY <1>1, Running
<1>3. TypeOK' /\ QueueInv' /\ ReplyInv'
  BY <1>1, <1>2 DEF TypeOK, QueueInv, ReplyInv, threads, network, pending
<1>4. Leftover'
  <2>1. \A x : Ready(x) \in Nat /\ Ready(x)' \in Nat /\ Ready(x)' <= Ready(x)
    BY <1>1, Running
  <2>2. /\ Ready("header") + Ready("body") <= 1 /\ Ready("written") <= 1
        /\ Ready("written") > 0 => write_queue_ # <<>>
    BY <1>2, <2>1, OnlyOne
  <2>3. QED
    BY <1>1, <2>1, <2>2 DEF Leftover
<1>5. QED
  BY <1>1, <1>3, <1>4 DEF ClientIInv

(* Every other handler does, too.                                          *)
LEMMA HandlerStep ==
  ASSUME ClientIInv, Connected \/ Write \/ Written \/ HeaderRead \/ BodyRead
  PROVE  ClientIInv'
<1>1. CASE Connected
  <2>1. /\ ~closed_ /\ strand_ # <<>> /\ Head(strand_).do = "connect" /\ strand_' = Tail(strand_)
        /\ connected_' = TRUE /\ writing' = (write_queue_ # <<>>) /\ reading' = "header"
        /\ UNCHANGED <<threads, network, closed_, write_queue_, connecting>>
    BY <1>1 DEF Connected, Runs
  <2>2. /\ TypeOK /\ QueueInv /\ ReplyInv /\ Operations /\ strand_' \in Seq(Handler)
        /\ \A h \in Range(strand_') : h \in Range(strand_)
    BY <2>1, Running
  <2>3. /\ \A x : Ready(x) \in Nat /\ Ready(x)' \in Nat
        /\ Ready("connect") = Ready("connect")' + 1
        /\ \A x : x # "connect" => Ready(x)' = Ready(x)
    BY <2>1, Running
  <2>4. TypeOK' /\ QueueInv'
    BY <2>1, <2>2 DEF TypeOK, QueueInv, threads, network
  <2>5. ReplyInv'
    BY <2>1, <2>2 DEF ReplyInv, network
  <2>6. Ready("connect") > 0
    BY <2>3
  <2>7. /\ ~connecting /\ Ready("connect")' = 0 /\ Ready("header")' = 0 /\ Ready("body")' = 0
        /\ Ready("written")' = 0
    BY <2>2, <2>3, <2>6, OnlyOne
  <2>8. Operations'
    <3>1. /\ Bit(connecting') = 0 /\ Bit(connected_') = 1 /\ Bit(reading' # "no") = 1
          /\ Bit(writing') = Bit(connected_' /\ write_queue_' # <<>>) /\ Bit(writing') \in {0, 1}
      BY <2>1, <2>7 DEF Bit
    <3>2. QED
      BY <2>7, <3>1 DEF Operations
  <2>9. QED
    BY <2>1, <2>4, <2>5, <2>8 DEF ClientIInv, client
<1>2. CASE Write
  <2> DEFINE f == make_frame(Head(strand_).message)
  <2>1. /\ ~closed_ /\ strand_ # <<>> /\ Head(strand_).do = "write" /\ strand_' = Tail(strand_)
        /\ write_queue_' = Append(write_queue_, f)
        /\ writing' = (writing \/ (connected_ /\ write_queue_ = <<>>))
        /\ UNCHANGED <<threads, network, connected_, closed_, connecting, reading>>
    BY <1>2 DEF Write, Runs
  <2>2. /\ TypeOK /\ QueueInv /\ ReplyInv /\ Operations /\ strand_' \in Seq(Handler)
        /\ Head(strand_) \in Handler /\ \A h \in Range(strand_') : h \in Range(strand_)
    BY <2>1, Running
  <2>3. /\ \A x : Ready(x) \in Nat /\ Ready(x)' \in Nat
        /\ \A x : x # "write" => Ready(x)' = Ready(x)
    BY <2>1, Running
  <2>4. f \in Frames \cup {None}
    <3>1. Head(strand_).message \in Message
      BY <2>1, <2>2 DEF Handler, Completion
    <3>2. QED
      BY <3>1, FrameMade
  <2> HIDE DEF f
  <2>5. write_queue_' \in Seq(Frames \cup {None}) /\ write_queue_' # <<>>
    BY <2>1, <2>2, <2>4, AppendProperties DEF QueueInv
  <2>6. TypeOK' /\ QueueInv'
    BY <2>1, <2>2, <2>5 DEF TypeOK, QueueInv, threads, network
  <2>7. ReplyInv'
    BY <2>1, <2>2 DEF ReplyInv, network
  <2>8. /\ Ready("connect")' = Ready("connect") /\ Ready("header")' = Ready("header")
        /\ Ready("body")' = Ready("body") /\ Ready("written")' = Ready("written")
    BY <2>3
  <2>9. Operations'
    <3>1. CASE write_queue_ = <<>>
      BY <2>1, <2>2, <2>3, <2>5, <2>8, <3>1 DEF Operations, Bit, TypeOK
    <3>2. CASE write_queue_ # <<>>
      BY <2>1, <2>2, <2>3, <2>5, <2>8, <3>2 DEF Operations, Bit, TypeOK
    <3>3. QED
      BY <3>1, <3>2
  <2>10. QED
    BY <2>1, <2>6, <2>7, <2>9 DEF ClientIInv, client
<1>3. CASE Written
  <2>1. /\ ~closed_ /\ strand_ # <<>> /\ Head(strand_).do = "written" /\ strand_' = Tail(strand_)
        /\ write_queue_' = Tail(write_queue_) /\ writing' = (Tail(write_queue_) # <<>>)
        /\ UNCHANGED <<threads, network, connected_, closed_, connecting, reading>>
    BY <1>3 DEF Written, Runs
  <2>2. /\ TypeOK /\ QueueInv /\ ReplyInv /\ Operations /\ strand_' \in Seq(Handler)
        /\ \A h \in Range(strand_') : h \in Range(strand_)
    BY <2>1, Running
  <2>3. /\ \A x : Ready(x) \in Nat /\ Ready(x)' \in Nat
        /\ Ready("written") = Ready("written")' + 1
        /\ \A x : x # "written" => Ready(x)' = Ready(x)
    BY <2>1, Running
  <2>4. connected_ /\ write_queue_ # <<>> /\ Ready("written")' = 0
    <3>1. Ready("written") > 0
      BY <2>3
    <3>2. QED
      BY <2>2, <2>3, <3>1, OnlyOne
  <2>5. TypeOK' /\ QueueInv'
    BY <2>1, <2>2, <2>4, TailRange DEF TypeOK, QueueInv, threads, network
  <2>6. ReplyInv'
    BY <2>1, <2>2 DEF ReplyInv, network
  <2>7. /\ Ready("connect")' = Ready("connect") /\ Ready("header")' = Ready("header")
        /\ Ready("body")' = Ready("body")
    BY <2>3
  <2>8. Operations'
    <3>1. /\ Bit(writing') = Bit(connected_' /\ write_queue_' # <<>>) /\ Bit(writing') \in {0, 1}
          /\ Bit(connecting') = Bit(connecting) /\ Bit(connected_') = Bit(connected_)
          /\ Bit(reading' # "no") = Bit(reading # "no")
      BY <2>1, <2>4 DEF Bit
    <3>2. Bit(connecting') + Ready("connect")' + Bit(connected_') = 1
      BY <2>2, <2>7, <3>1 DEF Operations
    <3>3. Bit(reading' # "no") + Ready("header")' + Ready("body")' = Bit(connected_')
      BY <2>2, <2>7, <3>1 DEF Operations
    <3>4. Bit(writing') + Ready("written")' = Bit(connected_' /\ write_queue_' # <<>>)
      BY <2>4, <3>1
    <3>5. QED
      BY <3>2, <3>3, <3>4 DEF Operations
  <2>9. QED
    BY <2>1, <2>5, <2>6, <2>8 DEF ClientIInv, client
<1>4. CASE HeaderRead
  <2>1. /\ ~closed_ /\ strand_ # <<>> /\ Head(strand_).do = "header" /\ strand_' = Tail(strand_)
        /\ reading' = "body" /\ UNCHANGED <<threads, network, client, connecting, writing>>
    BY <1>4 DEF HeaderRead, Runs
  <2>2. /\ TypeOK /\ QueueInv /\ ReplyInv /\ Operations /\ strand_' \in Seq(Handler)
        /\ \A h \in Range(strand_') : h \in Range(strand_)
    BY <2>1, Running
  <2>3. /\ \A x : Ready(x) \in Nat /\ Ready(x)' \in Nat
        /\ Ready("header") = Ready("header")' + 1
        /\ \A x : x # "header" => Ready(x)' = Ready(x)
    BY <2>1, Running
  <2>4. TypeOK' /\ QueueInv'
    BY <2>1, <2>2 DEF TypeOK, QueueInv, threads, network, client
  <2>5. ReplyInv'
    BY <2>1, <2>2 DEF ReplyInv, network, client
  <2>6. /\ reading = "no" /\ connected_ /\ Ready("body") = 0 /\ Ready("header")' = 0
    <3>1. Ready("header") + Ready("body") > 0
      BY <2>3
    <3>2. QED
      BY <2>2, <2>3, <3>1, OnlyOne
  <2>7. /\ Ready("connect")' = Ready("connect") /\ Ready("body")' = Ready("body")
        /\ Ready("written")' = Ready("written")
    BY <2>3
  <2>8. Operations'
    BY <2>1, <2>2, <2>6, <2>7 DEF Operations, Bit, client
  <2>9. QED
    BY <2>1, <2>4, <2>5, <2>8 DEF ClientIInv, client
<1>5. CASE BodyRead
  <2>1. /\ ~closed_ /\ strand_ # <<>> /\ Head(strand_).do = "body" /\ strand_' = Tail(strand_)
        /\ Head(strand_).ok /\ replies' = Tail(replies) /\ reading' = "header"
        /\ UNCHANGED <<threads, client, connecting, writing, peer, toServer, got, replied, broken>>
    BY <1>5 DEF BodyRead
  <2>2. /\ TypeOK /\ QueueInv /\ ReplyInv /\ Operations /\ strand_' \in Seq(Handler)
        /\ Head(strand_) \in Range(strand_)
    BY <2>1, Running
  <2>3. /\ \A x : Ready(x) \in Nat /\ Ready(x)' \in Nat
        /\ Ready("body") = Ready("body")' + 1
        /\ \A x : x # "body" => Ready(x)' = Ready(x)
    BY <2>1, Running
  <2>4. replies # <<>>
    BY <2>1, <2>2 DEF ReplyInv
  <2>5. TypeOK' /\ QueueInv'
    BY <2>1, <2>2, <2>4, TailRange DEF TypeOK, QueueInv, threads, client
  <2>6. /\ reading = "no" /\ connected_ /\ Ready("header")' = 0 /\ Ready("body")' = 0
    <3>1. Ready("header") + Ready("body") > 0
      BY <2>3
    <3>2. QED
      BY <2>2, <2>3, <3>1, OnlyOne
  <2>7. ReplyInv'
    BY <2>2, <2>6, ReadyCountsNext DEF ReplyInv
  <2>8. /\ Ready("connect")' = Ready("connect") /\ Ready("written")' = Ready("written")
    BY <2>3
  <2>9. Operations'
    BY <2>1, <2>2, <2>6, <2>8 DEF Operations, Bit, client
  <2>10. QED
    BY <2>1, <2>5, <2>7, <2>9 DEF ClientIInv, client
<1>6. QED
  BY <1>1, <1>2, <1>3, <1>4, <1>5

(* The server and the network touch nothing of the client's.               *)
LEMMA NetworkStep ==
  ASSUME ClientIInv,
         ServerReads \/ ConnectionBreaks \/ \E n \in ReplyLengths : ServerReplies(n)
  PROVE  ClientIInv'
<1>1. TypeOK /\ QueueInv /\ ReplyInv
  BY DEF ClientIInv
<1>2. UNCHANGED <<threads, strand_, client, pending>>
  BY DEF ServerReads, ConnectionBreaks, ServerReplies
<1>3. (~closed_' => Operations') /\ (closed_' => Leftover')
  <2>1. \A what : Ready(what)' = Ready(what)
    BY <1>2 DEF Ready
  <2>2. QED
    BY <1>2, <2>1 DEF ClientIInv, Operations, Leftover, client, pending
<1>4. CASE ServerReads
  <2>1. /\ toServer # <<>> /\ toServer' = Tail(toServer) /\ peer' \in BOOLEAN /\ broken' \in BOOLEAN
        /\ got' \in {got, Append(got, Head(toServer).body)} /\ UNCHANGED <<replies, replied>>
    BY <1>1, <1>4 DEF ServerReads, TypeOK, Readable
  <2>2. Head(toServer) \in Frames /\ toServer' \in Seq(Frames)
    BY <1>1, <2>1, TailRange DEF QueueInv
  <2>3. Head(toServer).body \in Message
    <3>1. PICK m \in Fitting : Head(toServer) = FrameOf(m)
      BY <2>2 DEF Frames
    <3>2. QED
      BY <3>1 DEF FrameOf, Fitting
  <2>4. got' \in Seq(Message)
    <3>1. Append(got, Head(toServer).body) \in Seq(Message)
      BY <1>1, <2>3, AppendRange DEF TypeOK
    <3>2. QED
      BY <1>1, <2>1, <3>1 DEF TypeOK
  <2>5. TypeOK' /\ QueueInv'
    BY <1>1, <1>2, <2>1, <2>2, <2>4 DEF TypeOK, QueueInv, threads, client, pending
  <2>6. ReplyInv'
    BY <1>1, <1>2, <2>1 DEF ReplyInv, client
  <2>7. QED
    BY <1>3, <2>5, <2>6 DEF ClientIInv
<1>5. CASE ConnectionBreaks
  <2>1. /\ peer' = FALSE /\ broken' = TRUE
        /\ UNCHANGED <<threads, strand_, client, pending, toServer, got, replies, replied>>
    BY <1>5 DEF ConnectionBreaks
  <2>2. TypeOK'
    BY <1>1, <2>1 DEF TypeOK, threads, client, pending
  <2>3. QueueInv'
    BY <1>1, <2>1 DEF QueueInv, client
  <2>4. ReplyInv'
    BY <1>1, <2>1 DEF ReplyInv, client
  <2>5. QED
    BY <1>3, <2>2, <2>3, <2>4 DEF ClientIInv
<1>6. ASSUME NEW n \in ReplyLengths, ServerReplies(n) PROVE ClientIInv'
  <2>1. /\ replied < MaxReplies /\ replies' = Append(replies, n) /\ replied' = replied + 1
        /\ broken' \in BOOLEAN /\ UNCHANGED <<peer, toServer, got>>
    BY <1>1, <1>6 DEF ServerReplies, TypeOK
  <2>2. replies' \in Seq(ReplyLengths) /\ replies' # <<>>
    BY <1>1, <2>1, AppendProperties DEF TypeOK
  <2>3. replied' \in 0..MaxReplies
    BY <1>1, <2>1, ChatClientAssumption DEF TypeOK
  <2>4. TypeOK' /\ QueueInv'
    BY <1>1, <1>2, <2>1, <2>2, <2>3 DEF TypeOK, QueueInv, threads, client, pending
  <2>5. ReplyInv'
    BY <2>2 DEF ReplyInv
  <2>6. QED
    BY <1>3, <2>4, <2>5 DEF ClientIInv
<1>7. QED
  BY <1>4, <1>5, <1>6

(* The rest of a batch finds what its completions are about.               *)
LEMMA BatchStep ==
  ASSUME ClientIInv, RestOfBatch
  PROVE  ClientIInv'
<1> DEFINE h == Head(strand_)
<1>1. /\ closed_ /\ strand_ # <<>> /\ strand_' = Tail(strand_)
      /\ connected_' = (connected_ \/ (h.do = "connect" /\ h.ok))
      /\ write_queue_' = CASE h.do = "write" -> Append(write_queue_, make_frame(h.message))
                           [] h.do = "written" /\ h.ok -> Tail(write_queue_)
                           [] OTHER -> write_queue_
      /\ replies' = (IF h.do = "body" /\ h.ok THEN Tail(replies) ELSE replies)
      /\ UNCHANGED <<threads, closed_, pending, peer, toServer, got, replied, broken>>
  BY DEF RestOfBatch
<1>2. TypeOK /\ QueueInv /\ ReplyInv /\ Leftover
  BY <1>1 DEF ClientIInv
<1>3. /\ strand_' \in Seq(Handler) /\ h \in Handler
      /\ Range(strand_) = Range(strand_') \cup {h}
      /\ \A x : Ready(x) = Ready(x)' + Bit(h.do = x)
  BY <1>1, <1>2, Popped
<1>4. /\ \A x : Ready(x) \in Nat /\ Ready(x)' \in Nat
      /\ \A x : Bit(h.do = x) = IF h.do = x THEN 1 ELSE 0
  BY <1>2, <1>3, ReadyCounts, ReadyCountsNext DEF TypeOK, Bit
<1> HIDE DEF h
<1>5. \A x : Ready(x)' <= Ready(x) /\ (h.do = x => Ready(x)' = Ready(x) - 1)
  <2> SUFFICES ASSUME NEW x
               PROVE  Ready(x)' <= Ready(x) /\ (h.do = x => Ready(x)' = Ready(x) - 1)
    OBVIOUS
  <2> DEFINE i == Ready(x)
             j == Ready(x)'
  <2>1. i \in Nat /\ j \in Nat /\ i = j + (IF h.do = x THEN 1 ELSE 0)
    BY <1>3, <1>4
  <2> HIDE DEF i, j
  <2>2. j <= i /\ (h.do = x => j = i - 1)
    BY <2>1
  <2>3. QED
    BY <2>2 DEF i, j
<1>6. replies' \in Seq(ReplyLengths)
  <2>1. CASE h.do = "body" /\ h.ok
    <3>1. replies # <<>>
      BY <1>2, <1>3, <2>1 DEF ReplyInv
    <3>2. QED
      BY <1>1, <1>2, <2>1, <3>1, TailRange DEF TypeOK
  <2>2. CASE ~(h.do = "body" /\ h.ok)
    BY <1>1, <1>2, <2>2 DEF TypeOK
  <2>3. QED
    BY <2>1, <2>2
<1>7. /\ write_queue_' \in Seq(Frames \cup {None})
      /\ h.do # "written" /\ write_queue_ # <<>> => write_queue_' # <<>>
  <2>1. CASE h.do = "write"
    <3>1. h.message \in Message
      BY <1>3, <2>1 DEF Handler, Completion
    <3>2. make_frame(h.message) \in Frames \cup {None}
      BY <3>1, FrameMade
    <3>3. write_queue_' = Append(write_queue_, make_frame(h.message))
      BY <1>1, <2>1
    <3>4. QED
      BY <1>2, <3>2, <3>3, AppendProperties DEF QueueInv
  <2>2. CASE h.do = "written" /\ h.ok
    <3>1. write_queue_ # <<>>
      BY <1>2, <1>4, <1>5, <2>2 DEF Leftover
    <3>2. write_queue_' = Tail(write_queue_)
      BY <1>1, <2>2
    <3>3. QED
      BY <1>2, <2>2, <3>1, <3>2, TailRange DEF QueueInv
  <2>3. CASE h.do # "write" /\ ~(h.do = "written" /\ h.ok)
    BY <1>1, <1>2, <2>3 DEF QueueInv
  <2>4. QED
    BY <2>1, <2>2, <2>3
<1>8. TypeOK' /\ QueueInv'
  <2>1. connected_' \in BOOLEAN
    BY <1>1
  <2>2. QED
    BY <1>1, <1>2, <1>3, <1>6, <1>7, <2>1 DEF TypeOK, QueueInv, threads, pending
<1>9. ReplyInv'
  <2>1. CASE h.do = "body" /\ h.ok
    <3>1. Ready("header")' + Ready("body")' = 0
      BY <1>2, <1>4, <1>5, <2>1 DEF Leftover
    <3>2. \A g \in Range(strand_') : g.do # "header" /\ g.do # "body"
      BY <1>3, <1>4, <3>1, ReadyCountsNext
    <3>3. QED
      BY <3>2 DEF ReplyInv
  <2>2. CASE ~(h.do = "body" /\ h.ok)
    BY <1>1, <1>2, <1>3, <2>2 DEF ReplyInv
  <2>3. QED
    BY <2>1, <2>2
<1>10. Leftover'
  <2>1. Ready("header")' + Ready("body")' <= 1 /\ Ready("written")' <= 1
    BY <1>2, <1>4, <1>5 DEF Leftover
  <2>2. Ready("written")' > 0 => write_queue_' # <<>>
    BY <1>2, <1>4, <1>5, <1>7 DEF Leftover
  <2>3. QED
    BY <2>1, <2>2 DEF Leftover
<1>11. QED
  BY <1>1, <1>8, <1>9, <1>10 DEF ClientIInv

-----------------------------------------------------------------------------
(* Nothing is typed, queued or read at first.                              *)
LEMMA InitClient == Init => ClientIInv
<1> SUFFICES ASSUME Init PROVE ClientIInv
  OBVIOUS
<1>1. <<>> \in Seq(Message) /\ <<>> \in Seq(Handler) /\ <<>> \in Seq(ReplyLengths)
      /\ <<>> \in Seq(Frames) /\ <<>> \in Seq(Frames \cup {None}) /\ Range(<<>>) = {}
  BY EmptySeq, EmptyRange
<1>2. 0 \in 0..MaxReplies
  BY ChatClientAssumption
<1>3. TypeOK /\ QueueInv /\ ReplyInv
  BY <1>1, <1>2 DEF Init, TypeOK, QueueInv, ReplyInv
<1>4. \A what : Ready(what) = 0
  <2> SUFFICES ASSUME NEW what PROVE Ready(what) = 0
    OBVIOUS
  <2>1. {i \in DOMAIN strand_ : strand_[i].do = what} = {}
    BY DEF Init
  <2>2. QED
    BY <2>1, FS_EmptySet DEF Ready
<1>5. Operations
  BY <1>4 DEF Init, Operations, Bit
<1>6. QED
  BY <1>3, <1>5 DEF ClientIInv, Init

(* Every step keeps the invariant.                                         *)
LEMMA StepClient == ClientIInv /\ [Next]_vars => ClientIInv'
<1> SUFFICES ASSUME ClientIInv, [Next]_vars PROVE ClientIInv'
  OBVIOUS
<1>1. ASSUME UNCHANGED vars PROVE ClientIInv'
  <2>1. /\ UNCHANGED <<threads, strand_, client, pending, network>>
    BY <1>1 DEF vars
  <2>2. \A what : Ready(what)' = Ready(what)
    BY <2>1 DEF Ready
  <2>3. TypeOK' /\ QueueInv' /\ ReplyInv'
    BY <2>1 DEF ClientIInv, TypeOK, QueueInv, ReplyInv, threads, client, pending, network
  <2>4. (~closed_' => Operations') /\ (closed_' => Leftover')
    BY <2>1, <2>2 DEF ClientIInv, Operations, Leftover, client, pending
  <2>5. QED
    BY <2>3, <2>4 DEF ClientIInv
<1>2. ASSUME Handlers PROVE ClientIInv'
  BY <1>2, HandlerStep, ClosingStep DEF Handlers, HeaderRefused, Failed, Close
<1>3. ASSUME NEW ok \in BOOLEAN, ConnectCompletes(ok) \/ ReadCompletes(ok) \/ WriteCompletes(ok)
      PROVE  ClientIInv'
  BY <1>3, CompletionStep
<1>4. QED
  BY <1>1, <1>2, <1>3, MainStep, BatchStep, NetworkStep DEF Next, Terminated

(* So it always holds.                                                     *)
LEMMA AlwaysClient == Spec => []ClientIInv
BY InitClient, StepClient, PTL DEF Spec

(* The client reads once and writes once at a time, writes exactly when it *)
(* is connected and has something queued, and until it closes always has   *)
(* an operation or a handler outstanding, whatever the user types, however *)
(* much, and whatever fails.                                               *)
THEOREM ClientInStep == Spec => []ClientInv
<1>1. ClientIInv => ClientInv
  BY DEF ClientIInv, ClientInv, Operations
<1>2. QED
  BY <1>1, AlwaysClient, PTL

-----------------------------------------------------------------------------
(* What the server has got and what it still will get: the messages of the *)
(* frames on their way, of those queued and not written, and of those      *)
(* whose write() is still to run.                                          *)
Body == [f \in Frames |-> f.body]
Text == [h \in With("write") |-> h.message]
Queued(q) == Picked(q, Frames, Body)
Waiting == Picked(strand_, With("write"), Text)
HeadWritten == [do |-> "written", ok |-> TRUE] \in Range(strand_)
Unwritten == IF HeadWritten THEN Tail(write_queue_) ELSE write_queue_

Sent == got \o Queued(toServer)
Unsent == Queued(Unwritten) \o Only(Waiting, Fitting)

(* What was typed was sent, then what was not sent: until close(), that is *)
(* what is queued and what waits to be.                                    *)
SentInv == \E rest \in Seq(Message) : Sent \o rest = ToSend /\ (~closed_ => rest = Unsent)

(* The frames of messages, and the messages of frames.                     *)
LEMMA FrameBodies ==
  /\ Body \in [Frames -> Message] /\ Text \in [With("write") -> Message] /\ None \notin Frames
  /\ \A m \in Fitting : FrameOf(m) \in Frames /\ Body[FrameOf(m)] = m
  /\ \A f \in Frames : f.body = Body[f] /\ Readable(f)
<1>1. ASSUME NEW m \in Fitting
      PROVE  /\ FrameOf(m) \in Frames /\ FrameOf(m).body = m /\ Readable(FrameOf(m))
             /\ m \in Message /\ FrameOf(m) \in [header : Seq(Nat), body : Message]
  <2>1. m \in Message /\ m.length \in Nat /\ m.length <= 8192
    BY DEF Fitting, Message, Fits, kMaxBodyLength
  <2>2. m.length \in UInt32
    BY <2>1 DEF UInt32
  <2>3. encode_header(m.length) \in Seq(Nat)
    <3>1. \A d \in {16777216, 65536, 256, 1} : (m.length \div d) % 256 \in Nat
      BY <2>1
    <3>2. m.length % 256 \in Nat
      BY <2>1
    <3>3. QED
      BY <3>1, <3>2 DEF encode_header
  <2>4. Readable(FrameOf(m))
    <3>1. FrameOf(m).header = encode_header(m.length) /\ FrameOf(m).body.length = m.length
      BY DEF FrameOf
    <3>2. Accepted(encode_header(m.length)) /\ body_length(encode_header(m.length)) = m.length
      BY <2>2, FramedIsAccepted, HeaderRoundTrip DEF Fitting
    <3>3. QED
      BY <3>1, <3>2 DEF Readable
  <2>5. QED
    BY <2>1, <2>3, <2>4 DEF FrameOf, Frames
<1>2. ASSUME NEW f \in Frames
      PROVE  f.body \in Message /\ Readable(f) /\ f \in [header : Seq(Nat), body : Message]
  <2>1. PICK m \in Fitting : f = FrameOf(m)
    BY DEF Frames
  <2>2. QED
    BY <1>1, <2>1
<1>3. \A h \in With("write") : h.message \in Message
  BY DEF With, Handler, Completion
<1>4. QED
  BY <1>1, <1>2, <1>3, NoneIsNoFrame DEF Body, Text

(* Picking messages makes a sequence of messages.                          *)
LEMMA PickedMessages ==
  ASSUME NEW X, NEW S, NEW f, NEW s \in Seq(X), \A a \in S : f[a] \in Message
  PROVE  Picked(s, S, f) \in Seq(Message)
<1>1. Picked(s, S, f) \in Seq({f[a] : a \in S})
  BY PickedValues
<1>2. {f[a] : a \in S} \subseteq Message
  OBVIOUS
<1>3. QED
  BY <1>1, <1>2, SeqMonotonic

(* What is picked of the frames and of the handlers are messages.          *)
LEMMA SentTyped ==
  ASSUME TypeOK, QueueInv
  PROVE  /\ Waiting \in Seq(Message) /\ Only(Waiting, Fitting) \in Seq(Message)
         /\ \A q \in Seq(Frames \cup {None}) : Queued(q) \in Seq(Message)
         /\ Queued(toServer) \in Seq(Message) /\ got \in Seq(Message) /\ Sent \in Seq(Message)
         /\ ToSend \in Seq(Message)
<1>1. /\ strand_ \in Seq(Handler) /\ toServer \in Seq(Frames) /\ got \in Seq(Message)
      /\ typed \in Seq(Message)
  BY DEF TypeOK, QueueInv
<1>2. \A f \in Frames : Body[f] \in Message
  BY FrameBodies
<1>3. \A h \in With("write") : Text[h] \in Message
  BY FrameBodies
<1>5. Waiting \in Seq(Message)
  BY <1>1, <1>3, PickedMessages DEF Waiting
<1>6. \A q \in Seq(Frames \cup {None}) : Queued(q) \in Seq(Message)
  BY <1>2, PickedMessages DEF Queued
<1>7. Queued(toServer) \in Seq(Message)
  <2>1. toServer \in Seq(Frames \cup {None})
    BY <1>1, SeqMonotonic
  <2>2. QED
    BY <1>6, <2>1
<1>8. Only(Waiting, Fitting) \in Seq(Message) /\ ToSend \in Seq(Message)
  BY <1>1, <1>5, OnlyKeeps DEF ToSend, Fitting
<1>9. Sent \in Seq(Message)
  BY <1>1, <1>7, ConcatProperties DEF Sent
<1>10. QED
  BY <1>1, <1>5, <1>6, <1>7, <1>8, <1>9

(* A write() that is posted waits behind the others.                       *)
LEMMA WaitingPosted ==
  ASSUME TypeOK, NEW h \in Handler, strand_' = Append(strand_, h)
  PROVE  Waiting' = IF h.do = "write" THEN Append(Waiting, h.message) ELSE Waiting
<1>1. strand_ \in Seq(Handler)
  BY DEF TypeOK
<1>2. Picked(Append(strand_, h), With("write"), Text)
        = IF h \in With("write") THEN Append(Waiting, Text[h]) ELSE Waiting
  <2>1. ASSUME NEW S, NEW f, NEW X, NEW s \in Seq(X), NEW x \in X
        PROVE  Picked(Append(s, x), S, f) =
                 IF x \in S THEN Append(Picked(s, S, f), f[x]) ELSE Picked(s, S, f)
    BY PickedAppend
  <2>2. QED
    BY <1>1, <2>1 DEF Waiting
<1>3. Waiting' = Picked(Append(strand_, h), With("write"), Text)
  BY DEF Waiting
<1>4. QED
  BY <1>2, <1>3 DEF With, Text

(* The first handler no longer waits once it has run.                      *)
LEMMA WaitingPopped ==
  ASSUME TypeOK, strand_ # <<>>, strand_' = Tail(strand_)
  PROVE  /\ Waiting' \in Seq(Message)
         /\ Head(strand_).do = "write" =>
              Head(strand_).message \in Message /\ Waiting = <<Head(strand_).message>> \o Waiting'
         /\ Head(strand_).do # "write" => Waiting' = Waiting
<1>1. /\ strand_ \in Seq(Handler) /\ Head(strand_) \in Handler
      /\ \A h \in With("write") : Text[h] \in Message
  BY FrameBodies, TailRange DEF TypeOK
<1> DEFINE h == Head(strand_)
           later == Picked(Tail(strand_), With("write"), Text)
<1>2. /\ h \in With("write") => Waiting = <<Text[h]>> \o later
      /\ h \notin With("write") => Waiting = later
  <2>1. strand_ \in Seq(Handler) /\ strand_ # <<>>
    BY <1>1
  <2>2. ASSUME NEW S, NEW f, Head(strand_) \in S
        PROVE  Picked(strand_, S, f) = <<f[Head(strand_)]>> \o Picked(Tail(strand_), S, f)
    BY <2>1, <2>2, PickedFirst
  <2>3. ASSUME NEW S, NEW f, Head(strand_) \notin S
        PROVE  Picked(strand_, S, f) = Picked(Tail(strand_), S, f)
    BY <2>1, <2>3, PickedSkips
  <2>4. h \in With("write") => Waiting = <<Text[h]>> \o later
    BY <2>2 DEF Waiting
  <2>5. h \notin With("write") => Waiting = later
    BY <2>3 DEF Waiting
  <2>6. QED
    BY <2>4, <2>5
<1>3. Waiting' = later
  BY DEF Waiting
<1>4. later \in Seq(Message)
  <2>1. Tail(strand_) \in Seq(Handler)
    BY <1>1, HeadTailProperties
  <2>2. QED
    BY <1>1, <2>1, PickedMessages
<1>5. h.do = "write" => h \in With("write") /\ Text[h] = h.message /\ Text[h] \in Message
  BY <1>1 DEF With, Text
<1>6. h.do # "write" => h \notin With("write")
  BY DEF With
<1> HIDE DEF h, later
<1>7. QED
  BY <1>2, <1>3, <1>4, <1>5, <1>6 DEF h

(* What is queued and not written are frames, until close().               *)
LEMMA UnwrittenTyped ==
  ASSUME ClientIInv, ~closed_
  PROVE  /\ HeadWritten => write_queue_ # <<>> /\ ~writing
         /\ Unwritten \in Seq(Frames \cup {None}) /\ Queued(Unwritten) \in Seq(Message)
<1>1. TypeOK /\ QueueInv /\ Operations
  BY DEF ClientIInv
<1>2. \A x : Ready(x) \in Nat
  BY <1>1, ReadyCounts DEF TypeOK
<1>3. ASSUME HeadWritten PROVE write_queue_ # <<>> /\ ~writing
  <2>1. Ready("written") # 0
    <3> DEFINE h == [do |-> "written", ok |-> TRUE]
    <3>1. h \in Range(strand_) /\ h.do = "written"
      BY <1>3 DEF HeadWritten
    <3>2. Ready("written") = 0 => \A x \in Range(strand_) : x.do # "written"
      BY <1>1, ReadyCounts DEF TypeOK
    <3>3. QED
      BY <3>1, <3>2
  <2>2. Ready("written") > 0
    BY <1>2, <2>1
  <2>3. QED
    BY <1>1, <1>2, <2>2, OnlyOne
<1>4. Unwritten \in Seq(Frames \cup {None})
  BY <1>1, <1>3, TailRange DEF Unwritten, QueueInv
<1>5. QED
  BY <1>1, <1>3, <1>4, SentTyped

(* A step that neither types, queues, writes nor reads a message.          *)
LEMMA SentSame ==
  ASSUME ClientIInv, SentInv, UNCHANGED <<typed, write_queue_, toServer, got>>,
         ~closed_' => ~closed_ /\ Waiting' = Waiting /\ (HeadWritten' <=> HeadWritten)
  PROVE  SentInv'
<1>1. PICK rest \in Seq(Message) : Sent \o rest = ToSend /\ (~closed_ => rest = Unsent)
  BY DEF SentInv
<1>2. Sent' = Sent /\ ToSend' = ToSend
  BY DEF Sent, ToSend
<1>3. ~closed_' => Unsent' = Unsent
  BY DEF Unsent, Unwritten
<1>4. Sent' \o rest = ToSend' /\ (~closed_' => rest = Unsent')
  BY <1>1, <1>2, <1>3
<1>5. QED
  BY <1>4 DEF SentInv

(* A completion, or anything else that is posted and is not a write(),     *)
(* moves no message, unless it says that the head of the queue is written. *)
LEMMA SentPosting ==
  ASSUME ClientIInv, SentInv, NEW h \in Handler, strand_' = Append(strand_, h), h.do # "write",
         h # [do |-> "written", ok |-> TRUE],
         UNCHANGED <<typed, closed_, write_queue_, toServer, got>>
  PROVE  SentInv'
<1>1. TypeOK
  BY DEF ClientIInv
<1>2. Waiting' = Waiting
  BY <1>1, WaitingPosted
<1>3. Range(strand_') = Range(strand_) \cup {h}
  BY <1>1, Posted
<1>4. HeadWritten' <=> HeadWritten
  BY <1>3 DEF HeadWritten
<1>5. QED
  BY <1>2, <1>4, SentSame

(* A handler that is not a write() or a completed write moves none.        *)
LEMMA SentRunning ==
  ASSUME ClientIInv, SentInv, ~closed_, strand_ # <<>>, strand_' = Tail(strand_),
         Head(strand_).do \notin {"write", "written"},
         UNCHANGED <<typed, write_queue_, toServer, got>>
  PROVE  SentInv'
<1>1. TypeOK
  BY DEF ClientIInv
<1>2. Waiting' = Waiting
  BY <1>1, WaitingPopped
<1>3. Range(strand_) = Range(strand_') \cup {Head(strand_)}
  BY <1>1, Popped
<1>4. HeadWritten' <=> HeadWritten
  BY <1>3 DEF HeadWritten
<1>5. QED
  BY <1>2, <1>4, SentSame

(* A line that is typed comes last, if it fits.                            *)
LEMMA SentTyping ==
  ASSUME ClientIInv, SentInv, NEW line \in Lines, Type(line)
  PROVE  SentInv'
<1>1. TypeOK /\ QueueInv
  BY DEF ClientIInv
<1>2. PICK m \in Message :
        /\ m = [type |-> build_client_message(line), id |-> Len(typed) + 1, length |-> line.length]
        /\ [do |-> "write", message |-> m] \in Handler
  BY <1>1, TypedMessage
<1> DEFINE h == [do |-> "write", message |-> m]
<1>3. /\ strand_' = Append(strand_, h) /\ typed' = Append(typed, m)
      /\ h \in Handler /\ h.do = "write" /\ h.message = m
      /\ UNCHANGED <<closed_, write_queue_, toServer, got>>
  BY <1>2 DEF Type, client, network
<1> HIDE DEF h
<1>4. PICK rest \in Seq(Message) : Sent \o rest = ToSend /\ (~closed_ => rest = Unsent)
  BY DEF SentInv
<1>5. /\ Waiting \in Seq(Message) /\ Only(Waiting, Fitting) \in Seq(Message)
      /\ Sent \in Seq(Message) /\ ToSend \in Seq(Message) /\ typed \in Seq(Message)
  BY <1>1, SentTyped DEF TypeOK
<1>6. /\ Waiting' = Append(Waiting, m) /\ Range(strand_') = Range(strand_) \cup {h}
  BY <1>1, <1>3, WaitingPosted, Posted
<1>7. Unwritten' = Unwritten
  <2>1. HeadWritten' <=> HeadWritten
    BY <1>3, <1>6 DEF HeadWritten
  <2>2. QED
    BY <1>3, <2>1 DEF Unwritten
<1>8. Sent' = Sent
  BY <1>3 DEF Sent
<1>9. /\ ToSend' = IF m \in Fitting THEN Append(ToSend, m) ELSE ToSend
      /\ Only(Waiting', Fitting) = IF m \in Fitting THEN Append(Only(Waiting, Fitting), m)
                                   ELSE Only(Waiting, Fitting)
  <2>1. ASSUME NEW s \in Seq(Message)
        PROVE  Only(Append(s, m), Fitting) =
                 IF m \in Fitting THEN Append(Only(s, Fitting), m) ELSE Only(s, Fitting)
    BY <1>2, OnlyAppend
  <2>2. ToSend = Only(typed, Fitting) /\ ToSend' = Only(Append(typed, m), Fitting)
    BY <1>3 DEF ToSend, Fitting
  <2>3. QED
    BY <1>5, <1>6, <2>1, <2>2
<1>10. CASE m \in Fitting
  <2>1. Append(rest, m) \in Seq(Message) /\ Sent \o Append(rest, m) = Append(Sent \o rest, m)
    BY <1>2, <1>5, ConcatAppend, AppendRange
  <2>2. ~closed_' => Append(rest, m) = Unsent'
    <3> SUFFICES ASSUME ~closed_ PROVE Append(rest, m) = Unsent'
      BY <1>3
    <3>1. Queued(Unwritten) \in Seq(Message)
      BY UnwrittenTyped
    <3>2. Queued(Unwritten) \o Append(Only(Waiting, Fitting), m)
            = Append(Queued(Unwritten) \o Only(Waiting, Fitting), m)
      BY <1>2, <1>5, <3>1, ConcatAppend
    <3>3. Unsent' = Queued(Unwritten) \o Append(Only(Waiting, Fitting), m)
      BY <1>7, <1>9, <1>10 DEF Unsent
    <3>4. QED
      BY <1>4, <3>2, <3>3 DEF Unsent
  <2>3. Sent' \o Append(rest, m) = ToSend'
    BY <1>4, <1>8, <1>9, <1>10, <2>1
  <2>4. QED
    BY <2>1, <2>2, <2>3 DEF SentInv
<1>11. CASE m \notin Fitting
  <2>1. Sent' \o rest = ToSend' /\ (~closed_' => rest = Unsent')
    BY <1>3, <1>4, <1>7, <1>8, <1>9, <1>11 DEF Unsent
  <2>2. QED
    BY <2>1 DEF SentInv
<1>12. QED
  BY <1>10, <1>11

(* What is queued behind something, and what is queued behind nothing.     *)
LEMMA QueuedAppend ==
  ASSUME NEW q \in Seq(Frames \cup {None}), NEW m \in Message
  PROVE  Queued(Append(q, make_frame(m))) = IF m \in Fitting THEN Append(Queued(q), m) ELSE Queued(q)
<1>1. /\ make_frame(m) \in Frames \cup {None} /\ None \notin Frames
      /\ m \in Fitting => make_frame(m) \in Frames /\ Body[make_frame(m)] = m
      /\ m \notin Fitting => make_frame(m) = None
  BY FrameMade, FrameBodies DEF Fitting
<1> DEFINE f == make_frame(m)
<1> HIDE DEF f
<1>2. f \in Frames \cup {None}
  BY <1>1 DEF f
<1>3. Queued(Append(q, f)) = IF f \in Frames THEN Append(Queued(q), Body[f]) ELSE Queued(q)
  BY <1>2, PickedAppend DEF Queued
<1>4. QED
  BY <1>1, <1>3 DEF f

(* What is queued begins with the head, unless that is an empty frame.     *)
LEMMA QueuedHead ==
  \A q \in Seq(Frames \cup {None}) : q # <<>> =>
    /\ Queued(Tail(q)) \in Seq(Message)
    /\ Head(q) # None => /\ Head(q) \in Frames /\ Body[Head(q)] \in Message
                         /\ Queued(q) = <<Body[Head(q)]>> \o Queued(Tail(q))
    /\ Head(q) = None => Queued(q) = Queued(Tail(q))
<1> SUFFICES ASSUME NEW q \in Seq(Frames \cup {None}), q # <<>>
             PROVE  /\ Queued(Tail(q)) \in Seq(Message)
                    /\ Head(q) # None =>
                         /\ Head(q) \in Frames /\ Body[Head(q)] \in Message
                         /\ Queued(q) = <<Body[Head(q)]>> \o Queued(Tail(q))
                    /\ Head(q) = None => Queued(q) = Queued(Tail(q))
  OBVIOUS
<1>1. Head(q) \in Frames \cup {None} /\ None \notin Frames /\ \A f \in Frames : Body[f] \in Message
  BY TailRange, FrameBodies
<1>2. Tail(q) \in Seq(Frames \cup {None})
  BY HeadTailProperties
<1>3. Queued(Tail(q)) \in Seq(Message)
  BY <1>1, <1>2, PickedMessages DEF Queued
<1>4. /\ Head(q) \in Frames => Queued(q) = <<Body[Head(q)]>> \o Queued(Tail(q))
      /\ Head(q) \notin Frames => Queued(q) = Queued(Tail(q))
  BY PickedFirst, PickedSkips DEF Queued
<1>5. QED
  BY <1>1, <1>3, <1>4

(* The head of the queue is on its way once it is written.                 *)
LEMMA SentWriting ==
  ASSUME ClientIInv, SentInv, WriteCompletes(TRUE)
  PROVE  SentInv'
<1> DEFINE h == [do |-> "written", ok |-> TRUE]
           f == Head(write_queue_)
<1>1. TypeOK /\ QueueInv /\ ~closed_ /\ Operations
  BY DEF ClientIInv, WriteCompletes
<1>2. /\ strand_' = Append(strand_, h) /\ h \in Handler /\ writing
      /\ toServer' = (IF f # None THEN Append(toServer, f) ELSE toServer)
      /\ UNCHANGED <<typed, closed_, write_queue_, got>>
  BY DEF WriteCompletes, Completed, Handler, Completion, threads, client
<1> HIDE DEF f
<1>3. ~HeadWritten
  BY <1>1, <1>2, UnwrittenTyped
<1>4. write_queue_ # <<>> /\ write_queue_ \in Seq(Frames \cup {None}) /\ toServer \in Seq(Frames)
  <2>1. \A x : Ready(x) \in Nat
    BY <1>1, ReadyCounts DEF TypeOK
  <2>2. Bit(writing) = 1 /\ (~(connected_ /\ write_queue_ # <<>>) =>
                               Bit(connected_ /\ write_queue_ # <<>>) = 0)
    BY <1>2 DEF Bit
  <2>3. Bit(connected_ /\ write_queue_ # <<>>) # 0
    BY <1>1, <2>1, <2>2 DEF Operations
  <2>4. QED
    BY <1>1, <2>2, <2>3 DEF QueueInv
<1>5. Range(strand_') = Range(strand_) \cup {h} /\ Waiting' = Waiting
  BY <1>1, <1>2, Posted, WaitingPosted
<1>6. Unwritten = write_queue_ /\ Unwritten' = Tail(write_queue_)
  BY <1>2, <1>3, <1>5 DEF HeadWritten, Unwritten
<1> DEFINE rest == Queued(Tail(write_queue_)) \o Only(Waiting, Fitting)
<1>7. /\ Only(Waiting, Fitting) \in Seq(Message) /\ Queued(toServer) \in Seq(Message)
      /\ got \in Seq(Message) /\ Sent \in Seq(Message)
  BY <1>1, SentTyped
<1>8. /\ Queued(Tail(write_queue_)) \in Seq(Message)
      /\ f # None => /\ f \in Frames /\ Body[f] \in Message
                     /\ Queued(write_queue_) = <<Body[f]>> \o Queued(Tail(write_queue_))
      /\ f = None => Queued(write_queue_) = Queued(Tail(write_queue_))
  BY <1>4, QueuedHead DEF f
<1>9. rest \in Seq(Message)
  BY <1>7, <1>8, ConcatProperties
<1>10. Unsent' = rest
  BY <1>5, <1>6 DEF Unsent
<1>11. Sent \o Unsent = ToSend /\ ToSend' = ToSend
  BY <1>1, <1>2 DEF SentInv, ToSend
<1>12. Sent' \o rest = ToSend
  <2>1. CASE f = None
    <3>1. Sent' = Sent /\ Unsent = rest
      BY <1>2, <1>6, <1>8, <2>1 DEF Sent, Unsent
    <3>2. QED
      BY <1>11, <3>1
  <2>2. CASE f # None
    <3> DEFINE m == Body[f]
    <3>1. Queued(toServer') = Append(Queued(toServer), m)
      <4>1. Queued(Append(toServer, f)) = Append(Queued(toServer), m)
        BY <1>4, <1>8, <2>2, PickedAppend DEF Queued
      <4>2. QED
        BY <1>2, <2>2, <4>1
    <3>2. m \in Message
      BY <1>8, <2>2
    <3> HIDE DEF m
    <3>3. Sent' = Append(Sent, m)
      <4>1. Sent' = got \o Append(Queued(toServer), m)
        BY <1>2, <3>1 DEF Sent
      <4>2. QED
        BY <1>7, <3>2, <4>1, ConcatAppend DEF Sent
    <3>4. Sent' \o rest = Sent \o (<<m>> \o rest)
      <4> HIDE DEF rest
      <4>1. QED
        BY <1>7, <1>9, <3>2, <3>3, Shift
    <3>5. <<m>> \o rest = Unsent
      <4>1. <<m>> \in Seq(Message)
        BY <3>2
      <4>2. (<<m>> \o Queued(Tail(write_queue_))) \o Only(Waiting, Fitting) = <<m>> \o rest
        BY <1>7, <1>8, <4>1, ConcatAssociative
      <4>3. QED
        BY <1>6, <1>8, <2>2, <4>2 DEF Unsent, m
    <3>6. QED
      BY <1>11, <3>4, <3>5
  <2>3. QED
    BY <2>1, <2>2
<1>13. QED
  BY <1>9, <1>10, <1>11, <1>12 DEF SentInv

(* write() moves the message to the end of the queue, if it fits.          *)
LEMMA SentQueueing ==
  ASSUME ClientIInv, SentInv, Write
  PROVE  SentInv'
<1> DEFINE h == Head(strand_)
           m == h.message
           f == make_frame(m)
<1>1. /\ ~closed_ /\ strand_ # <<>> /\ h.do = "write" /\ strand_' = Tail(strand_)
      /\ write_queue_' = Append(write_queue_, f)
      /\ UNCHANGED <<typed, closed_, toServer, got>>
  BY DEF Write, Runs, threads, network
<1> HIDE DEF f
<1>2. TypeOK /\ QueueInv
  BY DEF ClientIInv
<1>3. m \in Message /\ Waiting = <<m>> \o Waiting' /\ Waiting' \in Seq(Message)
  BY <1>1, <1>2, WaitingPopped
<1>4. Range(strand_) = Range(strand_') \cup {h}
  BY <1>1, <1>2, Popped
<1>5. HeadWritten' <=> HeadWritten
  BY <1>1, <1>4 DEF HeadWritten
<1> HIDE DEF m
<1>6. f \in Frames \cup {None}
  BY <1>3, FrameMade DEF f
<1>7. Unwritten' = Append(Unwritten, f) /\ Unwritten \in Seq(Frames \cup {None})
      /\ Queued(Unwritten) \in Seq(Message)
  <2>1. /\ HeadWritten => write_queue_ # <<>>
        /\ Unwritten \in Seq(Frames \cup {None}) /\ Queued(Unwritten) \in Seq(Message)
    BY <1>1, UnwrittenTyped
  <2>2. write_queue_ \in Seq(Frames \cup {None})
    BY <1>2 DEF QueueInv
  <2>3. HeadWritten => Tail(Append(write_queue_, f)) = Append(Tail(write_queue_), f)
    BY <1>6, <2>1, <2>2, TailAppend
  <2>4. QED
    BY <1>1, <1>5, <2>1, <2>3 DEF Unwritten
<1>8. Queued(Unwritten') = IF m \in Fitting THEN Append(Queued(Unwritten), m) ELSE Queued(Unwritten)
  BY <1>3, <1>7, QueuedAppend DEF f
<1> DEFINE w == Only(Waiting', Fitting)
<1>9. w \in Seq(Message) /\ Only(Waiting, Fitting) = (IF m \in Fitting THEN <<m>> ELSE <<>>) \o w
  <2>1. /\ Head(<<m>> \o Waiting') = m /\ Tail(<<m>> \o Waiting') = Waiting'
        /\ <<m>> \o Waiting' \in Seq(Message) /\ <<m>> \o Waiting' # <<>>
    BY <1>3
  <2>2. \A s \in Seq(Message) : s # <<>> =>
          Only(s, Fitting) = (IF Head(s) \in Fitting THEN <<Head(s)>> ELSE <<>>) \o Only(Tail(s), Fitting)
    BY OnlyHead
  <2>3. w \in Seq(Message)
    BY <1>3, OnlyKeeps
  <2>4. QED
    BY <1>3, <2>1, <2>2, <2>3
<1>10. Unsent' = Unsent
  <2> HIDE DEF w
  <2>1. CASE m \in Fitting
    <3>1. Append(Queued(Unwritten), m) \o w = Queued(Unwritten) \o (<<m>> \o w)
      BY <1>3, <1>7, <1>9, Shift
    <3>2. QED
      BY <1>8, <1>9, <2>1, <3>1 DEF Unsent, w
  <2>2. CASE m \notin Fitting
    <3>1. <<>> \o w = w
      BY <1>9, ConcatEmptySeq
    <3>2. QED
      BY <1>8, <1>9, <2>2, <3>1 DEF Unsent, w
  <2>3. QED
    BY <2>1, <2>2
<1>11. Sent' = Sent /\ ToSend' = ToSend
  BY <1>1 DEF Sent, ToSend
<1>12. PICK rest \in Seq(Message) : Sent \o rest = ToSend /\ rest = Unsent
  BY <1>1 DEF SentInv
<1>13. QED
  BY <1>10, <1>11, <1>12 DEF SentInv

(* The head of the queue leaves it once it was written.                    *)
LEMMA SentWritten ==
  ASSUME ClientIInv, SentInv, Written
  PROVE  SentInv'
<1>1. /\ ~closed_ /\ strand_ # <<>> /\ Head(strand_).do = "written" /\ Head(strand_).ok
      /\ strand_' = Tail(strand_) /\ write_queue_' = Tail(write_queue_)
      /\ UNCHANGED <<typed, closed_, toServer, got>>
  BY DEF Written, Runs, threads, network
<1>2. TypeOK
  BY DEF ClientIInv
<1>3. Waiting' = Waiting
  BY <1>1, <1>2, WaitingPopped
<1>4. HeadWritten
  <2>1. Head(strand_) \in Handler /\ Head(strand_) \in Range(strand_)
    BY <1>1, Running
  <2>2. Head(strand_) = [do |-> "written", ok |-> TRUE]
    BY <1>1, <2>1 DEF Handler, Completion
  <2>3. QED
    BY <2>1, <2>2 DEF HeadWritten
<1>5. ~HeadWritten'
  <2>1. /\ TypeOK /\ Operations /\ strand_' \in Seq(Handler)
        /\ \A x : Ready(x) \in Nat /\ Ready(x)' \in Nat
        /\ Ready("written") = Ready("written")' + 1
    BY <1>1, Running
  <2>2. Ready("written") > 0
    BY <2>1
  <2>3. Ready("written") = 1
    BY <2>1, <2>2, OnlyOne
  <2>4. Ready("written")' = 0
    BY <2>1, <2>3
  <2>5. Ready("written")' = 0 => \A h \in Range(strand_') : h.do # "written"
    BY <2>1, ReadyCountsNext
  <2> DEFINE h == [do |-> "written", ok |-> TRUE]
  <2>6. h.do = "written"
    OBVIOUS
  <2>7. QED
    BY <2>4, <2>5, <2>6 DEF HeadWritten
<1>6. Unsent' = Unsent /\ Sent' = Sent /\ ToSend' = ToSend
  BY <1>1, <1>3, <1>4, <1>5 DEF Unsent, Unwritten, Sent, ToSend
<1>7. PICK rest \in Seq(Message) : Sent \o rest = ToSend /\ rest = Unsent
  BY <1>1 DEF SentInv
<1>8. QED
  BY <1>6, <1>7 DEF SentInv

(* The server reads the first frame on its way.                            *)
LEMMA SentReading ==
  ASSUME ClientIInv, ServerReads
  PROVE  /\ Sent' = Sent
         /\ Head(toServer).body \in Message /\ got' = Append(got, Head(toServer).body)
         /\ peer' = (Head(toServer).body.type # "quit") /\ broken' = broken
<1>1. TypeOK /\ QueueInv
  BY DEF ClientIInv
<1>2. toServer # <<>> /\ toServer \in Seq(Frames) /\ got \in Seq(Message)
  BY <1>1 DEF ServerReads, TypeOK, QueueInv
<1> DEFINE f == Head(toServer)
<1>3. f \in Frames /\ Tail(toServer) \in Seq(Frames)
  BY <1>2, HeadTailProperties
<1>4. f.body = Body[f] /\ Readable(f) /\ Body[f] \in Message
  BY <1>3, FrameBodies
<1>5. /\ got' = Append(got, f.body) /\ toServer' = Tail(toServer)
      /\ peer' = (f.body.type # "quit") /\ broken' = (broken \/ FALSE)
  BY <1>4 DEF ServerReads
<1>6. broken \in BOOLEAN
  BY <1>1 DEF TypeOK
<1> HIDE DEF f
<1>7. Queued(toServer) = <<Body[f]>> \o Queued(Tail(toServer))
  BY <1>2, <1>3, PickedFirst DEF Queued, f
<1>8. Queued(Tail(toServer)) \in Seq(Message)
  <2>1. \A g \in Frames : Body[g] \in Message
    BY FrameBodies
  <2>2. QED
    BY <1>3, <2>1, PickedMessages DEF Queued
<1>9. Append(got, Body[f]) \o Queued(Tail(toServer)) = got \o (<<Body[f]>> \o Queued(Tail(toServer)))
  BY <1>2, <1>4, <1>8, Shift
<1>10. Sent' = Sent
  BY <1>4, <1>5, <1>7, <1>9 DEF Sent
<1>11. QED
  BY <1>4, <1>5, <1>6, <1>10 DEF f

(* Every step keeps what was typed in its order.                           *)
LEMMA StepSent == ClientIInv /\ SentInv /\ [Next]_vars => SentInv'
<1> SUFFICES ASSUME ClientIInv, SentInv, [Next]_vars PROVE SentInv'
  OBVIOUS
<1>1. TypeOK
  BY DEF ClientIInv
<1>2. ASSUME UNCHANGED <<strand_, typed, closed_, write_queue_, toServer, got>> PROVE SentInv'
  <2>1. Waiting' = Waiting /\ (HeadWritten' <=> HeadWritten)
    BY <1>2 DEF Waiting, HeadWritten
  <2>2. QED
    BY <1>2, <2>1, SentSame
<1>3. ASSUME NEW what, Runs(what), close PROVE SentInv'
  BY <1>3, SentSame DEF Runs, close, threads, network
<1>4. CASE EndOfInput
  <2> DEFINE h == [do |-> "close"]
  <2>1. /\ h \in Handler /\ h.do # "write" /\ h # [do |-> "written", ok |-> TRUE]
    <3>1. h \in Handler /\ h.do # "write"
      BY DEF Handler
    <3>2. h.do # [do |-> "written", ok |-> TRUE].do
      OBVIOUS
    <3>3. QED
      BY <3>1, <3>2
  <2>2. strand_' = Append(strand_, h) /\ UNCHANGED <<typed, closed_, write_queue_, toServer, got>>
    BY <1>4 DEF EndOfInput, client, network
  <2>3. QED
    BY <2>1, <2>2, SentPosting
<1>5. ASSUME NEW ok \in BOOLEAN, ConnectCompletes(ok) PROVE SentInv'
  <2> DEFINE h == [do |-> "connect", ok |-> ok]
  <2>1. h \in Handler /\ h.do = "connect" /\ [do |-> "written", ok |-> TRUE].do = "written"
    BY DEF Handler, Completion
  <2>2. strand_' = Append(strand_, h) /\ UNCHANGED <<typed, closed_, write_queue_, toServer, got>>
    BY <1>5 DEF ConnectCompletes, Completed, threads, client
  <2>3. QED
    BY <2>1, <2>2, SentPosting
<1>6. ASSUME NEW ok \in BOOLEAN, ReadCompletes(ok) PROVE SentInv'
  <2> DEFINE h == [do |-> reading, ok |-> ok]
  <2>1. /\ h \in Handler /\ h.do \in {"header", "body"}
        /\ [do |-> "written", ok |-> TRUE].do = "written"
    BY <1>1, <1>6 DEF ReadCompletes, TypeOK, Handler, Completion
  <2>2. strand_' = Append(strand_, h) /\ UNCHANGED <<typed, closed_, write_queue_, toServer, got>>
    BY <1>6 DEF ReadCompletes, Completed, threads, client, network
  <2> HIDE DEF h
  <2>3. h.do # "write" /\ h # [do |-> "written", ok |-> TRUE]
    BY <2>1
  <2>4. QED
    BY <2>1, <2>2, <2>3, SentPosting
<1>7. ASSUME WriteCompletes(FALSE) PROVE SentInv'
  <2> DEFINE h == [do |-> "written", ok |-> FALSE]
  <2>1. /\ h \in Handler /\ h.do = "written" /\ h.ok = FALSE
        /\ [do |-> "written", ok |-> TRUE].ok = TRUE
    BY DEF Handler, Completion
  <2>2. strand_' = Append(strand_, h) /\ UNCHANGED <<typed, closed_, write_queue_, toServer, got>>
    BY <1>7 DEF WriteCompletes, Completed, threads, client
  <2>3. QED
    BY <2>1, <2>2, SentPosting
<1>8. CASE Connected \/ HeaderRead \/ BodyRead
  <2>1. /\ ~closed_ /\ strand_ # <<>> /\ strand_' = Tail(strand_)
        /\ Head(strand_).do \notin {"write", "written"}
        /\ UNCHANGED <<typed, write_queue_, toServer, got>>
    BY <1>8 DEF Connected, HeaderRead, BodyRead, Runs, threads, client, network
  <2>2. QED
    BY <2>1, SentRunning
<1>9. CASE ServerReads
  <2>1. Sent' = Sent
    BY SentReading, <1>9
  <2>2. UNCHANGED <<threads, strand_, client>>
    BY <1>9 DEF ServerReads
  <2>3. PICK rest \in Seq(Message) : Sent \o rest = ToSend /\ (~closed_ => rest = Unsent)
    BY DEF SentInv
  <2>4. ToSend' = ToSend /\ Unsent' = Unsent /\ closed_' = closed_
    BY <2>2 DEF ToSend, Unsent, Unwritten, Waiting, HeadWritten, threads, client
  <2>5. QED
    BY <2>1, <2>3, <2>4 DEF SentInv
<1>10. CASE \E n \in ReplyLengths : ServerReplies(n)
  BY <1>2, <1>10 DEF ServerReplies, threads, client
<1>11. CASE ConnectionBreaks
  BY <1>2, <1>11 DEF ConnectionBreaks, threads, client
<1>12. CASE Join
  BY <1>2, <1>12 DEF Join, client, network
<1>13. CASE UNCHANGED vars
  BY <1>2, <1>13 DEF vars, threads, client, network
<1>14. CASE Handlers
  <2>1. CASE HeaderRefused
    BY <1>3, <2>1 DEF HeaderRefused
  <2>2. CASE Close
    BY <1>3, <2>2 DEF Close
  <2>3. CASE \E what \in {"connect", "header", "body", "written"} : Failed(what)
    BY <1>3, <2>3 DEF Failed
  <2>4. CASE Write
    BY <2>4, SentQueueing
  <2>5. CASE Written
    BY <2>5, SentWritten
  <2>6. QED
    BY <1>8, <1>14, <2>1, <2>2, <2>3, <2>4, <2>5 DEF Handlers
<1>15. CASE \E line \in Lines : Type(line)
  BY <1>15, SentTyping
<1>16. ASSUME WriteCompletes(TRUE) PROVE SentInv'
  BY <1>16, SentWriting
<1>17. CASE RestOfBatch
  <2>1. closed_' /\ UNCHANGED <<typed, toServer, got>>
    BY <1>17 DEF RestOfBatch, threads
  <2>2. Sent' = Sent /\ ToSend' = ToSend
    BY <2>1 DEF Sent, ToSend
  <2>3. QED
    BY <2>1, <2>2 DEF SentInv
<1>18. QED
  BY <1>4, <1>5, <1>6, <1>7, <1>9, <1>10, <1>11, <1>12, <1>13, <1>14, <1>15, <1>16, <1>17
     DEF Next, Terminated

(* Nothing is typed, queued or sent at first.                              *)
LEMMA InitSent == Init => SentInv
<1> SUFFICES ASSUME Init PROVE SentInv
  OBVIOUS
<1>1. <<>> \in Seq(Frames \cup {None}) /\ <<>> \in Seq(Handler) /\ <<>> \in Seq(Message)
  BY EmptySeq
<1>2. ASSUME NEW S, NEW f PROVE Picked(<<>>, S, f) = <<>>
  <2>1. Only(<<>>, S) = <<>> /\ DOMAIN <<>> = {}
    BY OnlyEmpty
  <2>2. QED
    BY <2>1 DEF Picked
<1>3. ~HeadWritten
  <2>1. Range(strand_) = {}
    BY EmptyRange DEF Init
  <2>2. QED
    BY <2>1 DEF HeadWritten
<1>4. Queued(toServer) = <<>> /\ Waiting = <<>> /\ Queued(Unwritten) = <<>>
  BY <1>2, <1>3 DEF Init, Queued, Waiting, Unwritten
<1>5. Only(Waiting, Fitting) = <<>> /\ ToSend = <<>>
  BY <1>4, OnlyEmpty DEF Init, ToSend
<1>6. <<>> \o <<>> = <<>>
  OBVIOUS
<1>7. Sent = <<>> /\ Unsent = <<>>
  BY <1>4, <1>5, <1>6 DEF Init, Sent, Unsent
<1>8. QED
  BY <1>1, <1>5, <1>6, <1>7 DEF SentInv

(* The order holds in every reachable state.                               *)
LEMMA AlwaysSent == Spec => [](ClientIInv /\ SentInv)
<1>1. Init => ClientIInv /\ SentInv
  BY InitClient, InitSent
<1>2. (ClientIInv /\ SentInv) /\ [Next]_vars => (ClientIInv /\ SentInv)'
  BY StepClient, StepSent
<1>3. QED
  BY <1>1, <1>2, PTL DEF Spec

(* The server reads what is typed in the order typed, each message once    *)
(* and with no gap but those too long for a frame, whatever the            *)
(* connection does: lines typed before it is open wait in the queue, no    *)
(* frame is written over another, and a break loses only a tail.           *)
THEOREM OrderOfLines == Spec => []SentInOrder
<1>1. ClientIInv /\ SentInv => SentInOrder
  <2> SUFFICES ASSUME ClientIInv, SentInv PROVE SentInOrder
    OBVIOUS
  <2>1. TypeOK /\ QueueInv
    BY DEF ClientIInv
  <2>2. toServer \in Seq(Frames) /\ Sent \in Seq(Message)
    BY <2>1, SentTyped DEF QueueInv
  <2>3. Queued(toServer) = [i \in DOMAIN toServer |-> toServer[i].body]
    <3>1. Only(toServer, Frames) = toServer
      BY <2>2, OnlyAll
    <3>2. \A i \in DOMAIN toServer : toServer[i] \in Frames
      BY <2>2, LenProperties
    <3>3. \A i \in DOMAIN toServer : Body[toServer[i]] = toServer[i].body
      BY <3>2 DEF Body
    <3>4. QED
      BY <3>1, <3>3 DEF Queued, Picked
  <2>4. PICK rest \in Seq(Message) : Sent \o rest = ToSend
    BY DEF SentInv
  <2>5. Len(Sent) <= Len(ToSend) /\ SubSeq(Sent, 1, Len(Sent)) = SubSeq(ToSend, 1, Len(Sent))
    BY <2>2, <2>4, ConcatPrefix
  <2>6. QED
    BY <2>3, <2>5 DEF SentInOrder, IsPrefix, Sent
<1>2. QED
  BY <1>1, AlwaysSent, PTL

-----------------------------------------------------------------------------
(* Leaving with "quit".                                                    *)
Completions == {"connect", "header", "body", "written"}
QuitRead == \E m \in Range(got) : m.type = "quit"
Gone == broken \/ QuitRead
Leaving == typed # <<>> /\ Last(typed).type = "quit"

(* Nothing is wrong before the connection is open; after that it is open   *)
(* unless it broke or the server has read "quit".  Only then an operation  *)
(* fails, and only then, or when the input ended without "quit", the       *)
(* client closes.                                                          *)
ConnectionInv ==
  /\ connecting => ~broken /\ ~peer /\ replies = <<>>
  /\ ~connecting /\ ~broken /\ ~peer => QuitRead
  /\ \A n \in Range(replies) : ~Fits(n) => broken

LeavingInv ==
  /\ \A h \in Range(strand_) :
       /\ h.do \in Completions /\ ~h.ok => Gone
       /\ h.do = "close" => main # "typing" /\ ~Leaving
  /\ closed_ => Gone \/ (main # "typing" /\ ~Leaving)
  /\ main = "typing" => ~Leaving
  /\ main = "done" => closed_

(* "quit" is the last line.                                                *)
LastInv ==
  \A i \in DOMAIN ToSend : ToSend[i].type = "quit" => i = Len(ToSend) /\ main # "typing"

QuitInv == ConnectionInv /\ LeavingInv /\ LastInv

(* A connection that reads or writes is no longer being opened.            *)
LEMMA Opened ==
  ASSUME ClientIInv, ~closed_, connected_ \/ reading # "no" \/ writing
  PROVE  ~connecting
<1>1. TypeOK /\ Operations
  BY DEF ClientIInv
<1>2. \A x : Ready(x) \in Nat
  BY <1>1, ReadyCounts DEF TypeOK
<1> DEFINE c == Bit(connecting)
           o == Bit(connected_)
           r == Bit(reading # "no")
           w == Bit(writing)
           q == Bit(connected_ /\ write_queue_ # <<>>)
<1>3. /\ c = 0 => ~connecting
      /\ connected_ => o = 1
      /\ reading # "no" => r = 1
      /\ writing => w = 1
      /\ c \in {0, 1} /\ o \in {0, 1} /\ r \in {0, 1} /\ w \in {0, 1} /\ q \in {0, 1}
  BY <1>1 DEF Bit, TypeOK
<1>4. o = 0 => q = 0
  BY DEF Bit
<1> DEFINE nc == Ready("connect")
           nh == Ready("header")
           nb == Ready("body")
           nw == Ready("written")
<1>5. /\ nc \in Nat /\ nh \in Nat /\ nb \in Nat /\ nw \in Nat
      /\ c + nc + o = 1 /\ r + nh + nb = o /\ w + nw = q
  BY <1>1, <1>2 DEF Operations
<1> HIDE DEF c, o, r, w, q, nc, nh, nb, nw
<1>6. o = 1 \/ r = 1 \/ w = 1 => c = 0
  BY <1>3, <1>4, <1>5, CountsAlone
<1>7. QED
  BY <1>3, <1>6

(* A step of the strand, or one that posts a completion.                   *)
LEMMA QuitKept ==
  ASSUME QuitInv, UNCHANGED <<main, typed, connecting, peer, broken, got, replies, closed_>>,
         \A h \in Range(strand_') :
           h \in Range(strand_) \/ (h.do # "close" /\ (h.do \in Completions /\ ~h.ok => Gone))
  PROVE  QuitInv'
<1>1. (Gone' <=> Gone) /\ (Leaving' <=> Leaving) /\ (QuitRead' <=> QuitRead) /\ ToSend' = ToSend
  BY DEF Gone, Leaving, QuitRead, ToSend
<1>2. ConnectionInv'
  BY <1>1 DEF QuitInv, ConnectionInv
<1>3. LeavingInv'
  BY <1>1 DEF QuitInv, LeavingInv
<1>4. LastInv'
  BY <1>1 DEF QuitInv, LastInv
<1>5. QED
  BY <1>2, <1>3, <1>4 DEF QuitInv

(* A line: "quit" is the last one.                                         *)
LEMMA QuitTyping ==
  ASSUME ClientIInv, QuitInv, NEW line \in Lines, Type(line)
  PROVE  QuitInv'
<1>1. TypeOK /\ QueueInv
  BY DEF ClientIInv
<1>2. PICK m \in Message :
        /\ m = [type |-> build_client_message(line), id |-> Len(typed) + 1, length |-> line.length]
        /\ [do |-> "write", message |-> m] \in Handler
  BY <1>1, TypedMessage
<1> DEFINE h == [do |-> "write", message |-> m]
<1>3. /\ strand_' = Append(strand_, h) /\ typed' = Append(typed, m)
      /\ main = "typing" /\ main' = (IF m.type = "quit" THEN "join" ELSE "typing")
      /\ h \in Handler /\ h.do = "write"
      /\ UNCHANGED <<closed_, connecting, peer, broken, got, replies>>
  BY <1>2 DEF Type, client, pending, network
<1> HIDE DEF h
<1>4. Range(strand_') = Range(strand_) \cup {h}
  BY <1>1, <1>3, Posted
<1>5. (Gone' <=> Gone) /\ (QuitRead' <=> QuitRead)
  BY <1>3 DEF Gone, QuitRead
<1>6. Leaving' <=> m.type = "quit"
  <2>1. /\ typed \in Seq(Message) /\ Append(typed, m) # <<>>
        /\ Len(Append(typed, m)) = Len(typed) + 1 /\ Append(typed, m)[Len(typed) + 1] = m
    BY <1>1, <1>2, AppendProperties DEF TypeOK
  <2>2. QED
    BY <1>3, <2>1 DEF Leaving, Last
<1>7. ConnectionInv'
  BY <1>3, <1>5 DEF QuitInv, ConnectionInv
<1>8. LeavingInv'
  <2>1. h.do \notin Completions /\ h.do # "close"
    BY <1>3 DEF Completions
  <2>2. QED
    BY <1>3, <1>4, <1>5, <1>6, <2>1 DEF QuitInv, LeavingInv
<1>9. LastInv'
  <2>1. typed \in Seq(Message) /\ ToSend = Only(typed, Fitting) /\ ToSend \in Seq(Message)
    BY <1>1, SentTyped DEF TypeOK, ToSend, Fitting
  <2>2. ToSend' = IF m \in Fitting THEN Append(ToSend, m) ELSE ToSend
    <3>1. ToSend' = Only(Append(typed, m), Fitting)
      BY <1>3 DEF ToSend, Fitting
    <3>2. ASSUME NEW s \in Seq(Message)
          PROVE  Only(Append(s, m), Fitting) =
                   IF m \in Fitting THEN Append(Only(s, Fitting), m) ELSE Only(s, Fitting)
      BY <1>2, OnlyAppend
    <3>3. QED
      BY <2>1, <3>1, <3>2
  <2>3. \A i \in DOMAIN ToSend : ToSend[i].type # "quit"
    BY <1>3 DEF QuitInv, LastInv
  <2>4. CASE m \notin Fitting
    BY <2>2, <2>3, <2>4 DEF LastInv
  <2>5. CASE m \in Fitting
    <3>1. /\ Append(ToSend, m) \in Seq(Message) /\ Len(Append(ToSend, m)) = Len(ToSend) + 1
          /\ \A i \in 1..Len(ToSend) : Append(ToSend, m)[i] = ToSend[i]
          /\ Append(ToSend, m)[Len(ToSend) + 1] = m /\ Len(ToSend) \in Nat
      BY <1>2, <2>1, AppendProperties, LenProperties
    <3>2. DOMAIN ToSend = 1..Len(ToSend) /\ DOMAIN Append(ToSend, m) = 1..(Len(ToSend) + 1)
      BY <2>1, <3>1, LenProperties
    <3>3. ToSend' = Append(ToSend, m)
      BY <2>2, <2>5
    <3> SUFFICES ASSUME NEW i \in DOMAIN ToSend', ToSend'[i].type = "quit"
                 PROVE  i = Len(ToSend') /\ main' # "typing"
      BY DEF LastInv
    <3>4. i = Len(ToSend) + 1
      <4>1. i \in 1..Len(ToSend) \/ i = Len(ToSend) + 1
        BY <3>1, <3>2, <3>3
      <4>2. i \notin 1..Len(ToSend)
        BY <2>3, <3>1, <3>2, <3>3
      <4>3. QED
        BY <4>1, <4>2
    <3>5. m.type = "quit"
      BY <3>1, <3>3, <3>4
    <3>6. QED
      BY <1>3, <3>1, <3>3, <3>4, <3>5
  <2>6. QED
    BY <2>4, <2>5
<1>10. QED
  BY <1>7, <1>8, <1>9 DEF QuitInv

(* An operation that fails: the connection broke, or "quit" was read.      *)
LEMMA QuitCompletions ==
  ASSUME ClientIInv, QuitInv, NEW ok \in BOOLEAN, ReadCompletes(ok) \/ WriteCompletes(ok)
  PROVE  QuitInv'
<1>1. TypeOK
  BY DEF ClientIInv
<1>2. PICK h \in Handler :
        strand_' = Append(strand_, h) /\ h.do # "close" /\ (~h.ok => ~peer)
  <2>1. CASE ReadCompletes(ok)
    <3> DEFINE h == [do |-> reading, ok |-> ok]
    <3>1. h \in Handler /\ h.do # "close" /\ h.ok = ok
      BY <1>1, <2>1 DEF ReadCompletes, TypeOK, Handler, Completion
    <3>2. strand_' = Append(strand_, h) /\ (~ok => ~peer)
      BY <2>1 DEF ReadCompletes, Completed
    <3>3. QED
      BY <3>1, <3>2
  <2>2. CASE WriteCompletes(ok)
    <3> DEFINE h == [do |-> "written", ok |-> ok]
    <3>1. h \in Handler /\ h.do # "close" /\ h.ok = ok
      BY DEF Handler, Completion
    <3>2. strand_' = Append(strand_, h) /\ (~ok => ~peer)
      BY <2>2 DEF WriteCompletes, Completed
    <3>3. QED
      BY <3>1, <3>2
  <2>3. QED
    BY <2>1, <2>2
<1>3. ~connecting
  BY Opened DEF ReadCompletes, WriteCompletes
<1>4. ~h.ok => Gone
  BY <1>2, <1>3 DEF QuitInv, ConnectionInv, Gone
<1>5. Range(strand_') = Range(strand_) \cup {h}
  BY <1>1, <1>2, Posted
<1>6. UNCHANGED <<main, typed, connecting, peer, broken, got, replies, closed_>>
  BY DEF ReadCompletes, WriteCompletes, threads, client, network
<1>7. QED
  BY <1>2, <1>4, <1>5, <1>6, QuitKept

(* The connection opens, or connecting failed.                             *)
LEMMA QuitConnecting ==
  ASSUME ClientIInv, QuitInv, NEW ok \in BOOLEAN, ConnectCompletes(ok)
  PROVE  QuitInv'
<1> DEFINE h == [do |-> "connect", ok |-> ok]
<1>1. /\ strand_' = Append(strand_, h) /\ h \in Handler /\ h.do = "connect" /\ h.ok = ok
      /\ connecting /\ connecting' = FALSE /\ peer' = ok /\ broken' = ~ok
      /\ UNCHANGED <<main, typed, closed_, got, replies>>
  BY DEF ConnectCompletes, Completed, Handler, Completion, threads, client
<1> HIDE DEF h
<1>2. TypeOK
  BY DEF ClientIInv
<1>3. Range(strand_') = Range(strand_) \cup {h}
  BY <1>1, <1>2, Posted
<1>4. (QuitRead' <=> QuitRead) /\ (Leaving' <=> Leaving) /\ ToSend' = ToSend
  BY <1>1 DEF QuitRead, Leaving, ToSend
<1>5. ~broken /\ replies = <<>>
  BY <1>1 DEF QuitInv, ConnectionInv
<1>6. (Gone => Gone') /\ (~ok => Gone')
  BY <1>1, <1>4, <1>5 DEF Gone
<1>7. ConnectionInv'
  <2>1. Range(replies') = {}
    BY <1>1, <1>5, EmptyRange
  <2>2. QED
    BY <1>1, <2>1 DEF ConnectionInv
<1>8. LeavingInv'
  BY <1>1, <1>3, <1>4, <1>6 DEF QuitInv, LeavingInv
<1>9. LastInv'
  BY <1>1, <1>4 DEF QuitInv, LastInv
<1>10. QED
  BY <1>7, <1>8, <1>9 DEF QuitInv

(* The client closes for a reason.                                         *)
LEMMA QuitClosing ==
  ASSUME ClientIInv, QuitInv, HeaderRefused \/ Close \/ \E what \in Completions : Failed(what)
  PROVE  QuitInv'
<1>1. /\ ~closed_ /\ strand_ # <<>> /\ strand_' = Tail(strand_) /\ closed_' = TRUE
      /\ UNCHANGED <<main, typed, connecting, peer, broken, got, replies>>
  BY DEF HeaderRefused, Close, Failed, Runs, close, threads, network, pending
<1>2. /\ TypeOK /\ QueueInv /\ ReplyInv /\ Head(strand_) \in Range(strand_)
      /\ \A h \in Range(strand_') : h \in Range(strand_)
  BY <1>1, Running
<1>3. (Gone' <=> Gone) /\ (Leaving' <=> Leaving) /\ (QuitRead' <=> QuitRead) /\ ToSend' = ToSend
  BY <1>1 DEF Gone, Leaving, QuitRead, ToSend
<1>4. Gone \/ (main # "typing" /\ ~Leaving)
  <2>1. CASE HeaderRefused
    <3>1. /\ Head(strand_).do = "header" /\ Head(strand_).ok
          /\ ~Accepted(encode_header(Head(replies)))
      BY <2>1 DEF HeaderRefused, Runs
    <3>2. replies # <<>> /\ replies \in Seq(ReplyLengths)
      BY <1>1, <1>2, <3>1 DEF ReplyInv, TypeOK
    <3>3. Head(replies) \in ReplyLengths /\ Head(replies) \in Range(replies)
      BY <3>2, TailRange
    <3>4. Head(replies) \in Nat
      BY <3>3, ChatClientAssumption
    <3>5. ~Fits(Head(replies))
      <4> SUFFICES ASSUME Fits(Head(replies)) PROVE FALSE
        OBVIOUS
      <4>1. Head(replies) \in UInt32
        BY <3>4 DEF Fits, kMaxBodyLength, UInt32
      <4>2. QED
        BY <3>1, <4>1, FramedIsAccepted
    <3>6. QED
      BY <3>3, <3>5 DEF QuitInv, ConnectionInv, Gone
  <2>2. CASE Close
    <3>1. Head(strand_).do = "close"
      BY <2>2 DEF Close, Runs
    <3>2. QED
      BY <1>2, <3>1 DEF QuitInv, LeavingInv
  <2>3. CASE \E what \in Completions : Failed(what)
    <3>1. Head(strand_).do \in Completions /\ ~Head(strand_).ok
      BY <2>3 DEF Failed, Runs
    <3>2. QED
      BY <1>2, <3>1 DEF QuitInv, LeavingInv
  <2>4. QED
    BY <2>1, <2>2, <2>3
<1>5. ConnectionInv'
  BY <1>1, <1>3 DEF QuitInv, ConnectionInv
<1>6. LeavingInv'
  BY <1>1, <1>2, <1>3, <1>4 DEF QuitInv, LeavingInv
<1>7. LastInv'
  BY <1>1, <1>3 DEF QuitInv, LastInv
<1>8. QED
  BY <1>5, <1>6, <1>7 DEF QuitInv

(* The other handlers.                                                     *)
LEMMA QuitRunning ==
  ASSUME ClientIInv, QuitInv, Connected \/ Write \/ Written \/ HeaderRead \/ BodyRead
  PROVE  QuitInv'
<1>1. /\ ~closed_ /\ strand_ # <<>> /\ strand_' = Tail(strand_)
      /\ UNCHANGED <<main, typed, connecting, peer, broken, got, closed_>>
  BY DEF Connected, Write, Written, HeaderRead, BodyRead, Runs, threads, network, client
<1>2. /\ TypeOK /\ Operations /\ \A h \in Range(strand_') : h \in Range(strand_)
  BY <1>1, Running
<1>3. CASE BodyRead
  <2>1. Head(strand_).do = "body" /\ Head(strand_).ok /\ replies' = Tail(replies)
    BY <1>3 DEF BodyRead
  <2>2. ReplyInv /\ Head(strand_) \in Range(strand_)
    BY <1>1, Running
  <2>3. replies # <<>> /\ replies \in Seq(ReplyLengths)
    BY <1>1, <1>2, <2>1, <2>2 DEF ReplyInv, TypeOK
  <2>4. \A n \in Range(replies') : n \in Range(replies)
    BY <2>1, <2>3, TailRange
  <2>5. ~connecting
    BY <2>3 DEF QuitInv, ConnectionInv
  <2>6. (Gone' <=> Gone) /\ (Leaving' <=> Leaving) /\ (QuitRead' <=> QuitRead) /\ ToSend' = ToSend
    BY <1>1 DEF Gone, Leaving, QuitRead, ToSend
  <2>7. ConnectionInv'
    BY <1>1, <2>4, <2>5, <2>6 DEF QuitInv, ConnectionInv
  <2>8. LeavingInv'
    BY <1>1, <1>2, <2>6 DEF QuitInv, LeavingInv
  <2>9. LastInv'
    BY <1>1, <2>6 DEF QuitInv, LastInv
  <2>10. QED
    BY <2>7, <2>8, <2>9 DEF QuitInv
<1>4. CASE Connected \/ Write \/ Written \/ HeaderRead
  <2>1. replies' = replies
    BY <1>4 DEF Connected, Write, Written, HeaderRead, Runs, network
  <2>2. QED
    BY <1>1, <1>2, <2>1, QuitKept
<1>5. QED
  BY <1>3, <1>4

(* The rest of a batch moves nothing between the client and the server.    *)
LEMMA QuitBatch ==
  ASSUME ClientIInv, QuitInv, RestOfBatch
  PROVE  QuitInv'
<1> DEFINE h == Head(strand_)
<1>1. /\ strand_ # <<>> /\ strand_' = Tail(strand_)
      /\ UNCHANGED <<main, typed, connecting, peer, broken, got, closed_>>
      /\ replies' = (IF h.do = "body" /\ h.ok THEN Tail(replies) ELSE replies)
  BY DEF RestOfBatch, threads, pending
<1>2. Range(strand_) = Range(strand_') \cup {h}
  BY <1>1, Popped DEF ClientIInv
<1>3. CASE h.do = "body" /\ h.ok
  <2>1. replies # <<>> /\ replies \in Seq(ReplyLengths) /\ replies' = Tail(replies)
    BY <1>1, <1>2, <1>3 DEF ClientIInv, ReplyInv, TypeOK
  <2>2. \A n \in Range(replies') : n \in Range(replies)
    BY <2>1, TailRange
  <2>3. ~connecting
    BY <2>1 DEF QuitInv, ConnectionInv
  <2>4. (Gone' <=> Gone) /\ (Leaving' <=> Leaving) /\ (QuitRead' <=> QuitRead) /\ ToSend' = ToSend
    BY <1>1 DEF Gone, Leaving, QuitRead, ToSend
  <2>5. ConnectionInv'
    BY <1>1, <2>2, <2>3, <2>4 DEF QuitInv, ConnectionInv
  <2>6. LeavingInv'
    BY <1>1, <1>2, <2>4 DEF QuitInv, LeavingInv
  <2>7. LastInv'
    BY <1>1, <2>4 DEF QuitInv, LastInv
  <2>8. QED
    BY <2>5, <2>6, <2>7 DEF QuitInv
<1>4. CASE ~(h.do = "body" /\ h.ok)
  BY <1>1, <1>2, <1>4, QuitKept
<1>5. QED
  BY <1>3, <1>4

(* The server, which closes the connection on "quit", and the network.     *)
LEMMA QuitNetwork ==
  ASSUME ClientIInv, QuitInv,
         ServerReads \/ ConnectionBreaks \/ \E n \in ReplyLengths : ServerReplies(n)
  PROVE  QuitInv'
<1>1. UNCHANGED <<main, typed, strand_, closed_, connecting>>
  BY DEF ServerReads, ConnectionBreaks, ServerReplies, threads, client, pending
<1>2. ~connecting /\ TypeOK
  BY DEF ServerReads, ConnectionBreaks, ServerReplies, QuitInv, ConnectionInv, ClientIInv
<1>3. (Leaving' <=> Leaving) /\ ToSend' = ToSend
  BY <1>1 DEF Leaving, ToSend
<1>4. LastInv'
  BY <1>1, <1>3 DEF QuitInv, LastInv
<1>5. ASSUME Gone => Gone', ConnectionInv' PROVE QuitInv'
  <2>1. LeavingInv'
    BY <1>1, <1>3, <1>5 DEF QuitInv, LeavingInv
  <2>2. QED
    BY <1>4, <1>5, <2>1 DEF QuitInv
<1>6. CASE ServerReads
  <2> DEFINE m == Head(toServer).body
  <2>1. /\ m \in Message /\ got' = Append(got, m) /\ peer' = (m.type # "quit")
        /\ broken' = broken /\ replies' = replies
    BY <1>6, SentReading DEF ServerReads
  <2> HIDE DEF m
  <2>2. Range(got') = Range(got) \cup {m}
    BY <1>2, <2>1, AppendRange DEF TypeOK
  <2>3. QuitRead => QuitRead'
    BY <2>2 DEF QuitRead
  <2>4. ~peer' => QuitRead'
    BY <2>1, <2>2 DEF QuitRead
  <2>5. Gone => Gone'
    BY <2>1, <2>3 DEF Gone
  <2>6. ConnectionInv'
    BY <1>1, <1>2, <2>1, <2>4 DEF QuitInv, ConnectionInv
  <2>7. QED
    BY <1>5, <2>5, <2>6
<1>7. CASE ConnectionBreaks
  <2>1. broken' = TRUE
    BY <1>7 DEF ConnectionBreaks
  <2>2. Gone' /\ ConnectionInv'
    BY <1>1, <1>2, <2>1 DEF Gone, ConnectionInv
  <2>3. QED
    BY <1>5, <2>2
<1>8. ASSUME NEW n \in ReplyLengths, ServerReplies(n) PROVE QuitInv'
  <2>1. /\ replies' = Append(replies, n) /\ broken' = (broken \/ ~Fits(n)) /\ peer /\ peer' = peer
        /\ got' = got /\ replies \in Seq(ReplyLengths)
    BY <1>2, <1>8 DEF ServerReplies, TypeOK
  <2>2. Range(replies') = Range(replies) \cup {n}
    BY <2>1, AppendRange
  <2>3. QuitRead' <=> QuitRead
    BY <2>1 DEF QuitRead
  <2>4. Gone => Gone'
    BY <2>1, <2>3 DEF Gone
  <2>5. ConnectionInv'
    BY <1>1, <1>2, <2>1, <2>2 DEF QuitInv, ConnectionInv
  <2>6. QED
    BY <1>5, <2>4, <2>5
<1>9. QED
  BY <1>6, <1>7, <1>8

(* The main thread at the end of the input, and joining.                   *)
LEMMA QuitMain ==
  ASSUME ClientIInv, QuitInv, EndOfInput \/ Join
  PROVE  QuitInv'
<1>1. UNCHANGED <<typed, connecting, peer, broken, got, replies, closed_>> /\ TypeOK
  BY DEF EndOfInput, Join, client, pending, network, ClientIInv
<1>2. (Gone' <=> Gone) /\ (Leaving' <=> Leaving) /\ (QuitRead' <=> QuitRead) /\ ToSend' = ToSend
  BY <1>1 DEF Gone, Leaving, QuitRead, ToSend
<1>3. ConnectionInv'
  BY <1>1, <1>2 DEF QuitInv, ConnectionInv
<1>4. CASE EndOfInput
  <2> DEFINE h == [do |-> "close"]
  <2>1. /\ main = "typing" /\ main' = "join" /\ strand_' = Append(strand_, h) /\ h.do = "close"
        /\ h \in Handler
    BY <1>4 DEF EndOfInput, Handler
  <2> HIDE DEF h
  <2>2. Range(strand_') = Range(strand_) \cup {h}
    BY <1>1, <2>1, Posted
  <2>3. ~Leaving
    BY <2>1 DEF QuitInv, LeavingInv
  <2>4. LeavingInv'
    BY <1>1, <1>2, <2>1, <2>2, <2>3 DEF QuitInv, LeavingInv, Completions
  <2>5. LastInv'
    BY <1>2, <2>1 DEF QuitInv, LastInv
  <2>6. QED
    BY <1>3, <2>4, <2>5 DEF QuitInv
<1>5. CASE Join
  <2>1. main = "join" /\ RunReturns /\ main' = "done" /\ strand_' = strand_
    BY <1>5 DEF Join
  <2>2. closed_
    <3> SUFFICES ASSUME ~closed_ PROVE FALSE
      OBVIOUS
    <3>1. Operations /\ strand_ = <<>> /\ ~connecting /\ reading = "no" /\ ~writing
      BY <2>1 DEF ClientIInv, RunReturns
    <3>2. \A what : Ready(what) = 0
      <4> SUFFICES ASSUME NEW what PROVE Ready(what) = 0
        OBVIOUS
      <4>1. {i \in DOMAIN strand_ : strand_[i].do = what} = {}
        BY <3>1
      <4>2. QED
        BY <4>1, FS_EmptySet DEF Ready
    <3>3. Bit(connecting) = 0 /\ Bit(reading # "no") = 0
      BY <3>1 DEF Bit
    <3>4. Bit(connected_) = 1 /\ Bit(connected_) = 0
      <4>1. Bit(connected_) \in {0, 1}
        BY DEF Bit
      <4>2. QED
        BY <3>1, <3>2, <3>3, <4>1 DEF Operations
    <3>5. QED
      BY <3>4
  <2>3. LeavingInv'
    BY <1>1, <1>2, <2>1, <2>2 DEF QuitInv, LeavingInv
  <2>4. LastInv'
    BY <1>2, <2>1 DEF QuitInv, LastInv
  <2>5. QED
    BY <1>3, <2>3, <2>4 DEF QuitInv
<1>6. QED
  BY <1>4, <1>5

(* Every step keeps what leaving means.                                    *)
LEMMA StepQuit == ClientIInv /\ QuitInv /\ [Next]_vars => QuitInv'
<1> SUFFICES ASSUME ClientIInv, QuitInv, [Next]_vars PROVE QuitInv'
  OBVIOUS
<1>1. CASE UNCHANGED vars
  <2>1. UNCHANGED <<strand_, main, typed, connecting, peer, broken, got, replies, closed_>>
    BY <1>1 DEF vars, threads, client, pending, network
  <2>2. QED
    BY <2>1, QuitKept
<1>2. CASE Handlers
  BY <1>2, QuitClosing, QuitRunning DEF Handlers, Completions
<1>3. CASE \E line \in Lines : Type(line)
  BY <1>3, QuitTyping
<1>4. CASE \E ok \in BOOLEAN : ConnectCompletes(ok) \/ ReadCompletes(ok) \/ WriteCompletes(ok)
  BY <1>4, QuitConnecting, QuitCompletions
<1>5. QED
  BY <1>1, <1>2, <1>3, <1>4, QuitMain, QuitBatch, QuitNetwork DEF Next, Terminated

(* Nothing was typed yet, so nobody leaves.                                *)
LEMMA InitQuit == Init => QuitInv
<1> SUFFICES ASSUME Init PROVE QuitInv
  OBVIOUS
<1>1. Range(strand_) = {} /\ Range(replies) = {} /\ ToSend = <<>>
  BY EmptyRange, OnlyEmpty DEF Init, ToSend
<1>2. DOMAIN ToSend = {}
  BY <1>1
<1>3. QED
  BY <1>1, <1>2 DEF Init, QuitInv, ConnectionInv, LeavingInv, LastInv, Leaving

(* What three parts of the stream hold does not depend on how they are     *)
(* put together.                                                           *)
LEMMA MessagesAssociate ==
  ASSUME NEW a \in Seq(Message), NEW b \in Seq(Message), NEW c \in Seq(Message)
  PROVE  (a \o b) \o c = a \o (b \o c)
BY ConcatAssociative

(* A user who leaves with "quit" has left nothing behind: the client never *)
(* closes before the server has read "quit" and with it every line typed   *)
(* before, unless the connection failed.                                   *)
THEOREM QuitLeavesNothing == Spec => []QuitIsClean
<1>1. ClientIInv /\ SentInv /\ QuitInv => QuitIsClean
  <2> SUFFICES ASSUME ClientIInv, SentInv, QuitInv,
                      main = "done", ~broken, typed # <<>>, Last(typed).type = "quit"
               PROVE  got = ToSend
    BY DEF QuitIsClean
  <2>1. TypeOK /\ QueueInv
    BY DEF ClientIInv
  <2>2. /\ got \in Seq(Message) /\ Queued(toServer) \in Seq(Message) /\ Sent \in Seq(Message)
        /\ ToSend \in Seq(Message)
    BY <2>1, SentTyped
  <2>3. PICK m \in Range(got) : m.type = "quit"
    BY DEF QuitInv, LeavingInv, Leaving, Gone, QuitRead
  <2>4. PICK i \in 1..Len(got) : got[i].type = "quit"
    <3>1. PICK i \in DOMAIN got : m = got[i]
      BY DEF Range
    <3>2. DOMAIN got = 1..Len(got)
      BY <2>2, LenProperties
    <3>3. QED
      BY <2>3, <3>1, <3>2
  <2>5. PICK rest \in Seq(Message) : Sent \o rest = ToSend
    BY DEF SentInv
  <2> DEFINE tail == Queued(toServer) \o rest
  <2>6. tail \in Seq(Message) /\ got \o tail = ToSend
    <3>1. tail \in Seq(Message)
      BY <2>2, ConcatProperties
    <3>2. (got \o Queued(toServer)) \o rest = got \o tail
      BY <2>2, MessagesAssociate
    <3>3. QED
      BY <2>5, <3>1, <3>2 DEF Sent
  <2> HIDE DEF tail
  <2>7. /\ \A k \in 1..Len(got) : ToSend[k] = got[k]
        /\ Len(ToSend) = Len(got) + Len(tail) /\ Len(got) \in Nat /\ Len(tail) \in Nat
        /\ DOMAIN ToSend = 1..Len(ToSend)
    <3>1. /\ Len(got \o tail) = Len(got) + Len(tail) /\ Len(got) \in Nat /\ Len(tail) \in Nat
          /\ DOMAIN ToSend = 1..Len(ToSend)
      BY <2>2, <2>6, ConcatProperties, LenProperties
    <3>2. \A k \in 1..Len(got) : (got \o tail)[k] = got[k]
      BY <2>2, <2>6, ConcatPrefix
    <3>3. QED
      BY <2>6, <3>1, <3>2
  <2>8. i = Len(ToSend)
    BY <2>4, <2>7 DEF QuitInv, LastInv
  <2>9. Len(tail) = 0
    BY <2>4, <2>7, <2>8
  <2>10. tail = <<>>
    BY <2>6, <2>9, EmptySeq
  <2>11. QED
    BY <2>2, <2>6, <2>10, ConcatEmptySeq
<1>2. Init => ClientIInv /\ SentInv /\ QuitInv
  BY InitClient, InitSent, InitQuit
<1>3. (ClientIInv /\ SentInv /\ QuitInv) /\ [Next]_vars => (ClientIInv /\ SentInv /\ QuitInv)'
  BY StepClient, StepSent, StepQuit
<1>4. QED
  BY <1>1, <1>2, <1>3, PTL DEF Spec
=============================================================================
