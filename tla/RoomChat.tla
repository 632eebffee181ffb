------------------------------ MODULE RoomChat ------------------------------
(***************************************************************************)
(* What the members of a room hear (chat_session.cpp, ChatRoom's           *)
(* broadcasts, room_ai_agent_service.cpp): who joins and leaves, the chat  *)
(* lines, the questions to the room's AI agent and its answers.            *)
(*                                                                         *)
(* One thread runs io_context_, so a handler is one step; what it says to  *)
(* other sessions goes through their strands, and is queued there behind   *)
(* whatever is waiting.  Answers are made on the business threads and      *)
(* posted to the strand of the session that asked.  What the handlers do   *)
(* besides (users, passwords, statuses, private messages, replies to the   *)
(* requesting client alone) is in ChatServer, whose RegistryMatchesSession *)
(* lets a session's name and room be read from the registry here.          *)
(*                                                                         *)
(* An event is the number of its place in the log.  The frame of one that  *)
(* is longer than a body may be is empty: it is pushed like any other, and *)
(* nobody hears it.                                                        *)
(***************************************************************************)
EXTENDS ChatRoom, RoomAiConfig, Filter, SequencesExt

CONSTANTS
  File,          \* the configuration file
  Lower,         \* text -> the text in lower case
  TooLong,       \* the events of the log that are longer than kMaxBodyLength
  BusinessThreads,
  MaxRequests,   \* bound on the requests of all clients
  MaxAsks        \* bound on the questions among them

ASSUME RoomChatAssumption ==
  /\ BotNames = configured_ai_bot_names_(File)
  /\ Lower \in [Texts -> Texts] /\ TooLong \subseteq Nat
  /\ File \in [default : Section, rooms : [Rooms -> Section]]
  /\ BusinessThreads \in Nat \ {0}
  /\ MaxRequests \in Nat /\ MaxAsks \in Nat

VARIABLES
  stopped_,
  strand,     \* session -> the handlers waiting on its strand
  pushed,     \* session -> the events whose frames were pushed on its write_queue_
  log,        \* every event broadcast: what, whose, where, to which members
  tasks,      \* the answers being made or waiting for a business thread
  recent,     \* room -> recent_messages
  silent,     \* questions whose provider answered with nothing
  requests    \* requests received so far

chatVars == <<stopped_, strand, pushed, log, tasks, recent, silent, requests>>
vars == <<roomVars, chatVars>>

(* The agent of each room, and the rooms where it greets.                  *)
Agent == [r \in Rooms |-> ensure_room_state_(File, r)]
Enabled == {r \in Rooms : is_ai_enabled_for_room_(File, r)}
Greeting == {r \in Enabled : /\ ai_agent_name_for_room_(File, r) # Nothing
                             /\ ai_agent_welcome_for_room_(File, r) # Nothing}

Requests ==
  [do : {"login"}, user : Users] \cup [do : {"join"}, room : Rooms] \cup [do : {"chat", "ask", "close"}]
Event ==
  [kind : {"joined", "left", "chat", "ask", "welcome", "reply"}, by : Sessions, room : Rooms,
   to : SUBSET Sessions, question : Nat]
Delivery == [do : {"deliver"}, event : Nat \ {0}]
Reply == [do : {"reply"}, room : Rooms, question : Nat \ {0}]
Item == Requests \cup Delivery \cup Reply
Task == [room : Rooms, asker : Sessions, question : Nat \ {0}, made : BOOLEAN]
Entry == [question : Nat \ {0}, answer : BOOLEAN]

Init ==
  /\ RoomInit
  /\ stopped_ = [s \in Sessions |-> FALSE]
  /\ strand = [s \in Sessions |-> <<>>]
  /\ pushed = [s \in Sessions |-> <<>>]
  /\ log = <<>> /\ tasks = <<>>
  /\ recent = [r \in Rooms |-> <<>>]
  /\ silent = {} /\ requests = 0

-----------------------------------------------------------------------------
(* broadcast_to_room() of some events, one after the other, by a handler   *)
(* that runs on the strand of s, with these handlers waiting.  A delivery  *)
(* runs at once on s itself and where nothing waits, and does nothing once *)
(* the session has stopped.                                                *)
Broadcast(s, events, waiting) ==
  LET ids(t) == Only([i \in 1..Len(events) |-> Len(log) + i],
                     {Len(log) + i : i \in {j \in 1..Len(events) : t \in events[j].to}})
      Now(t) == t = s \/ waiting[t] = <<>>
      Later(t) == [i \in 1..Len(ids(t)) |-> [do |-> "deliver", event |-> ids(t)[i]]]
  IN  /\ log' = log \o events
      /\ pushed' = [t \in Sessions |-> IF Now(t) /\ ~stopped_[t] THEN pushed[t] \o ids(t) ELSE pushed[t]]
      /\ strand' = [t \in Sessions |-> IF Now(t) THEN waiting[t] ELSE waiting[t] \o Later(t)]

Says(s, kind, room, to) == <<[kind |-> kind, by |-> s, room |-> room, to |-> to, question |-> 0]>>

(* send_room_ai_welcome_if_needed()                                        *)
Welcome(s, room, to) ==
  IF room \in Greeting THEN Says(s, "welcome", room, to) ELSE <<>>

(* The history of a room: the last history_messages entries, at least one. *)
(* Defect: nothing is erased. *)
RememberAll(room, entry) == recent' = [recent EXCEPT ![room] = Append(@, entry)]

Kept(room) == Max({1, Agent[room].history_messages})

Remember(room, entry) ==
  LET all == Append(recent[room], entry)
  IN  recent' = [recent EXCEPT ![room] = SubSeq(all, Max({1, Len(all) - Kept(room) + 1}), Len(all))]

-----------------------------------------------------------------------------
(* The handlers of session s, with these handlers waiting on the strands.  *)
Login(s, u, waiting) ==
  /\ names_[s] = None
  /\ login(s, u)
  /\ LET members == room_members_'[Lobby]
     IN  Broadcast(s, Says(s, "joined", Lobby, members) \o Welcome(s, Lobby, members), waiting)
  /\ UNCHANGED <<stopped_, tasks, recent>>

JoinRoom(s, r, waiting) ==
  /\ change_room(s, r)
  /\ LET left == session_rooms_[s]
         members == room_members_'[r]
     IN  Broadcast(s, Says(s, "left", left, room_members_[left] \ {s})
                        \o Says(s, "joined", r, members) \o Welcome(s, r, members), waiting)
  /\ UNCHANGED <<stopped_, tasks, recent>>

(* Defect: the sender is sent its line apart from the broadcast too. *)
ChatWithEcho(s, waiting) ==
  /\ names_[s] # None
  /\ log' = Append(log, Says(s, "chat", session_rooms_[s], room_members_[session_rooms_[s]])[1])
  /\ pushed' = [t \in Sessions |->
                 IF t = s THEN pushed[t] \o <<Len(log'), Len(log')>>
                 ELSE IF t \in room_members_[session_rooms_[s]] /\ ~stopped_[t]
                 THEN Append(pushed[t], Len(log')) ELSE pushed[t]]
  /\ strand' = waiting
  /\ UNCHANGED <<roomVars, stopped_, tasks, recent>>

Chat(s, waiting) ==
  /\ names_[s] # None
  /\ LET room == session_rooms_[s] IN Broadcast(s, Says(s, "chat", room, room_members_[room]), waiting)
  /\ UNCHANGED <<roomVars, stopped_, tasks, recent>>

(* A private message to "ai" in a room with an agent: the question is said *)
(* in the room, noted by the service and handed to the business threads.   *)
Ask(s, waiting) ==
  /\ names_[s] # None /\ session_rooms_[s] \in Enabled
  /\ LET room == session_rooms_[s]
         question == Len(log) + 1
     IN  /\ Broadcast(s, Says(s, "ask", room, room_members_[room]), waiting)
         /\ Remember(room, [question |-> question, answer |-> FALSE])
         /\ tasks' = Append(tasks, [room |-> room, asker |-> s, question |-> question, made |-> FALSE])
  /\ UNCHANGED <<roomVars, stopped_>>

close_session(s, waiting) ==
  /\ ~stopped_[s]
  /\ stopped_' = [stopped_ EXCEPT ![s] = TRUE]
  /\ leave(s)
  /\ LET room == session_rooms_[s]
     IN  Broadcast(s, IF names_[s] = None THEN <<>> ELSE Says(s, "left", room, room_members_'[room]), waiting)
  /\ UNCHANGED <<tasks, recent>>

Applies(s, q) ==
  CASE q.do = "login" -> names_[s] = None
    [] q.do = "join" -> session_rooms_[s] \notin {None, q.room}
    [] q.do = "chat" -> names_[s] # None
    [] q.do = "ask" -> names_[s] # None /\ session_rooms_[s] \in Enabled
    [] q.do = "close" -> ~stopped_[s]

Handle(s, q, waiting) ==
  \/ q.do = "login" /\ Login(s, q.user, waiting)
  \/ q.do = "join" /\ JoinRoom(s, q.room, waiting)
  \/ q.do = "chat" /\ Chat(s, waiting)
  \/ q.do = "ask" /\ Ask(s, waiting)
  \/ q.do = "close" /\ close_session(s, waiting)
  \/ ~Applies(s, q) /\ strand' = waiting /\ UNCHANGED <<roomVars, stopped_, pushed, log, tasks, recent>>

-----------------------------------------------------------------------------
Waits(s, what) == \E i \in DOMAIN strand[s] : strand[s][i].do \in what
Among(S) == Only([i \in DOMAIN log |-> i], S)
Questions == Among({i \in DOMAIN log : log[i].kind = "ask"})
Asking == {s \in Sessions : Waits(s, {"ask"})}

(* A request is read from s, or something closes it (the client, an error, *)
(* the timer): the handler runs at once when nothing waits on the strand.  *)
(* A session reads one request at a time.                                  *)
Receive(s, q) ==
  /\ ~stopped_[s] /\ requests < MaxRequests /\ requests' = requests + 1
  /\ IF q.do = "close" THEN ~Waits(s, {"close"}) ELSE ~Waits(s, {"login", "join", "chat", "ask"})
  /\ q.do = "ask" => Len(Questions) + Cardinality(Asking) < MaxAsks
  /\ \/ strand[s] = <<>> /\ Applies(s, q) /\ Handle(s, q, strand)
     \/ /\ strand[s] # <<>>
        /\ strand' = [strand EXCEPT ![s] = Append(@, q)]
        /\ UNCHANGED <<roomVars, stopped_, pushed, log, tasks, recent>>
  /\ UNCHANGED silent

(* Defect: the handlers of a session run in any order. *)
AnyHandler(s) == DOMAIN strand[s]
NextHandler(s) == {1} \cap DOMAIN strand[s]

(* The strand of s runs a waiting handler: a request, a delivery, ...      *)
RunRequest(s) ==
  /\ \E i \in NextHandler(s) :
       /\ strand[s][i] \in Requests
       /\ Handle(s, strand[s][i], [strand EXCEPT ![s] = RemoveAt(@, i)])
  /\ UNCHANGED <<silent, requests>>

RunDeliver(s) ==
  /\ \E i \in NextHandler(s) :
       /\ strand[s][i].do = "deliver"
       /\ pushed' = [pushed EXCEPT ![s] = IF stopped_[s] THEN @ ELSE Append(@, strand[s][i].event)]
       /\ strand' = [strand EXCEPT ![s] = RemoveAt(@, i)]
  /\ UNCHANGED <<roomVars, stopped_, log, tasks, recent, silent, requests>>

(* ... or an answer to its question, which is said to whoever is in the    *)
(* room now, unless the session that asked has stopped.                    *)
RunReply(s) ==
  /\ \E i \in NextHandler(s) :
       /\ strand[s][i].do = "reply"
       /\ LET r == strand[s][i]
              reply == [kind |-> "reply", by |-> s, room |-> r.room,
                        to |-> room_members_[r.room], question |-> r.question]
          IN  Broadcast(s, IF stopped_[s] THEN <<>> ELSE <<reply>>, [strand EXCEPT ![s] = RemoveAt(@, i)])
  /\ UNCHANGED <<roomVars, stopped_, tasks, recent, silent, requests>>

-----------------------------------------------------------------------------
(* The business threads, each with one of the oldest tasks.                *)
Working == {i \in DOMAIN tasks : i <= BusinessThreads}

normalize_provider(provider) == IF provider = "" THEN "local" ELSE Lower[provider]
ProviderOf(i) == normalize_provider(Agent[tasks[i].room].provider)

(* The local provider always answers; another may answer with nothing.     *)
MakeReply(i) ==
  /\ ~tasks[i].made /\ ProviderOf(i) \in {"local", "openai", "deepseek", "ollama"}
  /\ Remember(tasks[i].room, [question |-> tasks[i].question, answer |-> TRUE])
  /\ \/ tasks' = [tasks EXCEPT ![i].made = TRUE] /\ UNCHANGED silent
     \/ /\ ProviderOf(i) # "local"
        /\ tasks' = RemoveAt(tasks, i)
        /\ silent' = silent \cup {tasks[i].question}
  /\ UNCHANGED <<roomVars, stopped_, strand, pushed, log, requests>>

(* The handler posts the answer to the session that asked, if it still     *)
(* exists (a stopped one may).                                             *)
Post(i) ==
  /\ \/ strand' = [strand EXCEPT ![tasks[i].asker] =
                     Append(@, [do |-> "reply", room |-> tasks[i].room, question |-> tasks[i].question])]
     \/ stopped_[tasks[i].asker] /\ UNCHANGED strand
  /\ tasks' = RemoveAt(tasks, i)
  /\ UNCHANGED <<roomVars, stopped_, pushed, log, recent, silent, requests>>

(* Defect: an exception of the provider ends the task. *)
FallBackSilently(i) ==
  /\ ~tasks[i].made /\ ProviderOf(i) # "local"
  /\ tasks' = RemoveAt(tasks, i)
  /\ UNCHANGED <<roomVars, stopped_, strand, pushed, log, recent, silent, requests>>

(* The provider throws: the local answer is posted, and not remembered.    *)
FallBack(i) == ~tasks[i].made /\ ProviderOf(i) # "local" /\ Post(i)

Answer(i) == MakeReply(i) \/ (tasks[i].made /\ Post(i)) \/ FallBack(i)

-----------------------------------------------------------------------------
Run(s) == RunRequest(s) \/ RunDeliver(s) \/ RunReply(s)

Next ==
  \/ \E s \in Sessions : Run(s) \/ \E q \in Requests : Receive(s, q)
  \/ \E i \in Working : Answer(i)

(* A strand with a handler runs it; a business thread ends its task (a     *)
(* provider's answer has a time limit).                                    *)
Fairness ==
  /\ \A s \in Sessions : WF_vars(Run(s))
  /\ WF_vars(1 \in Working /\ Answer(1))

Spec == Init /\ [][Next]_vars /\ Fairness

-----------------------------------------------------------------------------
ChatTypeOK ==
  /\ RoomTypeOK
  /\ stopped_ \in [Sessions -> BOOLEAN]
  /\ strand \in [Sessions -> Seq(Item)]
  /\ pushed \in [Sessions -> Seq(DOMAIN log)]
  /\ log \in Seq(Event) /\ tasks \in Seq(Task)
  /\ recent \in [Rooms -> Seq(Entry)]
  /\ silent \subseteq DOMAIN log /\ requests \in 0..MaxRequests

(* No session bears the name its room's agent or another's answers under:  *)
(* a user cannot pass for an agent.                                        *)
RoomChatInv ==
  /\ ChatTypeOK
  /\ \A s \in Sessions, r \in Rooms :
       Agent[r] # Nothing => names_[s] # Agent[r].bot_name

(* The events that reach the members they are said to.                     *)
Fitting == Nat \ TooLong

(* What t has been sent or will be sent when its strand has run.           *)
Stream(t) ==
  pushed[t] \o LET waiting == Only(strand[t], Delivery)
               IN  [i \in DOMAIN waiting |-> waiting[i].event]

SaidBy(s) == {i \in DOMAIN log : log[i].by = s /\ log[i].kind # "reply"}

(* Each member hears what each other one causes to be said - coming, going *)
(* and chatting, in one room or another - once, in the order it was said,  *)
(* and all of it that fits in a frame, whatever waits on the strands.      *)
(* (Two members may hear what two others say in different orders.)         *)
SenderOrder ==
  \A t, s \in Sessions : ~stopped_[t] =>
    LET Heard == Fitting \cap SaidBy(s)
    IN  Only(Stream(t), Heard) = Among({i \in Heard : t \in log[i].to})

(* Nobody hears an answer before its question, and a question is answered  *)
(* at most once, however late and by whichever business thread.            *)
QuestionBeforeAnswer ==
  /\ \A t \in Sessions : \A i, j \in DOMAIN Stream(t) :
       i < j => Stream(t)[j] # log[Stream(t)[i]].question
  /\ \A i, j \in DOMAIN log : log[i].question = log[j].question /\ i # j => log[i].question = 0

(* The history an agent is given: questions of its own room and answers to *)
(* them, an answer after its question, no more than configured.            *)
HistoryOrdered ==
  \A r \in Rooms :
    /\ recent[r] # <<>> => Len(recent[r]) <= Kept(r)
    /\ \A i \in DOMAIN recent[r] :
         /\ log[recent[r][i].question].room = r
         /\ \A j \in DOMAIN recent[r] :
              i < j /\ recent[r][i].question = recent[r][j].question =>
                ~recent[r][i].answer /\ recent[r][j].answer

(* A question is answered in its room, and whoever is there then hears it; *)
(* unless the session that asked stops, the provider answers with nothing, *)
(* or the answer is too long for a frame, as the local answers are after a *)
(* few questions: each quotes the history, earlier answers included.       *)
Answers(q) == {i \in DOMAIN log : log[i].question = q}
HeardBy(i) == {t \in Sessions : stopped_[t] \/ i \in Range(pushed[t])}

Settled(q) ==
  \/ stopped_[log[q].by] \/ q \in silent
  \/ \E i \in Answers(q) : i \in TooLong \/ log[i].to \subseteq HeardBy(i)

AskedIsAnswered ==
  \A k \in 1..MaxAsks :
    (k <= Len(Questions)) ~> (k <= Len(Questions) /\ Settled(Questions[k]))
=============================================================================
