-------------------------- MODULE RoomChatProofs ----------------------------
(***************************************************************************)
(* What the members of a room hear, for any number of sessions, users,     *)
(* rooms and requests, and which agent a room has, for every configuration *)
(* file.                                                                   *)
(***************************************************************************)
EXTENDS RoomChat, SequenceLemmas

-----------------------------------------------------------------------------
(***************************************************************************)
(* ChatRoom and RoomAiAgentService look up a room's agent independently of *)
(* each other.  For every configuration file they agree.  The argument is  *)
(* by cases: the room has a configuration of its own, it inherits the      *)
(* default agent, or there is none.                                        *)
(***************************************************************************)
ConfigFile(R) == [default : Section, rooms : [R -> Section]]

(* A section laid over a configuration is a configuration.                 *)
LEMMA LoadTyped ==
  ASSUME NEW section \in Section, NEW cfg \in AgentConfig
  PROVE  load_room_ai_config(section, cfg) \in AgentConfig
BY DEF load_room_ai_config, Section, AgentConfig

(* So is what the code starts from.                                        *)
LEMMA InitialTyped == Initial \in AgentConfig
BY RoomAiConfigAssumption DEF Initial, AgentConfig

(* Naming a configuration's agent leaves a configuration.                  *)
LEMMA WithNameTyped ==
  ASSUME NEW cfg \in AgentConfig, NEW name \in Texts
  PROVE  WithName(cfg, name) \in AgentConfig
BY DEF WithName, AgentConfig

(* The default agent, if there is one, is an enabled configuration.        *)
LEMMA DefaultTyped ==
  ASSUME NEW R, NEW f \in ConfigFile(R), default_room_ai_agent(f) # Nothing
  PROVE  default_room_ai_agent(f) \in AgentConfig
BY LoadTyped, InitialTyped DEF ConfigFile, default_room_ai_agent

(* So is the agent of every room that has a configuration of its own.      *)
LEMMA RoomTyped ==
  ASSUME NEW R, NEW f \in ConfigFile(R), NEW r \in DOMAIN room_ai_agents(f)
  PROVE  room_ai_agents(f)[r] \in AgentConfig
<1>1. Inherited(f) \in AgentConfig
  BY DefaultTyped, InitialTyped DEF Inherited
<1>2. r \in R /\ f.rooms[r] \in Section
  BY DEF room_ai_agents, ConfigFile
<1>3. room_ai_agents(f)[r] = load_room_ai_config(f.rooms[r], Inherited(f))
  BY DEF room_ai_agents
<1>4. QED
  BY <1>1, <1>2, <1>3, LoadTyped

(* An agent is a configuration.                                            *)
LEMMA StateTyped ==
  ASSUME NEW R, NEW f \in ConfigFile(R), NEW r \in R, ensure_room_state_(f, r) # Nothing
  PROVE  ensure_room_state_(f, r) \in AgentConfig
<1>1. CASE r \in DOMAIN room_ai_agents(f)
  BY <1>1, RoomTyped DEF ensure_room_state_
<1>2. CASE r \notin DOMAIN room_ai_agents(f)
  <2>1. default_room_ai_agent(f) \in AgentConfig
    BY <1>2, DefaultTyped DEF ensure_room_state_
  <2>2. WithName(default_room_ai_agent(f), "room-bot") \in AgentConfig
    BY <2>1, RoomAiConfigAssumption, WithNameTyped
  <2>3. QED
    BY <1>2, <2>1, <2>2 DEF ensure_room_state_
<1>3. QED
  BY <1>1, <1>2

(* A room takes questions (is_ai_agent_room_enabled) exactly when the      *)
(* service has an agent for it: no question is accepted and then dropped   *)
(* by request_reply().                                                     *)
THEOREM EnabledIsAnswered ==
  ASSUME NEW R, NEW f \in ConfigFile(R), NEW r \in R
  PROVE  is_ai_enabled_for_room_(f, r) <=> ensure_room_state_(f, r) # Nothing
<1>1. CASE r \in DOMAIN room_ai_agents(f)
  BY <1>1, RoomTyped, RoomAiConfigAssumption DEF is_ai_enabled_for_room_, ensure_room_state_
<1>2. CASE r \notin DOMAIN room_ai_agents(f) /\ default_room_ai_agent(f) = Nothing
  BY <1>2 DEF is_ai_enabled_for_room_, ensure_room_state_
<1>3. CASE r \notin DOMAIN room_ai_agents(f) /\ default_room_ai_agent(f) # Nothing
  <2>1. default_room_ai_agent(f) \in AgentConfig
    BY <1>3, DefaultTyped
  <2>2. WithName(default_room_ai_agent(f), "room-bot") \in AgentConfig
    BY <2>1, RoomAiConfigAssumption, WithNameTyped
  <2>3. ensure_room_state_(f, r) \in AgentConfig
    BY <1>3, <2>1, <2>2 DEF ensure_room_state_
  <2>4. QED
    BY <1>3, <2>3, RoomAiConfigAssumption DEF is_ai_enabled_for_room_
<1>4. QED
  BY <1>1, <1>2, <1>3

(* An agent answers under the name the registry shows and greets under,    *)
(* and login() reserves that name - except for a default agent that was    *)
(* given an empty name: it answers as "room-bot", which the registry       *)
(* neither shows nor reserves.                                             *)
THEOREM AgentsAgree ==
  ASSUME NEW R, NEW f \in ConfigFile(R), NEW r \in R,
         ensure_room_state_(f, r) # Nothing,
         r \in DOMAIN room_ai_agents(f) \/ Named(f)
  PROVE  /\ ensure_room_state_(f, r).bot_name = ai_agent_name_for_room_(f, r)
         /\ ensure_room_state_(f, r).bot_name \in configured_ai_bot_names_(f)
<1>1. CASE r \in DOMAIN room_ai_agents(f)
  BY <1>1 DEF ensure_room_state_, ai_agent_name_for_room_, configured_ai_bot_names_
<1>2. CASE r \notin DOMAIN room_ai_agents(f)
  BY <1>2 DEF ensure_room_state_, ai_agent_name_for_room_, configured_ai_bot_names_, Named
<1>3. QED
  BY <1>1, <1>2

-----------------------------------------------------------------------------
(***************************************************************************)
(* The agents and the registry of a room.                                  *)
(***************************************************************************)

(* The file is a configuration file.                                       *)
LEMMA FileTyped == File \in ConfigFile(Rooms)
BY RoomChatAssumption DEF ConfigFile

(* A room that takes questions has an agent.                               *)
LEMMA AgentTyped ==
  ASSUME NEW r \in Enabled
  PROVE  r \in Rooms /\ Agent[r] \in AgentConfig
<1>1. r \in Rooms /\ is_ai_enabled_for_room_(File, r)
  BY DEF Enabled
<1>2. ensure_room_state_(File, r) # Nothing
  BY <1>1, FileTyped, EnabledIsAnswered
<1>3. ensure_room_state_(File, r) \in AgentConfig
  BY <1>1, <1>2, FileTyped, StateTyped
<1>4. QED
  BY <1>1, <1>3 DEF Agent

(* The greater of two numbers.                                             *)
LEMMA MaxOfTwo ==
  ASSUME NEW a \in Int, NEW b \in Int
  PROVE  Max({a, b}) = IF a >= b THEN a ELSE b
<1> DEFINE m == IF a >= b THEN a ELSE b
<1>1. m \in {a, b} /\ \A y \in {a, b} : m >= y
  OBVIOUS
<1>2. \A x \in {a, b} : (\A y \in {a, b} : x >= y) => x = m
  OBVIOUS
<1> HIDE DEF m
<1>3. QED
  BY <1>1, <1>2 DEF Max, m

(* It remembers at least the last thing said.                              *)
LEMMA KeptTyped ==
  ASSUME NEW r \in Enabled
  PROVE  Kept(r) \in Nat \ {0}
<1>1. Agent[r].history_messages \in Nat
  BY AgentTyped DEF AgentConfig
<1>2. QED
  BY <1>1, MaxOfTwo DEF Kept

(* A session has a name exactly while it has a room.                       *)
NamedInRoom == \A s \in Sessions : names_[s] = None <=> session_rooms_[s] = None

(* What a handler does to the registry keeps its form, and gives no        *)
(* session the name of an agent.                                           *)
LEMMA RegistryKept ==
  ASSUME RoomTypeOK, BotNamesReserved, NamedInRoom, NEW s \in Sessions,
         \/ \E u \in Users : login(s, u)
         \/ \E r \in Rooms : change_room(s, r)
         \/ leave(s)
         \/ UNCHANGED roomVars
  PROVE  RoomTypeOK' /\ BotNamesReserved' /\ NamedInRoom'
<1> USE ChatRoomAssumption DEF RoomTypeOK, NamedInRoom
<1>1. ASSUME NEW u \in Users, login(s, u)
      PROVE  RoomTypeOK' /\ BotNamesReserved' /\ NamedInRoom'
  <2>1. PICK k \in 1..MaxSuffix : FirstFree(u, k) /\ Register(s, Candidate[u][k])
    BY <1>1 DEF login
  <2> DEFINE n == Candidate[u][k]
  <2>2. n \in Names /\ n \notin BotNames
    BY <2>1 DEF FirstFree, Taken
  <2> HIDE DEF n
  <2>3. Register(s, n)
    BY <2>1 DEF n
  <2>4. QED
    BY <2>2, <2>3 DEF Register, BotNamesReserved
<1>2. ASSUME NEW r \in Rooms, change_room(s, r)
      PROVE  RoomTypeOK' /\ BotNamesReserved' /\ NamedInRoom'
  BY <1>2 DEF change_room, BotNamesReserved
<1>3. CASE leave(s)
  BY <1>3 DEF leave, BotNamesReserved
<1>4. CASE UNCHANGED roomVars
  BY <1>4 DEF roomVars, BotNamesReserved
<1>5. QED
  BY <1>1, <1>2, <1>3, <1>4

-----------------------------------------------------------------------------
(***************************************************************************)
(* The steps: what is taken off a strand, what a broadcast adds, and what  *)
(* is kept of the history.                                                 *)
(***************************************************************************)

(* An element less.                                                        *)
LEMMA Removed ==
  ASSUME NEW X, NEW s \in Seq(X), NEW i \in 1..Len(s)
  PROVE  /\ RemoveAt(s, i) \in Seq(X)
         /\ Len(RemoveAt(s, i)) = Len(s) - 1
         /\ \A k \in 1..(Len(s) - 1) : RemoveAt(s, i)[k] = IF k < i THEN s[k] ELSE s[k + 1]
<1> DEFINE a == SubSeq(s, 1, i - 1)
           b == SubSeq(s, i + 1, Len(s))
<1>1. Len(s) \in Nat /\ i \in 1..Len(s) /\ \A k \in 1..Len(s) : s[k] \in X
  BY LenProperties
<1>2. /\ a \in Seq(X) /\ Len(a) = i - 1
      /\ \A k \in 1..(i - 1) : a[k] = s[k]
  <2>1. 1 \in Int /\ i - 1 \in Int /\ \A k \in 1..(i - 1) : s[k] \in X
    BY <1>1
  <2>2. /\ a \in Seq(X) /\ Len(a) = IF 1 <= i - 1 THEN i - 1 - 1 + 1 ELSE 0
        /\ \A k \in 1..(i - 1 - 1 + 1) : a[k] = s[1 + k - 1]
    BY <2>1, SubSeqProperties
  <2> HIDE DEF a
  <2>3. QED
    BY <1>1, <2>2
<1>3. /\ b \in Seq(X) /\ Len(b) = Len(s) - i
      /\ \A k \in 1..(Len(s) - i) : b[k] = s[i + k]
  <2>1. i + 1 \in Int /\ Len(s) \in Int /\ \A k \in (i + 1)..Len(s) : s[k] \in X
    BY <1>1
  <2>2. /\ b \in Seq(X) /\ Len(b) = IF i + 1 <= Len(s) THEN Len(s) - (i + 1) + 1 ELSE 0
        /\ \A k \in 1..(Len(s) - (i + 1) + 1) : b[k] = s[(i + 1) + k - 1]
    BY <2>1, SubSeqProperties
  <2> HIDE DEF b
  <2>3. QED
    BY <1>1, <2>2
<1>4. RemoveAt(s, i) = a \o b
  BY DEF RemoveAt
<1> HIDE DEF a, b
<1>5. /\ a \o b \in Seq(X) /\ Len(a \o b) = Len(a) + Len(b)
      /\ \A k \in 1..(Len(a) + Len(b)) : (a \o b)[k] = IF k <= Len(a) THEN a[k] ELSE b[k - Len(a)]
  BY <1>2, <1>3, ConcatProperties
<1>6. \A k \in 1..(Len(s) - 1) : (a \o b)[k] = IF k < i THEN s[k] ELSE s[k + 1]
  <2> SUFFICES ASSUME NEW k \in 1..(Len(s) - 1)
               PROVE  (a \o b)[k] = IF k < i THEN s[k] ELSE s[k + 1]
    OBVIOUS
  <2>1. (a \o b)[k] = IF k <= i - 1 THEN a[k] ELSE b[k - (i - 1)]
    BY <1>1, <1>2, <1>3, <1>5
  <2>2. CASE k < i
    BY <1>1, <1>2, <2>1, <2>2
  <2>3. CASE ~(k < i)
    <3>1. k - (i - 1) \in 1..(Len(s) - i) /\ i + (k - (i - 1)) = k + 1 /\ ~(k <= i - 1)
      BY <1>1, <2>3
    <3>2. QED
      BY <1>3, <2>1, <2>3, <3>1
  <2>4. QED
    BY <2>2, <2>3
<1>7. QED
  BY <1>1, <1>2, <1>3, <1>4, <1>5, <1>6

(* The first element less.                                                 *)
LEMMA RemovedFirst ==
  ASSUME NEW X, NEW s \in Seq(X), s # <<>>
  PROVE  RemoveAt(s, 1) = Tail(s)
<1>1. Len(s) \in Nat /\ 1 \in 1..Len(s)
  BY LenProperties, EmptySeq
<1>2. /\ RemoveAt(s, 1) \in Seq(X) /\ Len(RemoveAt(s, 1)) = Len(s) - 1
      /\ \A k \in 1..(Len(s) - 1) : RemoveAt(s, 1)[k] = IF k < 1 THEN s[k] ELSE s[k + 1]
  BY <1>1, Removed
<1>3. /\ Tail(s) \in Seq(X) /\ Len(Tail(s)) = Len(s) - 1
      /\ \A k \in 1..Len(Tail(s)) : Tail(s)[k] = s[k + 1]
  BY HeadTailProperties
<1>4. \A k \in 1..(Len(s) - 1) : RemoveAt(s, 1)[k] = Tail(s)[k]
  BY <1>1, <1>2, <1>3
<1>5. QED
  BY <1>1, <1>2, <1>3, <1>4, SeqEqual

(* The handlers of a strand are handlers, the one that runs is the first,  *)
(* and it is taken off.                                                    *)
LEMMA HandlerRun ==
  ASSUME ChatTypeOK, NEW s \in Sessions, NEW i \in NextHandler(s)
  PROVE  /\ i = 1 /\ strand[s] # <<>> /\ strand[s][i] = Head(strand[s])
         /\ Head(strand[s]) \in Item
         /\ [strand EXCEPT ![s] = RemoveAt(@, i)] = [strand EXCEPT ![s] = Tail(@)]
<1>1. i = 1 /\ i \in DOMAIN strand[s] /\ strand[s] \in Seq(Item)
  BY DEF NextHandler, ChatTypeOK
<1>2. strand[s] # <<>>
  BY <1>1, EmptySeq, LenProperties
<1>3. strand[s][1] = Head(strand[s]) /\ Head(strand[s]) \in Item
  BY <1>1, <1>2, HeadTailProperties
<1>4. RemoveAt(strand[s], i) = Tail(strand[s])
  BY <1>1, <1>2, RemovedFirst
<1>5. QED
  BY <1>1, <1>2, <1>3, <1>4

(* What waits while a handler of s runs: everything, or, when the handler  *)
(* was waiting itself, all but the first on the strand of s.               *)
Left(s, waiting) ==
  \/ waiting = strand
  \/ /\ strand[s] # <<>> /\ Head(strand[s]) \notin Delivery
     /\ waiting = [strand EXCEPT ![s] = Tail(@)]

(* What waits was waiting before.                                          *)
LEMMA LeftShifts ==
  ASSUME ChatTypeOK, NEW s \in Sessions, NEW waiting, Left(s, waiting)
  PROVE  /\ waiting \in [Sessions -> Seq(Item)]
         /\ \A t \in Sessions : \E d \in {0, 1} : \A i \in DOMAIN waiting[t] :
              i + d \in DOMAIN strand[t] /\ waiting[t][i] = strand[t][i + d]
<1>1. strand \in [Sessions -> Seq(Item)]
  BY DEF ChatTypeOK
<1>2. CASE waiting = strand
  <2>1. ASSUME NEW t \in Sessions
        PROVE  \A i \in DOMAIN waiting[t] : i + 0 \in DOMAIN strand[t] /\ waiting[t][i] = strand[t][i + 0]
    <3>1. DOMAIN strand[t] = 1..Len(strand[t]) /\ Len(strand[t]) \in Nat
      BY <1>1, LenProperties
    <3>2. QED
      BY <1>2, <3>1
  <2>2. QED
    BY <1>1, <1>2, <2>1
<1>3. CASE strand[s] # <<>> /\ waiting = [strand EXCEPT ![s] = Tail(@)]
  <2>1. /\ Tail(strand[s]) \in Seq(Item)
        /\ Len(Tail(strand[s])) = Len(strand[s]) - 1 /\ Len(strand[s]) \in Nat
        /\ \A i \in 1..Len(Tail(strand[s])) : Tail(strand[s])[i] = strand[s][i + 1]
    BY <1>1, <1>3, HeadTailProperties, LenProperties
  <2>2. waiting \in [Sessions -> Seq(Item)]
    BY <1>1, <1>3, <2>1
  <2>3. ASSUME NEW t \in Sessions, t # s
        PROVE  \A i \in DOMAIN waiting[t] : i + 0 \in DOMAIN strand[t] /\ waiting[t][i] = strand[t][i + 0]
    <3>1. DOMAIN strand[t] = 1..Len(strand[t]) /\ Len(strand[t]) \in Nat /\ waiting[t] = strand[t]
      BY <1>1, <1>3, <2>3, LenProperties
    <3>2. QED
      BY <3>1
  <2>4. \A i \in DOMAIN waiting[s] : i + 1 \in DOMAIN strand[s] /\ waiting[s][i] = strand[s][i + 1]
    <3>1. waiting[s] = Tail(strand[s])
      BY <1>1, <1>3
    <3>2. /\ DOMAIN waiting[s] = 1..(Len(strand[s]) - 1)
          /\ DOMAIN strand[s] = 1..Len(strand[s])
      BY <1>1, <2>1, <3>1, LenProperties
    <3>3. QED
      BY <2>1, <3>1, <3>2
  <2>5. QED
    BY <2>2, <2>3, <2>4
<1>4. QED
  BY <1>2, <1>3 DEF Left

(* The deliveries that wait are those that waited before.                  *)
EventOf == [h \in Delivery |-> h.event]
Deliveries(q) == Picked(q, Delivery, EventOf)

(* A handler that runs takes no delivery off.                              *)
LEMMA LeftDeliveries ==
  ASSUME ChatTypeOK, NEW s \in Sessions, NEW waiting, Left(s, waiting), NEW t \in Sessions
  PROVE  Deliveries(waiting[t]) = Deliveries(strand[t])
<1>1. strand \in [Sessions -> Seq(Item)]
  BY DEF ChatTypeOK
<1>2. CASE strand[s] # <<>> /\ Head(strand[s]) \notin Delivery /\ waiting = [strand EXCEPT ![s] = Tail(@)]
  <2>1. Picked(strand[s], Delivery, EventOf) = Picked(Tail(strand[s]), Delivery, EventOf)
    <3>1. strand[s] \in Seq(Item)
      BY <1>1
    <3>2. QED
      BY <1>2, <3>1, PickedSkips
  <2>2. QED
    BY <1>1, <1>2, <2>1 DEF Deliveries
<1>3. QED
  BY <1>2 DEF Left

(* Which of some events, said next, a session is to hear.                  *)
New(events) == [i \in 1..Len(events) |-> Len(log) + i]
NewTo(events, t) == {Len(log) + i : i \in {j \in 1..Len(events) : t \in events[j].to}}
Ids(events, t) == Only(New(events), NewTo(events, t))
Sent(ids) == [i \in 1..Len(ids) |-> [do |-> "deliver", event |-> ids[i]]]

(* They get the numbers that follow those of the log.                      *)
LEMMA NewTyped ==
  ASSUME log \in Seq(Event), NEW events \in Seq(Event)
  PROVE  /\ Len(log) \in Nat /\ Len(events) \in Nat
         /\ New(events) \in Seq((Len(log) + 1)..(Len(log) + Len(events)))
         /\ Len(New(events)) = Len(events)
         /\ \A i \in 1..Len(events) : New(events)[i] = Len(log) + i
<1>1. Len(log) \in Nat /\ Len(events) \in Nat
  BY LenProperties
<1> DEFINE m == Len(log)
           n == Len(events)
<1> HIDE DEF m, n
<1>2. m \in Nat /\ n \in Nat
  BY <1>1 DEF m, n
<1>3. [i \in 1..n |-> m + i] \in Seq((m + 1)..(m + n)) /\ Len([i \in 1..n |-> m + i]) = n
  BY <1>2
<1>4. QED
  BY <1>1, <1>3 DEF New, m, n

(* Each session hears those that are to it.                                *)
LEMMA IdsTyped ==
  ASSUME log \in Seq(Event), NEW events \in Seq(Event), NEW t
  PROVE  Ids(events, t) \in Seq((Len(log) + 1)..(Len(log) + Len(events)))
<1>1. New(events) \in Seq((Len(log) + 1)..(Len(log) + Len(events)))
  BY NewTyped
<1>2. QED
  BY <1>1, OnlyKeeps DEF Ids

(* What is sent are deliveries.                                            *)
LEMMA SentDeliveries ==
  ASSUME NEW ids \in Seq(Nat \ {0})
  PROVE  /\ Sent(ids) \in Seq(Delivery)
         /\ Deliveries(Sent(ids)) = ids
<1>1. Len(ids) \in Nat /\ DOMAIN ids = 1..Len(ids) /\ \A i \in 1..Len(ids) : ids[i] \in Nat \ {0}
  BY LenProperties
<1>2. \A i \in 1..Len(ids) : [do |-> "deliver", event |-> ids[i]] \in Delivery
  BY <1>1 DEF Delivery
<1>3. Sent(ids) \in Seq(Delivery) /\ Len(Sent(ids)) = Len(ids)
  BY <1>1, <1>2 DEF Sent
<1>4. Only(Sent(ids), Delivery) = Sent(ids)
  BY <1>3, OnlyAll
<1>5. DOMAIN Sent(ids) = 1..Len(ids)
  BY DEF Sent
<1>6. \A i \in 1..Len(ids) : EventOf[Sent(ids)[i]] = ids[i]
  BY <1>2 DEF Sent, EventOf
<1>7. Deliveries(Sent(ids)) = [i \in 1..Len(ids) |-> ids[i]]
  BY <1>4, <1>5, <1>6 DEF Deliveries, Picked
<1>8. ids = [i \in 1..Len(ids) |-> ids[i]]
  BY <1>1
<1>9. QED
  BY <1>3, <1>7, <1>8

(* A broadcast, seen from one session.                                     *)
HearsNow(s, events, waiting, t) ==
  /\ t = s \/ waiting[t] = <<>>
  /\ strand'[t] = waiting[t]
  /\ IF stopped_[t] THEN pushed'[t] = pushed[t] ELSE pushed'[t] = pushed[t] \o Ids(events, t)
HearsLater(s, events, waiting, t) ==
  /\ t # s
  /\ strand'[t] = waiting[t] \o Sent(Ids(events, t))
  /\ pushed'[t] = pushed[t]

(* It is heard at once, or waits to be heard.                              *)
LEMMA BroadcastHeard ==
  ASSUME NEW s \in Sessions, NEW events, NEW waiting,
         Broadcast(s, events, waiting), NEW t \in Sessions
  PROVE  HearsNow(s, events, waiting, t) \/ HearsLater(s, events, waiting, t)
BY DEF Broadcast, HearsNow, HearsLater, Ids, New, NewTo, Sent

(* The log grows, and what was said stays said.                            *)
Grows ==
  /\ Len(log') \in Nat /\ Len(log) \in Nat /\ Len(log) <= Len(log')
  /\ DOMAIN log = 1..Len(log) /\ DOMAIN log' = 1..Len(log')
  /\ \A i \in DOMAIN log : log'[i] = log[i]

(* A broadcast adds its events to the log.                                 *)
LEMMA BroadcastGrows ==
  ASSUME ChatTypeOK, NEW s, NEW events \in Seq(Event), NEW waiting, Broadcast(s, events, waiting)
  PROVE  /\ Grows /\ log' \in Seq(Event)
         /\ Len(log') = Len(log) + Len(events) /\ Len(events) \in Nat
         /\ \A i \in 1..Len(events) : log'[Len(log) + i] = events[i]
<1>1. log \in Seq(Event) /\ log' = log \o events
  BY DEF ChatTypeOK, Broadcast
<1>2. /\ Len(log) \in Nat /\ Len(events) \in Nat /\ DOMAIN log = 1..Len(log)
  BY <1>1, LenProperties
<1>3. /\ log \o events \in Seq(Event)
      /\ Len(log \o events) = Len(log) + Len(events)
      /\ \A i \in 1..(Len(log) + Len(events)) :
           (log \o events)[i] = IF i <= Len(log) THEN log[i] ELSE events[i - Len(log)]
  BY <1>1, ConcatProperties
<1>4. DOMAIN (log \o events) = 1..(Len(log) + Len(events))
  BY <1>3, LenProperties
<1>5. \A i \in 1..Len(log) : (log \o events)[i] = log[i]
  BY <1>2, <1>3
<1>6. \A i \in 1..Len(events) : (log \o events)[Len(log) + i] = events[i]
  <2> SUFFICES ASSUME NEW i \in 1..Len(events) PROVE (log \o events)[Len(log) + i] = events[i]
    OBVIOUS
  <2>1. Len(log) + i \in 1..(Len(log) + Len(events)) /\ ~(Len(log) + i <= Len(log))
        /\ (Len(log) + i) - Len(log) = i
    BY <1>2
  <2>2. QED
    BY <1>3, <2>1
<1>7. QED
  BY <1>1, <1>2, <1>3, <1>4, <1>5, <1>6 DEF Grows

(* A broadcast of events keeps the form of what waits and what is heard.   *)
LEMMA BroadcastTyped ==
  ASSUME ChatTypeOK, NEW s \in Sessions, NEW events \in Seq(Event),
         NEW waiting \in [Sessions -> Seq(Item)], Broadcast(s, events, waiting)
  PROVE  /\ log' \in Seq(Event)
         /\ strand' \in [Sessions -> Seq(Item)]
         /\ pushed' \in [Sessions -> Seq(DOMAIN log')]
<1>1. /\ log \in Seq(Event) /\ pushed \in [Sessions -> Seq(DOMAIN log)]
  BY DEF ChatTypeOK
<1>2. /\ Len(log) \in Nat /\ Len(events) \in Nat
      /\ Len(log') = Len(log) + Len(events) /\ log' \in Seq(Event)
      /\ DOMAIN log = 1..Len(log) /\ DOMAIN log' = 1..Len(log')
  BY BroadcastGrows DEF Grows
<1>3. DOMAIN log \subseteq DOMAIN log' /\ (Len(log) + 1)..(Len(log) + Len(events)) \subseteq DOMAIN log'
      /\ DOMAIN log' \subseteq Nat \ {0}
  BY <1>2
<1>4. ASSUME NEW t \in Sessions
      PROVE  strand'[t] \in Seq(Item) /\ pushed'[t] \in Seq(DOMAIN log')
  <2>1. Ids(events, t) \in Seq((Len(log) + 1)..(Len(log) + Len(events)))
    BY <1>1, IdsTyped
  <2>2. Ids(events, t) \in Seq(DOMAIN log') /\ Ids(events, t) \in Seq(Nat \ {0})
    BY <1>3, <2>1, SeqMonotonic
  <2>3. pushed[t] \in Seq(DOMAIN log')
    BY <1>1, <1>3, SeqMonotonic
  <2>4. pushed[t] \o Ids(events, t) \in Seq(DOMAIN log')
    BY <2>2, <2>3, ConcatProperties
  <2>5. Sent(Ids(events, t)) \in Seq(Item)
    <3>1. Sent(Ids(events, t)) \in Seq(Delivery)
      BY <2>2, SentDeliveries
    <3>2. Delivery \subseteq Item
      BY DEF Item
    <3>3. QED
      BY <3>1, <3>2, SeqMonotonic
  <2>6. waiting[t] \in Seq(Item) /\ waiting[t] \o Sent(Ids(events, t)) \in Seq(Item)
    BY <2>5, ConcatProperties
  <2>7. CASE HearsNow(s, events, waiting, t)
    BY <2>3, <2>4, <2>6, <2>7 DEF HearsNow
  <2>8. CASE HearsLater(s, events, waiting, t)
    BY <2>3, <2>6, <2>8 DEF HearsLater
  <2>9. QED
    BY <2>7, <2>8, BroadcastHeard
<1>5. strand' = [t \in Sessions |-> strand'[t]] /\ pushed' = [t \in Sessions |-> pushed'[t]]
  BY DEF Broadcast
<1>6. QED
  BY <1>2, <1>4, <1>5

-----------------------------------------------------------------------------
(***************************************************************************)
(* The invariant, and what each kind of step does.                         *)
(***************************************************************************)
TypeInv == ChatTypeOK /\ BotNamesReserved /\ NamedInRoom

Asked(q, room, s) ==
  q \in DOMAIN log /\ log[q].kind = "ask" /\ log[q].room = room /\ log[q].by = s

(* A question being answered is one its session asked in its room.         *)
TasksInv ==
  \A i \in DOMAIN tasks :
    /\ tasks[i].room \in Enabled
    /\ Asked(tasks[i].question, tasks[i].room, tasks[i].asker)
    /\ \A j \in DOMAIN tasks : tasks[i].question = tasks[j].question => i = j

(* So is one whose answer was posted, and nobody makes another.            *)
PostedInv ==
  \A s \in Sessions : \A i \in DOMAIN strand[s] :
    strand[s][i] \in Reply =>
      /\ Asked(strand[s][i].question, strand[s][i].room, s)
      /\ \A j \in DOMAIN tasks : tasks[j].question # strand[s][i].question
      /\ \A j \in DOMAIN strand[s] :
           strand[s][j] \in Reply /\ strand[s][i].question = strand[s][j].question => i = j

(* So is one that was answered, and no answer to it is on its way.         *)
AnsweredInv ==
  \A i \in DOMAIN log :
    log[i].question # 0 =>
      /\ log[i].question < i
      /\ Asked(log[i].question, log[i].room, log[i].by)
      /\ \A j \in DOMAIN log : log[i].question = log[j].question => i = j
      /\ \A j \in DOMAIN tasks : tasks[j].question # log[i].question
      /\ \A s \in Sessions : \A j \in DOMAIN strand[s] :
           strand[s][j] \in Reply => strand[s][j].question # log[i].question

(* The history knows only what was said, and not the answer being made.    *)
HistoryInv ==
  /\ HistoryOrdered
  /\ \A r \in Rooms : \A k \in DOMAIN recent[r] :
       /\ recent[r][k].question \in DOMAIN log
       /\ \A i \in DOMAIN tasks :
            ~tasks[i].made /\ recent[r][k].question = tasks[i].question => ~recent[r][k].answer

By(s) == {i \in DOMAIN log : log[i].by = s}

(* What waits to be heard was said by another session.                     *)
WaitsForOthers(t) ==
  \A i \in DOMAIN strand[t] :
    strand[t][i] \in Delivery => strand[t][i].event \in DOMAIN log /\ log[strand[t][i].event].by # t

(* What t hears of each session comes in the order it was said, and is all *)
(* of it, unless t stops.                                                  *)
HearsInOrder(t) ==
  \A s \in Sessions :
    /\ Increasing(Only(Stream(t), By(s)))
    /\ ~stopped_[t] => Only(Stream(t), By(s)) = Among({i \in By(s) : t \in log[i].to})

StreamInv == \A t \in Sessions : WaitsForOthers(t) /\ HearsInOrder(t)

ChatIInv == TypeInv /\ TasksInv /\ PostedInv /\ AnsweredInv /\ HistoryInv /\ StreamInv

(* What a session says of itself, without answering a question.            *)
Remarks(s) == {e \in Event : e.by = s /\ e.question = 0}
Speaks(s, waiting) == \E events \in Seq(Remarks(s)) : Broadcast(s, events, waiting)
Stops(s) == stopped_' = stopped_ \/ stopped_' = [stopped_ EXCEPT ![s] = TRUE]

(* One thing said, and an agent's welcome, are remarks.                    *)
LEMMA RemarksTyped ==
  ASSUME NEW s \in Sessions, NEW room \in Rooms, NEW to \in SUBSET Sessions,
         NEW kind \in {"joined", "left", "chat", "ask"}
  PROVE  /\ Says(s, kind, room, to) \in Seq(Remarks(s))
         /\ Len(Says(s, kind, room, to)) = 1
         /\ Welcome(s, room, to) \in Seq(Remarks(s))
<1>1. ASSUME NEW k \in {"joined", "left", "chat", "ask", "welcome"}
      PROVE  Says(s, k, room, to) \in Seq(Remarks(s)) /\ Len(Says(s, k, room, to)) = 1
  <2> DEFINE e == [kind |-> k, by |-> s, room |-> room, to |-> to, question |-> 0]
  <2>1. e \in Remarks(s)
    BY DEF Remarks, Event
  <2>2. Says(s, k, room, to) = <<e>>
    BY DEF Says
  <2> HIDE DEF e
  <2>3. QED
    BY <2>1, <2>2
<1>2. <<>> \in Seq(Remarks(s))
  OBVIOUS
<1>3. Welcome(s, room, to) \in Seq(Remarks(s))
  BY <1>1, <1>2 DEF Welcome
<1>4. QED
  BY <1>1, <1>3

(* A remark is an event.                                                   *)
LEMMA RemarksAreEvents ==
  ASSUME NEW s, NEW events \in Seq(Remarks(s))
  PROVE  events \in Seq(Event) /\ \A k \in 1..Len(events) : events[k].by = s /\ events[k].question = 0
<1>1. Remarks(s) \subseteq Event
  BY DEF Remarks
<1>2. events \in Seq(Event)
  BY <1>1, SeqMonotonic
<1>3. \A k \in 1..Len(events) : events[k] \in Remarks(s)
  BY LenProperties
<1>4. QED
  BY <1>2, <1>3 DEF Remarks

(* A handler speaks and hands over no question, asks one, or does nothing. *)
LEMMA HandlerKinds ==
  ASSUME TypeInv, NEW s \in Sessions, NEW q \in Requests, NEW waiting, Handle(s, q, waiting)
  PROVE  /\ RoomTypeOK' /\ BotNamesReserved' /\ NamedInRoom'
         /\ \/ Speaks(s, waiting) /\ Stops(s) /\ UNCHANGED <<tasks, recent>>
            \/ Speaks(s, waiting) /\ Ask(s, waiting)
            \/ strand' = waiting /\ UNCHANGED <<stopped_, pushed, log, tasks, recent>>
<1> DEFINE Kept0 == RoomTypeOK' /\ BotNamesReserved' /\ NamedInRoom'
           Kind == \/ Speaks(s, waiting) /\ Stops(s) /\ UNCHANGED <<tasks, recent>>
                   \/ Speaks(s, waiting) /\ Ask(s, waiting)
                   \/ strand' = waiting /\ UNCHANGED <<stopped_, pushed, log, tasks, recent>>
<1>0. /\ RoomTypeOK /\ BotNamesReserved /\ NamedInRoom
      /\ \A t \in Sessions : session_rooms_[t] \in Rooms \cup {None}
      /\ \A r \in Rooms : room_members_[r] \in SUBSET Sessions
      /\ Lobby \in Rooms /\ None \notin Rooms
  BY ChatRoomAssumption DEF TypeInv, ChatTypeOK, RoomTypeOK
<1>a. \A a, b \in Seq(Remarks(s)) : a \o b \in Seq(Remarks(s))
  BY ConcatProperties
<1>b. Kept0 => \A r \in Rooms : room_members_'[r] \in SUBSET Sessions
  BY DEF RoomTypeOK
<1>1. CASE q.do = "login" /\ Login(s, q.user, waiting)
  <2>1. login(s, q.user) /\ UNCHANGED <<stopped_, tasks, recent>>
    BY <1>1 DEF Login
  <2>2. q.user \in Users
    BY <1>1 DEF Requests
  <2>3. Kept0
    BY <1>0, <2>1, <2>2, RegistryKept
  <2>4. room_members_'[Lobby] \in SUBSET Sessions
    BY <1>0, <1>b, <2>3
  <2>5. Says(s, "joined", Lobby, room_members_'[Lobby]) \o Welcome(s, Lobby, room_members_'[Lobby])
          \in Seq(Remarks(s))
    <3>1. /\ Says(s, "joined", Lobby, room_members_'[Lobby]) \in Seq(Remarks(s))
          /\ Welcome(s, Lobby, room_members_'[Lobby]) \in Seq(Remarks(s))
      BY <1>0, <2>4, RemarksTyped
    <3>2. QED
      BY <1>a, <3>1
  <2>6. Speaks(s, waiting)
    BY <1>1, <2>5 DEF Login, Speaks
  <2>7. QED
    BY <2>1, <2>3, <2>6 DEF Stops
<1>2. CASE q.do = "join" /\ JoinRoom(s, q.room, waiting)
  <2> DEFINE r == q.room
             old == session_rooms_[s]
  <2>1. change_room(s, r) /\ UNCHANGED <<stopped_, tasks, recent>>
    BY <1>2 DEF JoinRoom
  <2>2. r \in Rooms
    BY <1>2 DEF Requests
  <2>3. Kept0
    BY <1>0, <2>1, <2>2, RegistryKept
  <2>4. old \in Rooms /\ room_members_[old] \ {s} \in SUBSET Sessions
    BY <1>0, <2>1 DEF change_room
  <2>5. room_members_'[r] \in SUBSET Sessions
    BY <1>b, <2>2, <2>3
  <2>6. Says(s, "left", old, room_members_[old] \ {s})
          \o Says(s, "joined", r, room_members_'[r]) \o Welcome(s, r, room_members_'[r]) \in Seq(Remarks(s))
    <3>1. Says(s, "left", old, room_members_[old] \ {s}) \in Seq(Remarks(s))
      BY <2>4, RemarksTyped
    <3>2. /\ Says(s, "joined", r, room_members_'[r]) \in Seq(Remarks(s))
          /\ Welcome(s, r, room_members_'[r]) \in Seq(Remarks(s))
      BY <2>2, <2>5, RemarksTyped
    <3>3. QED
      BY <1>a, <3>1, <3>2
  <2>7. Speaks(s, waiting)
    BY <1>2, <2>6 DEF JoinRoom, Speaks
  <2>8. QED
    BY <2>1, <2>3, <2>7 DEF Stops
<1>3. CASE q.do = "chat" /\ Chat(s, waiting)
  <2>1. names_[s] # None /\ UNCHANGED <<roomVars, stopped_, tasks, recent>>
    BY <1>3 DEF Chat
  <2>2. session_rooms_[s] \in Rooms
    BY <1>0, <2>1 DEF NamedInRoom
  <2>3. Kept0
    BY <1>0, <2>1, RegistryKept
  <2>4. Says(s, "chat", session_rooms_[s], room_members_[session_rooms_[s]]) \in Seq(Remarks(s))
    BY <1>0, <2>2, RemarksTyped
  <2>5. Speaks(s, waiting)
    BY <1>3, <2>4 DEF Chat, Speaks
  <2>6. QED
    BY <2>1, <2>3, <2>5 DEF Stops
<1>4. CASE q.do = "ask" /\ Ask(s, waiting)
  <2>1. names_[s] # None /\ UNCHANGED <<roomVars, stopped_>>
    BY <1>4 DEF Ask
  <2>2. session_rooms_[s] \in Rooms
    BY <1>0, <2>1 DEF NamedInRoom
  <2>3. Kept0
    BY <1>0, <2>1, RegistryKept
  <2>4. Says(s, "ask", session_rooms_[s], room_members_[session_rooms_[s]]) \in Seq(Remarks(s))
    BY <1>0, <2>2, RemarksTyped
  <2>5. Speaks(s, waiting)
    BY <1>4, <2>4 DEF Ask, Speaks
  <2>6. QED
    BY <1>4, <2>3, <2>5
<1>5. CASE q.do = "close" /\ close_session(s, waiting)
  <2> DEFINE room == session_rooms_[s]
             events == IF names_[s] = None THEN <<>> ELSE Says(s, "left", room, room_members_'[room])
  <2>1. leave(s) /\ stopped_' = [stopped_ EXCEPT ![s] = TRUE] /\ UNCHANGED <<tasks, recent>>
        /\ Broadcast(s, events, waiting)
    BY <1>5 DEF close_session
  <2>2. Kept0
    BY <1>0, <2>1, RegistryKept
  <2>3. events \in Seq(Remarks(s))
    <3>1. CASE names_[s] = None
      BY <3>1
    <3>2. CASE names_[s] # None
      <4>1. room \in Rooms
        BY <1>0, <3>2 DEF NamedInRoom
      <4>2. room_members_'[room] \in SUBSET Sessions
        BY <1>b, <2>2, <4>1
      <4>3. Says(s, "left", room, room_members_'[room]) \in Seq(Remarks(s))
        BY <4>1, <4>2, RemarksTyped
      <4>4. QED
        BY <3>2, <4>3
    <3>3. QED
      BY <3>1, <3>2
  <2> HIDE DEF events
  <2>4. Speaks(s, waiting)
    BY <2>1, <2>3 DEF Speaks
  <2>5. QED
    BY <2>1, <2>2, <2>4 DEF Stops
<1>6. CASE strand' = waiting /\ UNCHANGED <<roomVars, stopped_, pushed, log, tasks, recent>>
  <2>1. Kept0
    BY <1>0, <1>6, RegistryKept
  <2>2. QED
    BY <1>6, <2>1
<1>7. QED
  BY <1>1, <1>2, <1>3, <1>4, <1>5, <1>6 DEF Handle

(* A request waits behind others; a delivery is heard, an answer is said.  *)
Queues(s) ==
  /\ \E q \in Requests : strand' = [strand EXCEPT ![s] = Append(@, q)]
  /\ UNCHANGED <<stopped_, pushed, log, tasks, recent, silent>>
Delivers(s) ==
  /\ strand[s] # <<>> /\ Head(strand[s]) \in Delivery
  /\ pushed' = [pushed EXCEPT ![s] = IF stopped_[s] THEN @ ELSE Append(@, Head(strand[s]).event)]
  /\ strand' = [strand EXCEPT ![s] = Tail(@)]
  /\ UNCHANGED <<stopped_, log, tasks, recent, silent>>
ReplyTo(s, h) ==
  [kind |-> "reply", by |-> s, room |-> h.room, to |-> room_members_[h.room], question |-> h.question]
Replies(s) ==
  /\ strand[s] # <<>> /\ Head(strand[s]) \in Reply
  /\ \E events \in {<<>>, <<ReplyTo(s, Head(strand[s]))>>} :
       Broadcast(s, events, [strand EXCEPT ![s] = Tail(@)])
  /\ UNCHANGED <<stopped_, tasks, recent, silent>>

(* A handler is of the kind it says.                                       *)
LEMMA ItemKinds ==
  ASSUME NEW h \in Item
  PROVE  /\ h.do = "deliver" <=> h \in Delivery
         /\ h.do = "reply" <=> h \in Reply
         /\ h \in Requests => h \notin Delivery /\ h \notin Reply
         /\ ~(h \in Delivery /\ h \in Reply)
<1>1. h \in Requests => h.do \in {"login", "join", "chat", "ask", "close"}
  BY DEF Requests
<1>2. (h \in Delivery => h.do = "deliver") /\ (h \in Reply => h.do = "reply")
  BY DEF Delivery, Reply
<1>3. h \in Requests \/ h \in Delivery \/ h \in Reply
  BY DEF Item
<1>4. QED
  BY <1>1, <1>2, <1>3

(* What a step of a session's strand, or of the reader of a session, is.   *)
SessionStep(s) ==
  \/ \E waiting :
       /\ Left(s, waiting) /\ UNCHANGED silent
       /\ \/ Speaks(s, waiting) /\ Stops(s) /\ UNCHANGED <<tasks, recent>>
          \/ Speaks(s, waiting) /\ Ask(s, waiting)
          \/ strand' = waiting /\ UNCHANGED <<stopped_, pushed, log, tasks, recent>>
  \/ Queues(s) \/ Delivers(s) \/ Replies(s)

(* A request that is read makes such a step, ...                           *)
LEMMA ReceiveStep ==
  ASSUME TypeInv, NEW s \in Sessions, NEW q \in Requests, Receive(s, q)
  PROVE  RoomTypeOK' /\ BotNamesReserved' /\ NamedInRoom' /\ requests' \in 0..MaxRequests /\ SessionStep(s)
<1>1. RoomTypeOK /\ BotNamesReserved /\ NamedInRoom /\ requests \in 0..MaxRequests
  BY DEF TypeInv, ChatTypeOK
<1>2. requests' \in 0..MaxRequests /\ UNCHANGED silent
  BY <1>1, RoomChatAssumption DEF Receive
<1>3. CASE Handle(s, q, strand)
  <2>1. Left(s, strand)
    BY DEF Left
  <2>2. QED
    BY <1>2, <1>3, <2>1, HandlerKinds DEF SessionStep
<1>4. CASE /\ strand' = [strand EXCEPT ![s] = Append(@, q)]
           /\ UNCHANGED <<roomVars, stopped_, pushed, log, tasks, recent>>
  <2>1. RoomTypeOK' /\ BotNamesReserved' /\ NamedInRoom'
    BY <1>1, <1>4, RegistryKept
  <2>2. Queues(s)
    BY <1>2, <1>4 DEF Queues
  <2>3. QED
    BY <1>2, <2>1, <2>2 DEF SessionStep
<1>5. QED
  BY <1>3, <1>4 DEF Receive

(* ... and so does a strand that runs its first handler.                   *)
LEMMA RunStep ==
  ASSUME TypeInv, NEW s \in Sessions, Run(s)
  PROVE  RoomTypeOK' /\ BotNamesReserved' /\ NamedInRoom' /\ requests' = requests /\ SessionStep(s)
<1>1. RoomTypeOK /\ BotNamesReserved /\ NamedInRoom /\ ChatTypeOK
  BY DEF TypeInv, ChatTypeOK
<1> DEFINE later == [strand EXCEPT ![s] = Tail(@)]
<1>2. ASSUME NEW i \in NextHandler(s)
      PROVE  /\ strand[s] # <<>> /\ strand[s][i] = Head(strand[s]) /\ Head(strand[s]) \in Item
             /\ [strand EXCEPT ![s] = RemoveAt(@, i)] = later
  BY <1>1, HandlerRun
<1>3. CASE RunRequest(s)
  <2>1. PICK i \in NextHandler(s) :
          /\ strand[s][i] \in Requests
          /\ Handle(s, strand[s][i], [strand EXCEPT ![s] = RemoveAt(@, i)])
    BY <1>3 DEF RunRequest
  <2>2. Handle(s, strand[s][i], later)
    BY <1>2, <2>1
  <2>3. Left(s, later)
    BY <1>2, <2>1, ItemKinds DEF Left
  <2>4. UNCHANGED silent /\ requests' = requests
    BY <1>3 DEF RunRequest
  <2> HIDE DEF later
  <2>5. QED
    BY <2>1, <2>2, <2>3, <2>4, HandlerKinds DEF SessionStep
<1>4. CASE RunDeliver(s)
  <2>1. PICK i \in NextHandler(s) :
          /\ strand[s][i].do = "deliver"
          /\ pushed' = [pushed EXCEPT ![s] = IF stopped_[s] THEN @ ELSE Append(@, strand[s][i].event)]
          /\ strand' = [strand EXCEPT ![s] = RemoveAt(@, i)]
    BY <1>4 DEF RunDeliver
  <2>2. UNCHANGED <<roomVars, stopped_, log, tasks, recent, silent, requests>>
    BY <1>4 DEF RunDeliver
  <2>3. Delivers(s)
    BY <1>2, <2>1, <2>2, ItemKinds DEF Delivers
  <2>4. RoomTypeOK' /\ BotNamesReserved' /\ NamedInRoom'
    BY <1>1, <2>2, RegistryKept
  <2>5. QED
    BY <2>2, <2>3, <2>4 DEF SessionStep
<1>5. CASE RunReply(s)
  <2>1. PICK i \in NextHandler(s) :
          /\ strand[s][i].do = "reply"
          /\ Broadcast(s, IF stopped_[s] THEN <<>> ELSE <<ReplyTo(s, strand[s][i])>>,
                       [strand EXCEPT ![s] = RemoveAt(@, i)])
    BY <1>5 DEF RunReply, ReplyTo
  <2>2. UNCHANGED <<roomVars, stopped_, tasks, recent, silent, requests>>
    BY <1>5 DEF RunReply
  <2>3. /\ strand[s] # <<>> /\ Head(strand[s]) \in Reply
        /\ Broadcast(s, IF stopped_[s] THEN <<>> ELSE <<ReplyTo(s, Head(strand[s]))>>, later)
    BY <1>2, <2>1, ItemKinds
  <2>4. Replies(s)
    BY <2>2, <2>3 DEF Replies
  <2>5. RoomTypeOK' /\ BotNamesReserved' /\ NamedInRoom'
    BY <1>1, <2>2, RegistryKept
  <2>6. QED
    BY <2>2, <2>4, <2>5 DEF SessionStep
<1>6. QED
  BY <1>3, <1>4, <1>5 DEF Run

(* The history of a room ends with an entry, and has what it had d places  *)
(* further back.                                                           *)
Shifted(room, entry, d) ==
  /\ Len(recent'[room]) + d = Len(recent[room]) + 1
  /\ \A k \in 1..Len(recent'[room]) :
       recent'[room][k] = IF k + d <= Len(recent[room]) THEN recent[room][k + d] ELSE entry

(* The history of a room ends with what is remembered; what is before that *)
(* was in it, d places further back, and it is not longer than configured. *)
LEMMA Remembered ==
  ASSUME ChatTypeOK, NEW room \in Enabled, NEW entry \in Entry, Remember(room, entry)
  PROVE  /\ recent' \in [Rooms -> Seq(Entry)]
         /\ \A r \in Rooms : r # room => recent'[r] = recent[r]
         /\ Len(recent'[room]) <= Kept(room)
         /\ \E d \in Nat : Shifted(room, entry, d)
<1> DEFINE old == recent[room]
           all == Append(old, entry)
           m == Max({1, Len(all) - Kept(room) + 1})
           n == Len(all)
           new == SubSeq(all, m, n)
<1>1. room \in Rooms /\ recent \in [Rooms -> Seq(Entry)] /\ old \in Seq(Entry)
  BY AgentTyped DEF ChatTypeOK
<1>2. /\ all \in Seq(Entry) /\ n = Len(old) + 1 /\ Len(old) \in Nat
      /\ \A k \in 1..Len(old) : all[k] = old[k]
      /\ all[Len(old) + 1] = entry
  BY <1>1, AppendProperties, LenProperties
<1>3. recent' = [recent EXCEPT ![room] = new]
  BY DEF Remember
<1> HIDE DEF old, all, n
<1>4. Kept(room) \in Nat \ {0}
  BY KeptTyped
<1>5. m = IF 1 >= n - Kept(room) + 1 THEN 1 ELSE n - Kept(room) + 1
  BY <1>2, <1>4, MaxOfTwo DEF n
<1> HIDE DEF m
<1>6. m \in 1..n /\ n - m + 1 <= Kept(room) /\ n \in Nat
  BY <1>2, <1>4, <1>5
<1>7. /\ new \in Seq(Entry) /\ Len(new) = n - m + 1
      /\ \A k \in 1..(n - m + 1) : new[k] = all[m + k - 1]
  <2>1. m \in Int /\ n \in Int /\ \A k \in m..n : all[k] \in Entry
    BY <1>2, <1>6, LenProperties DEF n
  <2>2. /\ new \in Seq(Entry) /\ Len(new) = IF m <= n THEN n - m + 1 ELSE 0
        /\ \A k \in 1..(n - m + 1) : new[k] = all[m + k - 1]
    BY <2>1, SubSeqProperties
  <2> HIDE DEF new
  <2>3. QED
    BY <1>6, <2>2
<1> HIDE DEF new
<1>8. \A k \in 1..Len(new) : new[k] = IF k + (m - 1) <= Len(old) THEN old[k + (m - 1)] ELSE entry
  <2> SUFFICES ASSUME NEW k \in 1..Len(new)
               PROVE  new[k] = IF k + (m - 1) <= Len(old) THEN old[k + (m - 1)] ELSE entry
    OBVIOUS
  <2>1. new[k] = all[k + (m - 1)] /\ k + (m - 1) \in 1..n
    <3>1. k \in 1..(n - m + 1) /\ m + k - 1 = k + (m - 1)
      BY <1>6, <1>7
    <3>2. k + (m - 1) \in 1..n
      BY <1>6, <3>1
    <3>3. QED
      BY <1>7, <3>1, <3>2
  <2>2. CASE k + (m - 1) <= Len(old)
    BY <1>2, <2>1, <2>2
  <2>3. CASE ~(k + (m - 1) <= Len(old))
    <3>1. k + (m - 1) = Len(old) + 1
      BY <1>2, <2>1, <2>3
    <3>2. QED
      BY <1>2, <2>1, <2>3, <3>1
  <2>4. QED
    BY <2>2, <2>3
<1>9. m - 1 \in Nat /\ Len(new) + (m - 1) = Len(old) + 1 /\ Len(new) <= Kept(room)
  BY <1>2, <1>6, <1>7
<1>10. recent'[room] = new /\ recent' \in [Rooms -> Seq(Entry)]
  BY <1>1, <1>3, <1>7
<1>11. \E d \in Nat :
         /\ Len(new) + d = Len(old) + 1
         /\ \A k \in 1..Len(new) : new[k] = IF k + d <= Len(old) THEN old[k + d] ELSE entry
  BY <1>8, <1>9
<1>12. \E d \in Nat : Shifted(room, entry, d)
  BY <1>10, <1>11 DEF old, Shifted
<1>13. QED
  BY <1>1, <1>3, <1>9, <1>10, <1>12

(* What the answering of a question does.                                  *)
Answering(i) ==
  \/ MakeReply(i)
  \/ tasks[i].made /\ Post(i)
  \/ FallBack(i)

(* The tasks are tasks, and being removed they are fewer.                  *)
LEMMA TaskTyped ==
  ASSUME ChatTypeOK, TasksInv, NEW i \in Working
  PROVE  /\ i \in 1..Len(tasks) /\ DOMAIN tasks = 1..Len(tasks) /\ Len(tasks) \in Nat
         /\ tasks[i] \in Task /\ tasks[i].room \in Enabled
         /\ RemoveAt(tasks, i) \in Seq(Task)
         /\ DOMAIN RemoveAt(tasks, i) = 1..(Len(tasks) - 1)
         /\ \A k \in 1..(Len(tasks) - 1) :
              RemoveAt(tasks, i)[k] = IF k < i THEN tasks[k] ELSE tasks[k + 1]
<1>1. tasks \in Seq(Task) /\ i \in DOMAIN tasks
  BY DEF ChatTypeOK, Working
<1>2. /\ Len(tasks) \in Nat /\ DOMAIN tasks = 1..Len(tasks) /\ i \in 1..Len(tasks)
      /\ tasks[i] \in Task
  BY <1>1, LenProperties
<1>3. /\ RemoveAt(tasks, i) \in Seq(Task) /\ Len(RemoveAt(tasks, i)) = Len(tasks) - 1
      /\ \A k \in 1..(Len(tasks) - 1) :
           RemoveAt(tasks, i)[k] = IF k < i THEN tasks[k] ELSE tasks[k + 1]
  BY <1>1, <1>2, Removed
<1>4. DOMAIN RemoveAt(tasks, i) = 1..(Len(tasks) - 1)
  BY <1>3, LenProperties
<1>5. QED
  BY <1>1, <1>2, <1>3, <1>4 DEF TasksInv

(* A step of a session keeps the form of the state.                        *)
LEMMA SessionTyped ==
  ASSUME TypeInv, StreamInv, NEW s \in Sessions, SessionStep(s), RoomTypeOK', requests' \in 0..MaxRequests
  PROVE  ChatTypeOK'
<1>0. /\ ChatTypeOK /\ RoomTypeOK /\ stopped_ \in [Sessions -> BOOLEAN]
      /\ strand \in [Sessions -> Seq(Item)] /\ pushed \in [Sessions -> Seq(DOMAIN log)]
      /\ log \in Seq(Event) /\ tasks \in Seq(Task) /\ recent \in [Rooms -> Seq(Entry)]
      /\ silent \subseteq DOMAIN log
  BY DEF TypeInv, ChatTypeOK
<1>1. ASSUME NEW waiting, Left(s, waiting), Speaks(s, waiting), UNCHANGED silent
      PROVE  /\ log' \in Seq(Event) /\ strand' \in [Sessions -> Seq(Item)]
             /\ pushed' \in [Sessions -> Seq(DOMAIN log')]
             /\ silent' \subseteq DOMAIN log' /\ Len(log) + 1 \in Nat \ {0}
  <2>1. PICK events \in Seq(Remarks(s)) : Broadcast(s, events, waiting)
    BY <1>1 DEF Speaks
  <2>2. events \in Seq(Event) /\ waiting \in [Sessions -> Seq(Item)]
    BY <1>0, <1>1, RemarksAreEvents, LeftShifts
  <2>3. Grows
    BY <1>0, <2>1, <2>2, BroadcastGrows
  <2>4. silent' \subseteq DOMAIN log' /\ Len(log) + 1 \in Nat \ {0}
    BY <1>0, <1>1, <2>3 DEF Grows
  <2>5. QED
    BY <1>0, <2>1, <2>2, <2>4, BroadcastTyped
<1>2. ASSUME NEW waiting, Left(s, waiting), Speaks(s, waiting), Stops(s), UNCHANGED <<silent, tasks, recent>>
      PROVE  ChatTypeOK'
  <2>1. stopped_' \in [Sessions -> BOOLEAN]
    BY <1>0, <1>2 DEF Stops
  <2>2. QED
    BY <1>0, <1>1, <1>2, <2>1 DEF ChatTypeOK
<1>3. ASSUME NEW waiting, Left(s, waiting), Speaks(s, waiting), Ask(s, waiting), UNCHANGED silent
      PROVE  ChatTypeOK'
  <2> DEFINE room == session_rooms_[s]
             q == Len(log) + 1
  <2>1. /\ room \in Enabled /\ UNCHANGED <<roomVars, stopped_>>
        /\ Remember(room, [question |-> q, answer |-> FALSE])
        /\ tasks' = Append(tasks, [room |-> room, asker |-> s, question |-> q, made |-> FALSE])
    BY <1>3 DEF Ask
  <2>2. q \in Nat \ {0}
    BY <1>1, <1>3
  <2> HIDE DEF q
  <2>3. room \in Rooms
    BY <2>1, AgentTyped
  <2>4. [question |-> q, answer |-> FALSE] \in Entry
    BY <2>2 DEF Entry
  <2>5. recent' \in [Rooms -> Seq(Entry)]
    BY <1>0, <2>1, <2>4, Remembered
  <2>6. [room |-> room, asker |-> s, question |-> q, made |-> FALSE] \in Task
    BY <2>2, <2>3 DEF Task
  <2>7. tasks' \in Seq(Task)
    BY <1>0, <2>1, <2>6, AppendProperties
  <2>8. QED
    BY <1>0, <1>1, <1>3, <2>1, <2>5, <2>7 DEF ChatTypeOK
<1>4. ASSUME NEW waiting, Left(s, waiting), strand' = waiting,
             UNCHANGED <<stopped_, pushed, log, tasks, recent, silent>>
      PROVE  ChatTypeOK'
  BY <1>0, <1>4, LeftShifts DEF ChatTypeOK
<1>5. CASE Queues(s)
  <2>1. PICK q \in Requests : strand' = [strand EXCEPT ![s] = Append(@, q)]
    BY <1>5 DEF Queues
  <2>2. Append(strand[s], q) \in Seq(Item)
    BY <1>0, AppendProperties DEF Item
  <2>3. strand' \in [Sessions -> Seq(Item)]
    BY <1>0, <2>1, <2>2
  <2>4. QED
    BY <1>0, <1>5, <2>3 DEF Queues, ChatTypeOK
<1>6. CASE Delivers(s)
  <2>0. strand[s] \in Seq(Item) /\ strand[s] # <<>> /\ Head(strand[s]) \in Delivery
    BY <1>0, <1>6 DEF Delivers
  <2>1. /\ strand[s] \in Seq(Item) /\ strand[s] # <<>> /\ pushed[s] \in Seq(DOMAIN log)
        /\ Head(strand[s]).event \in DOMAIN log
    <3>1. Head(strand[s]) = strand[s][1] /\ 1 \in DOMAIN strand[s]
      BY <2>0, HeadTailProperties, LenProperties, EmptySeq
    <3>2. QED
      BY <1>0, <2>0, <3>1 DEF StreamInv, WaitsForOthers
  <2>2. Tail(strand[s]) \in Seq(Item)
    BY <2>1, HeadTailProperties
  <2>3. Append(pushed[s], Head(strand[s]).event) \in Seq(DOMAIN log)
    BY <2>1, AppendProperties
  <2>4. strand' \in [Sessions -> Seq(Item)]
    BY <1>0, <1>6, <2>2 DEF Delivers
  <2>5. pushed' \in [Sessions -> Seq(DOMAIN log)]
    BY <1>0, <1>6, <2>3 DEF Delivers
  <2>6. QED
    BY <1>0, <1>6, <2>4, <2>5 DEF Delivers, ChatTypeOK
<1>7. CASE Replies(s)
  <2>1. PICK events \in {<<>>, <<ReplyTo(s, Head(strand[s]))>>} :
          Broadcast(s, events, [strand EXCEPT ![s] = Tail(@)])
    BY <1>7 DEF Replies
  <2>2. ReplyTo(s, Head(strand[s])) \in Event
    <3>1. Head(strand[s]).room \in Rooms /\ Head(strand[s]).question \in Nat
      BY <1>7 DEF Replies, Reply
    <3>2. room_members_[Head(strand[s]).room] \in SUBSET Sessions
      BY <1>0, <3>1 DEF RoomTypeOK
    <3>3. QED
      BY <3>1, <3>2 DEF ReplyTo, Event
  <2>3. events \in Seq(Event)
    <3> DEFINE e == ReplyTo(s, Head(strand[s]))
    <3> HIDE DEF e
    <3>1. e \in Event => <<>> \in Seq(Event) /\ <<e>> \in Seq(Event)
      OBVIOUS
    <3>2. QED
      BY <2>1, <2>2, <3>1 DEF e
  <2>4. [strand EXCEPT ![s] = Tail(@)] \in [Sessions -> Seq(Item)]
    <3>1. Tail(strand[s]) \in Seq(Item)
      BY <1>0, <1>7, HeadTailProperties DEF Replies
    <3>2. QED
      BY <1>0, <3>1
  <2>5. Grows
    BY <1>0, <2>1, <2>3, BroadcastGrows
  <2>6. silent' \subseteq DOMAIN log'
    BY <1>0, <1>7, <2>5 DEF Grows, Replies
  <2>7. /\ log' \in Seq(Event) /\ strand' \in [Sessions -> Seq(Item)]
        /\ pushed' \in [Sessions -> Seq(DOMAIN log')]
    BY <1>0, <2>1, <2>3, <2>4, BroadcastTyped
  <2>8. QED
    BY <1>0, <1>7, <2>6, <2>7 DEF Replies, ChatTypeOK
<1>8. QED
  BY <1>2, <1>3, <1>4, <1>5, <1>6, <1>7 DEF SessionStep

-----------------------------------------------------------------------------
(***************************************************************************)
(* Questions and answers: a question is being answered, its answer waits   *)
(* on the strand of the session that asked, or it was answered.            *)
(***************************************************************************)

(* A question that was asked stays asked.                                  *)
LEMMA AskedStays ==
  ASSUME Grows, NEW q, NEW room, NEW s, Asked(q, room, s)
  PROVE  q \in DOMAIN log' /\ log'[q].kind = "ask" /\ log'[q].room = room /\ log'[q].by = s
         /\ log'[q] = log[q]
BY DEF Grows, Asked

(* No task is new, no answer is posted, and no question is answered.       *)
FewerTasks ==
  \E f :
    /\ \A i \in DOMAIN tasks' :
         /\ f[i] \in DOMAIN tasks
         /\ tasks'[i].room = tasks[f[i]].room /\ tasks'[i].asker = tasks[f[i]].asker
         /\ tasks'[i].question = tasks[f[i]].question
         /\ tasks[f[i]].made => tasks'[i].made
    /\ \A i, j \in DOMAIN tasks' : f[i] = f[j] => i = j
FewerReplies ==
  \A t \in Sessions : \E d \in {0, 1} : \A i \in DOMAIN strand'[t] :
    /\ i \in Nat
    /\ strand'[t][i] \in Reply => i + d \in DOMAIN strand[t] /\ strand[t][i + d] = strand'[t][i]
NoAnswer == \A i \in DOMAIN log' : log'[i].question # 0 => i \in DOMAIN log

(* Questions being answered stay questions that were asked, ...            *)
LEMMA TasksShrink ==
  ASSUME TasksInv, Grows, FewerTasks
  PROVE  TasksInv'
<1>1. PICK f :
        /\ \A i \in DOMAIN tasks' :
             /\ f[i] \in DOMAIN tasks
             /\ tasks'[i].room = tasks[f[i]].room /\ tasks'[i].asker = tasks[f[i]].asker
             /\ tasks'[i].question = tasks[f[i]].question
        /\ \A i, j \in DOMAIN tasks' : f[i] = f[j] => i = j
  BY DEF FewerTasks
<1> SUFFICES ASSUME NEW i \in DOMAIN tasks'
             PROVE  /\ tasks'[i].room \in Enabled
                    /\ Asked(tasks[i].question, tasks[i].room, tasks[i].asker)'
                    /\ \A j \in DOMAIN tasks' : tasks'[i].question = tasks'[j].question => i = j
  BY DEF TasksInv, Enabled
<1>2. /\ tasks[f[i]].room \in Enabled
      /\ Asked(tasks[f[i]].question, tasks[f[i]].room, tasks[f[i]].asker)
      /\ \A j \in DOMAIN tasks : tasks[f[i]].question = tasks[j].question => f[i] = j
  BY <1>1 DEF TasksInv
<1>3. Asked(tasks[i].question, tasks[i].room, tasks[i].asker)'
  BY <1>1, <1>2, AskedStays DEF Asked
<1>4. \A j \in DOMAIN tasks' : tasks'[i].question = tasks'[j].question => i = j
  BY <1>1, <1>2
<1>5. QED
  BY <1>1, <1>2, <1>3, <1>4

(* The questions of the tasks were the questions of tasks.                 *)
LEMMA FewerQuestions ==
  ASSUME FewerTasks, NEW q, \A j \in DOMAIN tasks : tasks[j].question # q
  PROVE  \A j \in DOMAIN tasks' : tasks'[j].question # q
BY DEF FewerTasks

(* ... so do those whose answers were posted, ...                          *)
LEMMA PostedShrinks ==
  ASSUME PostedInv, Grows, FewerTasks, FewerReplies
  PROVE  PostedInv'
<1> SUFFICES ASSUME NEW s \in Sessions, NEW i \in DOMAIN strand'[s], strand'[s][i] \in Reply
             PROVE  /\ Asked(strand[s][i].question, strand[s][i].room, s)'
                    /\ \A j \in DOMAIN tasks' : tasks'[j].question # strand'[s][i].question
                    /\ \A j \in DOMAIN strand'[s] :
                         strand'[s][j] \in Reply /\ strand'[s][i].question = strand'[s][j].question => i = j
  BY DEF PostedInv, Reply
<1>1. PICK d \in {0, 1} : \A k \in DOMAIN strand'[s] :
        /\ k \in Nat
        /\ strand'[s][k] \in Reply => k + d \in DOMAIN strand[s] /\ strand[s][k + d] = strand'[s][k]
  BY DEF FewerReplies
<1>2. i + d \in DOMAIN strand[s] /\ strand[s][i + d] = strand'[s][i] /\ i \in Nat
  BY <1>1
<1>3. /\ Asked(strand[s][i + d].question, strand[s][i + d].room, s)
      /\ \A j \in DOMAIN tasks : tasks[j].question # strand[s][i + d].question
      /\ \A j \in DOMAIN strand[s] :
           strand[s][j] \in Reply /\ strand[s][i + d].question = strand[s][j].question => i + d = j
  BY <1>2 DEF PostedInv
<1>4. Asked(strand[s][i].question, strand[s][i].room, s)'
  BY <1>2, <1>3, AskedStays DEF Asked
<1>5. \A j \in DOMAIN tasks' : tasks'[j].question # strand'[s][i].question
  BY <1>2, <1>3, FewerQuestions
<1>6. ASSUME NEW j \in DOMAIN strand'[s], strand'[s][j] \in Reply,
             strand'[s][i].question = strand'[s][j].question
      PROVE  i = j
  <2>1. j + d \in DOMAIN strand[s] /\ strand[s][j + d] = strand'[s][j] /\ j \in Nat
    BY <1>1, <1>6
  <2>2. i + d = j + d
    BY <1>2, <1>3, <1>6, <2>1
  <2>3. QED
    BY <1>2, <2>1, <2>2
<1>7. QED
  BY <1>4, <1>5, <1>6

(* ... and those that were answered.                                       *)
LEMMA AnsweredShrinks ==
  ASSUME AnsweredInv, Grows, FewerTasks, FewerReplies, NoAnswer
  PROVE  AnsweredInv'
<1> SUFFICES ASSUME NEW i \in DOMAIN log', log'[i].question # 0
             PROVE  /\ log'[i].question < i
                    /\ Asked(log[i].question, log[i].room, log[i].by)'
                    /\ \A j \in DOMAIN log' : log'[i].question = log'[j].question => i = j
                    /\ \A j \in DOMAIN tasks' : tasks'[j].question # log'[i].question
                    /\ \A s \in Sessions : \A j \in DOMAIN strand'[s] :
                         strand'[s][j] \in Reply => strand'[s][j].question # log'[i].question
  BY DEF AnsweredInv, Reply
<1>1. \A k \in DOMAIN log' : log'[k].question # 0 => k \in DOMAIN log /\ log'[k] = log[k]
  BY DEF NoAnswer, Grows
<1>2. /\ i \in DOMAIN log /\ log'[i] = log[i]
      /\ log[i].question < i
      /\ Asked(log[i].question, log[i].room, log[i].by)
      /\ \A j \in DOMAIN log : log[i].question = log[j].question => i = j
      /\ \A j \in DOMAIN tasks : tasks[j].question # log[i].question
      /\ \A s \in Sessions : \A j \in DOMAIN strand[s] :
           strand[s][j] \in Reply => strand[s][j].question # log[i].question
  BY <1>1 DEF AnsweredInv
<1>3. Asked(log[i].question, log[i].room, log[i].by)'
  BY <1>2, AskedStays DEF Asked
<1>4. \A j \in DOMAIN tasks' : tasks'[j].question # log'[i].question
  BY <1>2, FewerQuestions
<1>5. ASSUME NEW s \in Sessions, NEW j \in DOMAIN strand'[s], strand'[s][j] \in Reply
      PROVE  strand'[s][j].question # log'[i].question
  BY <1>2, <1>5 DEF FewerReplies
<1>6. QED
  BY <1>1, <1>2, <1>3, <1>4, <1>5

(* Nothing of the agenda is new in what only takes away.                   *)
LEMMA AgendaShrinks ==
  ASSUME TasksInv, PostedInv, AnsweredInv, Grows, FewerTasks, FewerReplies, NoAnswer
  PROVE  TasksInv' /\ PostedInv' /\ AnsweredInv'
BY TasksShrink, PostedShrinks, AnsweredShrinks

(* Tasks that do not change are no more.                                   *)
LEMMA TasksKept ==
  ASSUME tasks' = tasks
  PROVE  FewerTasks
<1> DEFINE f == [i \in DOMAIN tasks |-> i]
<1>1. \A i \in DOMAIN tasks : f[i] = i
  OBVIOUS
<1> HIDE DEF f
<1>2. QED
  BY <1>1 DEF FewerTasks

(* What a log that does not change has.                                    *)
LEMMA LogKept ==
  ASSUME ChatTypeOK, log' = log
  PROVE  Grows /\ NoAnswer
<1>1. Len(log) \in Nat /\ DOMAIN log = 1..Len(log)
  BY LenProperties DEF ChatTypeOK
<1>2. QED
  BY <1>1 DEF Grows, NoAnswer

(* A broadcast posts no answer.                                            *)
LEMMA BroadcastReplies ==
  ASSUME ChatTypeOK, NEW s \in Sessions, NEW events \in Seq(Event),
         NEW waiting \in [Sessions -> Seq(Item)], Broadcast(s, events, waiting), NEW t \in Sessions
  PROVE  \A i \in DOMAIN strand'[t] :
           /\ i \in Nat
           /\ strand'[t][i] \in Reply => i \in DOMAIN waiting[t] /\ strand'[t][i] = waiting[t][i]
<1>1. Ids(events, t) \in Seq((Len(log) + 1)..(Len(log) + Len(events))) /\ log \in Seq(Event)
  BY IdsTyped DEF ChatTypeOK
<1>2. Sent(Ids(events, t)) \in Seq(Delivery)
  <2>1. Len(log) \in Nat /\ Len(events) \in Nat
    BY <1>1, LenProperties
  <2>2. (Len(log) + 1)..(Len(log) + Len(events)) \subseteq Nat \ {0}
    BY <2>1
  <2>3. Ids(events, t) \in Seq(Nat \ {0})
    BY <1>1, <2>2, SeqMonotonic
  <2>4. QED
    BY <2>3, SentDeliveries
<1> DEFINE w == waiting[t]
           n == Sent(Ids(events, t))
<1>3. strand'[t] = w \/ strand'[t] = w \o n
  BY BroadcastHeard DEF HearsNow, HearsLater
<1>4. w \in Seq(Item) /\ n \in Seq(Item) /\ n \in Seq(Delivery)
  <2>1. Delivery \subseteq Item
    BY DEF Item
  <2>2. QED
    BY <1>2, <2>1, SeqMonotonic
<1> HIDE DEF w, n
<1>5. /\ Len(w) \in Nat /\ DOMAIN w = 1..Len(w)
      /\ Len(n) \in Nat /\ \A i \in 1..Len(n) : n[i] \in Delivery /\ n[i] \notin Reply
  <2>1. \A h \in Delivery : h \notin Reply
    BY DEF Delivery, Reply
  <2>2. QED
    BY <1>4, <2>1, LenProperties
<1>6. /\ DOMAIN (w \o n) = 1..(Len(w) + Len(n))
      /\ \A i \in 1..(Len(w) + Len(n)) : (w \o n)[i] = IF i <= Len(w) THEN w[i] ELSE n[i - Len(w)]
  <2>1. w \o n \in Seq(Item) /\ Len(w \o n) = Len(w) + Len(n)
    BY <1>4, ConcatProperties
  <2>2. DOMAIN (w \o n) = 1..(Len(w) + Len(n))
    BY <2>1, LenProperties
  <2>3. QED
    BY <1>4, <2>2, ConcatProperties
<1>7. ASSUME NEW i \in DOMAIN (w \o n)
      PROVE  i \in Nat /\ ((w \o n)[i] \in Reply => i \in DOMAIN w /\ (w \o n)[i] = w[i])
  <2>1. i \in 1..(Len(w) + Len(n)) /\ i \in Nat
    BY <1>5, <1>6
  <2>2. CASE i <= Len(w)
    BY <1>5, <1>6, <2>1, <2>2
  <2>3. CASE ~(i <= Len(w))
    <3>1. i - Len(w) \in 1..Len(n)
      BY <1>5, <2>1, <2>3
    <3>2. (w \o n)[i] = n[i - Len(w)]
      BY <1>6, <2>1, <2>3
    <3>3. QED
      BY <1>5, <2>1, <3>1, <3>2
  <2>4. QED
    BY <2>2, <2>3
<1>8. ASSUME NEW i \in DOMAIN w PROVE i \in Nat
  BY <1>5
<1>9. QED
  BY <1>3, <1>7, <1>8 DEF w

(* Speaking answers nothing.                                               *)
LEMMA SpeechAnswersNothing ==
  ASSUME ChatTypeOK, NEW s \in Sessions, NEW waiting, Left(s, waiting), Speaks(s, waiting)
  PROVE  Grows /\ NoAnswer /\ FewerReplies
<1>1. PICK events \in Seq(Remarks(s)) : Broadcast(s, events, waiting)
  BY DEF Speaks
<1>2. events \in Seq(Event) /\ \A k \in 1..Len(events) : events[k].question = 0
  BY RemarksAreEvents
<1>3. /\ Grows /\ Len(log') = Len(log) + Len(events) /\ Len(events) \in Nat
      /\ \A i \in 1..Len(events) : log'[Len(log) + i] = events[i]
  BY <1>1, <1>2, BroadcastGrows
<1>4. NoAnswer
  <2> SUFFICES ASSUME NEW i \in DOMAIN log', i \notin DOMAIN log PROVE log'[i].question = 0
    BY DEF NoAnswer
  <2>1. i - Len(log) \in 1..Len(events) /\ Len(log) + (i - Len(log)) = i
    BY <1>3 DEF Grows
  <2>2. QED
    BY <1>2, <1>3, <2>1
<1>5. FewerReplies
  <2> SUFFICES ASSUME NEW t \in Sessions
               PROVE  \E d \in {0, 1} : \A i \in DOMAIN strand'[t] :
                        /\ i \in Nat
                        /\ strand'[t][i] \in Reply =>
                             i + d \in DOMAIN strand[t] /\ strand[t][i + d] = strand'[t][i]
    BY DEF FewerReplies
  <2>1. waiting \in [Sessions -> Seq(Item)]
    BY LeftShifts
  <2>2. \A i \in DOMAIN strand'[t] :
          /\ i \in Nat
          /\ strand'[t][i] \in Reply => i \in DOMAIN waiting[t] /\ strand'[t][i] = waiting[t][i]
    BY <1>1, <1>2, <2>1, BroadcastReplies
  <2>3. PICK d \in {0, 1} : \A i \in DOMAIN waiting[t] :
          i + d \in DOMAIN strand[t] /\ waiting[t][i] = strand[t][i + d]
    BY LeftShifts
  <2>4. QED
    BY <2>2, <2>3
<1>6. QED
  BY <1>3, <1>4, <1>5

(* Nor does what takes a handler that is no answer off a strand, ...       *)
LEMMA WaitingAnswersNothing ==
  ASSUME ChatTypeOK, NEW s \in Sessions, NEW waiting, Left(s, waiting), strand' = waiting
  PROVE  FewerReplies
<1> SUFFICES ASSUME NEW t \in Sessions
             PROVE  \E d \in {0, 1} : \A i \in DOMAIN strand'[t] :
                      /\ i \in Nat
                      /\ strand'[t][i] \in Reply =>
                           i + d \in DOMAIN strand[t] /\ strand[t][i + d] = strand'[t][i]
  BY DEF FewerReplies
<1>1. waiting \in [Sessions -> Seq(Item)]
  BY LeftShifts
<1>2. PICK d \in {0, 1} : \A i \in DOMAIN waiting[t] :
        i + d \in DOMAIN strand[t] /\ waiting[t][i] = strand[t][i + d]
  BY LeftShifts
<1>3. \A i \in DOMAIN waiting[t] : i \in Nat
  BY <1>1, LenProperties
<1>4. QED
  BY <1>2, <1>3

(* An element that stays is where it was.                                  *)
LEMMA NoShift ==
  ASSUME NEW X, NEW u \in Seq(X)
  PROVE  \A i \in DOMAIN u : i \in Nat /\ i + 0 \in DOMAIN u /\ u[i + 0] = u[i]
<1>1. DOMAIN u = 1..Len(u) /\ Len(u) \in Nat
  BY LenProperties
<1>2. QED
  BY <1>1

(* ... or takes the first one off, ...                                     *)
LEMMA PoppingAnswersNothing ==
  ASSUME ChatTypeOK, NEW s \in Sessions, strand[s] # <<>>, strand' = [strand EXCEPT ![s] = Tail(@)]
  PROVE  FewerReplies
<1> SUFFICES ASSUME NEW t \in Sessions
             PROVE  \E d \in {0, 1} : \A i \in DOMAIN strand'[t] :
                      /\ i \in Nat
                      /\ strand'[t][i] \in Reply =>
                           i + d \in DOMAIN strand[t] /\ strand[t][i + d] = strand'[t][i]
  BY DEF FewerReplies
<1>1. strand \in [Sessions -> Seq(Item)] /\ strand[t] \in Seq(Item)
  BY DEF ChatTypeOK
<1>2. DOMAIN strand[t] = 1..Len(strand[t]) /\ Len(strand[t]) \in Nat
  BY <1>1, LenProperties
<1>3. CASE t = s
  <2>1. /\ Tail(strand[t]) \in Seq(Item) /\ Len(Tail(strand[t])) = Len(strand[t]) - 1
        /\ \A i \in 1..Len(Tail(strand[t])) : Tail(strand[t])[i] = strand[t][i + 1]
    BY <1>1, <1>3, HeadTailProperties
  <2>2. strand'[t] = Tail(strand[t]) /\ DOMAIN strand'[t] = 1..(Len(strand[t]) - 1)
    BY <1>1, <1>3, <2>1, LenProperties
  <2>3. \A i \in DOMAIN strand'[t] :
          i \in Nat /\ i + 1 \in DOMAIN strand[t] /\ strand[t][i + 1] = strand'[t][i]
    BY <1>2, <2>1, <2>2
  <2>4. QED
    BY <2>3
<1>4. CASE t # s
  <2>1. strand'[t] = strand[t]
    BY <1>1, <1>4
  <2>2. \A i \in DOMAIN strand[t] :
          i \in Nat /\ i + 0 \in DOMAIN strand[t] /\ strand[t][i + 0] = strand[t][i]
    BY <1>1, NoShift
  <2>3. QED
    BY <2>1, <2>2
<1>5. QED
  BY <1>3, <1>4

(* ... or adds a request, ...                                              *)
LEMMA QueueingAnswersNothing ==
  ASSUME ChatTypeOK, NEW s \in Sessions, NEW q \in Requests, strand' = [strand EXCEPT ![s] = Append(@, q)]
  PROVE  FewerReplies
<1> SUFFICES ASSUME NEW t \in Sessions
             PROVE  \A i \in DOMAIN strand'[t] :
                      /\ i \in Nat
                      /\ strand'[t][i] \in Reply =>
                           i + 0 \in DOMAIN strand[t] /\ strand[t][i + 0] = strand'[t][i]
  BY DEF FewerReplies
<1>1. strand \in [Sessions -> Seq(Item)] /\ strand[t] \in Seq(Item)
  BY DEF ChatTypeOK
<1>2. DOMAIN strand[t] = 1..Len(strand[t]) /\ Len(strand[t]) \in Nat
  BY <1>1, LenProperties
<1>3. q \in Item /\ q \notin Reply
  <2>1. q \in Item
    BY DEF Item
  <2>2. QED
    BY <2>1, ItemKinds
<1>4. CASE t = s
  <2>1. /\ DOMAIN Append(strand[t], q) = 1..(Len(strand[t]) + 1)
        /\ \A i \in 1..Len(strand[t]) : Append(strand[t], q)[i] = strand[t][i]
        /\ Append(strand[t], q)[Len(strand[t]) + 1] = q
    <3>1. Append(strand[t], q) \in Seq(Item) /\ Len(Append(strand[t], q)) = Len(strand[t]) + 1
      BY <1>1, <1>3, AppendProperties
    <3>2. DOMAIN Append(strand[t], q) = 1..(Len(strand[t]) + 1)
      BY <3>1, LenProperties
    <3>3. QED
      BY <1>1, <1>3, <3>2, AppendProperties
  <2>2. strand'[t] = Append(strand[t], q)
    BY <1>1, <1>4
  <2>3. \A i \in 1..(Len(strand[t]) + 1) : i \in 1..Len(strand[t]) \/ i = Len(strand[t]) + 1
    BY <1>2
  <2>4. \A i \in 1..(Len(strand[t]) + 1) : i \in Nat /\ i + 0 = i
    OBVIOUS
  <2>5. ASSUME NEW i \in DOMAIN strand'[t]
        PROVE  /\ i \in Nat
               /\ strand'[t][i] \in Reply => i + 0 \in DOMAIN strand[t] /\ strand[t][i + 0] = strand'[t][i]
    <3>1. i \in 1..(Len(strand[t]) + 1) /\ i \in Nat /\ i + 0 = i
      BY <2>1, <2>2, <2>4
    <3>2. CASE i \in 1..Len(strand[t])
      BY <1>2, <2>1, <2>2, <3>1, <3>2
    <3>3. CASE i = Len(strand[t]) + 1
      BY <1>3, <2>1, <2>2, <3>1, <3>3
    <3>4. QED
      BY <2>3, <3>1, <3>2, <3>3
  <2>6. QED
    BY <2>5, Zenon
<1>5. CASE t # s
  <2>1. strand'[t] = strand[t]
    BY <1>1, <1>5
  <2>2. QED
    BY <1>1, <2>1, NoShift
<1>6. QED
  BY <1>4, <1>5

(* ... or leaves the strands alone.                                        *)
LEMMA StrandsKept ==
  ASSUME ChatTypeOK, strand' = strand
  PROVE  FewerReplies
<1> SUFFICES ASSUME NEW t \in Sessions
             PROVE  \A i \in DOMAIN strand[t] : i \in Nat /\ i + 0 \in DOMAIN strand[t] /\ strand[t][i + 0] = strand[t][i]
  BY DEF FewerReplies
<1>1. strand[t] \in Seq(Item)
  BY DEF ChatTypeOK
<1>2. DOMAIN strand[t] = 1..Len(strand[t]) /\ Len(strand[t]) \in Nat
  BY <1>1, LenProperties
<1>3. QED
  BY <1>2

(* A question that is asked is a task, and nobody answers it yet.          *)
LEMMA AgendaAsked ==
  ASSUME ChatTypeOK, TasksInv, PostedInv, AnsweredInv,
         NEW s \in Sessions, NEW waiting, Left(s, waiting), Speaks(s, waiting), Ask(s, waiting)
  PROVE  TasksInv' /\ PostedInv' /\ AnsweredInv'
<1> DEFINE room == session_rooms_[s]
           q == Len(log) + 1
           task == [room |-> room, asker |-> s, question |-> q, made |-> FALSE]
<1>1. Grows /\ NoAnswer /\ FewerReplies
  BY SpeechAnswersNothing
<1>2. room \in Enabled /\ tasks' = Append(tasks, task) /\ tasks \in Seq(Task)
      /\ Broadcast(s, Says(s, "ask", room, room_members_[room]), waiting)
  BY DEF Ask, ChatTypeOK
<1>3. /\ q \in DOMAIN log' /\ log'[q].kind = "ask" /\ log'[q].room = room /\ log'[q].by = s
      /\ q \notin DOMAIN log
  <2> DEFINE e == [kind |-> "ask", by |-> s, room |-> room, to |-> room_members_[room], question |-> 0]
  <2>1. room \in Rooms /\ room_members_[room] \in SUBSET Sessions
    BY <1>2, AgentTyped DEF ChatTypeOK, RoomTypeOK
  <2>2. e \in Event /\ Says(s, "ask", room, room_members_[room]) = <<e>>
    BY <2>1 DEF Event, Says
  <2>3. e.kind = "ask" /\ e.room = room /\ e.by = s
    OBVIOUS
  <2> HIDE DEF e
  <2>4. <<e>> \in Seq(Event) /\ Len(<<e>>) = 1 /\ <<e>>[1] = e
    BY <2>2
  <2>5. Broadcast(s, <<e>>, waiting)
    BY <1>2, <2>2
  <2>6. Len(log') = Len(log) + 1 /\ log'[Len(log) + 1] = e
    <3>1. /\ Len(log') = Len(log) + Len(<<e>>)
          /\ \A i \in 1..Len(<<e>>) : log'[Len(log) + i] = <<e>>[i]
      BY <2>4, <2>5, BroadcastGrows
    <3>2. QED
      BY <2>4, <3>1
  <2>7. q \in DOMAIN log' /\ q \notin DOMAIN log
    BY <1>1, <2>6 DEF Grows
  <2> HIDE DEF room
  <2>8. QED
    BY <2>3, <2>6, <2>7
<1>4. /\ DOMAIN tasks' = 1..(Len(tasks) + 1) /\ DOMAIN tasks = 1..Len(tasks) /\ Len(tasks) \in Nat
      /\ \A i \in DOMAIN tasks : tasks'[i] = tasks[i]
      /\ tasks'[Len(tasks) + 1] = task
  <2>1. task \in Task
    <3>1. room \in Rooms /\ q \in Nat \ {0}
      BY <1>1, <1>2, AgentTyped DEF Grows
    <3>2. QED
      BY <3>1 DEF Task
  <2> HIDE DEF task
  <2>2. /\ Append(tasks, task) \in Seq(Task) /\ Len(Append(tasks, task)) = Len(tasks) + 1
        /\ \A i \in 1..Len(tasks) : Append(tasks, task)[i] = tasks[i]
        /\ Append(tasks, task)[Len(tasks) + 1] = task
    BY <1>2, <2>1, AppendProperties
  <2>3. QED
    BY <1>2, <2>2, LenProperties
<1>5. task.room = room /\ task.asker = s /\ task.question = q
  OBVIOUS
<1> HIDE DEF task, q, room
<1>6. \A i \in DOMAIN tasks' :
        \/ i \in DOMAIN tasks /\ tasks'[i] = tasks[i]
        \/ i \notin DOMAIN tasks /\ i = Len(tasks) + 1 /\ tasks'[i] = task
  BY <1>4
<1>7. \A i \in DOMAIN tasks : Asked(tasks[i].question, tasks[i].room, tasks[i].asker) /\ tasks[i].question # q
  BY <1>3 DEF TasksInv, Asked
<1>8. TasksInv'
  <2> SUFFICES ASSUME NEW i \in DOMAIN tasks'
               PROVE  /\ tasks'[i].room \in Enabled
                      /\ Asked(tasks[i].question, tasks[i].room, tasks[i].asker)'
                      /\ \A j \in DOMAIN tasks' : tasks'[i].question = tasks'[j].question => i = j
    BY DEF TasksInv, Enabled
  <2>1. CASE i \in DOMAIN tasks /\ tasks'[i] = tasks[i]
    <3>1. /\ tasks[i].room \in Enabled
          /\ \A j \in DOMAIN tasks : tasks[i].question = tasks[j].question => i = j
      BY <2>1 DEF TasksInv
    <3>2. Asked(tasks[i].question, tasks[i].room, tasks[i].asker)'
      BY <1>1, <1>7, <2>1, AskedStays DEF Asked
    <3>3. \A j \in DOMAIN tasks' : tasks'[i].question = tasks'[j].question => i = j
      BY <1>5, <1>6, <1>7, <2>1, <3>1
    <3>4. QED
      BY <2>1, <3>1, <3>2, <3>3
  <2>2. CASE i \notin DOMAIN tasks /\ i = Len(tasks) + 1 /\ tasks'[i] = task
    <3>1. \A j \in DOMAIN tasks' : tasks'[i].question = tasks'[j].question => i = j
      BY <1>5, <1>6, <1>7, <2>2
    <3>2. Asked(tasks[i].question, tasks[i].room, tasks[i].asker)'
      BY <1>3, <1>5, <2>2 DEF Asked
    <3>3. QED
      BY <1>2, <1>5, <2>2, <3>1, <3>2
  <2>3. QED
    BY <1>6, <2>1, <2>2
<1>9. PostedInv'
  <2> SUFFICES ASSUME NEW t \in Sessions, NEW i \in DOMAIN strand'[t], strand'[t][i] \in Reply
               PROVE  /\ Asked(strand[t][i].question, strand[t][i].room, t)'
                      /\ \A j \in DOMAIN tasks' : tasks'[j].question # strand'[t][i].question
                      /\ \A j \in DOMAIN strand'[t] :
                           strand'[t][j] \in Reply /\ strand'[t][i].question = strand'[t][j].question => i = j
    BY DEF PostedInv, Reply
  <2>1. PICK d \in {0, 1} : \A k \in DOMAIN strand'[t] :
          /\ k \in Nat
          /\ strand'[t][k] \in Reply => k + d \in DOMAIN strand[t] /\ strand[t][k + d] = strand'[t][k]
    BY <1>1 DEF FewerReplies
  <2>2. i + d \in DOMAIN strand[t] /\ strand[t][i + d] = strand'[t][i] /\ i \in Nat
    BY <2>1
  <2>3. /\ Asked(strand[t][i + d].question, strand[t][i + d].room, t)
        /\ \A j \in DOMAIN tasks : tasks[j].question # strand[t][i + d].question
        /\ \A j \in DOMAIN strand[t] :
             strand[t][j] \in Reply /\ strand[t][i + d].question = strand[t][j].question => i + d = j
    BY <2>2 DEF PostedInv
  <2>4. Asked(strand[t][i].question, strand[t][i].room, t)'
    BY <1>1, <2>2, <2>3, AskedStays DEF Asked
  <2>5. strand[t][i + d].question # q
    BY <1>3, <2>3 DEF Asked
  <2>6. \A j \in DOMAIN tasks' : tasks'[j].question # strand'[t][i].question
    BY <1>5, <1>6, <2>2, <2>3, <2>5
  <2>7. ASSUME NEW j \in DOMAIN strand'[t], strand'[t][j] \in Reply,
               strand'[t][i].question = strand'[t][j].question
        PROVE  i = j
    <3>1. j + d \in DOMAIN strand[t] /\ strand[t][j + d] = strand'[t][j] /\ j \in Nat
      BY <2>1, <2>7
    <3>2. i + d = j + d
      BY <2>2, <2>3, <2>7, <3>1
    <3>3. QED
      BY <2>2, <3>1, <3>2
  <2>8. QED
    BY <2>4, <2>6, <2>7
<1>10. AnsweredInv'
  <2> SUFFICES ASSUME NEW i \in DOMAIN log', log'[i].question # 0
               PROVE  /\ log'[i].question < i
                      /\ Asked(log[i].question, log[i].room, log[i].by)'
                      /\ \A j \in DOMAIN log' : log'[i].question = log'[j].question => i = j
                      /\ \A j \in DOMAIN tasks' : tasks'[j].question # log'[i].question
                      /\ \A t \in Sessions : \A j \in DOMAIN strand'[t] :
                           strand'[t][j] \in Reply => strand'[t][j].question # log'[i].question
    BY DEF AnsweredInv, Reply
  <2>1. \A k \in DOMAIN log' : log'[k].question # 0 => k \in DOMAIN log /\ log'[k] = log[k]
    BY <1>1 DEF NoAnswer, Grows
  <2>2. /\ i \in DOMAIN log /\ log'[i] = log[i]
        /\ log[i].question < i
        /\ Asked(log[i].question, log[i].room, log[i].by)
        /\ \A j \in DOMAIN log : log[i].question = log[j].question => i = j
        /\ \A j \in DOMAIN tasks : tasks[j].question # log[i].question
        /\ \A t \in Sessions : \A j \in DOMAIN strand[t] :
             strand[t][j] \in Reply => strand[t][j].question # log[i].question
    BY <2>1 DEF AnsweredInv
  <2>3. Asked(log[i].question, log[i].room, log[i].by)'
    BY <1>1, <2>2, AskedStays DEF Asked
  <2>4. log[i].question # q
    BY <1>3, <2>2 DEF Asked
  <2>5. \A j \in DOMAIN tasks' : tasks'[j].question # log'[i].question
    BY <1>5, <1>6, <2>2, <2>4
  <2>6. ASSUME NEW t \in Sessions, NEW j \in DOMAIN strand'[t], strand'[t][j] \in Reply
        PROVE  strand'[t][j].question # log'[i].question
    BY <1>1, <2>2, <2>6 DEF FewerReplies
  <2>7. QED
    BY <2>1, <2>2, <2>3, <2>5, <2>6
<1>11. QED
  BY <1>8, <1>9, <1>10

(* An answer that is said was waiting, and nobody answers again.           *)
LEMMA AgendaAnswered ==
  ASSUME ChatTypeOK, TasksInv, PostedInv, AnsweredInv, NEW s \in Sessions, Replies(s)
  PROVE  TasksInv' /\ PostedInv' /\ AnsweredInv'
<1> DEFINE h == Head(strand[s])
           e == ReplyTo(s, h)
           waiting == [strand EXCEPT ![s] = Tail(@)]
<1>1. PICK events \in {<<>>, <<e>>} : Broadcast(s, events, waiting)
  BY DEF Replies
<1>2. /\ strand \in [Sessions -> Seq(Item)] /\ strand[s] # <<>> /\ h \in Reply /\ tasks' = tasks
      /\ strand[s] \in Seq(Item)
  BY DEF Replies, ChatTypeOK
<1>3. Left(s, waiting) /\ waiting \in [Sessions -> Seq(Item)]
  <2>1. h \notin Delivery
    BY <1>2 DEF Delivery, Reply
  <2>2. Left(s, waiting)
    BY <1>2, <2>1 DEF Left
  <2> HIDE DEF waiting
  <2>3. QED
    BY <2>2, LeftShifts
<1>4. /\ Asked(h.question, h.room, s) /\ h.question \in Nat \ {0}
      /\ 1 \in DOMAIN strand[s] /\ strand[s][1] = h
      /\ \A j \in DOMAIN tasks : tasks[j].question # h.question
      /\ \A j \in DOMAIN strand[s] :
           strand[s][j] \in Reply /\ h.question = strand[s][j].question => 1 = j
  <2>1. strand[s][1] = h /\ 1 \in DOMAIN strand[s]
    BY <1>2, HeadTailProperties, LenProperties, EmptySeq
  <2>2. h.question \in Nat \ {0}
    BY <1>2 DEF Reply
  <2> HIDE DEF h
  <2>3. QED
    BY <1>2, <2>1, <2>2 DEF PostedInv
<1>5. /\ e \in Event /\ e.question = h.question /\ e.room = h.room /\ e.by = s
  <2>1. h.room \in Rooms /\ h.question \in Nat
    BY <1>2 DEF Reply
  <2>2. room_members_[h.room] \in SUBSET Sessions
    BY <2>1 DEF ChatTypeOK, RoomTypeOK
  <2> HIDE DEF h
  <2>3. QED
    BY <2>1, <2>2 DEF ReplyTo, Event
<1> HIDE DEF e, h
<1>6. events \in Seq(Event)
  <2>1. <<>> \in Seq(Event) /\ <<e>> \in Seq(Event)
    BY <1>5
  <2>2. QED
    BY <1>1, <2>1
<1>7. /\ Grows /\ Len(log') = Len(log) + Len(events)
      /\ \A i \in 1..Len(events) : log'[Len(log) + i] = events[i]
  BY <1>1, <1>6, BroadcastGrows
<1>8. /\ Len(strand[s]) \in Nat /\ DOMAIN strand[s] = 1..Len(strand[s])
      /\ waiting[s] = Tail(strand[s]) /\ DOMAIN waiting[s] = 1..(Len(strand[s]) - 1)
      /\ \A i \in 1..(Len(strand[s]) - 1) : waiting[s][i] = strand[s][i + 1]
  BY <1>2, HeadTailProperties, LenProperties
<1>9. \A t \in Sessions : t # s => waiting[t] = strand[t]
  BY <1>2
<1> HIDE DEF waiting
<1>10. \A t \in Sessions : \A i \in DOMAIN strand'[t] :
         /\ i \in Nat
         /\ strand'[t][i] \in Reply => i \in DOMAIN waiting[t] /\ strand'[t][i] = waiting[t][i]
  BY <1>1, <1>3, <1>6, BroadcastReplies
<1>11. FewerTasks
  BY <1>2, TasksKept
<1>12. FewerReplies
  <2> SUFFICES ASSUME NEW t \in Sessions
               PROVE  \E d \in {0, 1} : \A i \in DOMAIN strand'[t] :
                        /\ i \in Nat
                        /\ strand'[t][i] \in Reply =>
                             i + d \in DOMAIN strand[t] /\ strand[t][i + d] = strand'[t][i]
    BY DEF FewerReplies
  <2>1. PICK d \in {0, 1} : \A i \in DOMAIN waiting[t] :
          i + d \in DOMAIN strand[t] /\ waiting[t][i] = strand[t][i + d]
    BY <1>3, LeftShifts
  <2>2. QED
    BY <1>10, <2>1
<1>13. TasksInv' /\ PostedInv'
  BY <1>7, <1>11, <1>12, TasksShrink, PostedShrinks
<1>14. ASSUME NEW t \in Sessions, NEW j \in DOMAIN strand'[t], strand'[t][j] \in Reply
       PROVE  strand'[t][j].question # h.question
  <2>1. j \in DOMAIN waiting[t] /\ strand'[t][j] = waiting[t][j] /\ j \in Nat
    BY <1>10, <1>14
  <2>2. CASE t = s
    <3>1. j + 1 \in DOMAIN strand[s] /\ strand'[t][j] = strand[s][j + 1] /\ 1 # j + 1
      <4>1. j \in 1..(Len(strand[s]) - 1)
        BY <1>8, <2>1, <2>2
      <4>2. j + 1 \in 1..Len(strand[s]) /\ 1 # j + 1
        BY <1>8, <4>1
      <4>3. QED
        BY <1>8, <2>1, <2>2, <4>1, <4>2
    <3>2. QED
      BY <1>4, <1>14, <3>1
  <2>3. CASE t # s
    <3>1. j \in DOMAIN strand[t] /\ strand'[t][j] = strand[t][j]
      BY <1>9, <2>1, <2>3
    <3>2. Asked(strand[t][j].question, strand[t][j].room, t)
      BY <1>14, <3>1 DEF PostedInv
    <3>3. QED
      BY <1>4, <2>3, <3>1, <3>2 DEF Asked
  <2>4. QED
    BY <2>2, <2>3
<1>15. CASE events = <<>>
  <2>1. NoAnswer
    <3>1. Len(events) = 0
      BY <1>15
    <3>2. DOMAIN log' = DOMAIN log
      BY <1>7, <3>1 DEF Grows
    <3>3. QED
      BY <3>2 DEF NoAnswer
  <2>2. QED
    BY <1>7, <1>11, <1>12, <1>13, <2>1, AnsweredShrinks
<1>16. CASE events = <<e>>
  <2> DEFINE n == Len(log) + 1
  <2>1. Len(events) = 1 /\ events[1] = e
    BY <1>16
  <2>2. DOMAIN log' = DOMAIN log \cup {n} /\ n \notin DOMAIN log /\ log'[n] = e
    BY <1>7, <2>1 DEF Grows
  <2>3. \A k \in DOMAIN log : log'[k] = log[k] /\ k < n
    BY <1>7 DEF Grows
  <2> HIDE DEF n
  <2>4. /\ h.question < n
        /\ \A j \in DOMAIN log : log[j].question # h.question
    <3>1. h.question \in DOMAIN log
      BY <1>4 DEF Asked
    <3>2. ASSUME NEW j \in DOMAIN log, log[j].question = h.question PROVE FALSE
      <4>1. log[j].question # 0
        BY <1>4, <3>2
      <4>2. \A t \in Sessions : \A k \in DOMAIN strand[t] :
              strand[t][k] \in Reply => strand[t][k].question # log[j].question
        BY <4>1 DEF AnsweredInv
      <4>3. QED
        BY <1>2, <1>4, <3>2, <4>2
    <3>3. QED
      BY <2>3, <3>1, <3>2
  <2> SUFFICES ASSUME NEW i \in DOMAIN log', log'[i].question # 0
               PROVE  /\ log'[i].question < i
                      /\ Asked(log[i].question, log[i].room, log[i].by)'
                      /\ \A j \in DOMAIN log' : log'[i].question = log'[j].question => i = j
                      /\ \A j \in DOMAIN tasks' : tasks'[j].question # log'[i].question
                      /\ \A t \in Sessions : \A j \in DOMAIN strand'[t] :
                           strand'[t][j] \in Reply => strand'[t][j].question # log'[i].question
    BY <1>13 DEF AnsweredInv, Reply
  <2>5. CASE i \in DOMAIN log
    <3>1. /\ log'[i] = log[i] /\ log[i].question < i
          /\ Asked(log[i].question, log[i].room, log[i].by)
          /\ \A j \in DOMAIN log : log[i].question = log[j].question => i = j
          /\ \A j \in DOMAIN tasks : tasks[j].question # log[i].question
          /\ \A t \in Sessions : \A j \in DOMAIN strand[t] :
               strand[t][j] \in Reply => strand[t][j].question # log[i].question
      BY <2>3, <2>5 DEF AnsweredInv
    <3>2. Asked(log[i].question, log[i].room, log[i].by)'
      BY <1>7, <3>1, AskedStays DEF Asked
    <3>3. \A j \in DOMAIN log' : log'[i].question = log'[j].question => i = j
      BY <1>5, <2>2, <2>3, <2>4, <2>5, <3>1
    <3>4. ASSUME NEW t \in Sessions, NEW j \in DOMAIN strand'[t], strand'[t][j] \in Reply
          PROVE  strand'[t][j].question # log'[i].question
      BY <1>12, <3>1, <3>4 DEF FewerReplies
    <3>5. QED
      BY <1>2, <3>1, <3>2, <3>3, <3>4
  <2>6. CASE i = n
    <3>1. log'[i] = e /\ log'[i].question = h.question
      BY <1>5, <2>2, <2>6
    <3>2. Asked(log[i].question, log[i].room, log[i].by)'
      <4>1. /\ h.question \in DOMAIN log' /\ log'[h.question].kind = "ask"
            /\ log'[h.question].room = h.room /\ log'[h.question].by = s
        BY <1>4, <1>7, AskedStays
      <4>2. QED
        BY <1>5, <3>1, <4>1 DEF Asked
    <3>3. \A j \in DOMAIN log' : log'[i].question = log'[j].question => i = j
      BY <2>2, <2>3, <2>4, <2>6, <3>1
    <3>4. QED
      BY <1>2, <1>4, <1>14, <2>4, <2>6, <3>1, <3>2, <3>3
  <2>7. QED
    BY <2>2, <2>5, <2>6
<1>17. QED
  BY <1>1, <1>13, <1>15, <1>16

(* Tasks with one fewer.                                                   *)
LEMMA TasksRemoved ==
  ASSUME ChatTypeOK, TasksInv, NEW i \in Working, tasks' = RemoveAt(tasks, i)
  PROVE  /\ FewerTasks
         /\ \A j \in DOMAIN tasks' : tasks'[j].question # tasks[i].question
<1>1. /\ i \in 1..Len(tasks) /\ DOMAIN tasks = 1..Len(tasks) /\ Len(tasks) \in Nat
      /\ DOMAIN tasks' = 1..(Len(tasks) - 1)
      /\ \A k \in 1..(Len(tasks) - 1) : tasks'[k] = IF k < i THEN tasks[k] ELSE tasks[k + 1]
  BY TaskTyped
<1> DEFINE f == [k \in 1..(Len(tasks) - 1) |-> IF k < i THEN k ELSE k + 1]
<1>2. \A k \in 1..(Len(tasks) - 1) : f[k] = IF k < i THEN k ELSE k + 1
  OBVIOUS
<1> HIDE DEF f
<1>3. \A k \in DOMAIN tasks' : f[k] \in DOMAIN tasks /\ tasks'[k] = tasks[f[k]] /\ f[k] # i
  BY <1>1, <1>2
<1>4. \A j, k \in DOMAIN tasks' : f[j] = f[k] => j = k
  BY <1>1, <1>2
<1>5. FewerTasks
  BY <1>3, <1>4 DEF FewerTasks
<1>6. \A j \in DOMAIN tasks : tasks[i].question = tasks[j].question => i = j
  BY <1>1 DEF TasksInv
<1>7. QED
  BY <1>3, <1>5, <1>6

(* Tasks with one answered.                                                *)
LEMMA TasksMade ==
  ASSUME ChatTypeOK, TasksInv, NEW i \in Working, tasks' = [tasks EXCEPT ![i].made = TRUE]
  PROVE  FewerTasks
<1>1. /\ i \in DOMAIN tasks /\ tasks \in Seq(Task)
      /\ \A j \in DOMAIN tasks : tasks[j] \in Task
  <2>1. tasks \in Seq(Task) /\ i \in DOMAIN tasks
    BY DEF ChatTypeOK, Working
  <2>2. QED
    BY <2>1, LenProperties
<1>2. DOMAIN tasks' = DOMAIN tasks
  OBVIOUS
<1>3. \A j \in DOMAIN tasks :
        /\ tasks'[j].room = tasks[j].room /\ tasks'[j].asker = tasks[j].asker
        /\ tasks'[j].question = tasks[j].question
        /\ tasks[j].made => tasks'[j].made
  BY <1>1 DEF Task
<1> DEFINE f == [j \in DOMAIN tasks |-> j]
<1>4. \A j \in DOMAIN tasks : f[j] = j
  OBVIOUS
<1> HIDE DEF f
<1>5. QED
  BY <1>2, <1>3, <1>4 DEF FewerTasks

(* An answer that is posted is on one strand, and no longer a task.        *)
LEMMA AgendaPosted ==
  ASSUME ChatTypeOK, TasksInv, PostedInv, AnsweredInv, NEW i \in Working, Post(i)
  PROVE  TasksInv' /\ PostedInv' /\ AnsweredInv'
<1> DEFINE a == tasks[i].asker
           q == tasks[i].question
           h == [do |-> "reply", room |-> tasks[i].room, question |-> q]
<1>1. /\ tasks' = RemoveAt(tasks, i) /\ log' = log
      /\ \/ strand' = [strand EXCEPT ![a] = Append(@, h)]
         \/ strand' = strand
  BY DEF Post
<1>2. Grows /\ NoAnswer
  BY <1>1, LogKept
<1>3. FewerTasks /\ \A j \in DOMAIN tasks' : tasks'[j].question # q
  BY <1>1, TasksRemoved
<1>4. TasksInv'
  BY <1>2, <1>3, TasksShrink
<1>5. CASE strand' = strand
  BY <1>2, <1>3, <1>5, StrandsKept, AgendaShrinks
<1>6. CASE strand' = [strand EXCEPT ![a] = Append(@, h)]
  <2>1. /\ i \in DOMAIN tasks /\ tasks[i] \in Task /\ strand \in [Sessions -> Seq(Item)]
        /\ log' = log
    BY <1>1, TaskTyped DEF ChatTypeOK
  <2>2. a \in Sessions /\ h \in Reply /\ h.question = q /\ h.room = tasks[i].room /\ q # 0
    BY <2>1 DEF Task, Reply
  <2>3. Asked(q, tasks[i].room, a)
    BY <2>1 DEF TasksInv
  <2> HIDE DEF a, q, h
  <2> DEFINE n == Len(strand[a]) + 1
  <2>4. /\ DOMAIN strand'[a] = DOMAIN strand[a] \cup {n} /\ strand'[a][n] = h
        /\ \A k \in DOMAIN strand[a] : strand'[a][k] = strand[a][k]
    <3>1. strand[a] \in Seq(Item) /\ h \in Item /\ strand'[a] = Append(strand[a], h)
      BY <1>6, <2>1, <2>2 DEF Item
    <3>2. /\ Append(strand[a], h) \in Seq(Item) /\ Len(Append(strand[a], h)) = Len(strand[a]) + 1
          /\ \A k \in 1..Len(strand[a]) : Append(strand[a], h)[k] = strand[a][k]
          /\ Append(strand[a], h)[Len(strand[a]) + 1] = h
      BY <3>1, AppendProperties
    <3>3. /\ DOMAIN Append(strand[a], h) = 1..(Len(strand[a]) + 1)
          /\ DOMAIN strand[a] = 1..Len(strand[a]) /\ Len(strand[a]) \in Nat
      BY <3>1, <3>2, LenProperties
    <3>4. QED
      BY <3>1, <3>2, <3>3
  <2> HIDE DEF n
  <2>5. \A t \in Sessions : t # a => strand'[t] = strand[t]
    BY <1>6, <2>1
  <2>6. ASSUME NEW t \in Sessions, NEW k \in DOMAIN strand[t], strand[t][k] \in Reply
        PROVE  /\ Asked(strand[t][k].question, strand[t][k].room, t)
               /\ strand[t][k].question # q
               /\ \A j \in DOMAIN tasks' : tasks'[j].question # strand[t][k].question
               /\ \A j \in DOMAIN strand[t] :
                    strand[t][j] \in Reply /\ strand[t][k].question = strand[t][j].question => k = j
    <3>1. /\ Asked(strand[t][k].question, strand[t][k].room, t)
          /\ \A j \in DOMAIN tasks : tasks[j].question # strand[t][k].question
          /\ \A j \in DOMAIN strand[t] :
               strand[t][j] \in Reply /\ strand[t][k].question = strand[t][j].question => k = j
      BY <2>6 DEF PostedInv
    <3>2. strand[t][k].question # q
      BY <2>1, <3>1 DEF q
    <3>3. QED
      BY <1>3, <3>1, <3>2, FewerQuestions
  <2>7. ASSUME NEW t \in Sessions, NEW k \in DOMAIN strand'[t], strand'[t][k] \in Reply
        PROVE  \/ k \in DOMAIN strand[t] /\ strand'[t][k] = strand[t][k]
               \/ t = a /\ k = n /\ strand'[t][k] = h
    BY <2>4, <2>5
  <2>8. PostedInv'
    <3> SUFFICES ASSUME NEW t \in Sessions, NEW k \in DOMAIN strand'[t], strand'[t][k] \in Reply
                 PROVE  /\ Asked(strand[t][k].question, strand[t][k].room, t)'
                        /\ \A j \in DOMAIN tasks' : tasks'[j].question # strand'[t][k].question
                        /\ \A j \in DOMAIN strand'[t] :
                             strand'[t][j] \in Reply /\ strand'[t][k].question = strand'[t][j].question => k = j
      BY DEF PostedInv, Reply
    <3>1. CASE k \in DOMAIN strand[t] /\ strand'[t][k] = strand[t][k]
      <4>1. Asked(strand[t][k].question, strand[t][k].room, t)'
        BY <2>1, <2>6, <3>1 DEF Asked
      <4>2. ASSUME NEW j \in DOMAIN strand'[t], strand'[t][j] \in Reply,
                   strand'[t][k].question = strand'[t][j].question
            PROVE  k = j
        BY <2>2, <2>6, <2>7, <3>1, <4>2
      <4>3. QED
        BY <2>6, <3>1, <4>1, <4>2
    <3>2. CASE t = a /\ k = n /\ strand'[t][k] = h
      <4>1. Asked(strand[t][k].question, strand[t][k].room, t)'
        BY <2>1, <2>2, <2>3, <3>2 DEF Asked
      <4>2. ASSUME NEW j \in DOMAIN strand'[t], strand'[t][j] \in Reply,
                   strand'[t][k].question = strand'[t][j].question
            PROVE  k = j
        BY <2>2, <2>6, <2>7, <3>2, <4>2
      <4>3. QED
        BY <1>3, <2>2, <3>2, <4>1, <4>2 DEF q
    <3>3. QED
      BY <2>7, <3>1, <3>2
  <2>9. AnsweredInv'
    <3> SUFFICES ASSUME NEW k \in DOMAIN log, log[k].question # 0
                 PROVE  /\ \A j \in DOMAIN tasks' : tasks'[j].question # log[k].question
                        /\ \A t \in Sessions : \A j \in DOMAIN strand'[t] :
                             strand'[t][j] \in Reply => strand'[t][j].question # log[k].question
      BY <2>1 DEF AnsweredInv, Asked, Reply
    <3>1. /\ \A j \in DOMAIN tasks : tasks[j].question # log[k].question
          /\ \A t \in Sessions : \A j \in DOMAIN strand[t] :
               strand[t][j] \in Reply => strand[t][j].question # log[k].question
      BY DEF AnsweredInv
    <3>2. log[k].question # q
      BY <2>1, <3>1 DEF q
    <3>3. \A j \in DOMAIN tasks' : tasks'[j].question # log[k].question
      BY <1>3, <3>1, FewerQuestions
    <3>4. QED
      BY <2>2, <2>7, <3>1, <3>2, <3>3
  <2>10. QED
    BY <1>4, <2>8, <2>9
<1>7. QED
  BY <1>1, <1>5, <1>6

-----------------------------------------------------------------------------
(***************************************************************************)
(* What an agent is given of the history of its room.                      *)
(***************************************************************************)

(* The history stays as it is while none is remembered.                    *)
LEMMA HistoryKept ==
  ASSUME HistoryInv, Grows, FewerTasks, recent' = recent
  PROVE  HistoryInv'
<1>1. \A r \in Rooms : \A k \in DOMAIN recent[r] :
        /\ recent[r][k].question \in DOMAIN log
        /\ \A i \in DOMAIN tasks :
             ~tasks[i].made /\ recent[r][k].question = tasks[i].question => ~recent[r][k].answer
  BY DEF HistoryInv
<1>2. \A q \in DOMAIN log : q \in DOMAIN log' /\ log'[q] = log[q]
  BY DEF Grows
<1>3. HistoryOrdered'
  BY <1>1, <1>2 DEF HistoryInv, HistoryOrdered, Kept, Agent
<1>4. ASSUME NEW r \in Rooms, NEW k \in DOMAIN recent[r], NEW i \in DOMAIN tasks', ~tasks'[i].made,
             recent[r][k].question = tasks'[i].question
      PROVE  ~recent[r][k].answer
  <2>1. PICK f : \A j \in DOMAIN tasks' :
          /\ f[j] \in DOMAIN tasks /\ tasks'[j].question = tasks[f[j]].question
          /\ tasks[f[j]].made => tasks'[j].made
    BY DEF FewerTasks
  <2>2. QED
    BY <1>1, <1>4, <2>1
<1>5. QED
  BY <1>1, <1>2, <1>3, <1>4 DEF HistoryInv

(* What is remembered of a question that was asked in the room comes after *)
(* what is known of it, and what is known of it is not an answer.          *)
LEMMA HistoryRemembers ==
  ASSUME ChatTypeOK, HistoryInv, Grows,
         NEW room \in Enabled, NEW entry \in Entry, Remember(room, entry),
         entry.question \in DOMAIN log', log'[entry.question].room = room,
         \A k \in DOMAIN recent[room] :
           recent[room][k].question = entry.question => ~recent[room][k].answer /\ entry.answer,
         \A j \in DOMAIN tasks' : ~tasks'[j].made =>
           /\ entry.question = tasks'[j].question => ~entry.answer
           /\ \A r \in Rooms : \A k \in DOMAIN recent[r] :
                recent[r][k].question = tasks'[j].question => ~recent[r][k].answer
  PROVE  HistoryInv'
<1>1. /\ room \in Rooms /\ recent \in [Rooms -> Seq(Entry)]
  BY AgentTyped DEF ChatTypeOK
<1>2. /\ recent' \in [Rooms -> Seq(Entry)]
      /\ \A r \in Rooms : r # room => recent'[r] = recent[r]
      /\ Len(recent'[room]) <= Kept(room)
  BY Remembered
<1>a. PICK d \in Nat : Shifted(room, entry, d)
  BY Remembered
<1>3. /\ Len(recent'[room]) + d = Len(recent[room]) + 1
      /\ \A k \in 1..Len(recent'[room]) :
           recent'[room][k] = IF k + d <= Len(recent[room]) THEN recent[room][k + d] ELSE entry
  BY <1>a DEF Shifted
<1>4. /\ DOMAIN recent[room] = 1..Len(recent[room]) /\ Len(recent[room]) \in Nat
      /\ DOMAIN recent'[room] = 1..Len(recent'[room]) /\ Len(recent'[room]) \in Nat
  <2>1. recent[room] \in Seq(Entry) /\ recent'[room] \in Seq(Entry)
    BY <1>1, <1>2
  <2>2. QED
    BY <2>1, LenProperties
<1>5. \A k \in DOMAIN recent'[room] :
        /\ k \in Nat
        /\ \/ k + d \in DOMAIN recent[room] /\ recent'[room][k] = recent[room][k + d]
           \/ k = Len(recent'[room]) /\ recent'[room][k] = entry
  <2> SUFFICES ASSUME NEW k \in DOMAIN recent'[room]
               PROVE  /\ k \in Nat
                      /\ \/ k + d \in DOMAIN recent[room] /\ recent'[room][k] = recent[room][k + d]
                         \/ k = Len(recent'[room]) /\ recent'[room][k] = entry
    OBVIOUS
  <2>1. k \in 1..Len(recent'[room]) /\ k \in Nat
    BY <1>4
  <2>2. CASE k + d <= Len(recent[room])
    <3>1. k + d \in 1..Len(recent[room])
      BY <1>4, <2>1, <2>2
    <3>2. QED
      BY <1>3, <1>4, <2>1, <2>2, <3>1
  <2>3. CASE ~(k + d <= Len(recent[room]))
    <3>1. k = Len(recent'[room])
      BY <1>3, <1>4, <2>1, <2>3
    <3>2. recent'[room][k] = entry
      BY <1>3, <2>1, <2>3
    <3>3. QED
      BY <2>1, <3>1, <3>2
  <2>4. QED
    BY <2>2, <2>3
<1>6. \A r \in Rooms : \A k \in DOMAIN recent[r] :
        /\ recent[r][k].question \in DOMAIN log
        /\ log[recent[r][k].question].room = r
        /\ \A j \in DOMAIN recent[r] :
             k < j /\ recent[r][k].question = recent[r][j].question => ~recent[r][k].answer /\ recent[r][j].answer
  BY DEF HistoryInv, HistoryOrdered
<1>7. \A q \in DOMAIN log : q \in DOMAIN log' /\ log'[q] = log[q]
  BY DEF Grows
<1>8. ASSUME NEW r \in Rooms, NEW k \in DOMAIN recent'[r]
      PROVE  /\ recent'[r][k].question \in DOMAIN log'
             /\ log'[recent'[r][k].question].room = r
             /\ \A j \in DOMAIN tasks' :
                  ~tasks'[j].made /\ recent'[r][k].question = tasks'[j].question => ~recent'[r][k].answer
  <2>1. CASE r # room
    <3>1. recent'[r] = recent[r]
      BY <1>2, <2>1
    <3>2. QED
      BY <1>6, <1>7, <1>8, <3>1
  <2>2. CASE r = room
    <3>1. CASE k + d \in DOMAIN recent[room] /\ recent'[room][k] = recent[room][k + d]
      BY <1>1, <1>6, <1>7, <2>2, <3>1
    <3>2. CASE recent'[room][k] = entry
      BY <2>2, <3>2
    <3>3. QED
      BY <1>5, <1>8, <2>2, <3>1, <3>2
  <2>3. QED
    BY <2>1, <2>2
<1>9. ASSUME NEW r \in Rooms, NEW k \in DOMAIN recent'[r], NEW j \in DOMAIN recent'[r],
             k < j, recent'[r][k].question = recent'[r][j].question
      PROVE  ~recent'[r][k].answer /\ recent'[r][j].answer
  <2>1. CASE r # room
    <3>1. recent'[r] = recent[r]
      BY <1>2, <2>1
    <3>2. QED
      BY <1>6, <1>9, <3>1
  <2>2. CASE r = room
    <3>1. /\ k \in 1..Len(recent'[room]) /\ j \in 1..Len(recent'[room])
          /\ k \in Nat /\ j \in Nat
      BY <1>4, <1>9, <2>2
    <3>2. k # Len(recent'[room])
      BY <1>4, <1>9, <3>1
    <3>3. k + d \in DOMAIN recent[room] /\ recent'[room][k] = recent[room][k + d]
      BY <1>5, <1>9, <2>2, <3>2
    <3>4. CASE j + d \in DOMAIN recent[room] /\ recent'[room][j] = recent[room][j + d]
      <4>1. k + d < j + d
        BY <1>9, <3>1
      <4>2. QED
        BY <1>1, <1>6, <1>9, <2>2, <3>3, <3>4, <4>1
    <3>5. CASE recent'[room][j] = entry
      BY <1>9, <2>2, <3>3, <3>5
    <3>6. QED
      BY <1>5, <1>9, <2>2, <3>4, <3>5
  <2>3. QED
    BY <2>1, <2>2
<1>10. \A r \in Rooms : recent'[r] # <<>> => Len(recent'[r]) <= Kept(r)
  BY <1>2 DEF HistoryInv, HistoryOrdered
<1>11. HistoryOrdered'
  <2>1. \A r \in Rooms : Kept(r)' = Kept(r)
    BY DEF Kept, Agent
  <2>2. QED
    BY <1>8, <1>9, <1>10, <2>1 DEF HistoryOrdered
<1>12. QED
  BY <1>8, <1>11 DEF HistoryInv

(* A question is new to the history.                                       *)
LEMMA HistoryAsked ==
  ASSUME ChatTypeOK, TasksInv, HistoryInv,
         NEW s \in Sessions, NEW waiting, Left(s, waiting), Speaks(s, waiting), Ask(s, waiting)
  PROVE  HistoryInv'
<1> DEFINE room == session_rooms_[s]
           q == Len(log) + 1
           entry == [question |-> q, answer |-> FALSE]
           task == [room |-> room, asker |-> s, question |-> q, made |-> FALSE]
<1>1. Grows
  BY SpeechAnswersNothing
<1>2. /\ room \in Enabled /\ tasks' = Append(tasks, task) /\ tasks \in Seq(Task)
      /\ Remember(room, entry)
      /\ Broadcast(s, Says(s, "ask", room, room_members_[room]), waiting)
  BY DEF Ask, ChatTypeOK
<1>3. /\ q \in DOMAIN log' /\ log'[q].room = room /\ q \notin DOMAIN log /\ q \in Nat \ {0}
  <2> DEFINE e == [kind |-> "ask", by |-> s, room |-> room, to |-> room_members_[room], question |-> 0]
  <2>1. room \in Rooms /\ room_members_[room] \in SUBSET Sessions
    BY <1>2, AgentTyped DEF ChatTypeOK, RoomTypeOK
  <2>2. e \in Event /\ Says(s, "ask", room, room_members_[room]) = <<e>> /\ e.room = room
    BY <2>1 DEF Event, Says
  <2> HIDE DEF e
  <2>3. <<e>> \in Seq(Event) /\ Len(<<e>>) = 1 /\ <<e>>[1] = e
    BY <2>2
  <2>4. Broadcast(s, <<e>>, waiting)
    BY <1>2, <2>2
  <2>5. Len(log') = Len(log) + 1 /\ log'[Len(log) + 1] = e
    <3>1. /\ Len(log') = Len(log) + Len(<<e>>)
          /\ \A i \in 1..Len(<<e>>) : log'[Len(log) + i] = <<e>>[i]
      BY <2>3, <2>4, BroadcastGrows
    <3>2. QED
      BY <2>3, <3>1
  <2>6. q \in DOMAIN log' /\ q \notin DOMAIN log /\ q \in Nat \ {0}
    BY <1>1, <2>5 DEF Grows
  <2> HIDE DEF room
  <2>7. QED
    BY <2>2, <2>5, <2>6
<1>4. entry \in Entry /\ entry.question = q /\ entry.answer = FALSE
  <2> HIDE DEF q
  <2>1. QED
    BY <1>3 DEF Entry
<1>5. \A j \in DOMAIN tasks' : tasks'[j].question = q \/ (j \in DOMAIN tasks /\ tasks'[j] = tasks[j])
  <2>1. task \in Task /\ task.question = q
    <3>1. room \in Rooms
      BY <1>2, AgentTyped
    <3> HIDE DEF q
    <3>2. QED
      BY <1>3, <3>1 DEF Task
  <2> HIDE DEF task, q
  <2>2. /\ Append(tasks, task) \in Seq(Task) /\ Len(Append(tasks, task)) = Len(tasks) + 1
        /\ \A i \in 1..Len(tasks) : Append(tasks, task)[i] = tasks[i]
        /\ Append(tasks, task)[Len(tasks) + 1] = task
    BY <1>2, <2>1, AppendProperties
  <2>3. /\ DOMAIN tasks = 1..Len(tasks) /\ Len(tasks) \in Nat
        /\ DOMAIN Append(tasks, task) = 1..(Len(tasks) + 1)
    BY <1>2, <2>2, LenProperties
  <2>4. \A j \in 1..(Len(tasks) + 1) : j \in 1..Len(tasks) \/ j = Len(tasks) + 1
    BY <2>3
  <2>5. QED
    BY <1>2, <2>1, <2>2, <2>3, <2>4
<1> HIDE DEF q, entry, task, room
<1>6. \A r \in Rooms : \A k \in DOMAIN recent[r] : recent[r][k].question # q
  BY <1>3 DEF HistoryInv
<1>7. \A j \in DOMAIN tasks : ~tasks[j].made =>
        \A r \in Rooms : \A k \in DOMAIN recent[r] :
          recent[r][k].question = tasks[j].question => ~recent[r][k].answer
  BY DEF HistoryInv
<1>8. room \in Rooms
  BY <1>2, AgentTyped
<1>9. \A k \in DOMAIN recent[room] :
        recent[room][k].question = entry.question => ~recent[room][k].answer /\ entry.answer
  BY <1>4, <1>6, <1>8
<1>10. \A j \in DOMAIN tasks' : ~tasks'[j].made =>
         /\ entry.question = tasks'[j].question => ~entry.answer
         /\ \A r \in Rooms : \A k \in DOMAIN recent[r] :
              recent[r][k].question = tasks'[j].question => ~recent[r][k].answer
  BY <1>4, <1>5, <1>6, <1>7
<1>11. QED
  BY <1>1, <1>2, <1>3, <1>4, <1>9, <1>10, HistoryRemembers

(* An answer being made is not in the history yet.                         *)
LEMMA HistoryAnswered ==
  ASSUME ChatTypeOK, TasksInv, HistoryInv, NEW i \in Working, MakeReply(i)
  PROVE  HistoryInv'
<1> DEFINE room == tasks[i].room
           q == tasks[i].question
           entry == [question |-> q, answer |-> TRUE]
<1>1. /\ ~tasks[i].made /\ Remember(room, entry) /\ log' = log
      /\ \/ tasks' = [tasks EXCEPT ![i].made = TRUE]
         \/ tasks' = RemoveAt(tasks, i)
  BY DEF MakeReply
<1>2. Grows
  BY <1>1, LogKept
<1>3. /\ i \in DOMAIN tasks /\ tasks[i] \in Task /\ room \in Enabled /\ q \in Nat \ {0}
      /\ Asked(q, room, tasks[i].asker)
      /\ \A j \in DOMAIN tasks : tasks[i].question = tasks[j].question => i = j
  <2>1. i \in DOMAIN tasks /\ tasks[i] \in Task
    BY TaskTyped
  <2>2. QED
    BY <2>1 DEF TasksInv, Task
<1>4. FewerTasks
  BY <1>1, TasksMade, TasksRemoved
<1>5. \A j \in DOMAIN tasks' : tasks'[j].question = q => tasks'[j].made
  <2>1. CASE tasks' = RemoveAt(tasks, i)
    BY <2>1, TasksRemoved
  <2>2. CASE tasks' = [tasks EXCEPT ![i].made = TRUE]
    <3>1. tasks \in Seq(Task) /\ \A j \in DOMAIN tasks : tasks[j] \in Task
      BY LenProperties DEF ChatTypeOK
    <3>2. \A j \in DOMAIN tasks : tasks'[j].question = tasks[j].question
      BY <2>2, <3>1 DEF Task
    <3>3. tasks'[i].made
      BY <1>3, <2>2 DEF Task
    <3>4. DOMAIN tasks' = DOMAIN tasks
      BY <2>2
    <3>5. QED
      BY <1>3, <3>2, <3>3, <3>4
  <2>3. QED
    BY <1>1, <2>1, <2>2
<1>6. entry \in Entry /\ entry.question = q /\ entry.answer = TRUE
  <2> HIDE DEF q
  <2>1. QED
    BY <1>3 DEF Entry
<1> HIDE DEF entry
<1>7. room \in Rooms
  BY <1>3, AgentTyped
<1>8. \A k \in DOMAIN recent[room] :
        recent[room][k].question = entry.question => ~recent[room][k].answer /\ entry.answer
  BY <1>1, <1>3, <1>6, <1>7 DEF HistoryInv
<1>9. ASSUME NEW j \in DOMAIN tasks', ~tasks'[j].made
      PROVE  /\ entry.question = tasks'[j].question => ~entry.answer
             /\ \A r \in Rooms : \A k \in DOMAIN recent[r] :
                  recent[r][k].question = tasks'[j].question => ~recent[r][k].answer
  <2>1. entry.question # tasks'[j].question
    BY <1>5, <1>6, <1>9
  <2>2. PICK f : \A k \in DOMAIN tasks' :
          /\ f[k] \in DOMAIN tasks /\ tasks'[k].question = tasks[f[k]].question
          /\ tasks[f[k]].made => tasks'[k].made
    BY <1>4 DEF FewerTasks
  <2>3. f[j] \in DOMAIN tasks /\ tasks'[j].question = tasks[f[j]].question /\ ~tasks[f[j]].made
    BY <1>9, <2>2
  <2>4. QED
    BY <2>1, <2>3 DEF HistoryInv
<1>10. entry.question \in DOMAIN log' /\ log'[entry.question].room = room
  BY <1>1, <1>3, <1>6 DEF Asked
<1> HIDE DEF room, q
<1>11. QED
  BY <1>1, <1>2, <1>3, <1>6, <1>8, <1>9, <1>10, HistoryRemembers


-----------------------------------------------------------------------------
(***************************************************************************)
(* What a session hears of another, step by step.                          *)
(***************************************************************************)

(* What is to be heard is what the waiting deliveries say.                 *)
LEMMA DeliveriesAre ==
  ASSUME NEW q \in Seq(Item)
  PROVE  /\ Deliveries(q) = LET waiting == Only(q, Delivery) IN [i \in DOMAIN waiting |-> waiting[i].event]
         /\ \A Y : (\A i \in DOMAIN q : q[i] \in Delivery => q[i].event \in Y) => Deliveries(q) \in Seq(Y)
<1> DEFINE kept == Only(q, Delivery)
<1>1. kept \in Seq(Item) /\ Range(kept) = Range(q) \cap Delivery
  BY OnlyKeeps
<1>2. Len(kept) \in Nat /\ DOMAIN kept = 1..Len(kept)
  BY <1>1, LenProperties
<1>3. ASSUME NEW i \in DOMAIN kept
      PROVE  /\ EventOf[kept[i]] = kept[i].event /\ kept[i] \in Delivery
             /\ \E j \in DOMAIN q : q[j] = kept[i]
  <2>1. kept[i] \in Range(q) /\ kept[i] \in Delivery
    BY <1>1 DEF Range
  <2>2. QED
    BY <2>1 DEF Range, EventOf
<1>4. Deliveries(q) = [i \in DOMAIN kept |-> kept[i].event]
  BY <1>3 DEF Deliveries, Picked
<1>5. ASSUME NEW Y, \A i \in DOMAIN q : q[i] \in Delivery => q[i].event \in Y
      PROVE  Deliveries(q) \in Seq(Y)
  <2>1. \A i \in 1..Len(kept) : kept[i].event \in Y
    BY <1>2, <1>3, <1>5
  <2> HIDE DEF kept
  <2>2. [i \in 1..Len(kept) |-> kept[i].event] \in Seq(Y)
    BY <1>2, <2>1
  <2>3. QED
    BY <1>2, <1>4, <2>2
<1>6. QED
  BY <1>4, <1>5

(* What a session has heard, and what it is to hear from others.           *)
LEMMA StreamTyped ==
  ASSUME ChatTypeOK, StreamInv, NEW t \in Sessions
  PROVE  /\ pushed[t] \in Seq(DOMAIN log)
         /\ Deliveries(strand[t]) \in Seq(DOMAIN log \ By(t))
         /\ Deliveries(strand[t]) \in Seq(DOMAIN log)
         /\ Stream(t) = pushed[t] \o Deliveries(strand[t])
         /\ Stream(t) \in Seq(DOMAIN log)
<1>1. pushed[t] \in Seq(DOMAIN log) /\ strand[t] \in Seq(Item)
  BY DEF ChatTypeOK
<1>2. \A i \in DOMAIN strand[t] : strand[t][i] \in Delivery => strand[t][i].event \in DOMAIN log \ By(t)
  BY DEF StreamInv, WaitsForOthers, By
<1>3. Deliveries(strand[t]) \in Seq(DOMAIN log \ By(t))
  BY <1>1, <1>2, DeliveriesAre
<1>4. Deliveries(strand[t]) \in Seq(DOMAIN log)
  BY <1>3, SeqMonotonic
<1>5. Stream(t) = pushed[t] \o Deliveries(strand[t])
  BY <1>1, DeliveriesAre DEF Stream
<1>6. QED
  BY <1>1, <1>3, <1>4, <1>5, ConcatProperties

(* So it is after a step.                                                  *)
LEMMA StreamNext ==
  ASSUME NEW t \in Sessions, strand'[t] \in Seq(Item)
  PROVE  Stream(t)' = pushed'[t] \o Deliveries(strand'[t])
BY DeliveriesAre DEF Stream

(* The sender of what was said does not change.                            *)
LEMMA FilterGrown ==
  ASSUME Grows, NEW q \in Seq(DOMAIN log), NEW s
  PROVE  Only(q, By(s)') = Only(q, By(s))
<1>1. \A x \in DOMAIN log : x \in By(s)' <=> x \in By(s)
  BY DEF Grows, By
<1>2. QED
  BY <1>1, OnlyAgree

(* What is new of one session to another.                                  *)
News(s, u, events, t) == IF u = s THEN Ids(events, t) ELSE <<>>

(* The events of a broadcast follow the log.                               *)
LEMMA NewSaid ==
  ASSUME ChatTypeOK, NEW s, NEW events \in Seq(Event), NEW waiting, Broadcast(s, events, waiting),
         \A k \in 1..Len(events) : events[k].by = s
  PROVE  \A x \in (Len(log) + 1)..(Len(log) + Len(events)) :
           /\ x \in DOMAIN log' /\ x \notin DOMAIN log /\ x \in Nat
           /\ log'[x].by = s
           /\ \A t : x \in NewTo(events, t) <=> t \in log'[x].to
<1>1. /\ Len(log) \in Nat /\ Len(events) \in Nat /\ DOMAIN log = 1..Len(log)
      /\ DOMAIN log' = 1..(Len(log) + Len(events))
      /\ \A i \in 1..Len(events) : log'[Len(log) + i] = events[i]
  BY BroadcastGrows DEF Grows
<1> SUFFICES ASSUME NEW x \in (Len(log) + 1)..(Len(log) + Len(events))
             PROVE  /\ x \in DOMAIN log' /\ x \notin DOMAIN log /\ x \in Nat
                    /\ log'[x].by = s
                    /\ \A t : x \in NewTo(events, t) <=> t \in log'[x].to
  OBVIOUS
<1>2. x \in DOMAIN log' /\ x \notin DOMAIN log /\ x \in Nat
  BY <1>1
<1>3. PICK k \in 1..Len(events) : x = Len(log) + k
  <2>1. x - Len(log) \in 1..Len(events) /\ x = Len(log) + (x - Len(log))
    BY <1>1
  <2>2. QED
    BY <2>1
<1>4. log'[x] = events[k] /\ events[k].by = s
  BY <1>1, <1>3
<1>5. \A t : x \in NewTo(events, t) <=> t \in events[k].to
  <2>1. \A i \in 1..Len(events) : x = Len(log) + i => i = k
    BY <1>1, <1>3
  <2>2. QED
    BY <1>3, <2>1 DEF NewTo
<1>6. QED
  BY <1>2, <1>4, <1>5

(* What is heard of them is new, in their order, and of their sender.      *)
LEMMA IdsHeard ==
  ASSUME ChatTypeOK, NEW s, NEW events \in Seq(Event), NEW waiting, Broadcast(s, events, waiting),
         \A k \in 1..Len(events) : events[k].by = s, NEW t, NEW u
  PROVE  /\ Ids(events, t) \in Seq(Nat) /\ Increasing(Ids(events, t))
         /\ News(s, u, events, t) \in Seq(Nat) /\ Increasing(News(s, u, events, t))
         /\ \A i \in DOMAIN News(s, u, events, t) : News(s, u, events, t)[i] > Len(log)
         /\ Only(Ids(events, t), By(u)') = News(s, u, events, t)
<1> DEFINE N == (Len(log) + 1)..(Len(log) + Len(events))
           ids == Ids(events, t)
<1>0. log \in Seq(Event)
  BY DEF ChatTypeOK
<1>1. /\ ids \in Seq(N) /\ New(events) \in Seq(N) /\ Len(log) \in Nat /\ Len(events) \in Nat
      /\ Len(New(events)) = Len(events)
      /\ \A i \in 1..Len(events) : New(events)[i] = Len(log) + i
  BY <1>0, IdsTyped, NewTyped
<1>2. \A x \in N : x \in DOMAIN log' /\ log'[x].by = s /\ x \in Nat
  BY NewSaid
<1>3. N \subseteq Nat /\ \A x \in N : x > Len(log)
  BY <1>1
<1> HIDE DEF N
<1>4. ids \in Seq(Nat) /\ New(events) \in Seq(Nat)
  BY <1>1, <1>3, SeqMonotonic
<1>5. Increasing(New(events))
  <2>1. DOMAIN New(events) = 1..Len(events)
    BY <1>1, LenProperties
  <2>2. QED
    BY <1>1, <2>1 DEF Increasing
<1>6. Increasing(ids)
  BY <1>4, <1>5, IncreasingOnly DEF Ids
<1>7. \A i \in DOMAIN ids : ids[i] > Len(log)
  <2>1. \A i \in 1..Len(ids) : ids[i] \in N /\ DOMAIN ids = 1..Len(ids)
    BY <1>1, LenProperties
  <2>2. DOMAIN ids = 1..Len(ids)
    BY <1>1, LenProperties
  <2>3. QED
    BY <1>3, <2>1, <2>2
<1>8. Only(ids, By(u)') = News(s, u, events, t)
  <2>1. CASE u = s
    <3>1. N \subseteq By(u)'
      BY <1>2, <2>1 DEF By
    <3>2. ids \in Seq(By(u)')
      BY <1>1, <3>1, SeqMonotonic
    <3>3. Only(ids, By(u)') = ids
      BY <3>2, OnlyAll
    <3>4. QED
      BY <2>1, <3>3 DEF News
  <2>2. CASE u # s
    <3>1. \A x \in N : x \notin By(u)'
      BY <1>2, <2>2 DEF By
    <3>2. Only(ids, By(u)') = <<>>
      BY <1>1, <3>1, OnlyNone
    <3>3. QED
      BY <2>2, <3>2 DEF News
  <2>3. QED
    BY <2>1, <2>2
<1> HIDE DEF ids
<1>9. <<>> \in Seq(Nat) /\ DOMAIN <<>> = {}
  BY EmptySeq
<1>10. QED
  BY <1>4, <1>6, <1>7, <1>8, <1>9 DEF ids, News, Increasing

(* What is said to a session grows by what is new.                         *)
LEMMA AmongGrown ==
  ASSUME ChatTypeOK, NEW s, NEW events \in Seq(Event), NEW waiting, Broadcast(s, events, waiting),
         \A k \in 1..Len(events) : events[k].by = s, NEW t, NEW u
  PROVE  Among({i \in By(u) : t \in log[i].to})' =
           Among({i \in By(u) : t \in log[i].to}) \o News(s, u, events, t)
<1>a. \A Y, E, F : \A q \in Seq(Y) : (\A x \in Y : x \in E <=> x \in F) => Only(q, E) = Only(q, F)
  BY OnlyAgree
<1> DEFINE N == (Len(log) + 1)..(Len(log) + Len(events))
           old == [i \in DOMAIN log |-> i]
           new == [i \in DOMAIN log' |-> i]
           S == {i \in By(u) : t \in log[i].to}
           T == {i \in By(u)' : t \in log'[i].to}
<1>0. log \in Seq(Event) /\ Grows /\ Len(log') = Len(log) + Len(events)
  BY BroadcastGrows DEF ChatTypeOK
<1>1. /\ Len(log) \in Nat /\ Len(events) \in Nat
      /\ DOMAIN log = 1..Len(log) /\ DOMAIN log' = 1..(Len(log) + Len(events))
      /\ New(events) \in Seq(N) /\ Len(New(events)) = Len(events)
      /\ \A i \in 1..Len(events) : New(events)[i] = Len(log) + i
  BY <1>0, NewTyped DEF Grows
<1>2. /\ old \in Seq(DOMAIN log) /\ old \in Seq(Nat) /\ new \in Seq(Nat) /\ New(events) \in Seq(Nat)
      /\ Len(old) = Len(log) /\ Len(new) = Len(log) + Len(events)
  <2> DEFINE m == Len(log)
             n == Len(events)
  <2>1. m \in Nat /\ n \in Nat
    BY <1>1
  <2> HIDE DEF m, n
  <2>2. /\ [i \in 1..m |-> i] \in Seq(1..m) /\ [i \in 1..m |-> i] \in Seq(Nat)
        /\ [i \in 1..(m + n) |-> i] \in Seq(Nat)
        /\ Len([i \in 1..m |-> i]) = m /\ Len([i \in 1..(m + n) |-> i]) = m + n
    BY <2>1
  <2>3. N \subseteq Nat
    BY <1>1
  <2>4. New(events) \in Seq(Nat)
    BY <1>1, <2>3, SeqMonotonic
  <2>5. QED
    BY <1>1, <2>2, <2>4 DEF m, n
<1>3. new = old \o New(events)
  <2>1. /\ old \o New(events) \in Seq(Nat) /\ Len(old \o New(events)) = Len(old) + Len(New(events))
        /\ \A i \in 1..(Len(old) + Len(New(events))) :
             (old \o New(events))[i] = IF i <= Len(old) THEN old[i] ELSE New(events)[i - Len(old)]
    BY <1>2, ConcatProperties
  <2>2. ASSUME NEW i \in 1..(Len(log) + Len(events)) PROVE new[i] = (old \o New(events))[i]
    <3>0. new[i] = i
      BY <1>1
    <3>1. CASE i <= Len(log)
      <4>1. old[i] = i
        BY <1>1, <3>1
      <4>2. QED
        BY <1>1, <1>2, <2>1, <3>0, <3>1, <4>1
    <3>2. CASE ~(i <= Len(log))
      <4>1. i - Len(log) \in 1..Len(events) /\ Len(log) + (i - Len(log)) = i
        BY <1>1, <3>2
      <4>2. New(events)[i - Len(log)] = i
        BY <1>1, <4>1
      <4>3. (old \o New(events))[i] = New(events)[i - Len(log)]
        BY <1>1, <1>2, <2>1, <3>2
      <4>4. QED
        BY <3>0, <4>2, <4>3
    <3>3. QED
      BY <3>1, <3>2
  <2> HIDE DEF old, new
  <2>3. Len(old \o New(events)) = Len(new)
    BY <1>1, <1>2, <2>1
  <2>4. QED
    BY <1>2, <2>1, <2>2, <2>3, SeqEqual
<1>4. Only(old, T) = Only(old, S)
  <2>1. \A x \in DOMAIN log : x \in T <=> x \in S
    BY <1>0 DEF Grows, By
  <2>2. old \in Seq(DOMAIN log)
    BY <1>2
  <2> HIDE DEF old, S, T
  <2>3. QED
    BY <2>1, <2>2, <1>a
<1>5. Only(New(events), T) = News(s, u, events, t)
  <2>1. \A x \in N : /\ x \in DOMAIN log' /\ log'[x].by = s
                     /\ x \in NewTo(events, t) <=> t \in log'[x].to
    BY NewSaid
  <2>2. CASE u = s
    <3>1. \A x \in N : x \in T <=> x \in NewTo(events, t)
      BY <2>1, <2>2 DEF By
    <3> HIDE DEF N, T
    <3>2. Only(New(events), T) = Only(New(events), NewTo(events, t))
      BY <1>1, <3>1, OnlyAgree
    <3>3. QED
      BY <2>2, <3>2 DEF News, Ids
  <2>3. CASE u # s
    <3>1. \A x \in N : x \notin T
      BY <2>1, <2>3 DEF By
    <3> HIDE DEF N, T
    <3>2. Only(New(events), T) = <<>>
      BY <1>1, <3>1, OnlyNone
    <3>3. QED
      BY <2>3, <3>2 DEF News
  <2>4. QED
    BY <2>2, <2>3
<1>6. Among({i \in By(u) : t \in log[i].to})' = Only(new, T)
  BY DEF Among
<1>7. Among({i \in By(u) : t \in log[i].to}) = Only(old, S)
  BY DEF Among
<1> HIDE DEF old, new, S, T
<1>8. Only(new, T) = Only(old, T) \o Only(New(events), T)
  BY <1>2, <1>3, OnlyConcat
<1>9. QED
  BY <1>4, <1>5, <1>6, <1>7, <1>8

(* So does what a session hears of another, unless it has stopped.         *)
LEMMA StreamSpoken ==
  ASSUME ChatTypeOK, StreamInv, NEW s \in Sessions, NEW events \in Seq(Event),
         NEW waiting, Left(s, waiting), Broadcast(s, events, waiting),
         \A k \in 1..Len(events) : events[k].by = s, NEW t \in Sessions, NEW u
  PROVE  \/ Only(Stream(t), By(u))' = Only(Stream(t), By(u)) \o News(s, u, events, t)
         \/ stopped_[t] /\ Only(Stream(t), By(u))' = Only(Stream(t), By(u))
<1>a. \A S : \A p, q \in Seq(Nat) : Only(p \o q, S) = Only(p, S) \o Only(q, S)
  BY OnlyConcat
<1>b. \A p, q, r \in Seq(Nat) : (p \o q) \o r = p \o (q \o r)
  BY Regroup
<1> DEFINE h == pushed[t]
           d == Deliveries(strand[t])
           ids == Ids(events, t)
           B == By(u)
           C == By(u)'
           new == News(s, u, events, t)
<1>0. log \in Seq(Event) /\ Grows /\ waiting \in [Sessions -> Seq(Item)]
  BY BroadcastGrows, LeftShifts DEF ChatTypeOK
<1>1. /\ h \in Seq(DOMAIN log) /\ d \in Seq(DOMAIN log) /\ d \in Seq(DOMAIN log \ By(t))
      /\ Stream(t) = h \o d /\ Stream(t) \in Seq(DOMAIN log)
  BY StreamTyped
<1>2. DOMAIN log \subseteq Nat
  BY <1>0 DEF Grows
<1>3. h \in Seq(Nat) /\ d \in Seq(Nat) /\ Stream(t) \in Seq(Nat) /\ ids \in Seq(Nat) /\ new \in Seq(Nat)
  BY <1>1, <1>2, IdsHeard, SeqMonotonic
<1>4. Only(h, C) = Only(h, B) /\ Only(d, C) = Only(d, B) /\ Only(h \o d, C) = Only(h \o d, B)
  <2>1. h \o d \in Seq(DOMAIN log)
    BY <1>1
  <2> HIDE DEF h, d
  <2>2. QED
    BY <1>0, <1>1, <2>1, FilterGrown
<1>5. Only(ids, C) = new
  BY IdsHeard
<1>6. Deliveries(waiting[t]) = d
  BY LeftDeliveries
<1>7. strand'[t] \in Seq(Item)
  BY <1>0, BroadcastTyped
<1>8. Stream(t)' = pushed'[t] \o Deliveries(strand'[t])
  BY <1>7, StreamNext
<1>9. /\ Only(Stream(t), By(u))' = Only(Stream(t)', C)
      /\ Only(Stream(t), By(u)) = Only(h \o d, B)
      /\ new = News(s, u, events, t)
  BY <1>1
<1> HIDE DEF h, d, ids, B, C, new
<1>c. h \in Seq(Nat) /\ d \in Seq(Nat) /\ ids \in Seq(Nat) /\ h \o d \in Seq(Nat) /\ h \o ids \in Seq(Nat)
  <2>1. h \in Seq(Nat) /\ d \in Seq(Nat) /\ ids \in Seq(Nat)
    BY <1>3
  <2>2. QED
    BY <2>1, ConcatProperties
<1>d. \A S : /\ Only(h \o d, S) = Only(h, S) \o Only(d, S)
             /\ Only(h \o ids, S) = Only(h, S) \o Only(ids, S)
             /\ Only((h \o d) \o ids, S) = Only(h \o d, S) \o Only(ids, S)
             /\ Only((h \o ids) \o d, S) = Only(h \o ids, S) \o Only(d, S)
  <2>1. \A S : Only(h \o d, S) = Only(h, S) \o Only(d, S)
    BY <1>a, <1>c
  <2>2. \A S : Only(h \o ids, S) = Only(h, S) \o Only(ids, S)
    BY <1>a, <1>c
  <2>3. \A S : Only((h \o d) \o ids, S) = Only(h \o d, S) \o Only(ids, S)
    BY <1>a, <1>c
  <2>4. \A S : Only((h \o ids) \o d, S) = Only(h \o ids, S) \o Only(d, S)
    BY <1>a, <1>c
  <2>5. QED
    BY <2>1, <2>2, <2>3, <2>4
<1>10. Only((h \o d) \o ids, C) = Only(h \o d, B) \o new
  <2>1. h \o d \in Seq(Nat)
    BY <1>3, ConcatProperties
  <2>2. Only((h \o d) \o ids, C) = Only(h \o d, C) \o Only(ids, C)
    BY <1>d
  <2>3. QED
    BY <1>4, <1>5, <2>2
<1>11. CASE HearsNow(s, events, waiting, t) /\ stopped_[t]
  <2>1. pushed'[t] = h /\ Deliveries(strand'[t]) = d
    BY <1>6, <1>11 DEF HearsNow, h
  <2>2. QED
    BY <1>4, <1>8, <1>9, <1>11, <2>1
<1>12. CASE HearsNow(s, events, waiting, t) /\ ~stopped_[t]
  <2>1. /\ pushed'[t] = h \o ids /\ Deliveries(strand'[t]) = d
        /\ t = s \/ waiting[t] = <<>>
    BY <1>6, <1>12 DEF HearsNow, h, ids
  <2>2. Stream(t)' = (h \o ids) \o d
    BY <1>8, <2>1
  <2>3. CASE d = <<>>
    <3>1. (h \o ids) \o d = (h \o d) \o ids
      <4>1. h \o ids \in Seq(Nat) /\ h \o <<>> = h
        BY <1>3, ConcatProperties, ConcatEmptySeq
      <4>2. (h \o ids) \o <<>> = h \o ids
        BY <4>1, ConcatEmptySeq
      <4>3. QED
        BY <2>3, <4>1, <4>2
    <3>2. QED
      BY <1>9, <1>10, <2>2, <3>1
  <2>4. CASE t = s
    <3>1. h \o ids \in Seq(Nat)
      BY <1>3, ConcatProperties
    <3>2. Only((h \o ids) \o d, C) = Only(h \o ids, C) \o Only(d, C)
      BY <1>d
    <3>3. Only(h \o ids, C) = Only(h, C) \o Only(ids, C)
      BY <1>d
    <3>4. Only(h \o d, B) = Only(h, B) \o Only(d, B)
      BY <1>d
    <3>5. Only((h \o ids) \o d, C) = (Only(h, B) \o new) \o Only(d, B)
      BY <1>4, <1>5, <3>2, <3>3
    <3>6. Only(h, B) \in Seq(Nat) /\ Only(d, B) \in Seq(Nat)
      BY <1>3, OnlyKeeps
    <3>7. Only((h \o ids) \o d, C) = Only(h \o d, B) \o new
      <4>1. CASE u = s
        <5>1. \A x \in DOMAIN log \ By(t) : x \notin B
          BY <2>4, <4>1 DEF B
        <5>2. Only(d, B) = <<>>
          BY <1>1, <5>1, OnlyNone
        <5>3. Only(h, B) \o new \in Seq(Nat)
          BY <1>3, <3>6, ConcatProperties
        <5>4. (Only(h, B) \o new) \o <<>> = Only(h, B) \o new /\ Only(h, B) \o <<>> = Only(h, B)
          BY <3>6, <5>3, ConcatEmptySeq
        <5>5. QED
          BY <3>4, <3>5, <5>2, <5>4
      <4>2. CASE u # s
        <5>1. new = <<>>
          BY <4>2 DEF new, News
        <5>2. Only(h, B) \o <<>> = Only(h, B)
          BY <3>6, ConcatEmptySeq
        <5>3. Only(h, B) \o Only(d, B) \in Seq(Nat)
          BY <3>6, ConcatProperties
        <5>4. (Only(h, B) \o Only(d, B)) \o <<>> = Only(h, B) \o Only(d, B)
          BY <5>3, ConcatEmptySeq
        <5>5. QED
          BY <3>4, <3>5, <5>1, <5>2, <5>4
      <4>3. QED
        BY <4>1, <4>2
    <3>8. QED
      BY <1>9, <2>2, <3>7
  <2>5. CASE waiting[t] = <<>>
    <3>1. Deliveries(<<>>) = <<>>
      BY PickedValues, EmptySeq DEF Deliveries
    <3>2. d = <<>>
      BY <1>6, <2>5, <3>1
    <3>3. QED
      BY <2>3, <3>2
  <2>6. QED
    BY <2>1, <2>4, <2>5
<1>13. CASE HearsLater(s, events, waiting, t)
  <2>1. pushed'[t] = h /\ strand'[t] = waiting[t] \o Sent(ids)
    BY <1>13 DEF HearsLater, h, ids
  <2>2. ids \in Seq(Nat \ {0})
    <3>1. ids \in Seq((Len(log) + 1)..(Len(log) + Len(events)))
      BY <1>0, IdsTyped DEF ids
    <3>2. (Len(log) + 1)..(Len(log) + Len(events)) \subseteq Nat \ {0}
      BY <1>0, NewTyped
    <3>3. QED
      BY <3>1, <3>2, SeqMonotonic
  <2>3. Sent(ids) \in Seq(Delivery) /\ Deliveries(Sent(ids)) = ids
    BY <2>2, SentDeliveries
  <2>4. Sent(ids) \in Seq(Item) /\ waiting[t] \in Seq(Item)
    BY <1>0, <2>3, SeqMonotonic DEF Item
  <2>5. Deliveries(waiting[t] \o Sent(ids)) = d \o ids
    <3>1. Deliveries(waiting[t] \o Sent(ids)) = Deliveries(waiting[t]) \o Deliveries(Sent(ids))
      BY <2>4, PickedConcat DEF Deliveries
    <3>2. QED
      BY <1>6, <2>3, <3>1
  <2>6. (h \o d) \o ids = h \o (d \o ids)
    BY <1>b, <1>c
  <2>7. QED
    BY <1>8, <1>9, <1>10, <2>1, <2>5, <2>6
<1>14. QED
  BY <1>11, <1>12, <1>13, BroadcastHeard

(* What waits after a broadcast was waiting before, or is news to another. *)
LEMMA SpokenWaits ==
  ASSUME ChatTypeOK, StreamInv, NEW s \in Sessions, NEW events \in Seq(Event),
         NEW waiting, Left(s, waiting), Broadcast(s, events, waiting),
         \A k \in 1..Len(events) : events[k].by = s, NEW t \in Sessions
  PROVE  WaitsForOthers(t)'
<1>0. log \in Seq(Event) /\ Grows /\ waiting \in [Sessions -> Seq(Item)]
  BY BroadcastGrows, LeftShifts DEF ChatTypeOK
<1>1. \A i \in DOMAIN waiting[t] : waiting[t][i] \in Delivery =>
        waiting[t][i].event \in DOMAIN log' /\ log'[waiting[t][i].event].by # t
  <2>1. PICK d \in {0, 1} : \A i \in DOMAIN waiting[t] :
          i + d \in DOMAIN strand[t] /\ waiting[t][i] = strand[t][i + d]
    BY LeftShifts
  <2>2. QED
    BY <1>0, <2>1 DEF StreamInv, WaitsForOthers, Grows
<1>2. CASE HearsNow(s, events, waiting, t)
  <2>1. strand'[t] = waiting[t]
    BY <1>2 DEF HearsNow
  <2>2. QED
    BY <1>1, <2>1 DEF WaitsForOthers
<1>3. CASE HearsLater(s, events, waiting, t)
  <2> DEFINE ids == Ids(events, t)
             sent == Sent(ids)
             N == (Len(log) + 1)..(Len(log) + Len(events))
  <2>1. strand'[t] = waiting[t] \o sent /\ t # s
    BY <1>3 DEF HearsLater
  <2>2. \A x \in N : x \in DOMAIN log' /\ log'[x].by = s /\ x \in Nat \ {0}
    <3>1. \A x \in N : x \in DOMAIN log' /\ log'[x].by = s
      BY NewSaid
    <3>2. DOMAIN log' \subseteq Nat \ {0}
      BY <1>0 DEF Grows
    <3>3. QED
      BY <3>1, <3>2
  <2>3. ids \in Seq(N)
    BY <1>0, IdsTyped
  <2>4. Len(ids) \in Nat /\ \A i \in 1..Len(ids) : ids[i] \in N
    <3> HIDE DEF ids, N
    <3>1. QED
      BY <2>3, LenProperties
  <2>5. sent \in Seq(Item)
    <3>1. ids \in Seq(Nat \ {0})
      BY <2>2, <2>3, SeqMonotonic
    <3>2. sent \in Seq(Delivery)
      BY <3>1, SentDeliveries
    <3> HIDE DEF sent
    <3>3. QED
      BY <3>2, SeqMonotonic DEF Item
  <2>6. \A i \in DOMAIN sent : sent[i].event \in N
    <3> HIDE DEF ids, N
    <3>1. DOMAIN sent = 1..Len(ids) /\ \A i \in 1..Len(ids) : sent[i].event = ids[i]
      BY DEF Sent
    <3>2. QED
      BY <2>4, <3>1
  <2> HIDE DEF sent
  <2>7. \A i \in DOMAIN strand'[t] :
          \/ i \in DOMAIN waiting[t] /\ strand'[t][i] = waiting[t][i]
          \/ i - Len(waiting[t]) \in DOMAIN sent /\ strand'[t][i] = sent[i - Len(waiting[t])]
    <3>1. waiting[t] \in Seq(Item)
      BY <1>0
    <3>2. \A i \in DOMAIN (waiting[t] \o sent) :
            \/ i \in DOMAIN waiting[t]
            \/ i > Len(waiting[t]) /\ i - Len(waiting[t]) \in DOMAIN sent
               /\ (waiting[t] \o sent)[i] = sent[i - Len(waiting[t])]
      BY <2>5, <3>1, ConcatPlaces
    <3>3. \A i \in DOMAIN waiting[t] : (waiting[t] \o sent)[i] = waiting[t][i]
      BY <2>5, <3>1, ConcatPlaces
    <3>4. QED
      BY <2>1, <3>2, <3>3
  <2> HIDE DEF N
  <2>8. ASSUME NEW i \in DOMAIN strand'[t], strand'[t][i] \in Delivery
        PROVE  strand'[t][i].event \in DOMAIN log' /\ log'[strand'[t][i].event].by # t
    <3>1. CASE i \in DOMAIN waiting[t] /\ strand'[t][i] = waiting[t][i]
      BY <1>1, <2>8, <3>1
    <3>2. CASE i - Len(waiting[t]) \in DOMAIN sent /\ strand'[t][i] = sent[i - Len(waiting[t])]
      BY <2>1, <2>2, <2>6, <3>2
    <3>3. QED
      BY <2>7, <2>8, <3>1, <3>2
  <2>9. QED
    BY <2>8 DEF WaitsForOthers
<1>4. QED
  BY <1>2, <1>3, BroadcastHeard

(* A broadcast is heard in order and completely.                           *)
LEMMA StreamSpeech ==
  ASSUME ChatTypeOK, StreamInv, NEW s \in Sessions, NEW events \in Seq(Event),
         NEW waiting, Left(s, waiting), Broadcast(s, events, waiting),
         \A k \in 1..Len(events) : events[k].by = s,
         \A t \in Sessions : stopped_[t] => stopped_'[t]
  PROVE  StreamInv'
<1>1. \A t \in Sessions : WaitsForOthers(t)'
  BY SpokenWaits
<1>2. ASSUME NEW t \in Sessions, NEW u \in Sessions
      PROVE  /\ Increasing(Only(Stream(t), By(u)))'
             /\ ~stopped_'[t] =>
                  (Only(Stream(t), By(u)) = Among({i \in By(u) : t \in log[i].to}))'
  <2> DEFINE f == Only(Stream(t), By(u))
             a == Among({i \in By(u) : t \in log[i].to})
             g == Only(Stream(t), By(u))'
             b == Among({i \in By(u) : t \in log[i].to})'
             new == News(s, u, events, t)
  <2>1. g = f \o new \/ (stopped_[t] /\ g = f)
    BY StreamSpoken
  <2>2. b = a \o new
    BY AmongGrown
  <2>3. Increasing(f) /\ (~stopped_[t] => f = a)
    BY DEF StreamInv, HearsInOrder
  <2>4. new \in Seq(Nat) /\ Increasing(new) /\ \A i \in DOMAIN new : new[i] > Len(log)
    BY IdsHeard
  <2>5. Stream(t) \in Seq(DOMAIN log)
    BY StreamTyped
  <2>6. f \in Seq(DOMAIN log)
    BY <2>5, OnlyKeeps
  <2>7. /\ Len(log) \in Nat /\ DOMAIN log = 1..Len(log)
    BY LenProperties DEF ChatTypeOK
  <2> HIDE DEF f, a, g, b, new
  <2>8. f \in Seq(Nat) /\ \A i \in DOMAIN f : f[i] \in 1..Len(log)
    <3>1. \A i \in 1..Len(f) : f[i] \in DOMAIN log
      BY <2>6, LenProperties
    <3>2. DOMAIN f = 1..Len(f)
      BY <2>6, LenProperties
    <3>3. DOMAIN log \subseteq Nat
      BY <2>7
    <3>4. f \in Seq(Nat)
      BY <2>6, <3>3, SeqMonotonic
    <3>5. QED
      BY <2>7, <3>1, <3>2, <3>4
  <2>9. \A i \in DOMAIN f, j \in DOMAIN new : f[i] < new[j]
    <3>1. \A j \in 1..Len(new) : new[j] \in Nat
      BY <2>4, LenProperties
    <3>2. DOMAIN new = 1..Len(new)
      BY <2>4, LenProperties
    <3>3. QED
      BY <2>4, <2>7, <2>8, <3>1, <3>2
  <2>10. Increasing(f \o new)
    BY <2>3, <2>4, <2>8, <2>9, IncreasingConcat
  <2>11. Increasing(g)
    BY <2>1, <2>3, <2>10
  <2>12. ~stopped_'[t] => g = b
    BY <2>1, <2>2, <2>3
  <2>13. QED
    BY <2>11, <2>12 DEF g, b
<1>3. \A t \in Sessions : HearsInOrder(t)'
  BY <1>2 DEF HearsInOrder
<1>4. QED
  BY <1>1, <1>3 DEF StreamInv

(* While nothing is said, what a session hears stays, or it has stopped    *)
(* and misses some.                                                        *)
LEMMA StreamQuiet ==
  ASSUME ChatTypeOK, StreamInv, log' = log, stopped_' = stopped_,
         \A t \in Sessions : WaitsForOthers(t)',
         \A t \in Sessions :
           \/ Stream(t)' = Stream(t)
           \/ /\ stopped_[t]
              /\ \E p, q, r \in Seq(DOMAIN log) : Stream(t) = p \o (q \o r) /\ Stream(t)' = p \o r
  PROVE  StreamInv'
<1>a. \A S : \A p, q \in Seq(Nat) : Only(p \o q, S) = Only(p, S) \o Only(q, S)
  BY OnlyConcat
<1>b. \A p, q \in Seq(Nat) : p \o q \in Seq(Nat)
  BY ConcatProperties
<1>c. \A S : \A p \in Seq(Nat) : Only(p, S) \in Seq(Nat)
  BY OnlyKeeps
<1>1. ASSUME NEW t \in Sessions, NEW u \in Sessions
      PROVE  /\ Increasing(Only(Stream(t), By(u)))'
             /\ ~stopped_'[t] =>
                  (Only(Stream(t), By(u)) = Among({i \in By(u) : t \in log[i].to}))'
  <2> DEFINE B == By(u)
             A == Among({i \in By(u) : t \in log[i].to})
  <2>1. By(u)' = B
    BY DEF By
  <2>2. Among({i \in By(u) : t \in log[i].to})' = A
    BY DEF Among, By
  <2>3. Increasing(Only(Stream(t), B)) /\ (~stopped_[t] => Only(Stream(t), B) = A)
    BY DEF StreamInv, HearsInOrder
  <2> HIDE DEF B, A
  <2>4. CASE Stream(t)' = Stream(t)
    BY <2>1, <2>2, <2>3, <2>4
  <2>5. CASE /\ stopped_[t]
             /\ \E p, q, r \in Seq(DOMAIN log) : Stream(t) = p \o (q \o r) /\ Stream(t)' = p \o r
    <3>1. PICK p \in Seq(DOMAIN log), q \in Seq(DOMAIN log), r \in Seq(DOMAIN log) :
            Stream(t) = p \o (q \o r) /\ Stream(t)' = p \o r
      BY <2>5
    <3>2. DOMAIN log \subseteq Nat
      BY LenProperties DEF ChatTypeOK
    <3>3. p \in Seq(Nat) /\ q \in Seq(Nat) /\ r \in Seq(Nat)
      BY <3>1, <3>2, SeqMonotonic
    <3>4. q \o r \in Seq(Nat)
      BY <1>b, <3>3
    <3>5. /\ Only(p \o (q \o r), B) = Only(p, B) \o Only(q \o r, B)
          /\ Only(q \o r, B) = Only(q, B) \o Only(r, B)
          /\ Only(p \o r, B) = Only(p, B) \o Only(r, B)
      <4>1. \A S : Only(p \o (q \o r), S) = Only(p, S) \o Only(q \o r, S)
        BY <1>a, <3>3, <3>4
      <4>2. \A S : Only(q \o r, S) = Only(q, S) \o Only(r, S)
        BY <1>a, <3>3
      <4>3. \A S : Only(p \o r, S) = Only(p, S) \o Only(r, S)
        BY <1>a, <3>3
      <4>4. QED
        BY <4>1, <4>2, <4>3
    <3>6. Only(p, B) \in Seq(Nat) /\ Only(q, B) \in Seq(Nat) /\ Only(r, B) \in Seq(Nat)
      BY <1>c, <3>3
    <3>7. Increasing(Only(p, B) \o (Only(q, B) \o Only(r, B)))
      BY <2>3, <3>1, <3>5
    <3>8. Increasing(Only(p, B) \o Only(r, B))
      BY <3>6, <3>7, IncreasingWithout
    <3>9. Increasing(Only(p \o r, B))
      BY <3>5, <3>8
    <3>10. QED
      BY <2>1, <2>5, <3>1, <3>9
  <2>6. QED
    BY <2>4, <2>5
<1>2. \A t \in Sessions : HearsInOrder(t)'
  BY <1>1 DEF HearsInOrder
<1>3. QED
  BY <1>2 DEF StreamInv

(* A handler that says nothing changes nothing of it, ...                  *)
LEMMA StreamWaits ==
  ASSUME ChatTypeOK, StreamInv, NEW s \in Sessions, NEW waiting, Left(s, waiting), strand' = waiting,
         UNCHANGED <<stopped_, pushed, log>>
  PROVE  StreamInv'
<1>1. waiting \in [Sessions -> Seq(Item)]
  BY LeftShifts
<1>2. ASSUME NEW t \in Sessions PROVE WaitsForOthers(t)'
  <2>1. PICK d \in {0, 1} : \A i \in DOMAIN waiting[t] :
          i + d \in DOMAIN strand[t] /\ waiting[t][i] = strand[t][i + d]
    BY LeftShifts
  <2>2. QED
    BY <2>1 DEF StreamInv, WaitsForOthers
<1>3. ASSUME NEW t \in Sessions PROVE Stream(t)' = Stream(t)
  <2>1. strand'[t] \in Seq(Item) /\ pushed'[t] = pushed[t] /\ Deliveries(strand'[t]) = Deliveries(strand[t])
    BY <1>1, LeftDeliveries
  <2>2. Stream(t)' = pushed'[t] \o Deliveries(strand'[t])
    BY <2>1, StreamNext
  <2>3. Stream(t) = pushed[t] \o Deliveries(strand[t])
    BY StreamTyped
  <2>4. QED
    BY <2>1, <2>2, <2>3
<1>4. QED
  BY <1>2, <1>3, StreamQuiet

(* ... nor does a request or an answer that waits behind the others, ...   *)
LEMMA StreamQueues ==
  ASSUME ChatTypeOK, StreamInv, NEW s \in Sessions, NEW h \in Item, h \notin Delivery,
         strand' = [strand EXCEPT ![s] = Append(@, h)], UNCHANGED <<stopped_, pushed, log>>
  PROVE  StreamInv'
<1>1. \A t \in Sessions : strand[t] \in Seq(Item)
  BY DEF ChatTypeOK
<1>2. /\ strand'[s] = Append(strand[s], h)
      /\ \A t \in Sessions : t # s => strand'[t] = strand[t]
  BY DEF ChatTypeOK
<1>3. /\ Append(strand[s], h) \in Seq(Item)
      /\ Deliveries(Append(strand[s], h)) = Deliveries(strand[s])
  <2>1. strand[s] \in Seq(Item)
    BY <1>1
  <2>2. Append(strand[s], h) \in Seq(Item)
    BY <2>1, AppendProperties
  <2>3. Deliveries(Append(strand[s], h)) = Deliveries(strand[s])
    BY <2>1, PickedAppend DEF Deliveries
  <2>4. QED
    BY <2>2, <2>3
<1>4. ASSUME NEW t \in Sessions PROVE WaitsForOthers(t)'
  <2>1. WaitsForOthers(t)
    BY DEF StreamInv
  <2>2. CASE t = s
    <3> DEFINE q == Append(strand[s], h)
    <3>1. /\ Len(q) = Len(strand[s]) + 1 /\ q \in Seq(Item)
          /\ \A i \in 1..Len(strand[s]) : q[i] = strand[s][i]
          /\ q[Len(strand[s]) + 1] = h
      BY <1>1, AppendProperties
    <3>2. /\ DOMAIN strand[s] = 1..Len(strand[s]) /\ Len(strand[s]) \in Nat /\ DOMAIN q = 1..Len(q)
      BY <1>1, <3>1, LenProperties
    <3> HIDE DEF q
    <3>3. \A i \in DOMAIN q : q[i] \in Delivery => i \in DOMAIN strand[s] /\ q[i] = strand[s][i]
      BY <3>1, <3>2
    <3>4. strand'[t] = q
      BY <1>2, <2>2 DEF q
    <3>5. QED
      BY <2>1, <2>2, <3>3, <3>4 DEF WaitsForOthers
  <2>3. CASE t # s
    BY <1>2, <2>1, <2>3 DEF WaitsForOthers
  <2>4. QED
    BY <2>2, <2>3
<1>5. ASSUME NEW t \in Sessions PROVE Stream(t)' = Stream(t)
  <2>1. strand'[t] \in Seq(Item) /\ pushed'[t] = pushed[t] /\ Deliveries(strand'[t]) = Deliveries(strand[t])
    <3>1. CASE t = s
      BY <1>2, <1>3, <3>1
    <3>2. CASE t # s
      BY <1>1, <1>2, <3>2
    <3>3. QED
      BY <3>1, <3>2
  <2>2. Stream(t)' = pushed'[t] \o Deliveries(strand'[t])
    BY <2>1, StreamNext
  <2>3. Stream(t) = pushed[t] \o Deliveries(strand[t])
    BY StreamTyped
  <2>4. QED
    BY <2>1, <2>2, <2>3
<1>6. QED
  BY <1>4, <1>5, StreamQuiet

(* ... nor does a delivery that is heard; one that is not, is missed.      *)
LEMMA StreamDelivers ==
  ASSUME ChatTypeOK, StreamInv, NEW s \in Sessions, Delivers(s)
  PROVE  StreamInv'
<1>a. \A Y : \A p, q \in Seq(Y), x \in Y : Append(p, x) \o q = p \o (<<x>> \o q)
  BY Shift
<1>b. \A q \in Seq(Item) : q # <<>> /\ Head(q) \in Delivery =>
        Deliveries(q) = <<EventOf[Head(q)]>> \o Deliveries(Tail(q))
  BY PickedFirst DEF Deliveries
<1>1. \A t \in Sessions : strand[t] \in Seq(Item) /\ pushed[t] \in Seq(DOMAIN log)
  BY DEF ChatTypeOK
<1> DEFINE first == Head(strand[s])
           rest == Tail(strand[s])
           e == first.event
<1>2. /\ strand[s] # <<>> /\ first \in Delivery
      /\ strand'[s] = rest
      /\ pushed'[s] = IF stopped_[s] THEN pushed[s] ELSE Append(pushed[s], e)
      /\ \A t \in Sessions : t # s => strand'[t] = strand[t] /\ pushed'[t] = pushed[t]
      /\ UNCHANGED <<stopped_, log>>
  BY DEF Delivers, ChatTypeOK
<1>3. /\ rest \in Seq(Item) /\ strand[s] \in Seq(Item) /\ Len(strand[s]) \in Nat \ {0}
      /\ DOMAIN strand[s] = 1..Len(strand[s]) /\ DOMAIN rest = 1..(Len(strand[s]) - 1)
      /\ \A i \in 1..(Len(strand[s]) - 1) : rest[i] = strand[s][i + 1]
      /\ first = strand[s][1]
  <2>1. strand[s] \in Seq(Item) /\ strand[s] # <<>>
    BY <1>1, <1>2
  <2>2. /\ rest \in Seq(Item) /\ Len(rest) = Len(strand[s]) - 1 /\ first = strand[s][1]
        /\ \A i \in 1..Len(rest) : rest[i] = strand[s][i + 1]
    BY <2>1, HeadTailProperties
  <2> HIDE DEF rest, first
  <2>3. Len(strand[s]) \in Nat \ {0} /\ DOMAIN strand[s] = 1..Len(strand[s]) /\ DOMAIN rest = 1..Len(rest)
    BY <2>1, <2>2, LenProperties, EmptySeq
  <2>4. QED
    BY <2>1, <2>2, <2>3
<1>4. ASSUME NEW t \in Sessions PROVE WaitsForOthers(t)'
  <2>1. WaitsForOthers(t)
    BY DEF StreamInv
  <2>2. CASE t = s
    <3> HIDE DEF rest
    <3>1. \A i \in DOMAIN rest : i + 1 \in DOMAIN strand[s] /\ rest[i] = strand[s][i + 1]
      BY <1>3
    <3>2. QED
      BY <1>2, <2>1, <2>2, <3>1 DEF WaitsForOthers
  <2>3. CASE t # s
    BY <1>2, <2>1, <2>3 DEF WaitsForOthers
  <2>4. QED
    BY <2>2, <2>3
<1>5. e \in DOMAIN log
  <2>1. 1 \in DOMAIN strand[s] /\ strand[s][1] \in Delivery
    <3> HIDE DEF first, rest
    <3>1. QED
      BY <1>2, <1>3
  <2>2. QED
    BY <1>3, <2>1 DEF StreamInv, WaitsForOthers
<1>6. Deliveries(strand[s]) = <<e>> \o Deliveries(rest)
  <2>1. EventOf[first] = e
    BY <1>2 DEF EventOf
  <2>2. Deliveries(strand[s]) = <<EventOf[first]>> \o Deliveries(rest)
    BY <1>2, <1>3, <1>b
  <2> HIDE DEF first, rest, e
  <2>3. QED
    BY <2>1, <2>2
<1> HIDE DEF first, rest, e
<1>7. Deliveries(rest) \in Seq(DOMAIN log)
  <2>1. WaitsForOthers(s)'
    BY <1>4
  <2>2. \A i \in DOMAIN rest : rest[i] \in Delivery => rest[i].event \in DOMAIN log
    BY <1>2, <2>1 DEF WaitsForOthers
  <2>3. QED
    BY <1>3, <2>2, DeliveriesAre
<1>8. ASSUME NEW t \in Sessions
      PROVE  \/ Stream(t)' = Stream(t)
             \/ /\ stopped_[t]
                /\ \E p, q, r \in Seq(DOMAIN log) : Stream(t) = p \o (q \o r) /\ Stream(t)' = p \o r
  <2>1. strand'[t] \in Seq(Item)
    BY <1>1, <1>2, <1>3
  <2>2. Stream(t)' = pushed'[t] \o Deliveries(strand'[t])
    BY <2>1, StreamNext
  <2>3. Stream(t) = pushed[t] \o Deliveries(strand[t])
    BY StreamTyped
  <2>4. CASE t # s
    BY <1>2, <2>2, <2>3, <2>4
  <2>5. CASE t = s /\ stopped_[s]
    <3>1. <<e>> \in Seq(DOMAIN log)
      BY <1>5
    <3>2. Stream(t) = pushed[s] \o (<<e>> \o Deliveries(rest))
      BY <1>6, <2>3, <2>5
    <3>3. Stream(t)' = pushed[s] \o Deliveries(rest)
      BY <1>2, <2>2, <2>5
    <3>4. pushed[s] \in Seq(DOMAIN log)
      BY <1>1
    <3>5. QED
      BY <1>7, <2>5, <3>1, <3>2, <3>3, <3>4
  <2>6. CASE t = s /\ ~stopped_[s]
    <3>1. Append(pushed[s], e) \o Deliveries(rest) = pushed[s] \o (<<e>> \o Deliveries(rest))
      BY <1>1, <1>5, <1>7, <1>a
    <3>2. QED
      BY <1>2, <1>6, <2>2, <2>3, <2>6, <3>1
  <2>7. QED
    BY <2>4, <2>5, <2>6
<1>9. QED
  BY <1>2, <1>4, <1>8, StreamQuiet

(* An answer is an event of its session, said of a question.               *)
LEMMA ReplyTyped ==
  ASSUME TypeInv, NEW s \in Sessions, NEW h \in Reply
  PROVE  ReplyTo(s, h) \in Event /\ ReplyTo(s, h).by = s
<1>1. h.room \in Rooms /\ h.question \in Nat
  BY DEF Reply
<1>2. room_members_[h.room] \in SUBSET Sessions
  BY <1>1 DEF TypeInv, ChatTypeOK, RoomTypeOK
<1>3. QED
  BY <1>1, <1>2 DEF ReplyTo, Event

(* A step of a session keeps what is heard in order.                       *)
LEMMA SessionStream ==
  ASSUME TypeInv, StreamInv, NEW s \in Sessions, SessionStep(s)
  PROVE  StreamInv'
<1>0. ChatTypeOK
  BY DEF TypeInv
<1>1. ASSUME NEW waiting, Left(s, waiting), Speaks(s, waiting),
             \A t \in Sessions : stopped_[t] => stopped_'[t]
      PROVE  StreamInv'
  <2>1. PICK events \in Seq(Remarks(s)) : Broadcast(s, events, waiting)
    BY <1>1 DEF Speaks
  <2>2. events \in Seq(Event) /\ \A k \in 1..Len(events) : events[k].by = s
    BY <2>1, RemarksAreEvents
  <2>3. QED
    BY <1>0, <1>1, <2>1, <2>2, StreamSpeech
<1>2. ASSUME NEW waiting, Left(s, waiting), Speaks(s, waiting), Stops(s)
      PROVE  StreamInv'
  <2>1. \A t \in Sessions : stopped_[t] => stopped_'[t]
    BY <1>0, <1>2 DEF Stops, ChatTypeOK
  <2>2. QED
    BY <1>1, <1>2, <2>1
<1>3. ASSUME NEW waiting, Left(s, waiting), Speaks(s, waiting), Ask(s, waiting)
      PROVE  StreamInv'
  <2>1. \A t \in Sessions : stopped_[t] => stopped_'[t]
    BY <1>3 DEF Ask
  <2>2. QED
    BY <1>1, <1>3, <2>1
<1>4. ASSUME NEW waiting, Left(s, waiting), strand' = waiting, UNCHANGED <<stopped_, pushed, log, tasks, recent>>
      PROVE  StreamInv'
  BY <1>0, <1>4, StreamWaits
<1>5. CASE Queues(s)
  <2>1. PICK q \in Requests : strand' = [strand EXCEPT ![s] = Append(@, q)]
    BY <1>5 DEF Queues
  <2>2. q \in Item /\ q \notin Delivery
    BY ItemKinds DEF Item
  <2>3. QED
    BY <1>0, <1>5, <2>1, <2>2, StreamQueues DEF Queues
<1>6. CASE Delivers(s)
  BY <1>0, <1>6, StreamDelivers
<1>7. CASE Replies(s)
  <2> DEFINE h == Head(strand[s])
             e == ReplyTo(s, h)
             waiting == [strand EXCEPT ![s] = Tail(@)]
  <2>1. /\ strand[s] # <<>> /\ h \in Reply /\ stopped_' = stopped_
        /\ Broadcast(s, <<>>, waiting) \/ Broadcast(s, <<e>>, waiting)
    BY <1>7 DEF Replies
  <2>2. e \in Event /\ e.by = s
    BY <2>1, ReplyTyped
  <2>3. h \in Item /\ h \notin Delivery
    BY <2>1, ItemKinds DEF Item
  <2>4. Left(s, waiting)
    BY <2>1, <2>3 DEF Left
  <2> HIDE DEF e, waiting
  <2>5. /\ <<>> \in Seq(Event) /\ \A k \in 1..Len(<<>>) : <<>>[k].by = s
        /\ <<e>> \in Seq(Event) /\ \A k \in 1..Len(<<e>>) : <<e>>[k].by = s
    BY <2>2
  <2>6. \A t \in Sessions : stopped_[t] => stopped_'[t]
    BY <2>1
  <2>7. CASE Broadcast(s, <<>>, waiting)
    BY <1>0, <2>4, <2>5, <2>6, <2>7, StreamSpeech
  <2>8. CASE Broadcast(s, <<e>>, waiting)
    BY <1>0, <2>4, <2>5, <2>6, <2>8, StreamSpeech
  <2>9. QED
    BY <2>1, <2>7, <2>8
<1>8. QED
  BY <1>2, <1>3, <1>4, <1>5, <1>6, <1>7 DEF SessionStep

-----------------------------------------------------------------------------
(***************************************************************************)
(* The invariant holds.                                                    *)
(***************************************************************************)

(* What a step of a session does to the questions and their answers.       *)
LEMMA SessionAgenda ==
  ASSUME TypeInv, TasksInv, PostedInv, AnsweredInv, HistoryInv, NEW s \in Sessions, SessionStep(s)
  PROVE  TasksInv' /\ PostedInv' /\ AnsweredInv' /\ HistoryInv'
<1>0. ChatTypeOK
  BY DEF TypeInv
<1>1. ASSUME NEW waiting, Left(s, waiting), Speaks(s, waiting), UNCHANGED <<tasks, recent>>
      PROVE  TasksInv' /\ PostedInv' /\ AnsweredInv' /\ HistoryInv'
  <2>1. Grows /\ NoAnswer /\ FewerReplies
    BY <1>0, <1>1, SpeechAnswersNothing
  <2>2. FewerTasks
    BY <1>1, TasksKept
  <2>3. QED
    BY <1>1, <2>1, <2>2, AgendaShrinks, HistoryKept
<1>2. ASSUME NEW waiting, Left(s, waiting), Speaks(s, waiting), Ask(s, waiting)
      PROVE  TasksInv' /\ PostedInv' /\ AnsweredInv' /\ HistoryInv'
  BY <1>0, <1>2, AgendaAsked, HistoryAsked
<1>3. ASSUME FewerReplies, UNCHANGED <<log, tasks, recent>>
      PROVE  TasksInv' /\ PostedInv' /\ AnsweredInv' /\ HistoryInv'
  <2>1. Grows /\ NoAnswer
    BY <1>0, <1>3, LogKept
  <2>2. FewerTasks
    BY <1>3, TasksKept
  <2>3. QED
    BY <1>3, <2>1, <2>2, AgendaShrinks, HistoryKept
<1>4. ASSUME NEW waiting, Left(s, waiting), strand' = waiting, UNCHANGED <<stopped_, pushed, log, tasks, recent>>
      PROVE  TasksInv' /\ PostedInv' /\ AnsweredInv' /\ HistoryInv'
  <2>1. FewerReplies
    BY <1>0, <1>4, WaitingAnswersNothing
  <2>2. QED
    BY <1>3, <1>4, <2>1
<1>5. CASE Queues(s)
  <2>1. FewerReplies
    BY <1>0, <1>5, QueueingAnswersNothing DEF Queues
  <2>2. QED
    BY <1>3, <1>5, <2>1 DEF Queues
<1>6. CASE Delivers(s)
  <2>1. FewerReplies
    BY <1>0, <1>6, PoppingAnswersNothing DEF Delivers
  <2>2. QED
    BY <1>3, <1>6, <2>1 DEF Delivers
<1>7. CASE Replies(s)
  <2>1. TasksInv' /\ PostedInv' /\ AnsweredInv'
    BY <1>0, <1>7, AgendaAnswered
  <2> DEFINE h == Head(strand[s])
             e == ReplyTo(s, h)
             waiting == [strand EXCEPT ![s] = Tail(@)]
  <2>2. /\ h \in Reply /\ UNCHANGED <<tasks, recent>>
        /\ Broadcast(s, <<>>, waiting) \/ Broadcast(s, <<e>>, waiting)
    BY <1>7 DEF Replies
  <2>3. e \in Event
    BY <2>2, ReplyTyped
  <2> HIDE DEF e, waiting
  <2>4. <<>> \in Seq(Event) /\ <<e>> \in Seq(Event)
    BY <2>3
  <2>5. Grows
    BY <1>0, <2>2, <2>4, BroadcastGrows
  <2>6. FewerTasks
    BY <2>2, TasksKept
  <2>7. HistoryInv'
    BY <2>2, <2>5, <2>6, HistoryKept
  <2>8. QED
    BY <2>1, <2>7
<1>8. QED
  BY <1>1, <1>2, <1>4, <1>5, <1>6, <1>7 DEF SessionStep

(* Answering a question keeps the form of the state.                       *)
LEMMA AnswerTyped ==
  ASSUME TypeInv, TasksInv, NEW i \in Working, Answer(i)
  PROVE  TypeInv'
<1>0. ChatTypeOK /\ RoomTypeOK /\ BotNamesReserved /\ NamedInRoom
  BY DEF TypeInv, ChatTypeOK
<1>1. /\ tasks[i] \in Task /\ tasks[i].room \in Enabled /\ RemoveAt(tasks, i) \in Seq(Task)
      /\ i \in 1..Len(tasks) /\ DOMAIN tasks = 1..Len(tasks)
  BY <1>0, TaskTyped
<1>2. /\ tasks[i].asker \in Sessions /\ tasks[i].question \in Nat \ {0} /\ tasks[i].room \in Rooms
      /\ tasks[i].question \in DOMAIN log
  BY <1>1 DEF Task, TasksInv, Asked
<1>3. UNCHANGED <<roomVars, stopped_, pushed, log, requests>>
  BY DEF Answer, MakeReply, FallBack, Post
<1>4. RoomTypeOK' /\ BotNamesReserved' /\ NamedInRoom'
  BY <1>0, <1>2, <1>3, RegistryKept
<1>5. CASE MakeReply(i)
  <2> DEFINE entry == [question |-> tasks[i].question, answer |-> TRUE]
  <2>1. entry \in Entry
    BY <1>2 DEF Entry
  <2>2. Remember(tasks[i].room, entry)
    BY <1>5 DEF MakeReply
  <2> HIDE DEF entry
  <2>3. recent' \in [Rooms -> Seq(Entry)]
    BY <1>0, <1>1, <2>1, <2>2, Remembered
  <2>4. tasks' \in Seq(Task)
    <3>1. CASE tasks' = RemoveAt(tasks, i)
      BY <1>1, <3>1
    <3>2. CASE tasks' = [tasks EXCEPT ![i].made = TRUE]
      <4>1. tasks \in Seq(Task)
        BY <1>0 DEF ChatTypeOK
      <4>2. [tasks[i] EXCEPT !.made = TRUE] \in Task
        BY <1>1 DEF Task
      <4>3. tasks' = [tasks EXCEPT ![i] = [tasks[i] EXCEPT !.made = TRUE]]
        BY <3>2
      <4>4. QED
        BY <1>1, <4>1, <4>2, <4>3, ExceptSeq
    <3>3. QED
      BY <1>5, <3>1, <3>2 DEF MakeReply
  <2>5. silent' \subseteq DOMAIN log
    BY <1>0, <1>2, <1>5 DEF MakeReply, ChatTypeOK
  <2>6. strand' = strand
    BY <1>5 DEF MakeReply
  <2>7. QED
    BY <1>0, <1>3, <1>4, <2>3, <2>4, <2>5, <2>6 DEF TypeInv, ChatTypeOK
<1>6. CASE Post(i)
  <2> DEFINE h == [do |-> "reply", room |-> tasks[i].room, question |-> tasks[i].question]
             a == tasks[i].asker
  <2>1. h \in Item
    BY <1>2 DEF Item, Reply
  <2>2. /\ strand' = [strand EXCEPT ![a] = Append(@, h)] \/ strand' = strand
        /\ tasks' = RemoveAt(tasks, i) /\ UNCHANGED <<recent, silent>>
    BY <1>6 DEF Post
  <2>3. strand \in [Sessions -> Seq(Item)]
    BY <1>0 DEF ChatTypeOK
  <2> HIDE DEF h, a
  <2>4. strand' \in [Sessions -> Seq(Item)]
    BY <2>1, <2>2, <2>3, AppendProperties
  <2>5. QED
    BY <1>0, <1>1, <1>3, <1>4, <2>2, <2>4 DEF TypeInv, ChatTypeOK
<1>7. QED
  BY <1>5, <1>6 DEF Answer, FallBack

(* A step of a business thread keeps the invariant.                        *)
LEMMA AnswerStep ==
  ASSUME ChatIInv, NEW i \in Working, Answer(i)
  PROVE  ChatIInv'
<1>0. /\ TypeInv /\ ChatTypeOK /\ TasksInv /\ PostedInv /\ AnsweredInv /\ HistoryInv /\ StreamInv
  BY DEF ChatIInv, TypeInv
<1>1. TypeInv'
  BY <1>0, AnswerTyped
<1>2. tasks[i].asker \in Sessions /\ tasks[i].room \in Rooms /\ tasks[i].question \in Nat \ {0}
  BY <1>0, TaskTyped DEF Task
<1>3. UNCHANGED <<stopped_, pushed, log>>
  BY DEF Answer, MakeReply, FallBack, Post
<1>4. Grows /\ NoAnswer
  BY <1>0, <1>3, LogKept
<1>5. strand' = strand => StreamInv'
  BY <1>0, <1>2, <1>3, StreamWaits DEF Left
<1>6. CASE MakeReply(i)
  <2>1. FewerTasks
    BY <1>0, <1>6, TasksMade, TasksRemoved DEF MakeReply
  <2>2. strand' = strand
    BY <1>6 DEF MakeReply
  <2>3. FewerReplies
    BY <1>0, <2>2, StrandsKept
  <2>4. TasksInv' /\ PostedInv' /\ AnsweredInv'
    BY <1>0, <1>4, <2>1, <2>3, AgendaShrinks
  <2>5. HistoryInv'
    BY <1>0, <1>6, HistoryAnswered
  <2>6. StreamInv'
    BY <1>5, <2>2
  <2>7. QED
    BY <1>1, <2>4, <2>5, <2>6 DEF ChatIInv
<1>7. CASE Post(i)
  <2>1. TasksInv' /\ PostedInv' /\ AnsweredInv'
    BY <1>0, <1>7, AgendaPosted
  <2>2. FewerTasks /\ recent' = recent
    BY <1>0, <1>7, TasksRemoved DEF Post
  <2>3. HistoryInv'
    BY <1>0, <1>4, <2>2, HistoryKept
  <2>4. StreamInv'
    <3> DEFINE h == [do |-> "reply", room |-> tasks[i].room, question |-> tasks[i].question]
               a == tasks[i].asker
    <3>1. h \in Item /\ h.do = "reply"
      BY <1>2 DEF Item, Reply
    <3>2. h \notin Delivery
      BY DEF Delivery
    <3>3. strand' = [strand EXCEPT ![a] = Append(@, h)] \/ strand' = strand
      BY <1>7 DEF Post
    <3> HIDE DEF h, a
    <3>4. CASE strand' = [strand EXCEPT ![a] = Append(@, h)]
      <4>1. a \in Sessions
        BY <1>2 DEF a
      <4>2. QED
        BY <1>0, <1>3, <3>1, <3>2, <3>4, <4>1, StreamQueues
    <3>5. QED
      BY <1>5, <3>3, <3>4
  <2>5. QED
    BY <1>1, <2>1, <2>3, <2>4 DEF ChatIInv
<1>8. QED
  BY <1>6, <1>7 DEF Answer, FallBack

(* The invariant holds at first.                                           *)
LEMMA InitChat == Init => ChatIInv
<1> SUFFICES ASSUME Init PROVE ChatIInv
  OBVIOUS
<1>1. /\ strand = [s \in Sessions |-> <<>>] /\ pushed = [s \in Sessions |-> <<>>]
      /\ log = <<>> /\ tasks = <<>> /\ recent = [r \in Rooms |-> <<>>]
      /\ silent = {} /\ requests = 0 /\ stopped_ = [s \in Sessions |-> FALSE]
  BY DEF Init
<1>2. DOMAIN <<>> = {} /\ \A X : <<>> \in Seq(X)
  BY EmptySeq
<1>3. RoomTypeOK /\ BotNamesReserved /\ NamedInRoom
  BY ChatRoomAssumption DEF Init, RoomInit, RoomTypeOK, BotNamesReserved, NamedInRoom
<1>4. TypeInv
  BY <1>1, <1>2, <1>3, RoomChatAssumption DEF TypeInv, ChatTypeOK
<1>5. TasksInv /\ PostedInv /\ AnsweredInv
  BY <1>1, <1>2 DEF TasksInv, PostedInv, AnsweredInv
<1>6. HistoryInv
  BY <1>1, <1>2 DEF HistoryInv, HistoryOrdered
<1>7. ASSUME NEW t \in Sessions PROVE WaitsForOthers(t) /\ HearsInOrder(t)
  <2>1. pushed[t] = <<>> /\ strand[t] = <<>> /\ strand[t] \in Seq(Item)
    BY <1>1, <1>2
  <2>2. Deliveries(<<>>) = <<>>
    BY <1>2, PickedValues DEF Deliveries
  <2>3. Deliveries(strand[t]) = LET waiting == Only(strand[t], Delivery) IN [i \in DOMAIN waiting |-> waiting[i].event]
    BY <2>1, DeliveriesAre
  <2>4. Stream(t) = <<>> \o <<>>
    BY <2>1, <2>2, <2>3 DEF Stream
  <2>5. <<>> \o <<>> = <<>>
    BY <1>2, ConcatEmptySeq
  <2>6. \A S : Only(<<>>, S) = <<>>
    BY OnlyEmpty
  <2>7. [i \in DOMAIN log |-> i] = <<>>
    BY <1>1, <1>2
  <2>8. \A S : Among(S) = <<>>
    BY <2>6, <2>7 DEF Among
  <2>9. \A s : Only(Stream(t), By(s)) = <<>>
    BY <2>4, <2>5, <2>6
  <2>10. HearsInOrder(t)
    BY <1>2, <2>8, <2>9 DEF HearsInOrder, Increasing
  <2>11. WaitsForOthers(t)
    BY <1>2, <2>1 DEF WaitsForOthers
  <2>12. QED
    BY <2>10, <2>11
<1>8. QED
  BY <1>4, <1>5, <1>6, <1>7 DEF ChatIInv, StreamInv

(* Every step keeps it.                                                    *)
LEMMA StepChat == ChatIInv /\ [Next]_vars => ChatIInv'
<1> SUFFICES ASSUME ChatIInv, [Next]_vars PROVE ChatIInv'
  OBVIOUS
<1>0. /\ TypeInv /\ ChatTypeOK /\ TasksInv /\ PostedInv /\ AnsweredInv /\ HistoryInv /\ StreamInv
      /\ requests \in 0..MaxRequests
  BY DEF ChatIInv, TypeInv, ChatTypeOK
<1>1. ASSUME NEW s \in Sessions, SessionStep(s), RoomTypeOK' /\ BotNamesReserved' /\ NamedInRoom',
             requests' \in 0..MaxRequests
      PROVE  ChatIInv'
  <2>1. TypeInv'
    BY <1>0, <1>1, SessionTyped DEF TypeInv
  <2>2. TasksInv' /\ PostedInv' /\ AnsweredInv' /\ HistoryInv'
    BY <1>0, <1>1, SessionAgenda
  <2>3. StreamInv'
    BY <1>0, <1>1, SessionStream
  <2>4. QED
    BY <2>1, <2>2, <2>3 DEF ChatIInv
<1>2. ASSUME NEW s \in Sessions, Run(s) PROVE ChatIInv'
  <2>1. RoomTypeOK' /\ BotNamesReserved' /\ NamedInRoom' /\ requests' = requests /\ SessionStep(s)
    BY <1>0, <1>2, RunStep
  <2>2. QED
    BY <1>0, <1>1, <2>1
<1>3. ASSUME NEW s \in Sessions, NEW q \in Requests, Receive(s, q) PROVE ChatIInv'
  <2>1. RoomTypeOK' /\ BotNamesReserved' /\ NamedInRoom' /\ requests' \in 0..MaxRequests /\ SessionStep(s)
    BY <1>0, <1>3, ReceiveStep
  <2>2. QED
    BY <1>1, <2>1
<1>4. ASSUME NEW i \in Working, Answer(i) PROVE ChatIInv'
  BY <1>4, AnswerStep
<1>5. CASE UNCHANGED vars
  <2>1. UNCHANGED <<roomVars, stopped_, strand, pushed, log, tasks, recent, silent, requests>>
    BY <1>5 DEF vars, chatVars
  <2>2. ChatTypeOK' /\ BotNamesReserved' /\ NamedInRoom'
    BY <1>0, <2>1 DEF TypeInv, ChatTypeOK, roomVars, RoomTypeOK, BotNamesReserved, NamedInRoom
  <2>3. TasksInv' /\ PostedInv' /\ AnsweredInv'
    BY <1>0, <2>1 DEF TasksInv, PostedInv, AnsweredInv, Asked
  <2>4. HistoryInv'
    BY <1>0, <2>1 DEF HistoryInv, HistoryOrdered, Kept, Agent
  <2>5. StreamInv'
    <3>1. \A t \in Sessions : WaitsForOthers(t)'
      BY <1>0, <2>1 DEF StreamInv, WaitsForOthers
    <3>2. \A t \in Sessions : Stream(t)' = Stream(t)
      BY <2>1 DEF Stream
    <3>3. QED
      BY <1>0, <2>1, <3>1, <3>2, StreamQuiet
  <2>6. QED
    BY <2>2, <2>3, <2>4, <2>5 DEF ChatIInv, TypeInv
<1>6. QED
  BY <1>2, <1>3, <1>4, <1>5 DEF Next

(* The inductive invariant holds always.                                   *)
LEMMA AlwaysChat == Spec => []ChatIInv
BY InitChat, StepChat, PTL DEF Spec

(* Whatever waits on the strands, each member hears what each other one    *)
(* causes to be said and fits in a frame - all of it, once and in the      *)
(* order it was said.                                                      *)
THEOREM SenderOrderHolds == Spec => []SenderOrder
<1>1. ChatIInv => SenderOrder
  <2> SUFFICES ASSUME ChatIInv, NEW t \in Sessions, NEW s \in Sessions, ~stopped_[t]
               PROVE  LET H == Fitting \cap SaidBy(s)
                      IN  Only(Stream(t), H) = Among({i \in H : t \in log[i].to})
    BY DEF SenderOrder
  <2>1. ChatTypeOK /\ StreamInv
    BY DEF ChatIInv, TypeInv
  <2>2. Stream(t) \in Seq(DOMAIN log)
    BY <2>1, StreamTyped
  <2> DEFINE ids == [i \in DOMAIN log |-> i]
             B == {i \in By(s) : t \in log[i].to}
             H == Fitting \cap SaidBy(s)
             C == {i \in H : t \in log[i].to}
  <2>3. H \subseteq By(s) /\ C = B \cap H
    BY DEF SaidBy, By
  <2>4. Only(Only(Stream(t), By(s)), H) = Only(Stream(t), H)
    BY <2>2, <2>3, OnlyFiner
  <2>5. Only(Stream(t), By(s)) = Only(ids, B)
    BY <2>1 DEF StreamInv, HearsInOrder, Among
  <2>6. ids \in Seq(Nat)
    <3> DEFINE n == Len(log)
    <3>1. n \in Nat /\ DOMAIN log = 1..n
      BY <2>1, LenProperties DEF ChatTypeOK
    <3> HIDE DEF n
    <3>2. [i \in 1..n |-> i] \in Seq(Nat)
      BY <3>1
    <3>3. QED
      BY <3>1, <3>2
  <2>7. Among(C) = Only(ids, C)
    BY DEF Among
  <2> HIDE DEF ids, B, C, H
  <2>8. Only(Only(ids, B), H) = Only(ids, B \cap H)
    BY <2>6, OnlyBoth
  <2>9. QED
    BY <2>3, <2>4, <2>5, <2>7, <2>8 DEF C, H
<1>2. QED
  BY <1>1, AlwaysChat, PTL

(* Nobody hears an answer before its question, and no question is answered *)
(* twice, however late the answers and by whichever threads.               *)
THEOREM QuestionBeforeAnswerHolds == Spec => []QuestionBeforeAnswer
<1>1. ChatIInv => QuestionBeforeAnswer
  <2> SUFFICES ASSUME ChatIInv PROVE QuestionBeforeAnswer
    OBVIOUS
  <2>1. ChatTypeOK /\ StreamInv /\ AnsweredInv
    BY DEF ChatIInv, TypeInv
  <2>2. /\ log \in Seq(Event) /\ DOMAIN log \subseteq Nat \ {0}
        /\ \A i \in DOMAIN log : log[i].by \in Sessions
    <3>1. log \in Seq(Event)
      BY <2>1 DEF ChatTypeOK
    <3>2. \A i \in 1..Len(log) : log[i] \in Event
      BY <3>1, LenProperties
    <3>3. DOMAIN log = 1..Len(log) /\ Len(log) \in Nat
      BY <3>1, LenProperties
    <3>4. QED
      BY <3>1, <3>2, <3>3 DEF Event
  <2>3. ASSUME NEW t \in Sessions, NEW i \in DOMAIN Stream(t), NEW j \in DOMAIN Stream(t), i < j,
               Stream(t)[j] = log[Stream(t)[i]].question
        PROVE  FALSE
    <3> DEFINE a == Stream(t)[i]
               q == Stream(t)[j]
               s == log[a].by
               F == Only(Stream(t), By(s))
    <3>1. Stream(t) \in Seq(DOMAIN log)
      BY <2>1, StreamTyped
    <3>2. a \in DOMAIN log /\ q \in DOMAIN log
      BY <3>1, LenProperties
    <3>3. q = log[a].question /\ q # 0
      BY <2>2, <2>3, <3>2
    <3>4. q < a /\ log[q].by = s
      BY <2>1, <3>2, <3>3 DEF AnsweredInv, Asked
    <3>5. a \in By(s) /\ q \in By(s) /\ s \in Sessions
      BY <2>2, <3>2, <3>4 DEF By
    <3>6. PICK k \in DOMAIN F, l \in DOMAIN F : k < l /\ F[k] = a /\ F[l] = q
      BY <2>3, <3>1, <3>5, OnlyOrder
    <3>7. Increasing(F)
      BY <2>1, <3>5 DEF StreamInv, HearsInOrder
    <3> HIDE DEF F
    <3>8. a < q
      BY <3>6, <3>7 DEF Increasing
    <3>9. a \in Nat /\ q \in Nat
      BY <2>2, <3>2
    <3> HIDE DEF a, q
    <3>10. QED
      BY <3>4, <3>8, <3>9
  <2>4. \A i, j \in DOMAIN log : log[i].question = log[j].question /\ i # j => log[i].question = 0
    BY <2>1 DEF AnsweredInv
  <2>5. QED
    BY <2>3, <2>4 DEF QuestionBeforeAnswer
<1>2. QED
  BY <1>1, AlwaysChat, PTL

(* An agent is given the questions of its own room and the answers to      *)
(* them, an answer after its question, and no more than configured.        *)
THEOREM HistoryOrderedHolds == Spec => []HistoryOrdered
<1>1. ChatIInv => HistoryOrdered
  BY DEF ChatIInv, HistoryInv
<1>2. QED
  BY <1>1, AlwaysChat, PTL

(* Unless the file names a default agent without a name, no user passes    *)
(* for an agent, whatever the order of logins, moves and questions; and    *)
(* the state keeps its form.                                               *)
THEOREM RoomChatInvHolds ==
  ASSUME \A r \in Rooms : Agent[r] # Nothing => r \in DOMAIN room_ai_agents(File) \/ Named(File)
  PROVE  Spec => []RoomChatInv
<1>1. \A r \in Rooms : Agent[r] # Nothing => Agent[r].bot_name \in BotNames
  <2> SUFFICES ASSUME NEW r \in Rooms, Agent[r] # Nothing PROVE Agent[r].bot_name \in BotNames
    OBVIOUS
  <2>1. Agent[r] = ensure_room_state_(File, r)
    BY DEF Agent
  <2>2. ensure_room_state_(File, r).bot_name \in configured_ai_bot_names_(File)
    BY <2>1, FileTyped, AgentsAgree
  <2>3. QED
    BY <2>1, <2>2, RoomChatAssumption
<1>2. ChatIInv => RoomChatInv
  BY <1>1 DEF ChatIInv, TypeInv, RoomChatInv, BotNamesReserved
<1>3. QED
  BY <1>2, AlwaysChat, PTL
=============================================================================
