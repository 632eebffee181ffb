-------------------------- MODULE ChatServerProofs --------------------------
(***************************************************************************)
(* The registry of ChatRoom by itself, and then the server's sessions,     *)
(* registry, status store, task queue, business threads and offline store  *)
(* together, for any number of sessions, users, messages and threads.      *)
(*                                                                         *)
(* ServerIInv is inductive and has four parts.  Consistent: sessions,      *)
(* registry and status store say the same (with RegistryInv, by which a    *)
(* session is told apart by its name).  StoreInv: what a call of the store *)
(* has read is, but for clashes, what the store holds or has just lost to  *)
(* that call.  MailInv: every task and message of a session that is not    *)
(* stopped is for the user it logged in as.  PlaceInv: there is a function *)
(* from the messages no two calls have clashed over to the one place each  *)
(* of them is in, and no place has one twice.                              *)
(*                                                                         *)
(* The refinement rests on the places: what PrivateMessaging holds is what *)
(* was neither given up nor delivered, and a step of the server takes at   *)
(* most one message out of that, or gives up what clashes.                 *)
(*                                                                         *)
(* FetchInv holds beside it for any number of threads: a message in the    *)
(* store for a connected user has a load behind it, unless a load has      *)
(* missed it or it clashed.  Solo and OrderInv hold while the pool has one *)
(* thread: no call of the store comes into another's, and what was queued  *)
(* for a session passes through the store, the thread's hands, the strand  *)
(* and the write queue in one line that grows.                             *)
(***************************************************************************)
EXTENDS ChatServer, SequenceLemmas

-----------------------------------------------------------------------------
(***************************************************************************)
(* The registry keeps its five maps consistent, for any number of          *)
(* sessions, names and rooms.  The invariant RegistryInv is inductive: no  *)
(* conjunct is on its own.  login() keeps names apart only because a free  *)
(* name in name_index_ is a name no session has (NameIndexExact), and the  *)
(* session that logs in has no old name and no old room only because       *)
(* sessions_, names_ and session_rooms_ agree (SameSessions).              *)
(***************************************************************************)

(* An empty registry is consistent.                                        *)
LEMMA InitConsistent == RoomInit => RegistryInv
<1> SUFFICES ASSUME RoomInit PROVE RegistryInv
  OBVIOUS
<1> USE ChatRoomAssumption DEF RoomInit
<1>1. RoomTypeOK
  BY DEF RoomTypeOK
<1>2. NameIndexExact
  BY DEF NameIndexExact
<1>3. MembershipExact
  BY DEF MembershipExact
<1>4. SameSessions
  BY DEF SameSessions
<1>5. BotNamesReserved
  BY DEF BotNamesReserved
<1>6. QED
  BY <1>1, <1>2, <1>3, <1>4, <1>5 DEF RegistryInv

(* Register() of a session without an entry under a free name, as login()  *)
(* calls it, keeps the registry consistent.                                *)
LEMMA RegisterConsistent ==
  ASSUME RegistryInv, NEW s \in Sessions, s \notin sessions_,
         NEW n \in Names, ~Taken(n), Register(s, n)
  PROVE  RegistryInv'
<1> USE ChatRoomAssumption DEF RegistryInv, Register, RoomTypeOK
<1>1. names_[s] = None /\ session_rooms_[s] = None
  BY DEF SameSessions
<1>2. name_index_[n] = None /\ n \notin BotNames
  BY DEF Taken
<1>3. RoomTypeOK'
  OBVIOUS
<1>4. NameIndexExact'
  <2> SUFFICES ASSUME NEW t \in Sessions, NEW m \in Names
               PROVE  names_'[t] = m <=> name_index_'[m] = t
    BY DEF NameIndexExact
  <2>1. names_[t] = m <=> name_index_[m] = t
    BY DEF NameIndexExact
  <2>2. CASE t = s
    BY <1>1, <2>1, <2>2
  <2>3. CASE t # s
    BY <1>2, <2>1, <2>3
  <2>4. QED
    BY <2>2, <2>3
<1>5. MembershipExact'
  BY <1>1 DEF MembershipExact
<1>6. SameSessions'
  BY DEF SameSessions
<1>7. BotNamesReserved'
  BY <1>2 DEF BotNamesReserved
<1>8. QED
  BY <1>3, <1>4, <1>5, <1>6, <1>7

(* login() keeps the registry consistent.                                  *)
LEMMA LoginConsistent ==
  ASSUME RegistryInv, NEW s \in Sessions, s \notin sessions_, NEW u \in Users, login(s, u)
  PROVE  RegistryInv'
<1>1. PICK k \in 1..MaxSuffix : FirstFree(u, k) /\ Register(s, Candidate[u][k])
  BY DEF login
<1>2. Candidate[u][k] \in Names
  BY ChatRoomAssumption
<1>3. ~Taken(Candidate[u][k])
  BY <1>1 DEF FirstFree
<1>4. QED
  BY <1>1, <1>2, <1>3, RegisterConsistent

(* change_room() moves a session from one member set to another.           *)
LEMMA ChangeRoomConsistent ==
  ASSUME RegistryInv, NEW s \in Sessions, NEW r \in Rooms, change_room(s, r)
  PROVE  RegistryInv'
<1> USE ChatRoomAssumption DEF RegistryInv, change_room, RoomTypeOK
<1>1. RoomTypeOK'
  OBVIOUS
<1>2. NameIndexExact'
  BY DEF NameIndexExact
<1>3. MembershipExact'
  BY DEF MembershipExact
<1>4. SameSessions'
  BY DEF SameSessions
<1>5. BotNamesReserved'
  BY DEF BotNamesReserved
<1>6. QED
  BY <1>1, <1>2, <1>3, <1>4, <1>5

(* leave() removes every trace of a session, and nothing of another.       *)
LEMMA LeaveConsistent ==
  ASSUME RegistryInv, NEW s \in Sessions, leave(s)
  PROVE  RegistryInv'
<1> USE ChatRoomAssumption DEF RegistryInv, leave, RoomTypeOK
<1>1. RoomTypeOK'
  OBVIOUS
<1>2. NameIndexExact'
  BY DEF NameIndexExact
<1>3. MembershipExact'
  BY DEF MembershipExact
<1>4. SameSessions'
  BY DEF SameSessions
<1>5. BotNamesReserved'
  BY DEF BotNamesReserved
<1>6. QED
  BY <1>1, <1>2, <1>3, <1>4, <1>5

(* A step of the registry keeps it consistent.                             *)
LEMMA StepConsistent == RegistryInv /\ [RoomNext]_roomVars => RegistryInv'
<1> SUFFICES ASSUME RegistryInv, [RoomNext]_roomVars PROVE RegistryInv'
  OBVIOUS
<1>1. ASSUME NEW s \in Sessions, NEW u \in Users, s \notin sessions_, login(s, u)
      PROVE  RegistryInv'
  BY <1>1, LoginConsistent
<1>2. ASSUME NEW s \in Sessions, NEW r \in Rooms, change_room(s, r)
      PROVE  RegistryInv'
  BY <1>2, ChangeRoomConsistent
<1>3. ASSUME NEW s \in Sessions, leave(s)
      PROVE  RegistryInv'
  BY <1>3, LeaveConsistent
<1>4. CASE UNCHANGED roomVars
  BY <1>4 DEF RegistryInv, roomVars, RoomTypeOK, NameIndexExact, MembershipExact, SameSessions,
              BotNamesReserved
<1>5. QED
  BY <1>1, <1>2, <1>3, <1>4 DEF RoomNext

(* The registry is consistent in every state it reaches.                   *)
THEOREM RegistryConsistent == RoomSpec => []RegistryInv
<1>1. QED
  BY InitConsistent, StepConsistent, PTL DEF RoomSpec

(* Every variable of the registry keeps its type.                          *)
THEOREM RegistryTyped == RoomSpec => []RoomTypeOK
<1>1. RegistryInv => RoomTypeOK
  BY DEF RegistryInv
<1>2. QED
  BY <1>1, RegistryConsistent, PTL

(* Names and the name index stay inverse to each other: login() never      *)
(* gives one name to two sessions, and leave() frees it.                   *)
THEOREM NamesUnique == RoomSpec => []NameIndexExact
<1>1. RegistryInv => NameIndexExact
  BY DEF RegistryInv
<1>2. QED
  BY <1>1, RegistryConsistent, PTL

(* Each session stays a member of its own room and of no other.            *)
THEOREM MembersExact == RoomSpec => []MembershipExact
<1>1. RegistryInv => MembershipExact
  BY DEF RegistryInv
<1>2. QED
  BY <1>1, RegistryConsistent, PTL

(* The maps stay defined on the same sessions.                             *)
THEOREM MapsAgree == RoomSpec => []SameSessions
<1>1. RegistryInv => SameSessions
  BY DEF RegistryInv
<1>2. QED
  BY <1>1, RegistryConsistent, PTL

(* No session is ever called like a configured AI agent.                   *)
THEOREM BotsReserved == RoomSpec => []BotNamesReserved
<1>1. RegistryInv => BotNamesReserved
  BY DEF RegistryInv
<1>2. QED
  BY <1>1, RegistryConsistent, PTL

-----------------------------------------------------------------------------
(* No more names are taken than there are sessions and bots: each taken    *)
(* name that no bot reserves is held by a session of its own.              *)
LEMMA FewTaken ==
  ASSUME RegistryInv
  PROVE  /\ IsFiniteSet({n \in Names : Taken(n)})
         /\ Cardinality({n \in Names : Taken(n)}) <= Cardinality(Sessions) + Cardinality(BotNames)
<1> DEFINE Given == {n \in Names : name_index_[n] # None}
<1>1. IsFiniteSet(Given) /\ Cardinality(Given) <= Cardinality(Sessions)
  <2> DEFINE f == [n \in Given |-> name_index_[n]]
  <2>1. f \in [Given -> Sessions]
    BY DEF RegistryInv, RoomTypeOK
  <2>2. ASSUME NEW m \in Given, NEW n \in Given, f[m] = f[n] PROVE m = n
    BY <2>1, <2>2 DEF RegistryInv, NameIndexExact
  <2>3. f \in Injection(Given, Sessions)
    BY <2>1, <2>2 DEF Injection, IsInjective
  <2>4. QED
    BY <2>3, FS_Injection, CandidatesSuffice
<1>2. {n \in Names : Taken(n)} = Given \cup BotNames
  BY ChatRoomAssumption DEF Taken
<1>3. Cardinality(Given) \in Nat /\ Cardinality(Sessions) \in Nat /\ Cardinality(BotNames) \in Nat
  BY <1>1, CandidatesSuffice, FS_CardinalityType
<1>4. /\ IsFiniteSet(Given \cup BotNames)
      /\ Cardinality(Given \cup BotNames) <= Cardinality(Given) + Cardinality(BotNames)
  <2>1. IsFiniteSet(Given \cap BotNames) /\ Cardinality(Given \cap BotNames) \in Nat
    BY <1>1, FS_Intersection, FS_CardinalityType
  <2>2. QED
    BY <1>1, <1>3, <2>1, CandidatesSuffice, FS_Union
<1> HIDE DEF Given
<1>5. Cardinality(Given \cup BotNames) \in Nat
  BY <1>4, FS_CardinalityType
<1>6. QED
  BY <1>1, <1>2, <1>3, <1>4, <1>5

(* So a name login() tries is free, and the first such ends its loop.      *)
LEMMA SomeNameIsFree ==
  ASSUME RegistryInv, NEW u \in Users
  PROVE  \E k \in 1..MaxSuffix : FirstFree(u, k)
<1> DEFINE T == {n \in Names : Taken(n)}
           Free == {k \in 1..MaxSuffix : ~Taken(Candidate[u][k])}
<1>1. Free # {}
  <2> SUFFICES ASSUME \A k \in 1..MaxSuffix : Candidate[u][k] \in T PROVE FALSE
    BY ChatRoomAssumption
  <2>1. Candidate[u] \in Injection(1..MaxSuffix, T)
    BY ChatRoomAssumption, CandidatesSuffice DEF Injection, IsInjective
  <2>2. Cardinality(1..MaxSuffix) = MaxSuffix /\ MaxSuffix \in Nat
    BY ChatRoomAssumption, FS_Interval
  <2>3. IsFiniteSet(T) /\ Cardinality(T) <= Cardinality(Sessions) + Cardinality(BotNames)
    BY FewTaken
  <2>4. Cardinality(1..MaxSuffix) <= Cardinality(T)
    BY <2>1, <2>3, FS_Injection
  <2>5. Cardinality(T) \in Nat /\ Cardinality(Sessions) \in Nat /\ Cardinality(BotNames) \in Nat
    BY <2>3, CandidatesSuffice, FS_CardinalityType
  <2>6. QED
    BY <2>2, <2>3, <2>4, <2>5, CandidatesSuffice
<1>2. PICK k \in Free : \A j \in Free : k <= j
  <2>1. Free \in SUBSET Nat
    BY ChatRoomAssumption
  <2> HIDE DEF Free
  <2>2. QED
    BY <1>1, <2>1, LeastElement
<1>3. \A j \in 1..(k - 1) : j \in 1..MaxSuffix /\ j \notin Free
  BY <1>2, ChatRoomAssumption
<1>4. QED
  BY <1>3 DEF FirstFree

(* login() always finds a name: its loop ends whoever is logged in, for    *)
(* any number of sessions and bots.                                        *)
THEOREM LoginTerminates == RoomSpec => []LoginLoopEnds
<1>1. RegistryInv => LoginLoopEnds
  BY SomeNameIsFree DEF LoginLoopEnds
<1>2. QED
  BY <1>1, RegistryConsistent, PTL

-----------------------------------------------------------------------------
(* login() gives the session a free name and puts it in the lobby.         *)
LEMMA LoginRegisters ==
  ASSUME NEW s \in Sessions, NEW u \in Users, login(s, u)
  PROVE  \E n \in Names : ~Taken(n) /\ Register(s, n)
<1>1. PICK k \in 1..MaxSuffix : FirstFree(u, k) /\ Register(s, Candidate[u][k])
  BY DEF login
<1>2. Candidate[u][k] \in Names
  BY ChatRoomAssumption
<1>3. QED
  BY <1>1, <1>2 DEF FirstFree

(* What a handler may do to the registry is what RoomNext allows, or a     *)
(* restart.                                                                *)
RegistryStep == [RoomNext \/ RoomInit']_roomVars

(* The guards of the handlers keep to what RoomNext allows: in particular  *)
(* ~logged_in_ in Login is the guard s \notin sessions_ that RoomNext has. *)
LEMMA StepOfRegistry ==
  ASSUME RegistryMatchesSession, Next
  PROVE  RegistryStep
<1> USE DEF RegistryStep
<1>1. ASSUME NEW s \in Sessions, Client(s) PROVE RegistryStep
  <2>1. ASSUME NEW u \in Users, Login(s, u) PROVE RegistryStep
    <3>1. s \notin sessions_
      BY <2>1 DEF Login, RegistryMatchesSession
    <3>2. QED
      BY <2>1, <3>1 DEF Login, RoomNext
  <2>2. ASSUME NEW r \in Rooms, JoinRoom(s, r) PROVE RegistryStep
    BY <2>2 DEF JoinRoom, RoomNext
  <2>3. CASE CloseFromReader(s) \/ CloseFromWriter(s)
    BY <2>3 DEF CloseFromReader, CloseFromWriter, close_session, RoomNext
  <2>4. CASE Accept(s) \/ Heartbeat(s)
    BY <2>4 DEF Accept, Heartbeat
  <2>5. ASSUME NEW u \in Users, RegisterUser(s, u) \/ PrivateMessage(s, u) PROVE RegistryStep
    BY <2>5 DEF RegisterUser, PrivateMessage
  <2>6. QED
    BY <1>1, <2>1, <2>2, <2>3, <2>4, <2>5 DEF Client
<1>2. ASSUME NEW s \in Sessions, RunPosted(s) PROVE RegistryStep
  BY <1>2 DEF RunPosted
<1>3. ASSUME NEW w \in Workers, Worker(w) \/ StoreThrows(w) PROVE RegistryStep
  BY <1>3 DEF Worker, StoreThrows, PopTask, SaveMessage, TakeMessages, SendTaken, SaveThrows,
              TakeThrows, ReadFile, OpenTruncated, SelectMessages, WorkerFrame
<1>4. CASE Terminate
  BY <1>4 DEF Terminate, RoomInit
<1>5. QED
  BY <1>1, <1>2, <1>3, <1>4 DEF Next

(* A restart begins with an empty registry.                                *)
LEMMA RestartConsistent == RoomInit' => RegistryInv'
<1>1. QED
  BY InitConsistent, PTL

(* So a step of the server keeps the registry consistent.                  *)
LEMMA RegistryKept ==
  ASSUME RegistryInv, RegistryMatchesSession, [Next]_serverVars
  PROVE  RegistryStep /\ RegistryInv'
<1>1. RegistryStep
  BY StepOfRegistry DEF RegistryStep, serverVars, roomVars
<1>2. QED
  BY <1>1, StepConsistent, RestartConsistent DEF RegistryStep

-----------------------------------------------------------------------------
(* A worker that sends has something to send.                              *)
SendsSome == \A w \in Workers : Runs(w, "send") => running[w].msgs # <<>>

Typed == TypeOK /\ SendsSome

Task == SaveTask \cup LoadTask

(* What is taken from the store, and what is left there, is made of        *)
(* messages.                                                               *)
LEMMA PartsTyped ==
  ASSUME NEW msgs \in Seq(Msg), NEW n
  PROVE  /\ For(msgs, n) \in Seq(Msg) /\ Range(For(msgs, n)) \subseteq Msg
         /\ NotFor(msgs, n) \in Seq(Msg)
  BY OnlyKeeps, RangeOfSeq DEF For, NotFor

(* So is what calls of the store endanger, or overlook.                    *)
LEMMA SetsTyped ==
  ASSUME TypeOK, NEW w \in Workers
  PROVE  Caught(w) \subseteq Msg /\ Missed(w) \subseteq Msg /\ Saving(w) \subseteq Msg
<1>1. \A v \in Workers : Range(memory[v]) \subseteq Msg
  BY RangeOfSeq DEF TypeOK
<1>2. Range(stored) \subseteq Msg
  BY RangeOfSeq DEF TypeOK
<1>3. \A v \in Workers : Saving(v) \subseteq Msg
  BY DEF TypeOK, Saving, Runs, SaveTask, LoadTask, SendTask
<1>4. DOMAIN log \subseteq Msg
  BY LenProperties, ChatServerAssumption DEF TypeOK, Msg
<1>5. QED
  BY <1>1, <1>2, <1>3, <1>4 DEF Caught, Missed, UnderWay

(* deliver() keeps the types of what it writes.                            *)
LEMMA DeliverTyped ==
  ASSUME TypeOK, NEW t \in Sessions, NEW m \in Msg, DeliverNow(t, m)
  PROVE  outbox' \in [Sessions -> Seq(Msg)] /\ dropped' \in SUBSET Msg
<1>1. Append(outbox[t], m) \in Seq(Msg)
  BY AppendRange DEF TypeOK
<1>2. QED
  BY <1>1 DEF TypeOK, DeliverNow

(* A completion handler of a session keeps every type.                     *)
LEMMA ClientTyped ==
  ASSUME Typed, RegistryInv, RegistryMatchesSession, RoomTypeOK', NEW s \in Sessions, Client(s)
  PROVE  Typed'
<1> USE ChatRoomAssumption, ChatServerAssumption
<1>t. TypeOK /\ SendsSome /\ RoomTypeOK
  BY DEF Typed, TypeOK
<1>1. CASE Accept(s)
  <2>1. TypeOK'
    BY <1>1, <1>t DEF Accept, TypeOK, loginVars, mailVars, storeVars, poolVars
  <2>2. SendsSome'
    BY <1>1, <1>t DEF Accept, poolVars, SendsSome, Runs
  <2>3. QED
    BY <2>1, <2>2 DEF Typed
<1>2. ASSUME NEW u \in Users, RegisterUser(s, u) PROVE Typed'
  <2>1. TypeOK'
    BY <1>2, <1>t DEF RegisterUser, Frame, insert_user, TypeOK, loginVars, mailVars, storeVars, poolVars
  <2>2. SendsSome'
    BY <1>2, <1>t DEF RegisterUser, poolVars, SendsSome, Runs
  <2>3. QED
    BY <2>1, <2>2 DEF Typed
<1>3. ASSUME NEW u \in Users, Login(s, u) PROVE Typed'
  <2>1. PICK n \in Names : Register(s, n)
    BY <1>3, LoginRegisters DEF Login
  <2>2. names_'[s] = n /\ session_rooms_'[s] = Lobby
    BY <1>t, <2>1 DEF Register, RoomTypeOK
  <2>3. Append(tasks, [kind |-> "load", session |-> s, name |-> n]) \in Seq(Task)
    <3>1. [kind |-> "load", session |-> s, name |-> n] \in Task
      BY DEF Task, LoadTask
    <3>2. QED
      BY <1>t, <3>1, AppendRange DEF TypeOK, Task
  <2>4. TypeOK'
    BY <1>3, <1>t, <2>2, <2>3
       DEF Login, Frame, mark_online, submit_store_task, TypeOK, mailVars, storeVars, Task
  <2>5. SendsSome'
    BY <1>3, <1>t DEF Login, SendsSome, Runs
  <2>6. QED
    BY <2>4, <2>5 DEF Typed
<1>4. ASSUME NEW u \in Users, PrivateMessage(s, u) PROVE Typed'
  <2> DEFINE m == Len(log) + 1
  <2>1. m \in Msg /\ log' \in Seq(Users) /\ Len(log') <= MaxMsgs
    BY <1>4, <1>t, AppendProperties, LenProperties DEF PrivateMessage, TypeOK, Msg
  <2>2. name_index_[u] # None => name_index_[u] \in Sessions
    BY <1>t DEF RoomTypeOK
  <2>3. CASE name_index_[u] # None /\ deliver(name_index_[u], m) /\ UNCHANGED <<queued, tasks>>
    <3> DEFINE t == name_index_[u]
    <3>1. Append(strand[t], m) \in Seq(Msg)
      BY <1>t, <2>1, <2>2, <2>3, AppendRange DEF TypeOK
    <3>2. strand' \in [Sessions -> Seq(Msg)]
      BY <1>t, <2>3, <3>1 DEF deliver, TypeOK
    <3>3. outbox' \in [Sessions -> Seq(Msg)] /\ dropped' \in SUBSET Msg
      BY <1>t, <2>1, <2>2, <2>3, DeliverTyped DEF deliver, TypeOK
    <3>4. TypeOK'
      BY <1>4, <1>t, <2>1, <2>3, <3>2, <3>3 DEF PrivateMessage, Frame, TypeOK, loginVars, storeVars
    <3>5. SendsSome'
      BY <1>4, <1>t DEF PrivateMessage, SendsSome, Runs
    <3>6. QED
      BY <3>4, <3>5 DEF Typed
  <2>4. CASE /\ submit_store_task([kind |-> "save", msg |-> m])
             /\ queued' = queued \cup {m}
             /\ UNCHANGED <<strand, outbox, dropped>>
    <3>1. Append(tasks, [kind |-> "save", msg |-> m]) \in Seq(Task)
      <4>1. [kind |-> "save", msg |-> m] \in Task
        BY <2>1 DEF Task, SaveTask
      <4>2. QED
        BY <1>t, <4>1, AppendRange DEF TypeOK, Task
    <3>2. TypeOK'
      BY <1>4, <1>t, <2>1, <2>4, <3>1
         DEF PrivateMessage, Frame, submit_store_task, TypeOK, loginVars, storeVars, Task
    <3>3. SendsSome'
      BY <1>4, <1>t DEF PrivateMessage, SendsSome, Runs
    <3>4. QED
      BY <3>2, <3>3 DEF Typed
  <2>5. QED
    BY <1>4, <2>3, <2>4 DEF PrivateMessage
<1>5. ASSUME NEW r \in Rooms, JoinRoom(s, r) PROVE Typed'
  <2>1. TypeOK'
    BY <1>5, <1>t DEF JoinRoom, Frame, TypeOK, mailVars, storeVars, poolVars
  <2>2. SendsSome'
    BY <1>5, <1>t DEF JoinRoom, poolVars, SendsSome, Runs
  <2>3. QED
    BY <2>1, <2>2 DEF Typed
<1>6. CASE Heartbeat(s)
  <2>1. user_name_[s] \in Names
    BY <1>6, <1>t DEF Heartbeat, RegistryInv, SameSessions, RegistryMatchesSession, RoomTypeOK
  <2>2. TypeOK'
    BY <1>6, <1>t, <2>1 DEF Heartbeat, Frame, mark_online, TypeOK, mailVars, storeVars, poolVars
  <2>3. SendsSome'
    BY <1>6, <1>t DEF Heartbeat, poolVars, SendsSome, Runs
  <2>4. QED
    BY <2>2, <2>3 DEF Typed
<1>7. CASE CloseFromReader(s) \/ CloseFromWriter(s)
  <2>1. close_session(s) /\ late' \in [Sessions -> BOOLEAN]
    BY <1>7, <1>t DEF CloseFromReader, CloseFromWriter, TypeOK
  <2>2. TypeOK'
    BY <2>1, <1>t DEF close_session, mark_offline, TypeOK, mailVars, storeVars, poolVars
  <2>3. SendsSome'
    BY <2>1, <1>t DEF close_session, poolVars, SendsSome, Runs
  <2>4. QED
    BY <2>2, <2>3 DEF Typed
<1>8. QED
  BY <1>1, <1>2, <1>3, <1>4, <1>5, <1>6, <1>7 DEF Client

(* A business thread keeps every type.                                     *)
LEMMA WorkerTyped ==
  ASSUME Typed, RoomTypeOK', NEW w \in Workers, Worker(w) \/ StoreThrows(w)
  PROVE  Typed'
<1> USE ChatRoomAssumption, ChatServerAssumption
<1> DEFINE Goal ==
      /\ UNCHANGED <<connVars, loginVars, users, log, queued, store>>
      /\ \E x \in Task \cup SendTask \cup {None} :
           /\ running' = [running EXCEPT ![w] = x]
           /\ x # None /\ x.kind = "send" => x.msgs # <<>>
      /\ tasks' \in Seq(Task)
      /\ stored' \in Seq(Msg)
      /\ at' \in [Workers -> {"idle", "open", "write", "delete"}]
      /\ memory' \in [Workers -> Seq(Msg)]
      /\ clashed' \in SUBSET Msg /\ overtaken' \in SUBSET Msg
      /\ strand' \in [Sessions -> Seq(Msg)] /\ outbox' \in [Sessions -> Seq(Msg)]
      /\ dropped' \in SUBSET Msg /\ faults' \in 0..MaxFaults
<1>t. TypeOK /\ SendsSome /\ RoomTypeOK
  BY DEF Typed, TypeOK
<1>m. memory[w] \in Seq(Msg) /\ <<>> \in Seq(Msg) /\ stored \in Seq(Msg)
  BY <1>t DEF TypeOK
<1>r. CallReturns(w) => /\ UNCHANGED store
                        /\ at' \in [Workers -> {"idle", "open", "write", "delete"}]
                        /\ memory' \in [Workers -> Seq(Msg)] /\ overtaken' \in SUBSET Msg
  BY <1>t, <1>m DEF CallReturns, TypeOK
<1>1. ASSUME PopTask(w) PROVE Goal
  <2>1. Head(tasks) \in Task /\ Tail(tasks) \in Seq(Task)
    BY <1>1, <1>t, TailRange DEF PopTask, TypeOK, Task
  <2>2. Head(tasks).kind # "send"
    BY <2>1 DEF Task, SaveTask, LoadTask
  <2>3. QED
    BY <1>1, <1>t, <2>1, <2>2 DEF PopTask, TypeOK, mailVars, storeVars
<1>2. ASSUME ReadFile(w) \/ OpenTruncated(w) \/ SelectMessages(w) PROVE Goal
  <2>1. running' = [running EXCEPT ![w] = running[w]]
    BY <1>2, <1>t DEF ReadFile, OpenTruncated, SelectMessages, TypeOK
  <2>2. /\ running[w] \in Task \cup SendTask \cup {None}
        /\ running[w] # None /\ running[w].kind = "send" => running[w].msgs # <<>>
    BY <1>t DEF TypeOK, Task, SendsSome, Runs
  <2>3. /\ For(stored, running[w].name) \in Seq(Msg)
        /\ Range(For(stored, running[w].name)) \subseteq Msg
    BY <1>m, PartsTyped
  <2>4. /\ at' \in [Workers -> {"idle", "open", "write", "delete"}]
        /\ memory' \in [Workers -> Seq(Msg)] /\ stored' \in Seq(Msg) /\ UNCHANGED store
    <3>1. CASE ReadFile(w)
      BY <3>1, <1>t, <1>m DEF ReadFile, TypeOK
    <3>2. CASE OpenTruncated(w)
      BY <3>2, <1>t, <1>m DEF OpenTruncated, TypeOK
    <3>3. CASE SelectMessages(w)
      BY <3>3, <1>t, <1>m, <2>3 DEF SelectMessages, TypeOK
    <3>4. QED
      BY <1>2, <3>1, <3>2, <3>3
  <2>5. clashed' \in SUBSET Msg /\ overtaken' \in SUBSET Msg
    BY <1>2, <1>t, <2>3, SetsTyped DEF ReadFile, OpenTruncated, SelectMessages, TypeOK
  <2>6. UNCHANGED <<connVars, loginVars, users, log, queued, tasks, strand, outbox, dropped, faults>>
    BY <1>2 DEF ReadFile, OpenTruncated, SelectMessages, WorkerFrame
  <2>7. QED
    BY <1>t, <2>1, <2>2, <2>4, <2>5, <2>6 DEF TypeOK, Task
<1>3. ASSUME SaveMessage(w) \/ SaveThrows(w) PROVE Goal
  <2> DEFINE m == running[w].msg
  <2>1. running[w] \in SaveTask
    BY <1>3, <1>t DEF SaveMessage, SaveThrows, Runs, TypeOK, SaveTask, LoadTask, SendTask
  <2>2. m \in Msg
    BY <2>1 DEF SaveTask
  <2>3. Append(stored, m) \in Seq(Msg) /\ Overwrite(stored, Append(memory[w], m)) \in Seq(Msg)
    BY <1>m, <2>2, AppendRange, Overwritten DEF Overwrite
  <2>4. faults < MaxFaults => faults + 1 \in 0..MaxFaults
    BY <1>t DEF TypeOK
  <2>5. stored' \in Seq(Msg) /\ clashed' \in SUBSET Msg /\ dropped' \in SUBSET Msg
    BY <1>3, <1>t, <2>2, <2>3 DEF SaveMessage, SaveThrows, Rewrite, Insert, TypeOK
  <2>6. CallReturns(w) /\ running' = [running EXCEPT ![w] = None] /\ faults' \in 0..MaxFaults
    BY <1>3, <1>t, <2>4 DEF SaveMessage, SaveThrows, TaskDone, TypeOK
  <2>7. UNCHANGED <<connVars, loginVars, users, log, queued, tasks, strand, outbox>>
    BY <1>3 DEF SaveMessage, SaveThrows, WorkerFrame
  <2>8. QED
    BY <1>t, <1>r, <2>5, <2>6, <2>7 DEF TypeOK, Task
<1>4. ASSUME TakeMessages(w) PROVE Goal
  <2> DEFINE s == running[w].session
             n == running[w].name
  <2>1. s \in Sessions
    BY <1>4, <1>t DEF TakeMessages, Runs, TypeOK, SaveTask, LoadTask, SendTask
  <2>2. /\ For(memory[w], n) \in Seq(Msg) /\ NotFor(stored, n) \in Seq(Msg)
        /\ NotFor(memory[w], n) \in Seq(Msg)
    BY <1>m, PartsTyped
  <2>3. Overwrite(stored, NotFor(memory[w], n)) \in Seq(Msg)
    BY <1>m, <2>2, Overwritten DEF Overwrite
  <2>4. ASSUME NEW msgs \in Seq(Msg), HandOut(w, msgs)
        PROVE  /\ dropped' \in SUBSET Msg
               /\ \E x \in Task \cup SendTask \cup {None} :
                    /\ running' = [running EXCEPT ![w] = x]
                    /\ x # None /\ x.kind = "send" => x.msgs # <<>>
    <3>1. Range(msgs) \in SUBSET Msg
      BY RangeOfSeq
    <3>2. /\ Sending(s, msgs) \in SendTask \cup {None}
          /\ Sending(s, msgs) # None => Sending(s, msgs).msgs # <<>>
      BY <2>1 DEF Sending, SendTask
    <3>3. QED
      BY <1>t, <2>4, <3>1, <3>2 DEF HandOut, TaskDone, TypeOK
  <2>5. PICK msgs \in Seq(Msg) : HandOut(w, msgs) /\ stored' \in Seq(Msg)
    BY <1>4, <1>m, <2>2, <2>3 DEF TakeMessages, Rewrite
  <2>6. /\ dropped' \in SUBSET Msg
        /\ \E x \in Task \cup SendTask \cup {None} :
             /\ running' = [running EXCEPT ![w] = x]
             /\ x # None /\ x.kind = "send" => x.msgs # <<>>
    BY <2>4, <2>5
  <2>7. /\ UNCHANGED <<connVars, loginVars, users, log, queued, tasks, strand, outbox, faults, clashed>>
        /\ CallReturns(w)
    BY <1>4 DEF TakeMessages, WorkerFrame
  <2>8. QED
    BY <1>t, <1>r, <2>5, <2>6, <2>7 DEF TypeOK, Task
<1>5. ASSUME TakeThrows(w) PROVE Goal
  <2>1. running' = [running EXCEPT ![w] = None] /\ faults' \in 0..MaxFaults /\ CallReturns(w)
    BY <1>5, <1>t DEF TakeThrows, TaskDone, TypeOK
  <2>2. /\ NotFor(stored, running[w].name) \in Seq(Msg)
        /\ Range(For(stored, running[w].name)) \subseteq Msg
    BY <1>m, PartsTyped
  <2>3. stored' \in Seq(Msg) /\ dropped' \in SUBSET Msg
    BY <1>5, <1>t, <2>2 DEF TakeThrows, TypeOK
  <2>4. UNCHANGED <<connVars, loginVars, users, log, queued, tasks, strand, outbox, clashed>>
    BY <1>5 DEF TakeThrows, WorkerFrame
  <2>5. QED
    BY <1>t, <1>r, <2>1, <2>3, <2>4 DEF TypeOK, Task
<1>6. ASSUME SendTaken(w) PROVE Goal
  <2> DEFINE s == running[w].session
             msgs == running[w].msgs
  <2>1. s \in Sessions /\ msgs \in Seq(Msg)
    BY <1>6, <1>t DEF SendTaken, Runs, TypeOK, SaveTask, LoadTask, SendTask
  <2>2. msgs # <<>>
    BY <1>6, <1>t DEF SendTaken, SendsSome
  <2>3. Head(msgs) \in Msg /\ Tail(msgs) \in Seq(Msg)
    BY <2>1, <2>2, TailRange
  <2>4. /\ Sending(s, Tail(msgs)) \in SendTask \cup {None}
        /\ Sending(s, Tail(msgs)) # None => Sending(s, Tail(msgs)).msgs # <<>>
    BY <2>1, <2>3 DEF Sending, SendTask
  <2>5. Append(strand[s], Head(msgs)) \in Seq(Msg)
    BY <1>t, <2>1, <2>3, AppendRange DEF TypeOK
  <2>6. QED
    BY <1>6, <1>t, <2>1, <2>4, <2>5 DEF SendTaken, WorkerFrame, TypeOK, Task, storeVars
<1>7. Goal
  BY <1>1, <1>2, <1>3, <1>4, <1>5, <1>6 DEF Worker, StoreThrows
<1>8. UNCHANGED threads
  BY DEF Worker, StoreThrows, PopTask, ReadFile, OpenTruncated, SelectMessages, SaveMessage,
         TakeMessages, SendTaken, SaveThrows, TakeThrows, CallReturns, mailVars, storeVars
<1>9. TypeOK'
  BY <1>7, <1>8, <1>t DEF TypeOK, connVars, loginVars, Task
<1>10. SendsSome'
  BY <1>7, <1>t DEF TypeOK, SendsSome, Runs
<1>11. QED
  BY <1>9, <1>10 DEF Typed

(* So does every step.                                                     *)
LEMMA StepTyped ==
  ASSUME Typed, RegistryInv, RegistryMatchesSession, RoomTypeOK', [Next]_serverVars
  PROVE  Typed'
<1> USE ChatRoomAssumption, ChatServerAssumption
<1>1. ASSUME NEW s \in Sessions, Client(s) PROVE Typed'
  BY <1>1, ClientTyped
<1>2. ASSUME NEW w \in Workers, Worker(w) \/ StoreThrows(w) PROVE Typed'
  BY <1>2, WorkerTyped
<1>3. ASSUME NEW s \in Sessions, RunPosted(s) PROVE Typed'
  <2>1. Head(strand[s]) \in Msg /\ Tail(strand[s]) \in Seq(Msg)
    BY <1>3, TailRange DEF Typed, RunPosted, TypeOK
  <2>2. outbox' \in [Sessions -> Seq(Msg)] /\ dropped' \in SUBSET Msg
    BY <1>3, <2>1, DeliverTyped DEF Typed, RunPosted
  <2>3. TypeOK'
    BY <1>3, <2>1, <2>2 DEF Typed, RunPosted, TypeOK, connVars, loginVars, storeVars, poolVars
  <2>4. SendsSome'
    BY <1>3 DEF Typed, RunPosted, poolVars, SendsSome, Runs
  <2>5. QED
    BY <2>3, <2>4 DEF Typed
<1>4. CASE Terminate
  <2>1. <<>> \in Seq(SaveTask \cup LoadTask) /\ <<>> \in Seq(Msg)
    OBVIOUS
  <2>2. 1..Len(log) \subseteq Msg
    BY LenProperties DEF Typed, TypeOK, Msg
  <2>3. TypeOK'
    BY <1>4, <2>1, <2>2 DEF Typed, Terminate, TypeOK
  <2>4. SendsSome'
    BY <1>4 DEF Terminate, SendsSome, Runs
  <2>5. QED
    BY <2>3, <2>4 DEF Typed
<1>5. CASE UNCHANGED serverVars
  BY <1>5 DEF Typed, TypeOK, SendsSome, Runs, serverVars, connVars, loginVars, mailVars, storeVars, poolVars
<1>6. QED
  BY <1>1, <1>2, <1>3, <1>4, <1>5 DEF Next

-----------------------------------------------------------------------------
(* The inductive invariant: ServerInv needs the registry's own, because a  *)
(* session that closes or logs in is told apart from the others by its     *)
(* name.                                                                   *)
Consistent == ServerInv /\ SendsSome /\ RegistryInv

(* A server that starts is consistent.                                     *)
LEMMA InitConsistentServer == Init => Consistent
<1> SUFFICES ASSUME Init PROVE Consistent
  OBVIOUS
<1> USE ChatRoomAssumption, ChatServerAssumption
<1>1. RegistryInv
  BY InitConsistent DEF Init
<1>2. TypeOK
  <2>1. /\ <<>> \in Seq(SaveTask \cup LoadTask) /\ <<>> \in Seq(Msg)
        /\ <<>> \in Seq(Users) /\ Len(<<>>) = 0
    OBVIOUS
  <2>2. QED
    BY <1>1, <2>1 DEF RegistryInv, Init, TypeOK
<1>3. SendsSome
  BY DEF Init, SendsSome, Runs
<1>4. RegistryMatchesSession /\ OnlineExact
  BY DEF Init, RoomInit, RegistryMatchesSession, OnlineExact
<1>5. QED
  BY <1>1, <1>2, <1>3, <1>4 DEF Consistent, ServerInv

(* The sessions that bear a name do so alone.                              *)
LEMMA NamesApart ==
  ASSUME Consistent, NEW s \in Sessions, NEW t \in Sessions,
         logged_in_[s], logged_in_[t], user_name_[s] = user_name_[t]
  PROVE  s = t
<1>1. names_[s] = names_[t] /\ names_[s] \in Names
  BY DEF Consistent, ServerInv, RegistryMatchesSession, RegistryInv, SameSessions, RoomTypeOK
<1>2. QED
  BY <1>1 DEF Consistent, RegistryInv, NameIndexExact

(* A step keeps the sessions' copies and the status store in line.         *)
LEMMA LoginInLine ==
  ASSUME Consistent, NEW s \in Sessions, NEW u \in Users, Login(s, u)
  PROVE  RegistryMatchesSession' /\ OnlineExact'
<1>t. TypeOK /\ RoomTypeOK /\ RegistryMatchesSession /\ OnlineExact
  BY DEF Consistent, ServerInv, TypeOK
<1>1. PICK n \in Names : Register(s, n)
  BY LoginRegisters DEF Login
<1>2. names_'[s] = n /\ session_rooms_'[s] = Lobby
  BY <1>t, <1>1 DEF Register, RoomTypeOK
<1>3. ~logged_in_[s]
  BY DEF Login
<1>4. RegistryMatchesSession'
  BY <1>t, <1>1, <1>2 DEF Login, Register, RegistryMatchesSession, TypeOK, RoomTypeOK
<1>5. OnlineExact'
  <2>1. user_name_' = [user_name_ EXCEPT ![s] = n] /\ logged_in_' = [logged_in_ EXCEPT ![s] = TRUE]
        /\ online_users_' = online_users_ \cup {n}
    BY <1>2 DEF Login, mark_online
  <2>2. QED
    BY <1>t, <1>3, <2>1 DEF OnlineExact, TypeOK
<1>6. QED
  BY <1>4, <1>5

(* close_session() takes the session's name off line, and no other session *)
(* has that name.                                                          *)
LEMMA CloseInLine ==
  ASSUME Consistent, NEW s \in Sessions, close_session(s)
  PROVE  RegistryMatchesSession' /\ OnlineExact'
<1>t. TypeOK /\ RoomTypeOK /\ RegistryMatchesSession /\ OnlineExact
  BY DEF Consistent, ServerInv, TypeOK
<1>1. /\ user_name_' = user_name_ /\ current_room_' = current_room_
      /\ logged_in_' = [logged_in_ EXCEPT ![s] = FALSE] /\ leave(s)
      /\ IF logged_in_[s] THEN mark_offline(user_name_[s]) ELSE UNCHANGED online_users_
  BY DEF close_session
<1>2. RegistryMatchesSession'
  BY <1>t, <1>1 DEF leave, RegistryMatchesSession, TypeOK, RoomTypeOK
<1>3. OnlineExact'
  <2>1. CASE logged_in_[s]
    <3>1. online_users_' = online_users_ \ {user_name_[s]}
      BY <1>1, <2>1 DEF mark_offline
    <3>2. \A t \in Sessions : logged_in_[t] /\ t # s => user_name_[t] # user_name_[s]
      BY <2>1, NamesApart
    <3>3. \A t \in Sessions : logged_in_'[t] <=> logged_in_[t] /\ t # s
      BY <1>t, <1>1 DEF TypeOK
    <3>4. QED
      BY <1>t, <1>1, <3>1, <3>2, <3>3 DEF OnlineExact
  <2>2. CASE ~logged_in_[s]
    <3>1. \A t \in Sessions : logged_in_'[t] <=> logged_in_[t]
      BY <1>t, <1>1, <2>2 DEF TypeOK
    <3>2. QED
      BY <1>t, <1>1, <2>2, <3>1 DEF OnlineExact
  <2>3. QED
    BY <2>1, <2>2
<1>4. QED
  BY <1>2, <1>3

(* Every step keeps a session, the registry and the status store in line.  *)
LEMMA StepInLine ==
  ASSUME Consistent, [Next]_serverVars
  PROVE  RegistryMatchesSession' /\ OnlineExact'
<1>t. TypeOK /\ RoomTypeOK /\ RegistryMatchesSession /\ OnlineExact
  BY DEF Consistent, ServerInv, TypeOK
<1> DEFINE Goal == RegistryMatchesSession' /\ OnlineExact'
<1>1. ASSUME UNCHANGED <<roomVars, loginVars>> PROVE Goal
  BY <1>t, <1>1 DEF roomVars, loginVars, RegistryMatchesSession, OnlineExact
<1>2. ASSUME NEW s \in Sessions, Client(s) PROVE Goal
  <2>1. ASSUME NEW u \in Users, Login(s, u) PROVE Goal
    BY <2>1, LoginInLine
  <2>2. ASSUME NEW u \in Users, RegisterUser(s, u) \/ PrivateMessage(s, u) PROVE Goal
    BY <1>1, <2>2 DEF RegisterUser, PrivateMessage
  <2>3. CASE Accept(s)
    BY <1>1, <2>3 DEF Accept
  <2>4. ASSUME NEW r \in Rooms, JoinRoom(s, r) PROVE Goal
    <3>1. RegistryMatchesSession'
      BY <1>t, <2>4 DEF JoinRoom, change_room, RegistryMatchesSession, TypeOK, RoomTypeOK
    <3>2. OnlineExact'
      BY <1>t, <2>4 DEF JoinRoom, OnlineExact
    <3>3. QED
      BY <3>1, <3>2
  <2>5. CASE Heartbeat(s)
    <3>1. online_users_' = online_users_
      BY <1>t, <2>5 DEF Heartbeat, mark_online, OnlineExact
    <3>2. QED
      BY <1>1, <2>5, <3>1 DEF Heartbeat, loginVars
  <2>6. CASE CloseFromReader(s) \/ CloseFromWriter(s)
    BY <2>6, CloseInLine DEF CloseFromReader, CloseFromWriter
  <2>7. QED
    BY <1>2, <2>1, <2>2, <2>3, <2>4, <2>5, <2>6 DEF Client
<1>3. ASSUME NEW s \in Sessions, RunPosted(s) PROVE Goal
  BY <1>1, <1>3 DEF RunPosted
<1>4. ASSUME NEW w \in Workers, Worker(w) \/ StoreThrows(w) PROVE Goal
  <2>1. UNCHANGED <<roomVars, loginVars>>
    BY <1>4 DEF Worker, StoreThrows, PopTask, SaveMessage, TakeMessages, SendTaken, SaveThrows,
                TakeThrows, ReadFile, OpenTruncated, SelectMessages, WorkerFrame
  <2>2. QED
    BY <1>1, <2>1
<1>5. CASE Terminate
  BY <1>5 DEF Terminate, RegistryMatchesSession, OnlineExact
<1>6. CASE UNCHANGED serverVars
  BY <1>1, <1>6 DEF serverVars
<1>7. QED
  BY <1>2, <1>3, <1>4, <1>5, <1>6 DEF Next

(* So the invariant is inductive, ...                                      *)
LEMMA StepKeepsConsistent == Consistent /\ [Next]_serverVars => Consistent'
<1> SUFFICES ASSUME Consistent, [Next]_serverVars PROVE Consistent'
  OBVIOUS
<1>1. RegistryInv'
  BY RegistryKept DEF Consistent, ServerInv
<1>2. Typed'
  BY <1>1, StepTyped DEF Consistent, ServerInv, Typed, RegistryInv
<1>3. QED
  BY <1>1, <1>2, StepInLine DEF Consistent, ServerInv, Typed

(* ... and holds in every state.                                           *)
LEMMA AlwaysConsistent == Spec => []Consistent
<1>1. QED
  BY InitConsistentServer, StepKeepsConsistent, PTL DEF Spec

(* After any sequence of requests, closes, exceptions and restarts, a      *)
(* session, the registry and the status store say the same of it           *)
(* (chat_session.cpp's login, heartbeat and close_session()), for any      *)
(* number of sessions, names, rooms and threads.                           *)
THEOREM ServerConsistent == Spec => []ServerInv
<1>1. Consistent => ServerInv
  BY DEF Consistent
<1>2. QED
  BY <1>1, AlwaysConsistent, PTL

(* The sessions use the registry as ChatRoom expects, so what is proved of *)
(* RoomSpec above holds in the server between two restarts.                *)
THEOREM RegistryUsedRight == Spec => RegistryRuns
<1>1. Init => RoomInit
  BY DEF Init
<1>2. Consistent /\ [Next]_serverVars => [RoomNext \/ RoomInit']_roomVars
  BY RegistryKept DEF Consistent, ServerInv, RegistryStep
<1>3. QED
  BY <1>1, <1>2, AlwaysConsistent, PTL DEF Spec, RegistryRuns

-----------------------------------------------------------------------------
(* log only grows.                                                         *)
LEMMA LogGrows ==
  ASSUME TypeOK, NEW u \in Users, log' = Append(log, u)
  PROVE  /\ DOMAIN log' = DOMAIN log \cup {Len(log) + 1}
         /\ Len(log) + 1 \notin DOMAIN log
         /\ \A m \in DOMAIN log : log'[m] = log[m]
         /\ log'[Len(log) + 1] = u
<1>1. log \in Seq(Users)
  BY DEF TypeOK
<1>2. /\ Len(log) \in Nat /\ DOMAIN log = 1..Len(log)
      /\ Append(log, u) \in Seq(Users) /\ Len(Append(log, u)) = Len(log) + 1
      /\ DOMAIN Append(log, u) = 1..(Len(log) + 1)
      /\ \A i \in 1..Len(log) : Append(log, u)[i] = log[i]
      /\ Append(log, u)[Len(log) + 1] = u
  BY <1>1, AppendProperties, LenProperties
<1>3. QED
  BY <1>2

-----------------------------------------------------------------------------
(***************************************************************************)
(* The calls of the offline store.  Stages: what a call has come to fits   *)
(* the task it belongs to.  StoredSent: only messages that were sent are   *)
(* in the store, in a call's memory or in a save.  FileInv: a call that    *)
(* has read the file either has it to itself, and what it read is what     *)
(* the file contains, or all it can spoil is clashed.  TableInv: between   *)
(* the two statements of a take, the table has of that user what the take  *)
(* has read and clashed messages.                                          *)
(***************************************************************************)
Stages ==
  \A w \in Workers :
    /\ at[w] # "idle" => Runs(w, "save") \/ Runs(w, "load")
    /\ at[w] \in {"open", "write"} => store = "file"
    /\ at[w] = "delete" => store = "mysql" /\ Runs(w, "load")
    /\ at[w] = "idle" => memory[w] = <<>>

SavesSent(q) == \A t \in Range(q) : t.kind = "save" => t.msg \in DOMAIN log
StoredSent ==
  /\ store = "none" => stored = <<>>
  /\ clashed \subseteq DOMAIN log
  /\ Range(stored) \subseteq DOMAIN log
  /\ \A w \in Workers : Range(memory[w]) \cup Saving(w) \subseteq DOMAIN log
  /\ SavesSent(tasks)

Alone(w) ==
  /\ \A v \in Workers : v # w => at[v] = "idle"
  /\ at[w] = "open" => memory[w] = stored
  /\ at[w] = "write" => stored = <<>>
AllClashed(w) == Range(stored) \cup Range(memory[w]) \cup Saving(w) \subseteq clashed
FileInv == \A w \in Workers : at[w] \in {"open", "write"} => Alone(w) \/ AllClashed(w)

ReadBy(w) ==
  /\ \A m \in Range(memory[w]) : log[m] = running[w].name
  /\ \A m \in Unclashed :
       log[m] = running[w].name => (m \in Range(memory[w]) <=> m \in Range(stored))
TableInv ==
  \A w \in Workers : at[w] = "delete" =>
    /\ ReadBy(w)
    /\ \A v \in Workers : v # w /\ at[v] = "delete" /\ running[v].name = running[w].name =>
         \A m \in Range(stored) : log[m] = running[w].name => m \in clashed

StoreInv == Stages /\ StoredSent /\ FileInv /\ TableInv

(* No call is under way in a server that starts.                           *)
LEMMA InitStore == Init => StoreInv
<1> SUFFICES ASSUME Init PROVE StoreInv
  OBVIOUS
<1>1. /\ at = [w \in Workers |-> "idle"] /\ memory = [w \in Workers |-> <<>>] /\ stored = <<>>
      /\ running = [w \in Workers |-> None] /\ tasks = <<>> /\ clashed = {}
  BY DEF Init
<1>2. Stages /\ FileInv /\ TableInv
  BY <1>1 DEF Stages, FileInv, TableInv
<1>3. StoredSent
  BY <1>1, EmptyRange DEF StoredSent, SavesSent, Saving, Runs
<1>4. QED
  BY <1>2, <1>3 DEF StoreInv

(* The steps that only add to the log and to the queue of tasks.           *)
LEMMA SameStore ==
  ASSUME StoreInv, UNCHANGED <<store, stored, at, memory, clashed, running>>,
         \A m \in DOMAIN log : m \in DOMAIN log' /\ log'[m] = log[m],
         SavesSent(tasks)'
  PROVE  StoreInv'
<1>1. Stages'
  BY DEF StoreInv, Stages, Runs
<1>2. StoredSent'
  BY DEF StoreInv, StoredSent, Saving, Runs
<1>3. FileInv'
  BY DEF StoreInv, FileInv, Alone, AllClashed, Saving, Runs
<1>4. TableInv'
  <2> SUFFICES ASSUME NEW w \in Workers, at[w] = "delete"
               PROVE  /\ ReadBy(w)'
                      /\ \A v \in Workers :
                           v # w /\ at[v] = "delete" /\ running[v].name = running[w].name =>
                             \A m \in Range(stored) : log'[m] = running[w].name => m \in clashed
    BY DEF TableInv
  <2>1. /\ ReadBy(w) /\ Range(memory[w]) \subseteq DOMAIN log /\ Range(stored) \subseteq DOMAIN log
        /\ \A v \in Workers : v # w /\ at[v] = "delete" /\ running[v].name = running[w].name =>
             \A m \in Range(stored) : log[m] = running[w].name => m \in clashed
    BY DEF StoreInv, StoredSent, TableInv
  <2>2. ReadBy(w)'
    <3>1. \A m \in Range(memory[w]) : log'[m] = running[w].name
      BY <2>1 DEF ReadBy
    <3>2. ASSUME NEW m \in DOMAIN log' \ clashed, log'[m] = running[w].name
          PROVE  m \in Range(memory[w]) <=> m \in Range(stored)
      BY <2>1, <3>2 DEF ReadBy, Unclashed
    <3>3. QED
      BY <3>1, <3>2 DEF ReadBy, Unclashed
  <2>3. QED
    BY <2>1, <2>2
<1>5. QED
  BY <1>1, <1>2, <1>3, <1>4 DEF StoreInv

(* A call returns, having written nothing, rewritten the file, inserted a  *)
(* message or deleted a user's; or a worker without a call goes on.        *)
LEMMA CallEnds ==
  ASSUME Typed, StoreInv, NEW w \in Workers, UNCHANGED <<store, log>>, SavesSent(tasks)',
         NEW x, running' = [running EXCEPT ![w] = x],
         x # None /\ x.kind = "save" => x.msg \in DOMAIN log,
         at' = [at EXCEPT ![w] = "idle"], memory' = [memory EXCEPT ![w] = <<>>],
         clashed \subseteq clashed', clashed' \subseteq DOMAIN log,
         \/ UNCHANGED stored
         \/ /\ at[w] = "write"
            /\ Range(stored') \subseteq Range(stored) \cup Range(memory[w]) \cup Saving(w)
         \/ /\ store = "mysql"
            /\ \E m \in DOMAIN log : /\ Range(stored') = Range(stored) \cup {m}
                                     /\ BetweenStatements(log[m]) => m \in clashed'
         \/ /\ at[w] = "delete"
            /\ Range(stored') = {m \in Range(stored) : log[m] # running[w].name}
  PROVE  StoreInv'
<1>t. /\ running \in [Workers -> SaveTask \cup LoadTask \cup SendTask \cup {None}]
      /\ at \in [Workers -> {"idle", "open", "write", "delete"}] /\ memory \in [Workers -> Seq(Msg)]
  BY DEF Typed, TypeOK
<1>o. /\ at'[w] = "idle" /\ memory'[w] = <<>> /\ running'[w] = x
      /\ \A v \in Workers \ {w} : at'[v] = at[v] /\ memory'[v] = memory[v] /\ running'[v] = running[v]
  BY <1>t
<1>s. Stages /\ StoredSent /\ FileInv /\ TableInv
  BY DEF StoreInv
<1>1. Stages'
  <2> SUFFICES ASSUME NEW v \in Workers
               PROVE  /\ at'[v] # "idle" => Runs(v, "save")' \/ Runs(v, "load")'
                      /\ at'[v] \in {"open", "write"} => store' = "file"
                      /\ at'[v] = "delete" => store' = "mysql" /\ Runs(v, "load")'
                      /\ at'[v] = "idle" => memory'[v] = <<>>
    BY DEF Stages
  <2>1. CASE v = w
    BY <1>o, <2>1
  <2>2. CASE v # w
    BY <1>o, <1>s, <2>2 DEF Stages, Runs
  <2>3. QED
    BY <2>1, <2>2
<1>2. StoredSent'
  <2>1. Range(stored') \subseteq DOMAIN log
    BY <1>s DEF StoredSent
  <2>2. store = "none" => stored' = <<>>
    BY <1>s DEF StoredSent, Stages
  <2>3. ASSUME NEW v \in Workers PROVE Range(memory'[v]) \cup Saving(v)' \subseteq DOMAIN log
    <3>1. CASE v = w
      BY <1>o, <3>1, EmptyRange DEF Saving, Runs
    <3>2. CASE v # w
      BY <1>o, <1>s, <3>2 DEF StoredSent, Saving, Runs
    <3>3. QED
      BY <3>1, <3>2
  <2>4. QED
    BY <2>1, <2>2, <2>3 DEF StoredSent
<1>3. FileInv'
  <2> SUFFICES ASSUME NEW v \in Workers, at'[v] \in {"open", "write"} PROVE Alone(v)' \/ AllClashed(v)'
    BY DEF FileInv
  <2>1. /\ v # w /\ at[v] \in {"open", "write"} /\ store = "file"
        /\ memory'[v] = memory[v] /\ running'[v] = running[v]
    BY <1>o, <1>s DEF Stages
  <2>2. CASE Alone(v)
    <3>1. at[w] = "idle"
      BY <2>1, <2>2 DEF Alone
    <3>2. UNCHANGED stored
      BY <2>1, <3>1
    <3>3. QED
      BY <1>o, <2>1, <2>2, <3>2 DEF Alone
  <2>3. CASE AllClashed(v)
    <3>1. Range(stored') \subseteq clashed
      <4>1. CASE at[w] = "write"
        <5>1. ~Alone(w)
          BY <2>1 DEF Alone
        <5>2. AllClashed(w)
          BY <1>s, <4>1, <5>1 DEF FileInv
        <5>3. QED
          BY <2>1, <2>3, <4>1, <5>2 DEF AllClashed
      <4>2. CASE at[w] # "write"
        <5>1. at[w] # "delete"
          BY <1>s, <2>1 DEF Stages
        <5>2. QED
          BY <2>1, <2>3, <4>2, <5>1 DEF AllClashed
      <4>3. QED
        BY <4>1, <4>2
    <3>2. Saving(v)' = Saving(v)
      BY <2>1 DEF Saving, Runs
    <3>3. QED
      BY <2>1, <2>3, <3>1, <3>2 DEF AllClashed
  <2>4. QED
    BY <1>s, <2>1, <2>2, <2>3 DEF FileInv
<1>4. TableInv'
  <2>1. SUFFICES ASSUME NEW v \in Workers, at'[v] = "delete"
                 PROVE  /\ ReadBy(v)'
                        /\ \A u \in Workers :
                             u # v /\ at'[u] = "delete" /\ running'[u].name = running'[v].name =>
                               \A m \in Range(stored') : log[m] = running'[v].name => m \in clashed'
    BY DEF TableInv
  <2> DEFINE n == running[v].name
  <2>2. /\ v # w /\ at[v] = "delete" /\ store = "mysql"
        /\ memory'[v] = memory[v] /\ running'[v] = running[v]
    BY <1>o, <1>s, <2>1 DEF Stages
  <2>3. /\ \A m \in Range(memory[v]) : log[m] = n
        /\ \A m \in DOMAIN log \ clashed :
             log[m] = n => (m \in Range(memory[v]) <=> m \in Range(stored))
        /\ \A u \in Workers : u # v /\ at[u] = "delete" /\ running[u].name = n =>
             \A m \in Range(stored) : log[m] = n => m \in clashed
    BY <1>s, <2>2 DEF TableInv, ReadBy, Unclashed
  <2>4. \/ Range(stored') = Range(stored)
        \/ \E m \in DOMAIN log : /\ Range(stored') = Range(stored) \cup {m}
                                 /\ log[m] = n => m \in clashed'
        \/ at[w] = "delete" /\ Range(stored') = {m \in Range(stored) : log[m] # running[w].name}
    <3>1. at[w] # "write"
      BY <1>s, <2>2 DEF Stages
    <3>2. \A m : log[m] = n => BetweenStatements(log[m])
      BY <2>2 DEF BetweenStatements
    <3>3. QED
      BY <3>1, <3>2
  <2> HIDE DEF n
  <2>5. \A m \in DOMAIN log \ clashed' :
          log[m] = n => (m \in Range(memory[v]) <=> m \in Range(stored'))
    <3>1. CASE at[w] = "delete" /\ Range(stored') = {m \in Range(stored) : log[m] # running[w].name}
      <4>1. CASE running[w].name = n
        BY <2>2, <2>3, <3>1, <4>1
      <4>2. CASE running[w].name # n
        BY <2>3, <3>1, <4>2
      <4>3. QED
        BY <4>1, <4>2
    <3>2. CASE Range(stored') = Range(stored)
      BY <2>3, <3>2
    <3>3. CASE \E m \in DOMAIN log : /\ Range(stored') = Range(stored) \cup {m}
                                     /\ log[m] = n => m \in clashed'
      BY <2>3, <3>3
    <3>4. QED
      BY <2>4, <3>1, <3>2, <3>3
  <2>6. \A u \in Workers : u # v /\ at'[u] = "delete" /\ running'[u].name = n =>
          \A m \in Range(stored') : log[m] = n => m \in clashed'
    BY <1>o, <2>3, <2>4
  <2>7. QED
    BY <2>2, <2>3, <2>5, <2>6 DEF ReadBy, Unclashed, n
<1>5. QED
  BY <1>1, <1>2, <1>3, <1>4 DEF StoreInv

(* A call reads the file: it has the file to itself, or what it and the    *)
(* others can spoil is clashed from now on.                                *)
LEMMA ReadStore ==
  ASSUME Typed, StoreInv, NEW w \in Workers, ReadFile(w)
  PROVE  StoreInv'
<1>t. at \in [Workers -> {"idle", "open", "write", "delete"}] /\ memory \in [Workers -> Seq(Msg)]
  BY DEF Typed, TypeOK
<1>s. Stages /\ StoredSent /\ FileInv /\ TableInv
  BY DEF StoreInv
<1>1. /\ store = "file" /\ at[w] = "idle" /\ (Runs(w, "save") \/ Runs(w, "load"))
      /\ UNCHANGED <<store, stored, running, log, tasks>>
      /\ clashed' = clashed \cup Caught(w)
      /\ at'[w] = "open" /\ memory'[w] = stored
      /\ \A v \in Workers \ {w} : at'[v] = at[v] /\ memory'[v] = memory[v]
  BY <1>t DEF ReadFile, WorkerFrame
<1>2. \A v \in Workers : Saving(v)' = Saving(v) /\ \A k : Runs(v, k)' = Runs(v, k)
  BY <1>1 DEF Saving, Runs
<1>3. Stages'
  BY <1>1, <1>2, <1>s DEF Stages
<1>4. StoredSent'
  <2>1. Caught(w) \subseteq DOMAIN log
    BY <1>s DEF StoredSent, Caught, UnderWay
  <2>2. QED
    BY <1>1, <1>2, <1>s, <2>1 DEF StoredSent, SavesSent
<1>5. FileInv'
  <2> SUFFICES ASSUME NEW v \in Workers, at'[v] \in {"open", "write"} PROVE Alone(v)' \/ AllClashed(v)'
    BY DEF FileInv
  <2>1. CASE UnderWay = {}
    <3>1. \A u \in Workers : at[u] = "idle"
      BY <2>1 DEF UnderWay
    <3>2. v = w
      BY <1>1, <3>1
    <3>3. Alone(w)'
      BY <1>1, <3>1 DEF Alone
    <3>4. QED
      BY <3>2, <3>3
  <2>2. CASE UnderWay # {}
    <3>1. v \in UnderWay \cup {w}
      BY <1>1 DEF UnderWay
    <3>2. Range(stored) \cup Range(memory[v]) \cup Saving(v) \subseteq clashed'
      BY <1>1, <2>2, <3>1 DEF Caught
    <3>3. memory'[v] = memory[v] \/ memory'[v] = stored
      BY <1>1
    <3>4. QED
      BY <1>1, <1>2, <3>2, <3>3 DEF AllClashed
  <2>3. QED
    BY <2>1, <2>2
<1>6. TableInv'
  BY <1>1, <1>3 DEF TableInv, Stages
<1>7. QED
  BY <1>3, <1>4, <1>5, <1>6 DEF StoreInv

(* A call truncates the file: what it has read is then the only copy, or   *)
(* it was clashed before.                                                  *)
LEMMA OpenStore ==
  ASSUME Typed, StoreInv, NEW w \in Workers, OpenTruncated(w)
  PROVE  StoreInv'
<1>t. at \in [Workers -> {"idle", "open", "write", "delete"}]
  BY DEF Typed, TypeOK
<1>s. Stages /\ StoredSent /\ FileInv /\ TableInv
  BY DEF StoreInv
<1>1. /\ at[w] = "open" /\ stored' = <<>> /\ UNCHANGED <<store, running, log, tasks, clashed, memory>>
      /\ at'[w] = "write" /\ \A v \in Workers \ {w} : at'[v] = at[v]
  BY <1>t DEF OpenTruncated, WorkerFrame
<1>2. \A v \in Workers : Saving(v)' = Saving(v) /\ \A k : Runs(v, k)' = Runs(v, k)
  BY <1>1 DEF Saving, Runs
<1>3. Stages'
  BY <1>1, <1>2, <1>s DEF Stages
<1>4. StoredSent'
  BY <1>1, <1>2, <1>s, EmptyRange DEF StoredSent, SavesSent
<1>5. FileInv'
  <2> SUFFICES ASSUME NEW v \in Workers, at'[v] \in {"open", "write"} PROVE Alone(v)' \/ AllClashed(v)'
    BY DEF FileInv
  <2>1. at[v] \in {"open", "write"}
    BY <1>1
  <2>2. CASE AllClashed(v)
    BY <1>1, <1>2, <2>2, EmptyRange DEF AllClashed
  <2>3. CASE Alone(v)
    BY <1>1, <2>1, <2>3 DEF Alone
  <2>4. QED
    BY <1>s, <2>1, <2>2, <2>3 DEF FileInv
<1>6. TableInv'
  BY <1>1, <1>3, <1>s DEF TableInv, Stages
<1>7. QED
  BY <1>3, <1>4, <1>5, <1>6 DEF StoreInv

(* A SELECT reads what the table has for the user.                         *)
LEMMA SelectStore ==
  ASSUME Typed, StoreInv, NEW w \in Workers, SelectMessages(w)
  PROVE  StoreInv'
<1> DEFINE n == running[w].name
<1>t. /\ at \in [Workers -> {"idle", "open", "write", "delete"}] /\ memory \in [Workers -> Seq(Msg)]
      /\ stored \in Seq(Msg)
  BY DEF Typed, TypeOK
<1>s. Stages /\ StoredSent /\ FileInv /\ TableInv
  BY DEF StoreInv
<1>r. Range(For(stored, n)) = Range(stored) \cap {m \in DOMAIN log : log[m] = n}
  BY <1>t, OnlyKeeps DEF For
<1>1. /\ store = "mysql" /\ at[w] = "idle" /\ Runs(w, "load")
      /\ UNCHANGED <<store, stored, running, log, tasks>>
      /\ clashed' = clashed \cup (IF BetweenStatements(n) THEN Range(For(stored, n)) ELSE {})
      /\ at'[w] = "delete" /\ memory'[w] = For(stored, n)
      /\ \A v \in Workers \ {w} : at'[v] = at[v] /\ memory'[v] = memory[v]
  BY <1>t DEF SelectMessages, WorkerFrame
<1>2. \A v \in Workers : Saving(v)' = Saving(v) /\ \A k : Runs(v, k)' = Runs(v, k)
  BY <1>1 DEF Saving, Runs
<1>3. Stages'
  BY <1>1, <1>2, <1>s DEF Stages
<1>4. StoredSent'
  BY <1>1, <1>2, <1>r, <1>s DEF StoredSent, SavesSent
<1>5. FileInv'
  BY <1>1, <1>3 DEF FileInv, Stages
<1>6. TableInv'
  <2> SUFFICES ASSUME NEW v \in Workers, at'[v] = "delete"
               PROVE  /\ ReadBy(v)'
                      /\ \A u \in Workers :
                           u # v /\ at'[u] = "delete" /\ running[u].name = running[v].name =>
                             \A m \in Range(stored) : log[m] = running[v].name => m \in clashed'
    BY <1>1 DEF TableInv
  <2> HIDE DEF n
  <2>1. ReadBy(v)'
    <3>1. CASE v = w
      BY <1>1, <1>r, <3>1 DEF ReadBy, Unclashed, n
    <3>2. CASE v # w
      <4>1. ReadBy(v) /\ memory'[v] = memory[v]
        BY <1>1, <1>s, <3>2 DEF TableInv
      <4>2. QED
        BY <1>1, <4>1 DEF ReadBy, Unclashed
    <3>3. QED
      BY <3>1, <3>2
  <2>2. ASSUME NEW u \in Workers, u # v, at'[u] = "delete", running[u].name = running[v].name,
               NEW m \in Range(stored), log[m] = running[v].name
        PROVE  m \in clashed'
    <3>1. CASE u # w /\ v # w
      BY <1>1, <1>s, <2>2, <3>1 DEF TableInv
    <3>2. CASE u = w \/ v = w
      <4>1. BetweenStatements(n) /\ log[m] = n
        BY <1>1, <2>2, <3>2 DEF BetweenStatements, n
      <4>2. m \in DOMAIN log
        BY <1>s DEF StoredSent
      <4>3. QED
        BY <1>1, <1>r, <4>1, <4>2
    <3>3. QED
      BY <3>1, <3>2
  <2>3. QED
    BY <2>1, <2>2
<1>7. QED
  BY <1>3, <1>4, <1>5, <1>6 DEF StoreInv

(* A step of a business thread.                                            *)
LEMMA WorkerStore ==
  ASSUME Typed, StoreInv, NEW w \in Workers, Worker(w) \/ StoreThrows(w)
  PROVE  StoreInv'
<1>t. /\ running \in [Workers -> SaveTask \cup LoadTask \cup SendTask \cup {None}]
      /\ at \in [Workers -> {"idle", "open", "write", "delete"}] /\ memory \in [Workers -> Seq(Msg)]
      /\ stored \in Seq(Msg) /\ tasks \in Seq(Task)
  BY DEF Typed, TypeOK, Task
<1>s. Stages /\ StoredSent
  BY DEF StoreInv
<1>i. ASSUME at[w] = "idle"
      PROVE  at = [at EXCEPT ![w] = "idle"] /\ memory = [memory EXCEPT ![w] = <<>>]
  <2>1. memory[w] = <<>>
    BY <1>i, <1>s DEF Stages
  <2>2. QED
    BY <1>i, <1>t, <2>1
<1>q. UNCHANGED tasks => SavesSent(tasks)' \/ log' # log
  BY <1>s DEF StoredSent, SavesSent
<1>z. \A s, msgs : Sending(s, msgs) # None => Sending(s, msgs).kind # "save"
  BY DEF Sending
<1>1. CASE PopTask(w)
  <2>1. /\ running[w] = None /\ tasks # <<>>
        /\ running' = [running EXCEPT ![w] = Head(tasks)] /\ tasks' = Tail(tasks)
        /\ UNCHANGED <<store, stored, at, memory, clashed, log>>
    BY <1>1 DEF PopTask, mailVars, storeVars
  <2>2. at[w] = "idle"
    BY <1>s, <1>t, <2>1 DEF Stages, Runs
  <2>3. Range(tasks) = Range(Tail(tasks)) \cup {Head(tasks)} /\ Head(tasks) \in Task
    BY <1>t, <2>1, TailRange
  <2>4. SavesSent(tasks)' /\ (Head(tasks).kind = "save" => Head(tasks).msg \in DOMAIN log)
    BY <1>s, <2>1, <2>3 DEF StoredSent, SavesSent
  <2>5. at' = [at EXCEPT ![w] = "idle"] /\ memory' = [memory EXCEPT ![w] = <<>>]
    BY <1>i, <2>1, <2>2
  <2>6. QED
    BY <1>s, <2>1, <2>4, <2>5, CallEnds DEF StoredSent
<1>2. CASE SendTaken(w)
  <2>1. /\ Runs(w, "send") /\ UNCHANGED <<store, stored, at, memory, clashed, log, tasks>>
        /\ running' = [running EXCEPT ![w] = Sending(running[w].session, Tail(running[w].msgs))]
    BY <1>2 DEF SendTaken, storeVars, WorkerFrame
  <2>2. at[w] = "idle"
    BY <1>s, <1>t, <2>1 DEF Stages, Runs
  <2>3. at' = [at EXCEPT ![w] = "idle"] /\ memory' = [memory EXCEPT ![w] = <<>>]
    BY <1>i, <2>1, <2>2
  <2>4. QED
    BY <1>s, <1>q, <1>z, <2>1, <2>3, CallEnds DEF StoredSent
<1>3. CASE SaveMessage(w) \/ SaveThrows(w)
  <2> DEFINE m == running[w].msg
  <2>1. /\ Runs(w, "save") /\ UNCHANGED <<store, log, tasks>>
        /\ running' = [running EXCEPT ![w] = None]
        /\ at' = [at EXCEPT ![w] = "idle"] /\ memory' = [memory EXCEPT ![w] = <<>>]
    BY <1>3 DEF SaveMessage, SaveThrows, CallReturns, TaskDone, WorkerFrame
  <2>2. m \in DOMAIN log /\ m \in Saving(w) /\ m \in Msg
    BY <1>s, <1>t, <2>1 DEF StoredSent, Saving, Runs, SaveTask, LoadTask, SendTask
  <2>3. clashed \subseteq DOMAIN log
    BY <1>s DEF StoredSent
  <2>4. CASE UNCHANGED <<stored, clashed>>
    BY <1>q, <2>1, <2>3, <2>4, CallEnds
  <2>5. CASE Rewrite(w, Append(memory[w], m)) /\ UNCHANGED clashed
    <3>1. Range(stored') \subseteq Range(stored) \cup Range(memory[w]) \cup Saving(w)
      <4> DEFINE msgs == Append(memory[w], m)
      <4>1. msgs \in Seq(Msg) /\ Range(msgs) = Range(memory[w]) \cup {m}
        BY <1>t, <2>2, AppendRange
      <4> HIDE DEF msgs
      <4>2. stored' = msgs \o SubSeq(stored, Len(msgs) + 1, Len(stored))
        BY <2>5 DEF Rewrite, Overwrite, msgs
      <4>3. Range(stored') \subseteq Range(stored) \cup Range(msgs)
        BY <1>t, <4>1, <4>2, Overwritten
      <4>4. QED
        BY <2>2, <4>1, <4>3
    <3>2. at[w] = "write"
      BY <2>5 DEF Rewrite
    <3>3. QED
      BY <1>q, <2>1, <2>3, <2>5, <3>1, <3>2, CallEnds
  <2>6. CASE Insert(m)
    <3>1. Range(stored') = Range(stored) \cup {m}
      BY <1>t, <2>2, <2>6, AppendRange DEF Insert
    <3>2. /\ store = "mysql" /\ (BetweenStatements(log[m]) => m \in clashed')
          /\ clashed \subseteq clashed' /\ clashed' \subseteq DOMAIN log
      BY <2>2, <2>3, <2>6 DEF Insert
    <3> HIDE DEF m
    <3>3. QED
      BY <1>q, <2>1, <2>2, <3>1, <3>2, CallEnds
  <2>7. QED
    BY <1>3, <2>4, <2>5, <2>6 DEF SaveMessage, SaveThrows
<1>4. CASE TakeMessages(w) \/ TakeThrows(w)
  <2> DEFINE n == running[w].name
  <2>1. /\ Runs(w, "load") /\ UNCHANGED <<store, log, tasks, clashed>>
        /\ at' = [at EXCEPT ![w] = "idle"] /\ memory' = [memory EXCEPT ![w] = <<>>]
    BY <1>4 DEF TakeMessages, TakeThrows, CallReturns, WorkerFrame
  <2>2. PICK x : running' = [running EXCEPT ![w] = x] /\ (x # None => x.kind # "save")
    BY <1>4, <1>z DEF TakeMessages, TakeThrows, HandOut, TaskDone
  <2>3. clashed \subseteq DOMAIN log
    BY <1>s DEF StoredSent
  <2>4. CASE UNCHANGED stored
    BY <1>q, <2>1, <2>2, <2>3, <2>4, CallEnds
  <2>5. CASE Rewrite(w, NotFor(memory[w], n))
    <3>1. NotFor(memory[w], n) \in Seq(Msg) /\ Range(NotFor(memory[w], n)) \subseteq Range(memory[w])
      BY <1>t, OnlyKeeps DEF NotFor
    <3>2. Range(stored') \subseteq Range(stored) \cup Range(memory[w]) \cup Saving(w)
      BY <1>t, <2>5, <3>1, Overwritten DEF Rewrite, Overwrite
    <3>3. at[w] = "write"
      BY <2>5 DEF Rewrite
    <3>4. QED
      BY <1>q, <2>1, <2>2, <2>3, <3>2, <3>3, CallEnds
  <2>6. CASE at[w] = "delete" /\ stored' = NotFor(stored, n)
    <3>1. Range(stored') = {m \in Range(stored) : log[m] # n}
      <4>1. Range(stored) \subseteq DOMAIN log
        BY <1>s DEF StoredSent
      <4>2. QED
        BY <1>t, <2>6, <4>1, OnlyKeeps DEF NotFor
    <3>2. QED
      BY <1>q, <2>1, <2>2, <2>3, <2>6, <3>1, CallEnds
  <2>7. QED
    BY <1>4, <2>4, <2>5, <2>6 DEF TakeMessages, TakeThrows
<1>5. QED
  BY <1>1, <1>2, <1>3, <1>4, ReadStore, OpenStore, SelectStore DEF Worker, StoreThrows

(* Every step keeps the calls of the store in line with what it contains.  *)
LEMMA StepStore ==
  ASSUME Consistent, StoreInv, [Next]_serverVars
  PROVE  StoreInv'
<1>t. TypeOK /\ Typed
  BY DEF Consistent, ServerInv, Typed
<1>s. Stages /\ StoredSent
  BY DEF StoreInv
<1>k. tasks \in Seq(Task)
  BY <1>t DEF TypeOK, Task
<1>1. ASSUME NEW s \in Sessions, Client(s) PROVE StoreInv'
  <2>1. ASSUME NEW u \in Users, Login(s, u) PROVE StoreInv'
    <3> DEFINE load == [kind |-> "load", session |-> s, name |-> names_'[s]]
    <3>1. PICK n \in Names : names_'[s] = n
      <4>1. PICK x \in Names : Register(s, x)
        BY <1>t, <2>1, LoginRegisters DEF Login, Consistent, ServerInv
      <4>2. QED
        BY <1>t, <4>1 DEF Register, TypeOK, RoomTypeOK
    <3>2. load \in Task /\ load.kind = "load"
      BY <3>1 DEF Task, LoadTask
    <3>3. tasks' = Append(tasks, load) /\ UNCHANGED <<store, stored, at, memory, clashed, running, log>>
      BY <2>1 DEF Login, submit_store_task, mailVars, storeVars
    <3> HIDE DEF load
    <3>4. Range(tasks') = Range(tasks) \cup {load}
      BY <1>k, <3>2, <3>3, AppendRange
    <3>5. QED
      BY <1>s, <3>2, <3>3, <3>4, SameStore DEF StoredSent, SavesSent
  <2>2. ASSUME NEW u \in Users, PrivateMessage(s, u) PROVE StoreInv'
    <3> DEFINE m == Len(log) + 1
               save == [kind |-> "save", msg |-> m]
    <3>1. Len(log) < MaxMsgs /\ log' = Append(log, u) /\ UNCHANGED <<running, storeVars>>
      BY <2>2 DEF PrivateMessage
    <3>2. /\ m \in DOMAIN log' /\ \A k \in DOMAIN log : k \in DOMAIN log' /\ log'[k] = log[k]
      BY <1>t, <3>1, LogGrows
    <3>3. save \in Task /\ save.kind = "save" /\ save.msg = m
      BY <1>t, <3>1, LenProperties, ChatServerAssumption DEF TypeOK, Msg, Task, SaveTask
    <3>4. UNCHANGED tasks \/ tasks' = Append(tasks, save)
      BY <2>2 DEF PrivateMessage, submit_store_task
    <3> HIDE DEF save, m
    <3>5. Range(tasks') \subseteq Range(tasks) \cup {save}
      BY <1>k, <3>3, <3>4, AppendRange
    <3>6. SavesSent(tasks)'
      BY <1>s, <3>2, <3>3, <3>5 DEF StoredSent, SavesSent
    <3>7. QED
      BY <3>1, <3>2, <3>6, SameStore DEF storeVars
  <2>3. CASE \/ Accept(s) \/ Heartbeat(s) \/ CloseFromReader(s) \/ CloseFromWriter(s)
             \/ \E u \in Users : RegisterUser(s, u)
             \/ \E r \in Rooms : JoinRoom(s, r)
    <3>1. UNCHANGED <<store, stored, at, memory, clashed, running, log, tasks>>
      BY <2>3 DEF Accept, Heartbeat, CloseFromReader, CloseFromWriter, close_session, RegisterUser,
                  JoinRoom, mailVars, storeVars, poolVars
    <3>2. QED
      BY <1>s, <3>1, SameStore DEF StoredSent, SavesSent
  <2>4. QED
    BY <1>1, <2>1, <2>2, <2>3 DEF Client
<1>2. ASSUME NEW s \in Sessions, RunPosted(s) PROVE StoreInv'
  <2>1. UNCHANGED <<store, stored, at, memory, clashed, running, log, tasks>>
    BY <1>2 DEF RunPosted, storeVars, poolVars
  <2>2. QED
    BY <1>s, <2>1, SameStore DEF StoredSent, SavesSent
<1>3. ASSUME NEW w \in Workers, Worker(w) \/ StoreThrows(w) PROVE StoreInv'
  BY <1>t, <1>3, WorkerStore
<1>4. CASE Terminate
  <2>1. /\ running' = [w \in Workers |-> None] /\ at' = [w \in Workers |-> "idle"]
        /\ memory' = [w \in Workers |-> <<>>] /\ tasks' = <<>>
        /\ UNCHANGED <<store, stored, clashed, log>>
    BY <1>4 DEF Terminate
  <2>2. Stages' /\ FileInv' /\ TableInv'
    BY <2>1 DEF Stages, FileInv, TableInv
  <2>3. StoredSent'
    BY <1>s, <2>1, EmptyRange DEF StoredSent, SavesSent, Saving, Runs
  <2>4. QED
    BY <2>2, <2>3 DEF StoreInv
<1>5. CASE UNCHANGED serverVars
  <2>1. UNCHANGED <<store, stored, at, memory, clashed, running, log, tasks>>
    BY <1>5 DEF serverVars, mailVars, storeVars, poolVars
  <2>2. QED
    BY <1>s, <2>1, SameStore DEF StoredSent, SavesSent
<1>6. QED
  BY <1>1, <1>2, <1>3, <1>4, <1>5 DEF Next

-----------------------------------------------------------------------------
(* Whatever is under way to a session that is not stopped is for the name  *)
(* it has; before its login nothing is.                                    *)
Bears(s, n) == logged_in_[s] /\ user_name_[s] = n
LoadAddressed(s, t) == t.kind = "load" /\ t.session = s => Bears(s, t.name)
MailAddressed(s, M) == \A m \in M : m \in DOMAIN log /\ Bears(s, log[m])
Addressed(s) ==
  /\ \A t \in Range(tasks) : LoadAddressed(s, t)
  /\ \A w \in Workers :
       /\ running[w] # None => LoadAddressed(s, running[w])
       /\ Runs(w, "send") /\ running[w].session = s => MailAddressed(s, Range(running[w].msgs))
  /\ MailAddressed(s, Range(strand[s]))
  /\ MailAddressed(s, Range(outbox[s]))

MailInv ==
  \A s \in Sessions :
    /\ phase[s] = "new" => ~logged_in_[s]
    /\ late[s] => phase[s] = "stopped"
    /\ phase[s] # "stopped" => Addressed(s)

(* Nothing is under way in a server that starts.                           *)
LEMMA InitMail == Init => MailInv
  BY EmptyRange DEF Init, MailInv, Addressed, LoadAddressed, MailAddressed, Runs

(* A login begins the session's mail with one load.                        *)
LEMMA LoginMail ==
  ASSUME Consistent, MailInv, NEW s \in Sessions, NEW u \in Users, Login(s, u)
  PROVE  MailInv'
<1>t. TypeOK /\ RoomTypeOK
  BY DEF Consistent, ServerInv, TypeOK
<1>n. PICK n \in Names : names_'[s] = n
  <2>1. PICK x \in Names : Register(s, x)
    BY LoginRegisters DEF Login
  <2>2. QED
    BY <1>t, <2>1 DEF Register, RoomTypeOK
<1> DEFINE load == [kind |-> "load", session |-> s, name |-> n]
<1>1. /\ UNCHANGED <<phase, log, running, strand, outbox>> /\ ~logged_in_[s]
      /\ logged_in_' = [logged_in_ EXCEPT ![s] = TRUE]
      /\ user_name_' = [user_name_ EXCEPT ![s] = n]
      /\ late' = [late EXCEPT ![s] = FALSE] /\ (phase[s] = "open" \/ late[s])
      /\ tasks' = Append(tasks, load)
  BY <1>n DEF Login, Frame, submit_store_task, mailVars, storeVars
<1>2. Range(tasks') = Range(tasks) \cup {load}
  <2>1. tasks \in Seq(Task) /\ load \in Task
    BY <1>t DEF TypeOK, Task, LoadTask
  <2> HIDE DEF load
  <2>2. QED
    BY <1>1, <2>1, AppendRange
<1>3. ASSUME NEW t \in Sessions, t # s, phase[t] # "stopped" PROVE Addressed(t)'
  <2>1. \A x : Bears(t, x)' = Bears(t, x)
    BY <1>t, <1>1, <1>3 DEF Bears, TypeOK
  <2>2. Addressed(t)
    BY <1>3 DEF MailInv
  <2>3. load.session # t
    BY <1>3
  <2> HIDE DEF load
  <2>4. QED
    BY <1>1, <1>2, <2>1, <2>2, <2>3 DEF Addressed, LoadAddressed, MailAddressed, Runs
<1>4. ASSUME phase[s] # "stopped" PROVE Addressed(s)'
  <2>1. Bears(s, n)' /\ \A x : ~Bears(s, x)
    BY <1>t, <1>1 DEF Bears, TypeOK
  <2>2. Addressed(s)
    BY <1>4 DEF MailInv
  <2>3. LoadAddressed(s, load)'
    BY <2>1 DEF LoadAddressed
  <2> HIDE DEF load
  <2>4. QED
    BY <1>1, <1>2, <2>1, <2>2, <2>3 DEF Addressed, LoadAddressed, MailAddressed, Runs
<1>5. QED
  BY <1>t, <1>1, <1>3, <1>4 DEF MailInv, TypeOK

(* A session that closes is stopped, so what is under way to it may be for *)
(* any name; nothing changes for the others.                               *)
LEMMA CloseMail ==
  ASSUME Consistent, MailInv, NEW s \in Sessions, CloseFromReader(s) \/ CloseFromWriter(s)
  PROVE  MailInv'
<1>t. TypeOK
  BY DEF Consistent, ServerInv
<1>1. /\ UNCHANGED <<log, tasks, running, strand, outbox, user_name_>>
      /\ phase' = [phase EXCEPT ![s] = "stopped"]
      /\ logged_in_' = [logged_in_ EXCEPT ![s] = FALSE]
      /\ \E b \in BOOLEAN : late' = [late EXCEPT ![s] = b]
  BY <1>t DEF CloseFromReader, CloseFromWriter, close_session, mailVars, storeVars, poolVars, TypeOK
<1>2. ASSUME NEW t \in Sessions, t # s, phase[t] # "stopped" PROVE Addressed(t)'
  <2>1. \A x : Bears(t, x)' = Bears(t, x)
    BY <1>t, <1>1, <1>2 DEF Bears, TypeOK
  <2>2. Addressed(t)
    BY <1>2 DEF MailInv
  <2>3. QED
    BY <1>1, <2>1, <2>2 DEF Addressed, LoadAddressed, MailAddressed, Runs
<1>3. QED
  BY <1>t, <1>1, <1>2 DEF MailInv, TypeOK

(* The handlers that neither send nor rename.                              *)
LEMMA SameMail ==
  ASSUME Consistent, MailInv,
         UNCHANGED <<logged_in_, user_name_, log, tasks, running, strand, outbox>>,
         \A s \in Sessions : /\ late'[s] => late[s]
                             /\ phase'[s] = phase[s] \/ (phase[s] = "new" /\ phase'[s] = "open")
  PROVE  MailInv'
<1>1. \A s \in Sessions : \A x : Bears(s, x)' = Bears(s, x)
  BY DEF Bears
<1>2. QED
  BY <1>1 DEF MailInv, Addressed, LoadAddressed, MailAddressed, Runs

(* deliver() of a message adds it to one session's mail or drops it.       *)
LEMMA DeliverNowAdds ==
  ASSUME TypeOK, NEW t \in Sessions, NEW m \in Msg, DeliverNow(t, m)
  PROVE  \A s \in Sessions :
           Range(outbox'[s]) = IF s = t /\ phase[t] # "stopped" THEN Range(outbox[s]) \cup {m}
                               ELSE Range(outbox[s])
<1>1. outbox[t] \in Seq(Msg) /\ outbox \in [Sessions -> Seq(Msg)]
  BY DEF TypeOK
<1>2. Range(Append(outbox[t], m)) = Range(outbox[t]) \cup {m}
  BY <1>1, AppendRange
<1>3. QED
  BY <1>1, <1>2 DEF DeliverNow

(* The same of deliver(), which may have to wait for the strand.           *)
LEMMA DeliverAdds ==
  ASSUME TypeOK, NEW t \in Sessions, NEW m \in Msg, deliver(t, m)
  PROVE  \A s \in Sessions :
           /\ Range(outbox'[s]) \subseteq Range(outbox[s]) \cup (IF s = t THEN {m} ELSE {})
           /\ Range(strand'[s]) \subseteq Range(strand[s]) \cup (IF s = t THEN {m} ELSE {})
<1>1. strand[t] \in Seq(Msg) /\ strand \in [Sessions -> Seq(Msg)]
  BY DEF TypeOK
<1>2. Range(Append(strand[t], m)) = Range(strand[t]) \cup {m}
  BY <1>1, AppendRange
<1>3. QED
  BY <1>1, <1>2, DeliverNowAdds DEF deliver

(* A private message goes to the session that holds the recipient's name,  *)
(* and the registry and that session agree on the name.                    *)
LEMMA PrivateMessageMail ==
  ASSUME Consistent, MailInv, NEW s \in Sessions, NEW u \in Users, PrivateMessage(s, u)
  PROVE  MailInv'
<1>t. TypeOK /\ RoomTypeOK
  BY DEF Consistent, ServerInv, TypeOK
<1> DEFINE m == Len(log) + 1
<1>m. m \in Msg
  <2>1. Len(log) < MaxMsgs
    BY DEF PrivateMessage
  <2>2. QED
    BY <1>t, <2>1, LenProperties, ChatServerAssumption DEF TypeOK, Msg
<1>1. /\ UNCHANGED <<phase, running>> /\ late' = [late EXCEPT ![s] = FALSE]
      /\ log' = Append(log, u)
      /\ \A t \in Sessions : \A x : Bears(t, x)' = Bears(t, x)
      /\ UNCHANGED <<logged_in_>>
  BY DEF PrivateMessage, Frame, loginVars, Bears
<1>2. /\ m \in DOMAIN log' /\ log'[m] = u
      /\ \A k \in DOMAIN log : k \in DOMAIN log' /\ log'[k] = log[k]
  BY <1>t, <1>1, LogGrows
<1>3. \A x \in Range(tasks') : x \in Range(tasks) \/ x.kind = "save"
  <2>1. CASE UNCHANGED tasks
    BY <2>1
  <2>2. CASE submit_store_task([kind |-> "save", msg |-> m])
    <3>1. tasks \in Seq(Task) /\ [kind |-> "save", msg |-> m] \in Task
      BY <1>t, <1>m DEF TypeOK, Task, SaveTask
    <3>2. tasks' = Append(tasks, [kind |-> "save", msg |-> m])
      BY <2>2 DEF submit_store_task
    <3>3. Range(tasks') = Range(tasks) \cup {[kind |-> "save", msg |-> m]}
      BY <3>1, <3>2, AppendRange
    <3>4. QED
      BY <3>3
  <2>3. QED
    BY <2>1, <2>2 DEF PrivateMessage
<1>4. ASSUME NEW t \in Sessions, phase[t] # "stopped"
      PROVE  /\ \A k \in Range(outbox'[t]) : k \in Range(outbox[t]) \/ (k = m /\ Bears(t, u))
             /\ \A k \in Range(strand'[t]) : k \in Range(strand[t]) \/ (k = m /\ Bears(t, u))
  <2>1. CASE UNCHANGED <<strand, outbox, dropped>>
    BY <2>1
  <2>2. CASE name_index_[u] # None /\ deliver(name_index_[u], m)
    <3>1. name_index_[u] \in Sessions
      BY <1>t, <2>2, ChatRoomAssumption DEF RoomTypeOK
    <3>2. Bears(name_index_[u], u)
      BY <1>t, <2>2, <3>1, ChatRoomAssumption
         DEF Bears, Consistent, ServerInv, RegistryMatchesSession, RegistryInv, NameIndexExact, SameSessions
    <3> HIDE DEF m
    <3>3. QED
      BY <1>t, <1>m, <2>2, <3>1, <3>2, DeliverAdds
  <2>3. QED
    BY <2>1, <2>2 DEF PrivateMessage
<1>5. ASSUME NEW t \in Sessions, phase[t] # "stopped" PROVE Addressed(t)'
  <2>1. Addressed(t)
    BY <1>5 DEF MailInv
  <2> HIDE DEF m
  <2>2. \A M : MailAddressed(t, M) => MailAddressed(t, M)'
    BY <1>1, <1>2 DEF MailAddressed
  <2>3. MailAddressed(t, Range(outbox[t]))' /\ MailAddressed(t, Range(strand[t]))'
    <3>1. \A k \in Range(outbox[t]) \cup Range(strand[t]) : k \in DOMAIN log /\ Bears(t, log[k])
      BY <2>1 DEF Addressed, MailAddressed
    <3>2. \A k \in Range(outbox'[t]) \cup Range(strand'[t]) :
            k \in DOMAIN log' /\ Bears(t, log'[k])
      BY <1>2, <1>4, <1>5, <3>1
    <3>3. logged_in_' = logged_in_ /\ user_name_' = user_name_
      BY DEF PrivateMessage, loginVars
    <3>4. QED
      BY <3>2, <3>3 DEF MailAddressed, Bears
  <2>4. \A x \in Range(tasks') : LoadAddressed(t, x)'
    BY <1>1, <1>3, <2>1 DEF Addressed, LoadAddressed
  <2>5. QED
    BY <1>1, <2>1, <2>2, <2>3, <2>4 DEF Addressed, Runs, LoadAddressed
<1>6. QED
  BY <1>t, <1>1, <1>5 DEF MailInv, TypeOK

(* The business threads pass on what they hold to the session it is for.   *)
LEMMA WorkerMail ==
  ASSUME Consistent, StoreInv, MailInv, NEW w \in Workers, Worker(w) \/ StoreThrows(w)
  PROVE  MailInv'
<1>t. TypeOK /\ SendsSome
  BY DEF Consistent, ServerInv
<1>1. UNCHANGED <<phase, late, logged_in_, user_name_, log, outbox>>
  BY DEF Worker, StoreThrows, PopTask, SaveMessage, TakeMessages, SendTaken, SaveThrows,
         TakeThrows, ReadFile, OpenTruncated, SelectMessages, WorkerFrame, connVars, loginVars,
         mailVars, storeVars
<1>2. SUFFICES ASSUME NEW s \in Sessions, Addressed(s) PROVE Addressed(s)'
  BY <1>1 DEF MailInv
<1>3. /\ \A x : LoadAddressed(s, x)' = LoadAddressed(s, x)
      /\ \A M : MailAddressed(s, M)' = MailAddressed(s, M)
  BY <1>1 DEF LoadAddressed, MailAddressed, Bears
<1>4. /\ \A t \in Range(tasks) : LoadAddressed(s, t)
      /\ \A v \in Workers :
           /\ running[v] # None => LoadAddressed(s, running[v])
           /\ running[v] # None /\ running[v].kind = "send" /\ running[v].session = s
                => MailAddressed(s, Range(running[v].msgs))
      /\ MailAddressed(s, Range(strand[s])) /\ MailAddressed(s, Range(outbox[s]))
  BY <1>2 DEF Addressed, Runs
<1>5. SUFFICES /\ \A t \in Range(tasks') : LoadAddressed(s, t)
               /\ \E x : /\ running' = [running EXCEPT ![w] = x]
                         /\ x # None => LoadAddressed(s, x)
                         /\ x # None /\ x.kind = "send" /\ x.session = s
                              => MailAddressed(s, Range(x.msgs))
               /\ MailAddressed(s, Range(strand'[s]))
  <2>1. running \in [Workers -> SaveTask \cup LoadTask \cup SendTask \cup {None}]
    BY <1>t DEF TypeOK
  <2>2. QED
    BY <1>1, <1>3, <1>4, <1>5, <2>1 DEF Addressed, Runs
<1> DEFINE Goal == /\ \A t \in Range(tasks') : LoadAddressed(s, t)
                   /\ \E x : /\ running' = [running EXCEPT ![w] = x]
                             /\ x # None => LoadAddressed(s, x)
                             /\ x # None /\ x.kind = "send" /\ x.session = s
                                  => MailAddressed(s, Range(x.msgs))
                   /\ MailAddressed(s, Range(strand'[s]))
<1>6. ASSUME PopTask(w) PROVE Goal
  <2>1. tasks \in Seq(Task) /\ tasks # <<>>
    BY <1>6, <1>t DEF PopTask, TypeOK, Task
  <2>2. Range(tasks) = Range(Tail(tasks)) \cup {Head(tasks)} /\ Head(tasks) \in Task
    BY <2>1, TailRange
  <2>3. Head(tasks).kind # "send"
    BY <2>2 DEF Task, SaveTask, LoadTask
  <2>4. QED
    BY <1>4, <1>6, <2>2, <2>3 DEF PopTask, mailVars, storeVars
<1>7. ASSUME SaveMessage(w) \/ SaveThrows(w) \/ TakeThrows(w) PROVE Goal
  BY <1>4, <1>7 DEF SaveMessage, SaveThrows, TakeThrows, TaskDone, WorkerFrame
<1>8. ASSUME TakeMessages(w) PROVE Goal
  <2> DEFINE n == running[w].name
  <2>1. PICK msgs : HandOut(w, msgs) /\ msgs \in {For(memory[w], n), memory[w], <<>>}
                    /\ (msgs = memory[w] => at[w] = "delete" \/ msgs \in {For(memory[w], n), <<>>})
    BY <1>8 DEF TakeMessages
  <2>2. \A m \in Range(msgs) : m \in DOMAIN log /\ log[m] = n
    <3>1. Range(For(memory[w], n)) = Range(memory[w]) \cap {m \in DOMAIN log : log[m] = n}
      BY <1>t, OnlyKeeps DEF For, TypeOK
    <3>2. at[w] = "delete" => \A m \in Range(memory[w]) : m \in DOMAIN log /\ log[m] = n
      BY DEF StoreInv, StoredSent, TableInv, ReadBy
    <3>3. QED
      BY <2>1, <3>1, <3>2, EmptyRange
  <2> DEFINE x == Sending(running[w].session, msgs)
  <2>3. running[w].session = s => Bears(s, n)
    BY <1>4, <1>8 DEF TakeMessages, Runs, LoadAddressed
  <2>4. running[w].session = s => MailAddressed(s, Range(msgs))
    BY <2>2, <2>3 DEF MailAddressed
  <2>5. /\ x # None => LoadAddressed(s, x)
        /\ x # None /\ x.kind = "send" /\ x.session = s => MailAddressed(s, Range(x.msgs))
    BY <2>4 DEF Sending, LoadAddressed
  <2>6. running' = [running EXCEPT ![w] = x] \/ running' = [running EXCEPT ![w] = None]
    BY <2>1 DEF HandOut, TaskDone
  <2>7. UNCHANGED <<tasks, strand>>
    BY <1>8 DEF TakeMessages, WorkerFrame
  <2> HIDE DEF x
  <2>8. QED
    BY <1>4, <2>5, <2>6, <2>7
<1>9. ASSUME SendTaken(w) PROVE Goal
  <2> DEFINE t == running[w].session
             msgs == running[w].msgs
             x == Sending(t, Tail(msgs))
  <2>1. t \in Sessions /\ msgs \in Seq(Msg) /\ msgs # <<>>
    BY <1>9, <1>t DEF SendTaken, Runs, TypeOK, SaveTask, LoadTask, SendTask, SendsSome
  <2>2. Range(msgs) = Range(Tail(msgs)) \cup {Head(msgs)} /\ Head(msgs) \in Msg
    BY <2>1, TailRange
  <2>3. t = s => MailAddressed(s, Range(msgs))
    BY <1>4, <1>9 DEF SendTaken, Runs
  <2>4. /\ x # None => LoadAddressed(s, x)
        /\ x # None /\ x.kind = "send" /\ x.session = s => MailAddressed(s, Range(x.msgs))
    BY <2>2, <2>3 DEF Sending, LoadAddressed, MailAddressed
  <2>5. MailAddressed(s, Range(strand'[s]))
    <3>1. strand' = [strand EXCEPT ![t] = Append(@, Head(msgs))] /\ strand \in [Sessions -> Seq(Msg)]
      BY <1>9, <1>t DEF SendTaken, TypeOK
    <3>2. Range(Append(strand[t], Head(msgs))) = Range(strand[t]) \cup {Head(msgs)}
      BY <2>1, <2>2, <3>1, AppendRange
    <3>3. QED
      BY <1>4, <2>1, <2>2, <2>3, <3>1, <3>2 DEF MailAddressed
  <2>6. running' = [running EXCEPT ![w] = x] /\ UNCHANGED tasks
    BY <1>9 DEF SendTaken, WorkerFrame
  <2> HIDE DEF x
  <2>7. QED
    BY <1>4, <2>4, <2>5, <2>6
<1>10. ASSUME ReadFile(w) \/ OpenTruncated(w) \/ SelectMessages(w) PROVE Goal
  <2>1. UNCHANGED <<tasks, running, strand>>
    BY <1>10 DEF ReadFile, OpenTruncated, SelectMessages, WorkerFrame
  <2>2. running' = [running EXCEPT ![w] = running[w]]
    BY <1>t, <2>1 DEF TypeOK
  <2>3. QED
    BY <1>4, <2>1, <2>2
<1>11. QED
  BY <1>6, <1>7, <1>8, <1>9, <1>10 DEF Worker, StoreThrows

(* A posted deliver() moves a message on within one session.               *)
LEMMA RunPostedMail ==
  ASSUME Consistent, MailInv, NEW s \in Sessions, RunPosted(s)
  PROVE  MailInv'
<1>t. TypeOK
  BY DEF Consistent, ServerInv
<1>1. /\ UNCHANGED <<phase, late, logged_in_, user_name_, log, tasks, running>>
      /\ strand[s] # <<>> /\ strand' = [strand EXCEPT ![s] = Tail(@)]
      /\ DeliverNow(s, Head(strand[s]))
  BY DEF RunPosted, connVars, loginVars, poolVars
<1>2. strand \in [Sessions -> Seq(Msg)]
  BY <1>t DEF TypeOK
<1>3. Range(strand[s]) = Range(Tail(strand[s])) \cup {Head(strand[s])} /\ Head(strand[s]) \in Msg
  BY <1>1, <1>2, TailRange
<1>4. ASSUME NEW t \in Sessions
      PROVE  /\ Range(outbox'[t]) \subseteq Range(outbox[t]) \cup Range(strand[t])
             /\ Range(strand'[t]) \subseteq Range(strand[t])
  BY <1>t, <1>1, <1>2, <1>3, DeliverNowAdds
<1>5. ASSUME NEW t \in Sessions, Addressed(t) PROVE Addressed(t)'
  <2>1. /\ \A x : LoadAddressed(t, x)' = LoadAddressed(t, x)
        /\ \A M : MailAddressed(t, M)' = MailAddressed(t, M)
    BY <1>1 DEF LoadAddressed, MailAddressed, Bears
  <2>2. MailAddressed(t, Range(outbox'[t])) /\ MailAddressed(t, Range(strand'[t]))
    BY <1>4, <1>5 DEF Addressed, MailAddressed
  <2>3. QED
    BY <1>1, <1>5, <2>1, <2>2 DEF Addressed, Runs
<1>6. QED
  BY <1>1, <1>5 DEF MailInv

(* Every step keeps what is under way addressed.                           *)
LEMMA StepMail ==
  ASSUME Consistent, StoreInv, MailInv, [Next]_serverVars
  PROVE  MailInv'
<1>1. ASSUME NEW s \in Sessions, Client(s) PROVE MailInv'
  <2>1. TypeOK
    BY DEF Consistent, ServerInv
  <2>2. ASSUME NEW u \in Users, Login(s, u) PROVE MailInv'
    BY <2>2, LoginMail
  <2>3. ASSUME NEW u \in Users, PrivateMessage(s, u) PROVE MailInv'
    BY <2>3, PrivateMessageMail
  <2>4. CASE CloseFromReader(s) \/ CloseFromWriter(s)
    BY <2>4, CloseMail
  <2>5. CASE Accept(s)
    BY <2>1, <2>5, SameMail DEF Accept, TypeOK, loginVars, mailVars, storeVars, poolVars
  <2>6. ASSUME \/ \E u \in Users : RegisterUser(s, u)
               \/ \E r \in Rooms : JoinRoom(s, r)
               \/ Heartbeat(s)
        PROVE  MailInv'
    <3>1. /\ UNCHANGED <<phase, logged_in_, user_name_, log, tasks, running, strand, outbox>>
          /\ late' = [late EXCEPT ![s] = FALSE]
      BY <2>6 DEF RegisterUser, JoinRoom, Heartbeat, Frame, loginVars, mailVars, storeVars, poolVars
    <3>2. QED
      BY <2>1, <3>1, SameMail DEF TypeOK
  <2>7. QED
    BY <1>1, <2>2, <2>3, <2>4, <2>5, <2>6 DEF Client
<1>2. ASSUME NEW s \in Sessions, RunPosted(s) PROVE MailInv'
  BY <1>2, RunPostedMail
<1>3. ASSUME NEW w \in Workers, Worker(w) \/ StoreThrows(w) PROVE MailInv'
  BY <1>3, WorkerMail
<1>4. CASE Terminate
  <2>1. /\ \A s \in Sessions : phase'[s] # "stopped" => phase[s] = "new" /\ phase'[s] = "new"
        /\ UNCHANGED <<log, user_name_, outbox>>
        /\ late' = [s \in Sessions |-> FALSE] /\ logged_in_' = [s \in Sessions |-> FALSE]
        /\ tasks' = <<>> /\ running' = [w \in Workers |-> None] /\ strand' = [s \in Sessions |-> <<>>]
    BY <1>4 DEF Terminate
  <2>2. ASSUME NEW s \in Sessions, phase[s] = "new" PROVE Range(outbox[s]) = {}
    <3>1. Addressed(s) /\ ~logged_in_[s]
      BY <2>2 DEF MailInv
    <3>2. QED
      BY <3>1 DEF Addressed, MailAddressed, Bears
  <2>3. ASSUME NEW s \in Sessions, phase'[s] # "stopped" PROVE Addressed(s)'
    BY <2>1, <2>2, <2>3, EmptyRange DEF Addressed, MailAddressed, LoadAddressed, Runs
  <2>4. QED
    BY <2>1, <2>3 DEF MailInv
<1>5. CASE UNCHANGED serverVars
  BY <1>5, SameMail DEF serverVars, connVars, loginVars, mailVars, storeVars, poolVars
<1>6. QED
  BY <1>1, <1>2, <1>3, <1>4, <1>5 DEF Next

-----------------------------------------------------------------------------
(* The messages a task holds, and those of the save tasks in a queue.      *)
HeldIn(t) ==
  IF t = None THEN {}
  ELSE IF t.kind = "save" THEN {t.msg}
  ELSE IF t.kind = "send" THEN Range(t.msgs)
  ELSE {}
SavesIn(q) == UNION {HeldIn(t) : t \in Range(q)}
SavesApart(q) ==
  \A i, j \in DOMAIN q :
    q[i].kind = "save" /\ q[j].kind = "save" /\ q[i].msg = q[j].msg => i = j

(* The messages that no two overlapping calls of the store have touched.   *)
Sound == Msg \ clashed

(* Every such message that was sent is in one of these places, and there   *)
(* once: no worker that reads the store, and none that rewrites it, makes  *)
(* a second copy of it.                                                    *)
Locations ==
  ({"tasks", "store", "dropped"} \X {None})
    \cup ({"worker"} \X Workers) \cup ({"strand", "outbox"} \X Sessions)

At(place, l) == {m \in DOMAIN place : place[m] = l}

PlacedBy(place) ==
  /\ SavesIn(tasks) \ clashed = At(place, <<"tasks", None>>)
  /\ InStore \ clashed = At(place, <<"store", None>>)
  /\ dropped \ clashed = At(place, <<"dropped", None>>)
  /\ \A w \in Workers : HeldIn(running[w]) \ clashed = At(place, <<"worker", w>>)
  /\ \A s \in Sessions : Range(strand[s]) \ clashed = At(place, <<"strand", s>>)
  /\ \A s \in Sessions : Range(outbox[s]) \ clashed = At(place, <<"outbox", s>>)

OnePlace == \E place \in [Unclashed -> Locations] : PlacedBy(place)

NoRepeats ==
  /\ SavesApart(tasks)
  /\ \A w \in Workers : Runs(w, "send") => Once(running[w].msgs, Sound)
  /\ Once(stored, Sound)
  /\ \A w \in Workers : Once(memory[w], Sound)
  /\ \A s \in Sessions : Once(strand[s], Sound) /\ Once(outbox[s], Sound)

PlaceInv == OnePlace /\ NoRepeats

-----------------------------------------------------------------------------
(* A task in the queue holds a message if it is to save it.                *)
LEMMA TasksHold ==
  ASSUME NEW t \in Task
  PROVE  /\ t # None
         /\ HeldIn(t) = IF t.kind = "save" THEN {t.msg} ELSE {}
  BY NoneIsNoTask DEF HeldIn, Task, SaveTask, LoadTask

(* The save tasks of a longer queue, ...                                   *)
LEMMA SavesAppend ==
  ASSUME NEW q \in Seq(Task), NEW t \in Task
  PROVE  /\ SavesIn(Append(q, t)) = SavesIn(q) \cup HeldIn(t)
         /\ SavesApart(q) /\ HeldIn(t) \cap SavesIn(q) = {} => SavesApart(Append(q, t))
<1>1. Range(Append(q, t)) = Range(q) \cup {t}
  BY AppendRange
<1>2. /\ Len(q) \in Nat /\ DOMAIN q = 1..Len(q) /\ DOMAIN Append(q, t) = 1..(Len(q) + 1)
      /\ \A i \in 1..Len(q) : Append(q, t)[i] = q[i] /\ q[i] \in Task
      /\ Append(q, t)[Len(q) + 1] = t
  BY AppendProperties, LenProperties
<1>3. SavesIn(Append(q, t)) = SavesIn(q) \cup HeldIn(t)
  BY <1>1 DEF SavesIn
<1>4. ASSUME SavesApart(q), HeldIn(t) \cap SavesIn(q) = {} PROVE SavesApart(Append(q, t))
  <2>1. ASSUME NEW i \in 1..Len(q), q[i].kind = "save", t.kind = "save" PROVE q[i].msg # t.msg
    <3>1. q[i].msg \in SavesIn(q)
      <4>1. q[i].msg \in HeldIn(q[i])
        BY <1>2, <2>1, TasksHold
      <4>2. QED
        BY <1>2, <4>1 DEF SavesIn, Range
    <3>2. t.msg \in HeldIn(t)
      BY <2>1, TasksHold
    <3>3. QED
      BY <1>4, <3>1, <3>2
  <2>2. \A i \in 1..(Len(q) + 1) : i \in 1..Len(q) \/ i = Len(q) + 1
    BY <1>2
  <2>3. QED
    BY <1>2, <1>4, <2>1, <2>2 DEF SavesApart
<1>5. QED
  BY <1>3, <1>4

(* ... and of one whose first task is popped.                              *)
LEMMA SavesTail ==
  ASSUME NEW q \in Seq(Task), q # <<>>, SavesApart(q)
  PROVE  /\ SavesIn(q) = SavesIn(Tail(q)) \cup HeldIn(Head(q))
         /\ HeldIn(Head(q)) \cap SavesIn(Tail(q)) = {}
         /\ SavesApart(Tail(q))
<1>1. Range(q) = Range(Tail(q)) \cup {Head(q)} /\ Head(q) \in Task /\ Tail(q) \in Seq(Task)
  BY TailRange
<1>2. /\ Len(q) \in Nat \ {0} /\ DOMAIN q = 1..Len(q) /\ DOMAIN Tail(q) = 1..(Len(q) - 1)
      /\ \A i \in 1..(Len(q) - 1) : Tail(q)[i] = q[i + 1] /\ Tail(q)[i] \in Task
      /\ Head(q) = q[1]
  BY <1>1, HeadTailProperties, LenProperties, EmptySeq
<1>3. \A i \in 1..(Len(q) - 1) : i + 1 \in 1..Len(q) /\ i + 1 # 1
  BY <1>2
<1>4. SavesIn(q) = SavesIn(Tail(q)) \cup HeldIn(Head(q))
  BY <1>1 DEF SavesIn
<1>5. ASSUME NEW m \in HeldIn(Head(q)), m \in SavesIn(Tail(q)) PROVE FALSE
  <2>1. Head(q).kind = "save" /\ Head(q).msg = m
    BY <1>1, <1>5, TasksHold
  <2>2. PICK i \in 1..(Len(q) - 1) : m \in HeldIn(Tail(q)[i])
    BY <1>2, <1>5 DEF SavesIn, Range
  <2>3. Tail(q)[i].kind = "save" /\ Tail(q)[i].msg = m
    BY <1>2, <2>2, TasksHold
  <2>4. 1 \in 1..Len(q)
    BY <1>2
  <2>5. QED
    BY <1>2, <1>3, <2>1, <2>3, <2>4 DEF SavesApart
<1>6. SavesApart(Tail(q))
  <2>1. ASSUME NEW i \in 1..(Len(q) - 1), NEW j \in 1..(Len(q) - 1), i + 1 = j + 1 PROVE i = j
    BY <2>1
  <2>2. QED
    BY <1>2, <1>3, <2>1 DEF SavesApart
<1>7. QED
  BY <1>4, <1>5, <1>6

(* What the store contains.                                                *)
LEMMA StoreHas ==
  \A m : m \in InStore <=> \/ m \in Range(stored)
                           \/ \E v \in Workers : at[v] = "write" /\ m \in Range(memory[v])
  BY DEF InStore, Writers

LEMMA StoreHasNext ==
  \A m : m \in InStore' <=> \/ m \in Range(stored')
                            \/ \E v \in Workers : at'[v] = "write" /\ m \in Range(memory'[v])
  BY DEF InStore, Writers

(* The messages M go from one place to another: what a place holds then.   *)
After(C, l, M, from, to) == IF l = to THEN C \cup M ELSE IF l = from THEN C \ M ELSE C

(* The same but for clashed messages.                                      *)
Becomes(C, D, l, M, from, to) == D \ clashed' = After(C, l, M, from, to) \ clashed'

Moved(M, from, to) ==
  /\ Becomes(SavesIn(tasks), SavesIn(tasks'), <<"tasks", None>>, M, from, to)
  /\ Becomes(InStore, InStore', <<"store", None>>, M, from, to)
  /\ Becomes(dropped, dropped', <<"dropped", None>>, M, from, to)
  /\ \A w \in Workers :
       Becomes(HeldIn(running[w]), HeldIn(running'[w]), <<"worker", w>>, M, from, to)
  /\ \A s \in Sessions : Becomes(Range(strand[s]), Range(strand'[s]), <<"strand", s>>, M, from, to)
  /\ \A s \in Sessions : Becomes(Range(outbox[s]), Range(outbox'[s]), <<"outbox", s>>, M, from, to)

(* If the contents of every place change accordingly, each message still   *)
(* has its one place.                                                      *)
LEMMA Placed ==
  ASSUME NEW place, PlacedBy(place), NEW p, NEW M, NEW from, NEW to, Moved(M, from, to),
         clashed \subseteq clashed',
         \A l \in Locations : At(p, l) = After(At(place, l), l, M, from, to) \ clashed'
  PROVE  PlacedBy(p)'
<1>1. ASSUME NEW C, NEW D, NEW l \in Locations, C \ clashed = At(place, l), Becomes(C, D, l, M, from, to)
      PROVE  D \ clashed' = At(p, l)
  BY <1>1 DEF Becomes, After
<1>2. /\ {<<"tasks", None>>, <<"store", None>>, <<"dropped", None>>} \subseteq Locations
      /\ \A w \in Workers : <<"worker", w>> \in Locations
      /\ \A s \in Sessions : <<"strand", s>> \in Locations /\ <<"outbox", s>> \in Locations
  BY DEF Locations
<1>3. SavesIn(tasks') \ clashed' = At(p, <<"tasks", None>>)
  BY <1>1, <1>2 DEF PlacedBy, Moved
<1>4. InStore' \ clashed' = At(p, <<"store", None>>)
  BY <1>1, <1>2 DEF PlacedBy, Moved
<1>5. dropped' \ clashed' = At(p, <<"dropped", None>>)
  BY <1>1, <1>2 DEF PlacedBy, Moved
<1>6. ASSUME NEW w \in Workers PROVE HeldIn(running'[w]) \ clashed' = At(p, <<"worker", w>>)
  <2>1. /\ HeldIn(running[w]) \ clashed = At(place, <<"worker", w>>)
        /\ Becomes(HeldIn(running[w]), HeldIn(running'[w]), <<"worker", w>>, M, from, to)
    BY DEF PlacedBy, Moved
  <2>2. QED
    BY <1>1, <1>2, <2>1
<1>7. ASSUME NEW s \in Sessions PROVE Range(strand'[s]) \ clashed' = At(p, <<"strand", s>>)
  <2>1. /\ Range(strand[s]) \ clashed = At(place, <<"strand", s>>)
        /\ Becomes(Range(strand[s]), Range(strand'[s]), <<"strand", s>>, M, from, to)
    BY DEF PlacedBy, Moved
  <2>2. QED
    BY <1>1, <1>2, <2>1
<1>8. ASSUME NEW s \in Sessions PROVE Range(outbox'[s]) \ clashed' = At(p, <<"outbox", s>>)
  <2>1. /\ Range(outbox[s]) \ clashed = At(place, <<"outbox", s>>)
        /\ Becomes(Range(outbox[s]), Range(outbox'[s]), <<"outbox", s>>, M, from, to)
    BY DEF PlacedBy, Moved
  <2>2. QED
    BY <1>1, <1>2, <2>1
<1>9. QED
  BY <1>3, <1>4, <1>5, <1>6, <1>7, <1>8 DEF PlacedBy

LEMMA Move ==
  ASSUME NEW place \in [Unclashed -> Locations], PlacedBy(place), UNCHANGED log,
         clashed \subseteq clashed',
         NEW from, NEW to \in Locations, from # to,
         NEW M, M \ clashed' \subseteq At(place, from), Moved(M, from, to)
  PROVE  OnePlace'
<1>1. PICK p : p = [m \in Unclashed' |-> IF m \in M THEN to ELSE place[m]]
  OBVIOUS
<1>2. /\ Unclashed' \subseteq Unclashed /\ \A m \in Unclashed' : m \notin clashed'
      /\ \A m \in Unclashed : m \in clashed' \/ m \in Unclashed'
  BY DEF Unclashed
<1>3. p \in [Unclashed' -> Locations]
  BY <1>1, <1>2
<1>4. \A l : At(p, l) = After(At(place, l), l, M, from, to) \ clashed'
  <2>1. DOMAIN p = Unclashed' /\ DOMAIN place = Unclashed
        /\ \A m \in Unclashed' : p[m] = IF m \in M THEN to ELSE place[m]
    BY <1>1
  <2>2. \A m \in M \ clashed' : m \in Unclashed /\ place[m] = from
    BY <2>1 DEF At
  <2>3. QED
    BY <1>2, <2>1, <2>2 DEF At, After
<1>5. PlacedBy(p)'
  BY <1>4, Placed
<1>6. QED
  BY <1>3, <1>5 DEF OnePlace

(* A message that has just been sent arrives at a first place.             *)
LEMMA Arrive ==
  ASSUME NEW place \in [Unclashed -> Locations], PlacedBy(place), UNCHANGED clashed,
         NEW new, new \notin DOMAIN log, new \notin clashed, DOMAIN log' = DOMAIN log \cup {new},
         NEW to \in Locations, NEW from, from \notin Locations, Moved({new}, from, to)
  PROVE  OnePlace'
<1>1. PICK p : p = [m \in Unclashed \cup {new} |-> IF m = new THEN to ELSE place[m]]
  OBVIOUS
<1>2. Unclashed' = Unclashed \cup {new} /\ new \notin Unclashed
      /\ \A m \in Unclashed \cup {new} : m \notin clashed'
  BY DEF Unclashed
<1>3. p \in [Unclashed' -> Locations]
  BY <1>1, <1>2
<1>4. \A l \in Locations : At(p, l) = After(At(place, l), l, {new}, from, to) \ clashed'
  <2>1. DOMAIN p = Unclashed \cup {new} /\ DOMAIN place = Unclashed
        /\ \A m \in Unclashed \cup {new} : p[m] = IF m = new THEN to ELSE place[m]
    BY <1>1
  <2>2. QED
    BY <1>2, <2>1 DEF At, After
<1>5. PlacedBy(p)'
  BY <1>4, Placed
<1>6. QED
  BY <1>3, <1>5 DEF OnePlace

(* When more messages clash, fewer are sound.                              *)
LEMMA LessSound ==
  ASSUME TypeOK, NoRepeats, clashed \subseteq clashed'
  PROVE  /\ \A w \in Workers : Runs(w, "send") => Once(running[w].msgs, Sound')
         /\ Once(stored, Sound')
         /\ \A w \in Workers : Once(memory[w], Sound')
         /\ \A s \in Sessions : Once(strand[s], Sound') /\ Once(outbox[s], Sound')
<1>1. Sound' \subseteq Sound
  BY DEF Sound
<1>2. ASSUME NEW w \in Workers, Runs(w, "send") PROVE Once(running[w].msgs, Sound')
  <2>1. running[w].msgs \in Seq(Msg)
    BY <1>2 DEF TypeOK, Runs, SaveTask, LoadTask, SendTask
  <2>2. QED
    BY <1>1, <1>2, <2>1, OncePart DEF NoRepeats
<1>3. stored \in Seq(Msg) /\ \A w \in Workers : memory[w] \in Seq(Msg)
  BY DEF TypeOK
<1>4. \A s \in Sessions : strand[s] \in Seq(Msg) /\ outbox[s] \in Seq(Msg)
  BY DEF TypeOK
<1>5. Once(stored, Sound') /\ \A w \in Workers : Once(memory[w], Sound')
  BY <1>1, <1>3, OncePart DEF NoRepeats
<1>6. \A s \in Sessions : Once(strand[s], Sound') /\ Once(outbox[s], Sound')
  BY <1>1, <1>4, OncePart DEF NoRepeats
<1>7. QED
  BY <1>2, <1>5, <1>6

(* Nothing moves, but more messages may clash.                             *)
LEMMA Unmoved ==
  ASSUME PlaceInv, UNCHANGED log, clashed \subseteq clashed', NoRepeats',
         Moved({}, <<"tasks", None>>, <<"store", None>>)
  PROVE  PlaceInv'
<1>1. PICK place \in [Unclashed -> Locations] : PlacedBy(place)
  BY DEF PlaceInv, OnePlace
<1>2. <<"store", None>> \in Locations /\ <<"tasks", None>> # <<"store", None>>
  BY DEF Locations
<1>3. OnePlace'
  BY <1>1, <1>2, Move
<1>4. QED
  BY <1>3 DEF PlaceInv

(* A call that reads the store has a copy in its memory only.              *)
LEMMA ReadPlace ==
  ASSUME Consistent, StoreInv, PlaceInv, NEW w \in Workers, ReadFile(w) \/ SelectMessages(w)
  PROVE  PlaceInv'
<1>t. TypeOK
  BY DEF Consistent, ServerInv
<1> DEFINE msgs == memory'[w]
<1>1. /\ UNCHANGED <<log, tasks, stored, running, strand, outbox, dropped>>
      /\ clashed \subseteq clashed'
      /\ memory' = [memory EXCEPT ![w] = msgs] /\ at[w] = "idle" /\ at'[w] # "write"
      /\ \A v \in Workers \ {w} : at'[v] = at[v]
      /\ \E n : msgs \in {stored, For(stored, n)}
  BY <1>t DEF ReadFile, SelectMessages, WorkerFrame, TypeOK
<1>2. stored \in Seq(Msg) /\ memory \in [Workers -> Seq(Msg)]
  BY <1>t DEF TypeOK
<1>3. NoRepeats
  BY DEF PlaceInv
<1>4. Once(msgs, Sound')
  <2>1. Once(stored, Sound')
    BY <1>t, <1>1, <1>3, LessSound
  <2>2. \A n : Once(For(stored, n), Sound')
    BY <1>2, <2>1, OncePart DEF For
  <2>3. QED
    BY <1>1, <2>1, <2>2
<1> HIDE DEF msgs
<1>5. NoRepeats'
  <2>1. \A v \in Workers : Once(memory'[v], Sound')
    BY <1>t, <1>1, <1>2, <1>3, <1>4, LessSound
  <2>2. QED
    BY <1>t, <1>1, <1>3, <2>1, LessSound DEF NoRepeats, Runs
<1>6. InStore' = InStore
  <2>1. \A v \in Workers : at'[v] = "write" <=> at[v] = "write"
    BY <1>1
  <2>2. \A v \in Workers : at[v] = "write" => memory'[v] = memory[v]
    BY <1>1, <1>2
  <2>3. QED
    BY <1>1, <2>1, <2>2, StoreHas, StoreHasNext
<1>7. Moved({}, <<"tasks", None>>, <<"store", None>>)
  BY <1>1, <1>6 DEF Moved, Becomes, After
<1>8. QED
  BY <1>1, <1>5, <1>7, Unmoved

(* When a call truncates the file, its memory is where the messages are.   *)
LEMMA OpenPlace ==
  ASSUME Consistent, StoreInv, PlaceInv, NEW w \in Workers, OpenTruncated(w)
  PROVE  PlaceInv'
<1>t. TypeOK
  BY DEF Consistent, ServerInv
<1>1. /\ UNCHANGED <<log, tasks, running, memory, strand, outbox, dropped, clashed>>
      /\ at[w] = "open" /\ at'[w] = "write" /\ stored' = <<>>
      /\ \A v \in Workers \ {w} : at'[v] = at[v]
  BY <1>t DEF OpenTruncated, WorkerFrame, TypeOK
<1>2. NoRepeats'
  <2>1. NoRepeats /\ Sound' = Sound
    BY <1>1 DEF PlaceInv, Sound
  <2>2. Once(<<>>, Sound)
    <3>1. <<>> \in Seq(Msg)
      BY EmptySeq
    <3>2. QED
      BY <3>1, EmptyRange, OnceInjective
  <2>3. QED
    BY <1>1, <2>1, <2>2 DEF NoRepeats, Runs
<1>3. InStore' \ clashed = InStore \ clashed
  <2>1. CASE Alone(w)
    <3>1. memory[w] = stored /\ \A v \in Workers : at[v] # "write"
      BY <1>1, <2>1 DEF Alone
    <3>2. \A v \in Workers : at'[v] = "write" <=> v = w
      BY <1>1, <3>1
    <3>3. \A m : (m \in InStore <=> m \in Range(stored)) /\ (m \in InStore' <=> m \in Range(memory[w]))
      BY <1>1, <3>1, <3>2, StoreHas, StoreHasNext, EmptyRange
    <3>4. QED
      BY <3>1, <3>3
  <2>2. CASE AllClashed(w)
    <3>1. Range(stored) \subseteq clashed /\ Range(memory[w]) \subseteq clashed
      BY <2>2 DEF AllClashed
    <3>2. \A m : m \notin clashed => (m \in InStore' <=> m \in InStore)
      BY <1>1, <3>1, StoreHas, StoreHasNext, EmptyRange
    <3>3. QED
      BY <3>2
  <2>3. QED
    BY <1>1, <2>1, <2>2 DEF StoreInv, FileInv
<1>4. Moved({}, <<"tasks", None>>, <<"store", None>>)
  BY <1>1, <1>3 DEF Moved, Becomes, After
<1>5. QED
  BY <1>1, <1>2, <1>4, Unmoved

(* A pool thread takes a task, with its message if it is a save.           *)
LEMMA PopPlace ==
  ASSUME Consistent, PlaceInv, NEW w \in Workers, PopTask(w)
  PROVE  PlaceInv'
<1>t. TypeOK
  BY DEF Consistent, ServerInv
<1> DEFINE t == Head(tasks)
<1>1. /\ running[w] = None /\ tasks # <<>> /\ tasks' = Tail(tasks)
      /\ running' = [running EXCEPT ![w] = t]
      /\ UNCHANGED <<log, stored, at, memory, clashed, strand, outbox, dropped>>
  BY DEF PopTask, mailVars, storeVars
<1>2. tasks \in Seq(Task) /\ running \in [Workers -> Task \cup SendTask \cup {None}]
  BY <1>t DEF TypeOK, Task
<1>3. t \in Task /\ t.kind # "send" /\ t # None
  BY <1>1, <1>2, TailRange, TasksHold DEF Task, SaveTask, LoadTask
<1>4. /\ SavesIn(tasks) = SavesIn(Tail(tasks)) \cup HeldIn(t)
      /\ HeldIn(t) \cap SavesIn(Tail(tasks)) = {}
      /\ SavesApart(Tail(tasks))
  BY <1>1, <1>2, SavesTail DEF PlaceInv, NoRepeats
<1> HIDE DEF t
<1>5. PICK place \in [Unclashed -> Locations] : PlacedBy(place)
  BY DEF PlaceInv, OnePlace
<1>6. HeldIn(t) \ clashed' \subseteq At(place, <<"tasks", None>>)
  BY <1>1, <1>4, <1>5 DEF PlacedBy
<1>7. HeldIn(running[w]) = {} /\ InStore' = InStore
  BY <1>1 DEF HeldIn, InStore, Writers
<1>8. Moved(HeldIn(t), <<"tasks", None>>, <<"worker", w>>)
  BY <1>1, <1>2, <1>4, <1>7 DEF Moved, Becomes, After
<1>9. OnePlace'
  <2>1. <<"worker", w>> \in Locations /\ <<"tasks", None>> # <<"worker", w>>
    BY DEF Locations
  <2>2. QED
    BY <1>1, <1>5, <1>6, <1>8, <2>1, Move
<1>10. NoRepeats'
  BY <1>1, <1>2, <1>3, <1>4 DEF PlaceInv, NoRepeats, Runs, Sound
<1>11. QED
  BY <1>9, <1>10 DEF PlaceInv

(* A call rewrites the file with messages from its memory and the one it   *)
(* saves.                                                                  *)
LEMMA Rewriting ==
  ASSUME TypeOK, StoreInv, NEW w \in Workers, NEW msgs \in Seq(Msg), Rewrite(w, msgs),
         at' = [at EXCEPT ![w] = "idle"], memory' = [memory EXCEPT ![w] = <<>>],
         Range(msgs) \subseteq Range(memory[w]) \cup Saving(w), Once(msgs, Sound)
  PROVE  /\ InStore' \ clashed = ((InStore \ Range(memory[w])) \cup Range(msgs)) \ clashed
         /\ Range(memory[w]) \subseteq InStore
         /\ stored' \in Seq(Msg) /\ Once(stored', Sound)
<1>1. /\ at[w] = "write" /\ at'[w] = "idle"
      /\ \A v \in Workers \ {w} : at'[v] = at[v] /\ memory'[v] = memory[v]
      /\ stored' = msgs \o SubSeq(stored, Len(msgs) + 1, Len(stored)) /\ stored \in Seq(Msg)
  BY DEF TypeOK, Rewrite, Overwrite
<1>2. /\ stored' \in Seq(Msg) /\ Range(stored') \subseteq Range(stored) \cup Range(msgs)
      /\ stored = <<>> => stored' = msgs
  BY <1>1, Overwritten
<1>3. Range(memory[w]) \subseteq InStore
  BY <1>1, StoreHas
<1>4. CASE Alone(w)
  <2>1. stored = <<>> /\ stored' = msgs /\ \A v \in Workers : v # w => at[v] = "idle"
    BY <1>1, <1>2, <1>4 DEF Alone
  <2>2. \A m : m \in InStore <=> m \in Range(memory[w])
    BY <1>1, <2>1, StoreHas, EmptyRange
  <2>3. \A m : m \in InStore' <=> m \in Range(msgs)
    BY <1>1, <2>1, StoreHasNext
  <2>4. QED
    BY <1>2, <1>3, <2>1, <2>2, <2>3
<1>5. CASE AllClashed(w)
  <2>1. /\ Range(stored) \subseteq clashed /\ Range(memory[w]) \subseteq clashed
        /\ Range(msgs) \subseteq clashed /\ Range(stored') \subseteq clashed
    BY <1>2, <1>5 DEF AllClashed
  <2>2. \A m : m \notin clashed => (m \in InStore' <=> m \in InStore)
    BY <1>1, <2>1, StoreHas, StoreHasNext
  <2>3. Once(stored', Sound)
    BY <1>2, <2>1, OnceInjective DEF Sound
  <2>4. QED
    BY <1>2, <1>3, <2>1, <2>2, <2>3
<1>6. QED
  BY <1>1, <1>4, <1>5 DEF StoreInv, FileInv

(* With a table no call rewrites anything.                                 *)
LEMMA TableHas ==
  ASSUME StoreInv, store # "file"
  PROVE  InStore = Range(stored)
<1>1. \A v \in Workers : at[v] # "write"
  BY DEF StoreInv, Stages
<1>2. QED
  BY <1>1, StoreHas

LEMMA TableHasNext ==
  ASSUME StoreInv, store # "file", NEW w \in Workers, at' = [at EXCEPT ![w] = "idle"], TypeOK
  PROVE  InStore' = Range(stored')
<1>1. \A v \in Workers : at[v] # "write"
  BY DEF StoreInv, Stages
<1>2. \A v \in Workers : at'[v] # "write"
  BY <1>1 DEF TypeOK
<1>3. QED
  BY <1>2, StoreHasNext

(* A save puts its message into the store, or drops it.                    *)
LEMMA SavePlace ==
  ASSUME Consistent, StoreInv, PlaceInv, NEW w \in Workers, SaveMessage(w) \/ SaveThrows(w)
  PROVE  PlaceInv'
<1>t. TypeOK
  BY DEF Consistent, ServerInv
<1> DEFINE m == running[w].msg
<1>1. /\ running[w] # None /\ running[w].kind = "save" /\ Runs(w, "save")
      /\ running' = [running EXCEPT ![w] = None]
      /\ at' = [at EXCEPT ![w] = "idle"] /\ memory' = [memory EXCEPT ![w] = <<>>]
      /\ UNCHANGED <<log, tasks, strand, outbox>>
      /\ \/ Rewrite(w, Append(memory[w], m)) /\ UNCHANGED <<clashed, dropped>>
         \/ Insert(m) /\ UNCHANGED dropped
         \/ store # "file" /\ dropped' = dropped \cup {m} /\ UNCHANGED <<stored, clashed>>
  BY DEF SaveMessage, SaveThrows, Runs, TaskDone, WorkerFrame, CallReturns
<1>2. /\ running \in [Workers -> Task \cup SendTask \cup {None}] /\ stored \in Seq(Msg)
      /\ memory \in [Workers -> Seq(Msg)]
  BY <1>t DEF TypeOK, Task
<1>3. m \in Msg /\ m \in Saving(w)
  BY <1>1, <1>2 DEF Task, SaveTask, LoadTask, SendTask, Saving
<1>4. HeldIn(running[w]) = {m} /\ HeldIn(None) = {}
  BY <1>1 DEF HeldIn
<1>5. PICK place \in [Unclashed -> Locations] : PlacedBy(place)
  BY DEF PlaceInv, OnePlace
<1>6. {m} \ clashed \subseteq At(place, <<"worker", w>>)
  BY <1>4, <1>5 DEF PlacedBy
<1>7. <<"store", None>> \in Locations /\ <<"dropped", None>> \in Locations
      /\ <<"store", None>> # <<"worker", w>> /\ <<"dropped", None>> # <<"worker", w>>
  BY DEF Locations
<1>8. m \in InStore => m \in clashed
  BY <1>5, <1>6, <1>7 DEF PlacedBy, At
<1>n. NoRepeats
  BY DEF PlaceInv
<1>e. \A S : Once(<<>>, S)
  <2>1. <<>> \in Seq(Msg)
    BY EmptySeq
  <2>2. QED
    BY <2>1, EmptyRange, OnceInjective
<1> HIDE DEF m
<1>o. ASSUME clashed \subseteq clashed', Once(stored', Sound') PROVE NoRepeats'
  <2>1. \A v \in Workers : Once(memory'[v], Sound')
    BY <1>t, <1>o, <1>1, <1>2, <1>n, <1>e, LessSound
  <2>2. \A v \in Workers : Runs(v, "send")' => Once(running'[v].msgs, Sound')
    BY <1>t, <1>o, <1>1, <1>2, <1>n, LessSound DEF Runs
  <2>3. QED
    BY <1>t, <1>o, <1>1, <1>n, <2>1, <2>2, LessSound DEF NoRepeats
<1>9. CASE Rewrite(w, Append(memory[w], m)) /\ UNCHANGED <<clashed, dropped>>
  <2> DEFINE msgs == Append(memory[w], m)
  <2>1. msgs \in Seq(Msg) /\ Range(msgs) = Range(memory[w]) \cup {m}
    BY <1>2, <1>3, AppendRange
  <2>2. Once(msgs, Sound)
    <3>1. Once(memory[w], Sound) /\ memory[w] \in Seq(Msg)
      BY <1>2, <1>n DEF NoRepeats
    <3>2. m \in Sound => m \notin Range(memory[w])
      BY <1>8, <1>9, StoreHas DEF Rewrite, Sound
    <3>3. QED
      BY <1>3, <3>1, <3>2, OnceAppend
  <2> HIDE DEF msgs
  <2>3. /\ InStore' \ clashed = ((InStore \ Range(memory[w])) \cup Range(msgs)) \ clashed
        /\ Range(memory[w]) \subseteq InStore /\ Once(stored', Sound)
    BY <1>t, <1>1, <1>3, <1>9, <2>1, <2>2, Rewriting DEF msgs
  <2>4. Moved({m}, <<"worker", w>>, <<"store", None>>)
    BY <1>1, <1>2, <1>4, <1>9, <2>1, <2>3 DEF Moved, Becomes, After
  <2>5. OnePlace'
    BY <1>1, <1>5, <1>6, <1>7, <1>9, <2>4, Move
  <2>6. Sound' = Sound
    BY <1>9 DEF Sound
  <2>7. QED
    BY <1>9, <1>o, <2>3, <2>5, <2>6 DEF PlaceInv
<1>10. CASE Insert(m) /\ UNCHANGED dropped
  <2>1. store = "mysql" /\ stored' = Append(stored, m) /\ clashed \subseteq clashed'
        /\ clashed' \subseteq clashed \cup {m}
    BY <1>10 DEF Insert
  <2>2. InStore = Range(stored) /\ InStore' = Range(stored')
    BY <1>t, <1>1, <2>1, TableHas, TableHasNext
  <2>3. Range(stored') = Range(stored) \cup {m}
    BY <1>2, <1>3, <2>1, AppendRange
  <2>4. Once(stored', Sound')
    <3>1. Once(stored, Sound') /\ (m \in Sound' => m \notin Range(stored))
      BY <1>t, <1>8, <1>n, <2>1, <2>2, LessSound DEF Sound
    <3>2. QED
      BY <1>2, <1>3, <2>1, <3>1, OnceAppend
  <2>5. Moved({m}, <<"worker", w>>, <<"store", None>>)
    BY <1>1, <1>2, <1>4, <1>10, <2>2, <2>3 DEF Moved, Becomes, After
  <2>6. OnePlace'
    BY <1>1, <1>5, <1>6, <1>7, <2>1, <2>5, Move
  <2>7. QED
    BY <1>o, <2>1, <2>4, <2>6 DEF PlaceInv
<1>11. CASE store # "file" /\ dropped' = dropped \cup {m} /\ UNCHANGED <<stored, clashed>>
  <2>1. InStore' = InStore
    BY <1>t, <1>1, <1>11, TableHas, TableHasNext
  <2>2. Moved({m}, <<"worker", w>>, <<"dropped", None>>)
    BY <1>1, <1>2, <1>4, <1>11, <2>1 DEF Moved, Becomes, After
  <2>3. OnePlace'
    BY <1>1, <1>5, <1>6, <1>7, <1>11, <2>2, Move
  <2>4. Once(stored', Sound')
    BY <1>11, <1>n DEF Sound, NoRepeats
  <2>5. QED
    BY <1>11, <1>o, <2>3, <2>4 DEF PlaceInv
<1>12. QED
  BY <1>1, <1>9, <1>10, <1>11

(* A worker that sends messages holds them.                                *)
LEMMA SendingHolds ==
  ASSUME NEW s, s \in Sessions, NEW msgs, msgs \in Seq(Msg), NEW S, Once(msgs, S)
  PROVE  /\ HeldIn(Sending(s, msgs)) = Range(msgs)
         /\ Sending(s, msgs) # None /\ Sending(s, msgs).kind = "send"
              => Once(Sending(s, msgs).msgs, S)
<1>1. CASE msgs = <<>>
  BY <1>1, EmptyRange DEF Sending, HeldIn
<1>2. CASE msgs # <<>>
  <2>1. Sending(s, msgs) = [kind |-> "send", session |-> s, msgs |-> msgs]
    BY <1>2 DEF Sending
  <2>2. Sending(s, msgs) \in SendTask
    BY <2>1 DEF SendTask
  <2>3. Sending(s, msgs) # None
    BY <2>2, NoneIsNoTask
  <2>4. QED
    BY <2>1, <2>3 DEF HeldIn
<1>3. QED
  BY <1>1, <1>2

(* The end of a take: msgs left the store and are the worker's to send, or *)
(* are dropped.                                                            *)
LEMMA TakeEnds ==
  ASSUME TypeOK, PlaceInv, NEW w \in Workers, Runs(w, "load"), NEW msgs \in Seq(Msg), Once(msgs, Sound),
         \/ running' = [running EXCEPT ![w] = Sending(running[w].session, msgs)] /\ UNCHANGED dropped
         \/ running' = [running EXCEPT ![w] = None] /\ dropped' = dropped \cup Range(msgs),
         UNCHANGED <<log, tasks, strand, outbox, clashed>>, memory' = [memory EXCEPT ![w] = <<>>],
         InStore' \ clashed = (InStore \ Range(msgs)) \ clashed,
         Range(msgs) \ clashed \subseteq InStore, Once(stored', Sound)
  PROVE  PlaceInv'
<1> DEFINE x == Sending(running[w].session, msgs)
           M == Range(msgs)
<1>1. running[w] # None /\ running[w].kind = "load"
  BY DEF Runs
<1>2. /\ running \in [Workers -> Task \cup SendTask \cup {None}] /\ memory \in [Workers -> Seq(Msg)]
  BY DEF TypeOK, Task
<1>3. PICK place \in [Unclashed -> Locations] : PlacedBy(place)
  BY DEF PlaceInv, OnePlace
<1>4. M \ clashed' \subseteq At(place, <<"store", None>>)
  BY <1>3 DEF PlacedBy
<1>5. HeldIn(running[w]) = {} /\ HeldIn(None) = {}
  BY <1>1 DEF HeldIn
<1>6. HeldIn(x) = M /\ (x # None /\ x.kind = "send" => Once(x.msgs, Sound))
  <2>1. running[w].session \in Sessions
    BY <1>1, <1>2 DEF Task, SaveTask, LoadTask, SendTask
  <2>2. QED
    BY <2>1, SendingHolds
<1>7. /\ <<"worker", w>> \in Locations /\ <<"dropped", None>> \in Locations
      /\ <<"store", None>> # <<"worker", w>> /\ <<"store", None>> # <<"dropped", None>>
  BY DEF Locations
<1>8. Sound' = Sound
  BY DEF Sound
<1>9. \A v \in Workers : Once(memory'[v], Sound)
  <2>1. Once(<<>>, Sound)
    BY EmptyRange, EmptySeq, OnceInjective
  <2>2. QED
    BY <1>2, <2>1 DEF PlaceInv, NoRepeats
<1> HIDE DEF x, M
<1>10. CASE running' = [running EXCEPT ![w] = x] /\ UNCHANGED dropped
  <2>1. Moved(M, <<"store", None>>, <<"worker", w>>)
    BY <1>2, <1>5, <1>6, <1>10 DEF Moved, Becomes, After, M
  <2>2. OnePlace'
    BY <1>3, <1>4, <1>7, <2>1, Move
  <2>3. NoRepeats'
    BY <1>2, <1>6, <1>8, <1>9, <1>10 DEF PlaceInv, NoRepeats, Runs
  <2>4. QED
    BY <2>2, <2>3 DEF PlaceInv
<1>11. CASE running' = [running EXCEPT ![w] = None] /\ dropped' = dropped \cup M
  <2>1. Moved(M, <<"store", None>>, <<"dropped", None>>)
    BY <1>2, <1>5, <1>11 DEF Moved, Becomes, After, M
  <2>2. OnePlace'
    BY <1>3, <1>4, <1>7, <2>1, Move
  <2>3. NoRepeats'
    BY <1>2, <1>8, <1>9, <1>11 DEF PlaceInv, NoRepeats, Runs
  <2>4. QED
    BY <2>2, <2>3 DEF PlaceInv
<1>12. QED
  BY <1>10, <1>11 DEF x, M

(* A load takes the messages of one user out of the store; if it throws,   *)
(* they are still there or they are dropped.                               *)
LEMMA TakePlace ==
  ASSUME Consistent, StoreInv, PlaceInv, NEW w \in Workers, TakeMessages(w) \/ TakeThrows(w)
  PROVE  PlaceInv'
<1>t. TypeOK
  BY DEF Consistent, ServerInv
<1> DEFINE n == running[w].name
           Ends(msgs) ==
             \/ running' = [running EXCEPT ![w] = Sending(running[w].session, msgs)] /\ UNCHANGED dropped
             \/ running' = [running EXCEPT ![w] = None] /\ dropped' = dropped \cup Range(msgs)
<1>1. /\ Runs(w, "load") /\ UNCHANGED <<log, tasks, strand, outbox, clashed>>
      /\ at' = [at EXCEPT ![w] = "idle"] /\ memory' = [memory EXCEPT ![w] = <<>>]
  BY DEF TakeMessages, TakeThrows, CallReturns, WorkerFrame
<1>2. \/ Rewrite(w, NotFor(memory[w], n)) /\ Ends(For(memory[w], n))
      \/ at[w] = "delete" /\ stored' = NotFor(stored, n) /\ Ends(memory[w])
      \/ at[w] = "delete" /\ stored' = NotFor(stored, n) /\ Ends(For(stored, n))
      \/ store # "file" /\ UNCHANGED stored /\ Ends(<<>>)
  <2>1. CASE TakeMessages(w)
    BY <2>1 DEF TakeMessages, HandOut, TaskDone
  <2>2. CASE TakeThrows(w)
    <3>1. UNCHANGED dropped => dropped' = dropped \cup Range(<<>>)
      BY EmptyRange
    <3>2. QED
      BY <2>2, <3>1 DEF TakeThrows, TaskDone
  <2>3. QED
    BY <2>1, <2>2
<1>3. /\ stored \in Seq(Msg) /\ memory[w] \in Seq(Msg)
      /\ Once(stored, Sound) /\ Once(memory[w], Sound)
  BY <1>t DEF TypeOK, PlaceInv, NoRepeats
<1>4. /\ Range(stored) \subseteq DOMAIN log /\ Range(memory[w]) \subseteq DOMAIN log
  BY DEF StoreInv, StoredSent
<1>5. /\ \A q \in {stored, memory[w]} :
           /\ For(q, n) \in Seq(Msg) /\ Once(For(q, n), Sound)
           /\ Range(For(q, n)) = {m \in Range(q) : log[m] = n}
           /\ NotFor(q, n) \in Seq(Msg) /\ Once(NotFor(q, n), Sound)
           /\ Range(NotFor(q, n)) = {m \in Range(q) : log[m] # n}
  <2> SUFFICES ASSUME NEW q \in Seq(Msg), Once(q, Sound), Range(q) \subseteq DOMAIN log
               PROVE  /\ For(q, n) \in Seq(Msg) /\ Once(For(q, n), Sound)
                      /\ Range(For(q, n)) = {m \in Range(q) : log[m] = n}
                      /\ NotFor(q, n) \in Seq(Msg) /\ Once(NotFor(q, n), Sound)
                      /\ Range(NotFor(q, n)) = {m \in Range(q) : log[m] # n}
    BY <1>3, <1>4
  <2> HIDE DEF n
  <2>1. For(q, n) \in Seq(Msg) /\ Range(For(q, n)) = {m \in Range(q) : log[m] = n}
    BY OnlyKeeps DEF For
  <2>2. NotFor(q, n) \in Seq(Msg) /\ Range(NotFor(q, n)) = {m \in Range(q) : log[m] # n}
    BY OnlyKeeps DEF NotFor
  <2>3. Once(For(q, n), Sound) /\ Once(NotFor(q, n), Sound)
    BY OncePart DEF For, NotFor
  <2>4. QED
    BY <2>1, <2>2, <2>3
<1>6. CASE Rewrite(w, NotFor(memory[w], n)) /\ Ends(For(memory[w], n))
  <2> DEFINE kept == NotFor(memory[w], n)
             msgs == For(memory[w], n)
  <2>1. /\ kept \in Seq(Msg) /\ Once(kept, Sound) /\ Range(kept) = {m \in Range(memory[w]) : log[m] # n}
        /\ msgs \in Seq(Msg) /\ Once(msgs, Sound) /\ Range(msgs) = {m \in Range(memory[w]) : log[m] = n}
    BY <1>5
  <2>2. Rewrite(w, kept) /\ Ends(msgs)
    BY <1>6
  <2> HIDE DEF kept, msgs, n
  <2>3. /\ InStore' \ clashed = ((InStore \ Range(memory[w])) \cup Range(kept)) \ clashed
        /\ Range(memory[w]) \subseteq InStore /\ Once(stored', Sound)
    BY <1>t, <1>1, <2>1, <2>2, Rewriting
  <2>4. /\ InStore' \ clashed = (InStore \ Range(msgs)) \ clashed
        /\ Range(msgs) \ clashed \subseteq InStore
    BY <2>1, <2>3
  <2>5. QED
    BY <1>t, <1>1, <2>1, <2>2, <2>3, <2>4, TakeEnds
<1>7. ASSUME NEW msgs \in {memory[w], For(stored, n)}, Ends(msgs), at[w] = "delete",
             stored' = NotFor(stored, n)
      PROVE  PlaceInv'
  <2>1. /\ store = "mysql" /\ \A m \in Range(memory[w]) : log[m] = n
        /\ \A m \in Unclashed : log[m] = n => (m \in Range(memory[w]) <=> m \in Range(stored))
    BY <1>7 DEF StoreInv, Stages, TableInv, ReadBy
  <2>2. InStore = Range(stored) /\ InStore' = Range(stored')
    BY <1>t, <1>1, <2>1, TableHas, TableHasNext
  <2>3. msgs \in Seq(Msg) /\ Once(msgs, Sound)
    BY <1>3, <1>5, <1>7
  <2>4. /\ Range(stored') = {m \in Range(stored) : log[m] # n} /\ Once(stored', Sound)
        /\ Range(For(stored, n)) = {m \in Range(stored) : log[m] = n}
    BY <1>5, <1>7
  <2>5. \A m \in DOMAIN log \ clashed : m \in Range(msgs) <=> m \in Range(stored) /\ log[m] = n
    BY <1>7, <2>1, <2>4 DEF Unclashed
  <2> HIDE DEF n
  <2>6. /\ InStore' \ clashed = (InStore \ Range(msgs)) \ clashed
        /\ Range(msgs) \ clashed \subseteq InStore
    <3>1. Range(msgs) \subseteq DOMAIN log
      BY <1>4, <1>7, <2>4
    <3>2. QED
      BY <1>4, <2>2, <2>4, <2>5, <3>1
  <2>7. QED
    BY <1>t, <1>1, <1>7, <2>3, <2>4, <2>6, TakeEnds
<1>8. CASE store # "file" /\ UNCHANGED stored /\ Ends(<<>>)
  <2>1. InStore' = InStore /\ Range(<<>>) = {} /\ <<>> \in Seq(Msg) /\ Once(<<>>, Sound)
    BY <1>t, <1>1, <1>8, TableHas, TableHasNext, EmptyRange, EmptySeq, OnceInjective
  <2>2. QED
    BY <1>t, <1>1, <1>3, <1>8, <2>1, TakeEnds
<1>9. QED
  BY <1>2, <1>6, <1>7, <1>8

(* A worker posts the next message it took to the session's strand.        *)
LEMMA SendPlace ==
  ASSUME Consistent, PlaceInv, NEW w \in Workers, SendTaken(w)
  PROVE  PlaceInv'
<1>t. TypeOK /\ SendsSome
  BY DEF Consistent, ServerInv
<1> DEFINE s == running[w].session
           msgs == running[w].msgs
           m == Head(msgs)
           x == Sending(s, Tail(msgs))
<1>1. /\ running[w] # None /\ running[w].kind = "send"
      /\ running' = [running EXCEPT ![w] = x]
      /\ strand' = [strand EXCEPT ![s] = Append(@, m)]
      /\ UNCHANGED <<log, tasks, stored, at, memory, clashed, outbox, dropped>>
  BY DEF SendTaken, Runs, WorkerFrame, storeVars
<1>2. /\ running \in [Workers -> Task \cup SendTask \cup {None}]
      /\ strand \in [Sessions -> Seq(Msg)]
  BY <1>t DEF TypeOK, Task
<1>3. s \in Sessions /\ msgs \in Seq(Msg)
  BY <1>1, <1>2 DEF Task, SaveTask, LoadTask, SendTask
<1>4. msgs # <<>> /\ Once(msgs, Sound)
  BY <1>1, <1>t DEF SendsSome, Runs, PlaceInv, NoRepeats
<1>5. /\ m \in Msg /\ Tail(msgs) \in Seq(Msg) /\ Range(msgs) = Range(Tail(msgs)) \cup {m}
      /\ Once(Tail(msgs), Sound) /\ (m \in Sound => m \notin Range(Tail(msgs)))
  BY <1>3, <1>4, TailRange, OnceTail
<1>6. HeldIn(running[w]) = Range(msgs)
  BY <1>1 DEF HeldIn
<1>7. HeldIn(x) = Range(Tail(msgs)) /\ (x # None /\ x.kind = "send" => Once(x.msgs, Sound))
  BY <1>3, <1>5, SendingHolds
<1>8. PICK place \in [Unclashed -> Locations] : PlacedBy(place)
  BY DEF PlaceInv, OnePlace
<1> HIDE DEF s, msgs, m, x
<1>9. {m} \ clashed \subseteq At(place, <<"worker", w>>)
  BY <1>5, <1>6, <1>8 DEF PlacedBy
<1>10. <<"strand", s>> \in Locations /\ <<"strand", s>> # <<"worker", w>>
  BY <1>3 DEF Locations
<1>11. m \in Sound => m \notin Range(strand[s])
  BY <1>3, <1>8, <1>9, <1>10 DEF PlacedBy, At, Sound
<1>12. Range(Append(strand[s], m)) = Range(strand[s]) \cup {m} /\ Once(Append(strand[s], m), Sound)
  <2>1. strand[s] \in Seq(Msg) /\ Once(strand[s], Sound)
    BY <1>2, <1>3 DEF PlaceInv, NoRepeats
  <2>2. QED
    BY <1>5, <1>11, <2>1, AppendRange, OnceAppend
<1>13. Moved({m}, <<"worker", w>>, <<"strand", s>>)
  <2>1. /\ SavesIn(tasks') = SavesIn(tasks) /\ InStore' = InStore
        /\ dropped' = dropped /\ \A t \in Sessions : Range(outbox'[t]) = Range(outbox[t])
    BY <1>1 DEF InStore, Writers
  <2>2. \A v \in Workers : HeldIn(running'[v]) \ clashed =
          (IF v = w THEN HeldIn(running[v]) \ {m} ELSE HeldIn(running[v])) \ clashed
    BY <1>1, <1>2, <1>5, <1>6, <1>7 DEF Sound
  <2>3. \A t \in Sessions :
          Range(strand'[t]) = IF t = s THEN Range(strand[t]) \cup {m} ELSE Range(strand[t])
    BY <1>1, <1>2, <1>12
  <2>4. QED
    BY <1>1, <2>1, <2>2, <2>3 DEF Moved, Becomes, After
<1>14. OnePlace'
  BY <1>1, <1>8, <1>9, <1>10, <1>13, Move
<1>15. NoRepeats'
  BY <1>1, <1>2, <1>3, <1>7, <1>12 DEF PlaceInv, NoRepeats, Runs, Sound
<1>16. QED
  BY <1>14, <1>15 DEF PlaceInv

(* A posted deliver() pushes its message on the write queue or drops it.   *)
LEMMA RunPostedPlace ==
  ASSUME Consistent, PlaceInv, NEW s \in Sessions, RunPosted(s)
  PROVE  PlaceInv'
<1>t. TypeOK
  BY DEF Consistent, ServerInv
<1> DEFINE m == Head(strand[s])
<1>1. /\ UNCHANGED <<log, tasks, running, stored, at, memory, clashed>>
      /\ strand[s] # <<>> /\ strand' = [strand EXCEPT ![s] = Tail(@)] /\ DeliverNow(s, m)
  BY DEF RunPosted, poolVars, storeVars
<1>2. strand \in [Sessions -> Seq(Msg)] /\ outbox \in [Sessions -> Seq(Msg)]
  BY <1>t DEF TypeOK
<1>3. Once(strand[s], Sound) /\ Once(outbox[s], Sound)
  BY DEF PlaceInv, NoRepeats
<1>4. /\ m \in Msg /\ Range(strand[s]) = Range(Tail(strand[s])) \cup {m}
      /\ Once(Tail(strand[s]), Sound) /\ (m \in Sound => m \notin Range(Tail(strand[s])))
  BY <1>1, <1>2, <1>3, TailRange, OnceTail
<1> HIDE DEF m
<1>5. PICK place \in [Unclashed -> Locations] : PlacedBy(place)
  BY DEF PlaceInv, OnePlace
<1>6. {m} \ clashed \subseteq At(place, <<"strand", s>>)
  BY <1>4, <1>5 DEF PlacedBy
<1>7. /\ <<"outbox", s>> \in Locations /\ <<"dropped", None>> \in Locations
      /\ <<"outbox", s>> # <<"strand", s>> /\ <<"dropped", None>> # <<"strand", s>>
  BY DEF Locations
<1>i. InStore' = InStore /\ Sound' = Sound
  BY <1>1 DEF InStore, Writers, Sound
<1>m. \A t \in Sessions :
        Range(strand'[t]) \ clashed = (IF t = s THEN Range(strand[t]) \ {m} ELSE Range(strand[t])) \ clashed
  BY <1>1, <1>2, <1>4 DEF Sound
<1>n. \A t \in Sessions : Once(strand'[t], Sound)
  BY <1>1, <1>2, <1>4 DEF PlaceInv, NoRepeats
<1>8. CASE phase[s] # "stopped"
  <2>1. outbox' = [outbox EXCEPT ![s] = Append(@, m)] /\ UNCHANGED dropped
    BY <1>1, <1>8 DEF DeliverNow
  <2>2. m \in Sound => m \notin Range(outbox[s])
    BY <1>5, <1>6, <1>7 DEF PlacedBy, At, Sound
  <2>3. Range(Append(outbox[s], m)) = Range(outbox[s]) \cup {m} /\ Once(Append(outbox[s], m), Sound)
    BY <1>2, <1>3, <1>4, <2>2, AppendRange, OnceAppend
  <2>4. Moved({m}, <<"strand", s>>, <<"outbox", s>>)
    BY <1>1, <1>2, <1>i, <1>m, <2>1, <2>3 DEF Moved, Becomes, After
  <2>5. OnePlace'
    BY <1>1, <1>5, <1>6, <1>7, <2>4, Move
  <2>6. NoRepeats'
    BY <1>1, <1>2, <1>i, <1>n, <2>1, <2>3 DEF PlaceInv, NoRepeats, Runs
  <2>7. QED
    BY <2>5, <2>6 DEF PlaceInv
<1>9. CASE phase[s] = "stopped"
  <2>1. dropped' = dropped \cup {m} /\ UNCHANGED outbox
    BY <1>1, <1>9 DEF DeliverNow
  <2>2. Moved({m}, <<"strand", s>>, <<"dropped", None>>)
    BY <1>1, <1>2, <1>i, <1>m, <2>1 DEF Moved, Becomes, After
  <2>3. OnePlace'
    BY <1>1, <1>5, <1>6, <1>7, <2>2, Move
  <2>4. NoRepeats'
    BY <1>1, <1>2, <1>i, <1>n, <2>1 DEF PlaceInv, NoRepeats, Runs
  <2>5. QED
    BY <2>3, <2>4 DEF PlaceInv
<1>10. QED
  BY <1>8, <1>9

(* A new private message is in one place at once.                          *)
LEMMA SentPlace ==
  ASSUME Consistent, StoreInv, PlaceInv, NEW s \in Sessions, NEW u \in Users, PrivateMessage(s, u)
  PROVE  PlaceInv'
<1>t. TypeOK /\ RoomTypeOK
  BY DEF Consistent, ServerInv, TypeOK
<1> DEFINE m == Len(log) + 1
           none == <<"none", None>>
<1>1. /\ UNCHANGED <<running, stored, at, memory, clashed>>
      /\ log' = Append(log, u) /\ Len(log) < MaxMsgs
      /\ \/ /\ name_index_[u] # None /\ deliver(name_index_[u], m) /\ UNCHANGED tasks
         \/ /\ tasks' = Append(tasks, [kind |-> "save", msg |-> m])
            /\ UNCHANGED <<strand, outbox, dropped>>
  BY DEF PrivateMessage, submit_store_task, storeVars
<1>2. m \in Msg
  BY <1>t, <1>1, LenProperties, ChatServerAssumption DEF TypeOK, Msg
<1>3. DOMAIN log' = DOMAIN log \cup {m} /\ m \notin DOMAIN log
  BY <1>t, <1>1, LogGrows
<1>4. /\ strand \in [Sessions -> Seq(Msg)] /\ outbox \in [Sessions -> Seq(Msg)]
      /\ running \in [Workers -> Task \cup SendTask \cup {None}] /\ tasks \in Seq(Task)
  BY <1>t DEF TypeOK, Task
<1> HIDE DEF m
<1>5. PICK place \in [Unclashed -> Locations] : PlacedBy(place)
  BY DEF PlaceInv, OnePlace
<1>6. m \notin clashed /\ \A l : m \notin At(place, l)
  BY <1>3, <1>5 DEF At, Unclashed, StoreInv, StoredSent
<1>7. /\ none \notin Locations
      /\ none # <<"tasks", None>> /\ none # <<"store", None>> /\ none # <<"dropped", None>>
      /\ \A x : none # <<"worker", x>> /\ none # <<"strand", x>> /\ none # <<"outbox", x>>
  BY DEF Locations
<1>i. InStore' = InStore /\ Sound' = Sound
  BY <1>1 DEF InStore, Writers, Sound
<1> HIDE DEF none
<1>8. CASE name_index_[u] # None /\ deliver(name_index_[u], m) /\ UNCHANGED tasks
  <2> DEFINE t == name_index_[u]
  <2>1. t \in Sessions
    BY <1>t, <1>8, ChatRoomAssumption DEF RoomTypeOK
  <2>2. /\ <<"outbox", t>> \in Locations /\ <<"dropped", None>> \in Locations
        /\ <<"strand", t>> \in Locations
    BY <2>1 DEF Locations
  <2>3. m \notin Range(outbox[t]) /\ m \notin Range(strand[t])
    BY <1>5, <1>6, <2>1 DEF PlacedBy
  <2>4. Once(outbox[t], Sound) /\ Once(strand[t], Sound)
    BY <2>1 DEF PlaceInv, NoRepeats
  <2> HIDE DEF t
  <2>5. /\ Range(Append(outbox[t], m)) = Range(outbox[t]) \cup {m}
        /\ Once(Append(outbox[t], m), Sound)
        /\ Range(Append(strand[t], m)) = Range(strand[t]) \cup {m}
        /\ Once(Append(strand[t], m), Sound)
    BY <1>2, <1>4, <2>1, <2>3, <2>4, AppendRange, OnceAppend
  <2>6. CASE outbox' = [outbox EXCEPT ![t] = Append(@, m)] /\ UNCHANGED <<dropped, strand>>
    <3>1. Moved({m}, none, <<"outbox", t>>)
      BY <1>1, <1>4, <1>7, <1>8, <1>i, <2>1, <2>5, <2>6 DEF Moved, Becomes, After
    <3>2. OnePlace'
      BY <1>1, <1>3, <1>5, <1>6, <1>7, <2>2, <3>1, Arrive
    <3>3. NoRepeats'
      BY <1>1, <1>4, <1>8, <1>i, <2>1, <2>5, <2>6 DEF PlaceInv, NoRepeats, Runs
    <3>4. QED
      BY <3>2, <3>3 DEF PlaceInv
  <2>7. CASE dropped' = dropped \cup {m} /\ UNCHANGED <<outbox, strand>>
    <3>1. Moved({m}, none, <<"dropped", None>>)
      BY <1>1, <1>4, <1>7, <1>8, <1>i, <2>7 DEF Moved, Becomes, After
    <3>2. OnePlace'
      BY <1>1, <1>3, <1>5, <1>6, <1>7, <2>2, <3>1, Arrive
    <3>3. NoRepeats'
      BY <1>1, <1>4, <1>8, <1>i, <2>7 DEF PlaceInv, NoRepeats, Runs
    <3>4. QED
      BY <3>2, <3>3 DEF PlaceInv
  <2>8. CASE strand' = [strand EXCEPT ![t] = Append(@, m)] /\ UNCHANGED <<outbox, dropped>>
    <3>1. Moved({m}, none, <<"strand", t>>)
      BY <1>1, <1>4, <1>7, <1>8, <1>i, <2>1, <2>5, <2>8 DEF Moved, Becomes, After
    <3>2. OnePlace'
      BY <1>1, <1>3, <1>5, <1>6, <1>7, <2>2, <3>1, Arrive
    <3>3. NoRepeats'
      BY <1>1, <1>4, <1>8, <1>i, <2>1, <2>5, <2>8 DEF PlaceInv, NoRepeats, Runs
    <3>4. QED
      BY <3>2, <3>3 DEF PlaceInv
  <2>9. QED
    BY <1>8, <2>6, <2>7, <2>8 DEF deliver, DeliverNow, t
<1>9. CASE /\ tasks' = Append(tasks, [kind |-> "save", msg |-> m])
           /\ UNCHANGED <<strand, outbox, dropped>>
  <2> DEFINE t == [kind |-> "save", msg |-> m]
  <2>1. t \in Task
    BY <1>2 DEF Task, SaveTask
  <2>2. HeldIn(t) = {m}
    BY <2>1, TasksHold
  <2>3. m \notin SavesIn(tasks)
    BY <1>5, <1>6 DEF PlacedBy
  <2> HIDE DEF t
  <2>4. SavesIn(tasks') = SavesIn(tasks) \cup {m} /\ SavesApart(tasks')
    <3>1. tasks' = Append(tasks, t)
      BY <1>9 DEF t
    <3>2. SavesApart(tasks)
      BY DEF PlaceInv, NoRepeats
    <3>3. QED
      BY <1>4, <2>1, <2>2, <2>3, <3>1, <3>2, SavesAppend
  <2>5. Moved({m}, none, <<"tasks", None>>)
    BY <1>1, <1>4, <1>7, <1>9, <1>i, <2>4 DEF Moved, Becomes, After
  <2>6. OnePlace'
    <3>1. <<"tasks", None>> \in Locations
      BY DEF Locations
    <3>2. QED
      BY <1>1, <1>3, <1>5, <1>6, <1>7, <2>5, <3>1, Arrive
  <2>7. NoRepeats'
    BY <1>1, <1>4, <1>9, <1>i, <2>4 DEF PlaceInv, NoRepeats, Runs
  <2>8. QED
    BY <2>6, <2>7 DEF PlaceInv
<1>10. QED
  BY <1>1, <1>8, <1>9

(* InMemory() says that a message is in a task, in a worker or in a strand. *)
LEMMA WhereInMemory ==
  ASSUME TypeOK, NEW m
  PROVE  /\ InTasks(m) # {} <=> m \in SavesIn(tasks)
         /\ InWorker(m) = {w \in Workers : m \in HeldIn(running[w])}
<1>1. tasks \in Seq(Task)
  BY DEF TypeOK, Task
<1>2. DOMAIN tasks = 1..Len(tasks) /\ \A i \in DOMAIN tasks : tasks[i] \in Task
  BY <1>1, LenProperties
<1>3. InTasks(m) # {} <=> m \in SavesIn(tasks)
  <2>1. \A i \in DOMAIN tasks : m \in HeldIn(tasks[i]) <=> tasks[i].kind = "save" /\ tasks[i].msg = m
    BY <1>2, TasksHold
  <2>2. QED
    BY <2>1 DEF SavesIn, InTasks, Range
<1>4. InWorker(m) = {w \in Workers : m \in HeldIn(running[w])}
  BY DEF InWorker, HeldIn, Runs
<1>5. QED
  BY <1>3, <1>4

(* A process that terminates drops what is in memory, and what a call was  *)
(* about to write back; what is in the file or the table stays.            *)
LEMMA TerminatePlace ==
  ASSUME Consistent, StoreInv, PlaceInv, Terminate
  PROVE  PlaceInv'
<1>t. TypeOK
  BY DEF Consistent, ServerInv
<1>1. /\ tasks' = <<>> /\ running' = [w \in Workers |-> None]
      /\ strand' = [s \in Sessions |-> <<>>]
      /\ dropped' = dropped \cup {m \in 1..Len(log) : InMemory(m) \/ m \in InStore \ Range(stored)}
      /\ at' = [w \in Workers |-> "idle"] /\ memory' = [w \in Workers |-> <<>>]
      /\ UNCHANGED <<log, stored, clashed, outbox>>
  BY DEF Terminate
<1>2. DOMAIN log = 1..Len(log)
  BY <1>t, LenProperties DEF TypeOK
<1>3. PICK place \in [Unclashed -> Locations] : PlacedBy(place)
  BY DEF PlaceInv, OnePlace
<1> DEFINE Gone == {m \in Unclashed : InMemory(m) \/ m \in InStore \ Range(stored)}
<1>i. InStore' = Range(stored)
  BY <1>1, StoreHasNext
<1>4. PICK p : p = [m \in Unclashed |-> IF m \in Gone THEN <<"dropped", None>> ELSE place[m]]
  OBVIOUS
<1>5. p \in [Unclashed -> Locations]
  BY <1>4 DEF Locations
<1>6. \A m \in Unclashed :
        m \in Gone <=> \/ place[m] = <<"tasks", None>>
                       \/ \E w \in Workers : place[m] = <<"worker", w>>
                       \/ \E s \in Sessions : place[m] = <<"strand", s>>
                       \/ place[m] = <<"store", None>> /\ m \notin Range(stored)
  <2> SUFFICES ASSUME NEW m \in Unclashed
               PROVE  InMemory(m) \/ m \in InStore \ Range(stored)
                        <=> \/ place[m] = <<"tasks", None>>
                            \/ \E w \in Workers : place[m] = <<"worker", w>>
                            \/ \E s \in Sessions : place[m] = <<"strand", s>>
                            \/ place[m] = <<"store", None>> /\ m \notin Range(stored)
    OBVIOUS
  <2>c. m \notin clashed
    BY DEF Unclashed
  <2>1. InTasks(m) # {} <=> place[m] = <<"tasks", None>>
    BY <1>t, <1>3, <2>c, WhereInMemory DEF PlacedBy, At
  <2>2. InWorker(m) # {} <=> \E w \in Workers : place[m] = <<"worker", w>>
    BY <1>t, <1>3, <2>c, WhereInMemory DEF PlacedBy, At
  <2>3. InStrand(m) # {} <=> \E s \in Sessions : place[m] = <<"strand", s>>
    BY <1>3, <2>c DEF PlacedBy, At, InStrand
  <2>4. m \in InStore <=> place[m] = <<"store", None>>
    BY <1>3, <2>c DEF PlacedBy, At
  <2>5. QED
    BY <2>1, <2>2, <2>3, <2>4 DEF InMemory
<1>7. dropped' \ clashed = (dropped \cup Gone) \ clashed
  BY <1>1, <1>2 DEF Unclashed
<1>s. \A m \in Unclashed : m \in Range(stored) => place[m] = <<"store", None>>
  BY <1>3, StoreHas DEF PlacedBy, At, Unclashed
<1> HIDE DEF Gone
<1>8. /\ DOMAIN p = Unclashed /\ DOMAIN place = Unclashed
      /\ \A m \in Unclashed : p[m] = IF m \in Gone THEN <<"dropped", None>> ELSE place[m]
      /\ Gone \subseteq Unclashed /\ Gone \cap clashed = {}
  BY <1>4 DEF Gone, Unclashed
<1>9. /\ At(p, <<"tasks", None>>) = {}
      /\ \A w \in Workers : At(p, <<"worker", w>>) = {}
      /\ \A s \in Sessions : At(p, <<"strand", s>>) = {}
  BY <1>6, <1>8 DEF At
<1>10. At(p, <<"store", None>>) = Range(stored) \ clashed
  <2>1. Range(stored) \subseteq DOMAIN log
    BY DEF StoreInv, StoredSent
  <2>2. At(p, <<"store", None>>) = {m \in Unclashed : place[m] = <<"store", None>> /\ m \in Range(stored)}
    BY <1>6, <1>8 DEF At
  <2>3. QED
    BY <1>s, <2>1, <2>2 DEF Unclashed
<1>11. /\ \A s \in Sessions : At(p, <<"outbox", s>>) = At(place, <<"outbox", s>>)
       /\ At(p, <<"dropped", None>>) = At(place, <<"dropped", None>>) \cup Gone
  BY <1>6, <1>8 DEF At
<1>12. SavesIn(<<>>) = {} /\ HeldIn(None) = {} /\ Range(<<>>) = {}
  BY EmptyRange DEF SavesIn, HeldIn
<1>13. PlacedBy(p)'
  <2>1. dropped' \ clashed = At(p, <<"dropped", None>>)
    BY <1>3, <1>7, <1>8, <1>11 DEF PlacedBy
  <2>2. QED
    BY <1>1, <1>3, <1>i, <1>9, <1>10, <1>11, <1>12, <2>1 DEF PlacedBy
<1>14. OnePlace'
  <2>1. Unclashed' = Unclashed
    BY <1>1 DEF Unclashed
  <2>2. QED
    BY <1>5, <1>13, <2>1 DEF OnePlace
<1>15. NoRepeats'
  <2>1. SavesApart(<<>>)
    BY DEF SavesApart
  <2>2. Once(<<>>, Sound)
    BY EmptyRange, EmptySeq, OnceInjective
  <2>3. Sound' = Sound
    BY <1>1 DEF Sound
  <2>4. QED
    BY <1>1, <2>1, <2>2, <2>3 DEF PlaceInv, NoRepeats, Runs
<1>16. QED
  BY <1>14, <1>15 DEF PlaceInv

(* The steps that touch no message.                                        *)
LEMMA SamePlace ==
  ASSUME PlaceInv,
         UNCHANGED <<log, tasks, stored, at, memory, clashed, running, strand, outbox, dropped>>
  PROVE  PlaceInv'
<1>1. InStore' = InStore /\ Sound' = Sound /\ Unclashed' = Unclashed
  BY DEF InStore, Writers, Sound, Unclashed
<1>2. OnePlace'
  BY <1>1 DEF PlaceInv, OnePlace, PlacedBy
<1>3. NoRepeats'
  BY <1>1 DEF PlaceInv, NoRepeats, Runs
<1>4. QED
  BY <1>2, <1>3 DEF PlaceInv

(* No message is anywhere at first.                                        *)
LEMMA InitPlace == Init => PlaceInv
<1> SUFFICES ASSUME Init PROVE PlaceInv
  OBVIOUS
<1>1. Unclashed = {} /\ SavesIn(tasks) = {} /\ HeldIn(None) = {} /\ SavesApart(tasks)
  BY EmptyRange, EmptySeq, LenProperties DEF Init, SavesIn, HeldIn, SavesApart, Unclashed
<1>2. PICK place : place \in [Unclashed -> Locations]
  <2>1. [m \in Unclashed |-> <<"tasks", None>>] \in [Unclashed -> Locations]
    BY <1>1
  <2>2. QED
    BY <2>1
<1>3. \A l : At(place, l) = {}
  BY <1>1, <1>2 DEF At
<1>4. InStore = {}
  BY StoreHas, EmptyRange DEF Init
<1>5. PlacedBy(place)
  BY <1>1, <1>3, <1>4, EmptyRange DEF Init, PlacedBy
<1>6. Once(<<>>, Sound)
  BY EmptyRange, EmptySeq, OnceInjective
<1>7. NoRepeats
  BY <1>1, <1>6 DEF Init, NoRepeats, Runs
<1>8. QED
  BY <1>2, <1>5, <1>7 DEF PlaceInv, OnePlace

(* Every step keeps each message in one place.                             *)
LEMMA StepPlace ==
  ASSUME Consistent, StoreInv, PlaceInv, [Next]_serverVars
  PROVE  PlaceInv'
<1>1. ASSUME NEW s \in Sessions, Client(s) PROVE PlaceInv'
  <2>1. ASSUME NEW u \in Users, PrivateMessage(s, u) PROVE PlaceInv'
    BY <2>1, SentPlace
  <2>2. ASSUME NEW u \in Users, Login(s, u) PROVE PlaceInv'
    <3> DEFINE t == [kind |-> "load", session |-> s, name |-> names_'[s]]
    <3>t. TypeOK /\ RoomTypeOK
      BY DEF Consistent, ServerInv, TypeOK
    <3>1. PICK n \in Names : names_'[s] = n
      <4>1. PICK x \in Names : Register(s, x)
        BY <2>2, LoginRegisters DEF Login
      <4>2. QED
        BY <3>t, <4>1 DEF Register, RoomTypeOK
    <3>2. /\ tasks' = Append(tasks, [kind |-> "load", session |-> s, name |-> n])
          /\ UNCHANGED <<log, stored, at, memory, clashed, running, strand, outbox, dropped>>
      BY <2>2, <3>1 DEF Login, submit_store_task, mailVars, storeVars
    <3>3. [kind |-> "load", session |-> s, name |-> n] \in Task /\ tasks \in Seq(Task)
      BY <3>t DEF Task, LoadTask, TypeOK
    <3>4. HeldIn([kind |-> "load", session |-> s, name |-> n]) = {}
      BY <3>3, TasksHold
    <3>5. SavesIn(tasks') = SavesIn(tasks) /\ SavesApart(tasks')
      BY <3>2, <3>3, <3>4, SavesAppend DEF PlaceInv, NoRepeats
    <3>6. QED
      <4>1. InStore' = InStore /\ Sound' = Sound /\ Unclashed' = Unclashed
        BY <3>2 DEF InStore, Writers, Sound, Unclashed
      <4>2. OnePlace'
        BY <3>2, <3>5, <4>1 DEF PlaceInv, OnePlace, PlacedBy
      <4>3. NoRepeats'
        BY <3>2, <3>5, <4>1 DEF PlaceInv, NoRepeats, Runs
      <4>4. QED
        BY <4>2, <4>3 DEF PlaceInv
  <2>3. ASSUME \/ Accept(s) \/ Heartbeat(s) \/ CloseFromReader(s) \/ CloseFromWriter(s)
               \/ \E u \in Users : RegisterUser(s, u)
               \/ \E r \in Rooms : JoinRoom(s, r)
        PROVE  PlaceInv'
    BY <2>3, SamePlace DEF Accept, Heartbeat, CloseFromReader, CloseFromWriter, close_session,
                           RegisterUser, JoinRoom, mailVars, storeVars, poolVars
  <2>4. QED
    BY <1>1, <2>1, <2>2, <2>3 DEF Client
<1>2. ASSUME NEW s \in Sessions, RunPosted(s) PROVE PlaceInv'
  BY <1>2, RunPostedPlace
<1>3. ASSUME NEW w \in Workers, Worker(w) \/ StoreThrows(w) PROVE PlaceInv'
  BY <1>3, PopPlace, ReadPlace, OpenPlace, SavePlace, TakePlace, SendPlace DEF Worker, StoreThrows
<1>4. CASE Terminate
  BY <1>4, TerminatePlace
<1>5. CASE UNCHANGED serverVars
  BY <1>5, SamePlace DEF serverVars, mailVars, storeVars, poolVars
<1>6. QED
  BY <1>1, <1>2, <1>3, <1>4, <1>5 DEF Next

-----------------------------------------------------------------------------
(* The whole inductive invariant.                                          *)
ServerIInv == Consistent /\ StoreInv /\ MailInv /\ PlaceInv

(* Its four parts hold together in every state.                            *)
LEMMA AlwaysServer == Spec => []ServerIInv
<1>1. Init => ServerIInv
  BY InitConsistentServer, InitStore, InitMail, InitPlace DEF ServerIInv
<1>2. ServerIInv /\ [Next]_serverVars => ServerIInv'
  BY StepKeepsConsistent, StepStore, StepMail, StepPlace DEF ServerIInv
<1>3. QED
  BY <1>1, <1>2, PTL DEF Spec

(* A connection is only ever sent messages addressed to the name it logged *)
(* in with: no load, save, rename, reconnection or late handler brings it  *)
(* another user's, not even when calls of the store overlap.               *)
THEOREM OwnMailOnly == Spec => []NoForeignDelivery
<1>1. ServerIInv => NoForeignDelivery
  BY DEF ServerIInv, MailInv, Addressed, MailAddressed, Bears, NoForeignDelivery
<1>2. QED
  BY <1>1, AlwaysServer, PTL

(* Once the file is truncated, all that is sound in the store is in the    *)
(* memory of the one call that writes it back.                             *)
LEMMA OneWriter ==
  ASSUME StoreInv, NEW v \in Writers, NEW m, m \notin clashed
  PROVE  /\ m \notin Range(stored)
         /\ m \in Range(memory[v]) => Writers = {v}
<1>1. v \in Workers /\ at[v] = "write"
  BY DEF Writers
<1>2. Alone(v) \/ AllClashed(v)
  BY <1>1 DEF StoreInv, FileInv
<1>3. Alone(v) => stored = <<>> /\ Writers = {v}
  BY <1>1 DEF Alone, Writers
<1>4. AllClashed(v) => m \notin Range(stored) /\ m \notin Range(memory[v])
  BY DEF AllClashed
<1>5. QED
  BY <1>2, <1>3, <1>4, EmptyRange

(* The places in the queue, and the workers, that have a message.          *)
LEMMA FewCopies ==
  ASSUME TypeOK, NoRepeats, NEW place \in [Unclashed -> Locations], PlacedBy(place),
         NEW m \in Unclashed
  PROVE  /\ IF place[m] = <<"tasks", None>> THEN \E i : InTasks(m) = {i} ELSE InTasks(m) = {}
         /\ \A w \in Workers : place[m] = <<"worker", w>> => InWorker(m) = {w}
         /\ (\A w \in Workers : place[m] # <<"worker", w>>) => InWorker(m) = {}
<1>t. m \in DOMAIN log /\ m \notin clashed
  BY DEF Unclashed
<1>1. InTasks(m) # {} <=> place[m] = <<"tasks", None>>
  BY <1>t, WhereInMemory DEF PlacedBy, At
<1>2. \A i, j \in InTasks(m) : i = j
  BY DEF InTasks, NoRepeats, SavesApart
<1>3. \A w \in Workers : w \in InWorker(m) <=> place[m] = <<"worker", w>>
  BY <1>t, WhereInMemory DEF PlacedBy, At
<1>4. InWorker(m) \subseteq Workers
  BY DEF InWorker
<1>5. \A v, w \in Workers : <<"worker", v>> = <<"worker", w>> => v = w
  OBVIOUS
<1>6. \A w \in Workers : place[m] = <<"worker", w>> => InWorker(m) = {w}
  BY <1>3, <1>4, <1>5
<1>7. (\A w \in Workers : place[m] # <<"worker", w>>) => InWorker(m) = {}
  BY <1>3, <1>4
<1>8. IF place[m] = <<"tasks", None>> THEN \E i : InTasks(m) = {i} ELSE InTasks(m) = {}
  BY <1>1, <1>2
<1>9. QED
  BY <1>6, <1>7, <1>8

(* A message that is in one of several sequences, and there once.          *)
LEMMA FewOccurrences ==
  ASSUME NEW D, NEW f, DOMAIN f = D, NEW T, \A s \in D : f[s] \in Seq(Msg) /\ Once(f[s], T),
         NEW m \in T, NEW S \in SUBSET D, \A s \in D : m \in Range(f[s]) <=> s \in S,
         \A s, t \in S : s = t
  PROVE  Cardinality(Occurs(f, m)) = IF S = {} THEN 0 ELSE 1
<1>1. Cardinality({}) = 0 /\ \A x : Cardinality({x}) = 1
  BY FS_EmptySet, FS_Singleton
<1>2. \A s \in D : {i \in DOMAIN f[s] : f[s][i] = m} # {} <=> s \in S
  BY DEF Range
<1>3. CASE S = {}
  <2>1. Occurs(f, m) = {}
    BY <1>2, <1>3 DEF Occurs
  <2>2. QED
    BY <1>1, <1>3, <2>1
<1>4. CASE S # {}
  <2>1. PICK s \in D : S = {s}
    BY <1>4
  <2>2. PICK i \in DOMAIN f[s] : f[s][i] = m
    BY <1>2, <2>1
  <2>3. {j \in DOMAIN f[s] : f[s][j] = m} = {i}
    <3>1. ASSUME NEW j \in DOMAIN f[s], f[s][j] = m PROVE j = i
      BY <2>2, <3>1, OncePlace
    <3>2. QED
      BY <2>2, <3>1
  <2>4. \A t \in D : t # s => {j \in DOMAIN f[t] : f[t][j] = m} = {}
    BY <1>2, <2>1
  <2>5. Occurs(f, m) = {s} \X {i}
    BY <2>3, <2>4 DEF Occurs
  <2>6. {s} \X {i} = {<<s, i>>}
    OBVIOUS
  <2>7. QED
    BY <1>1, <1>4, <2>5, <2>6
<1>5. QED
  BY <1>3, <1>4

(* A sound message in the store is there once: in the file or the table,   *)
(* or in the memory of the call that is about to write it back.            *)
LEMMA StoredOnce ==
  ASSUME TypeOK, StoreInv, NoRepeats, NEW m \in Unclashed
  PROVE  /\ Cardinality(InFile(m)) \in Nat /\ Cardinality(Occurs(Rewritten, m)) \in Nat
         /\ Cardinality(InFile(m)) + Cardinality(Occurs(Rewritten, m)) = IF m \in InStore THEN 1 ELSE 0
<1>1. Cardinality({}) = 0 /\ \A x : Cardinality({x}) = 1
  BY FS_EmptySet, FS_Singleton
<1>2. m \in DOMAIN log /\ m \notin clashed /\ DOMAIN log \subseteq Msg /\ m \in Sound
  <2>1. log \in Seq(Users) /\ Len(log) \in Nat /\ Len(log) <= MaxMsgs /\ MaxMsgs \in Nat
    BY LenProperties, ChatServerAssumption DEF TypeOK
  <2>2. DOMAIN log \subseteq Msg
    BY <2>1, LenProperties DEF Msg
  <2>3. QED
    BY <2>2 DEF Unclashed, Sound
<1>3. stored \in Seq(Msg) /\ Once(stored, Sound) /\ Writers \subseteq Workers
      /\ \A v \in Workers : memory[v] \in Seq(Msg) /\ Once(memory[v], Sound)
  BY DEF TypeOK, NoRepeats, Writers
<1>4. Cardinality(InFile(m)) = IF m \in Range(stored) THEN 1 ELSE 0
  <2>1. InFile(m) # {} <=> m \in Range(stored)
    BY DEF InFile, Range
  <2>2. \A i, j \in InFile(m) : i = j
    BY <1>2, <1>3, OncePlace DEF InFile
  <2>3. InFile(m) = {} \/ \E i : InFile(m) = {i}
    BY <2>2
  <2>4. QED
    BY <1>1, <2>1, <2>3
<1> DEFINE S == {v \in Writers : m \in Range(memory[v])}
<1>5. Cardinality(Occurs(Rewritten, m)) = IF S = {} THEN 0 ELSE 1
  <2>1. DOMAIN Rewritten = Writers /\ \A v \in Writers : Rewritten[v] = memory[v]
    BY DEF Rewritten
  <2>2. \A v \in Writers : Rewritten[v] \in Seq(Msg) /\ Once(Rewritten[v], Sound)
    BY <1>3, <2>1
  <2>3. S \in SUBSET Writers /\ \A v \in Writers : m \in Range(Rewritten[v]) <=> v \in S
    BY <2>1
  <2>4. \A u, v \in S : u = v
    BY <1>2, OneWriter
  <2> HIDE DEF S
  <2>5. QED
    BY <1>2, <2>1, <2>2, <2>3, <2>4, FewOccurrences
<1>6. m \in InStore <=> m \in Range(stored) \/ S # {}
  BY DEF InStore
<1>7. ~(m \in Range(stored) /\ S # {})
  BY <1>2, OneWriter
<1>8. QED
  BY <1>4, <1>5, <1>6, <1>7

(* So a message is found once, or not at all if it was dropped.            *)
LEMMA CopiesCounted ==
  ASSUME TypeOK, StoreInv, PlaceInv, NEW m \in Unclashed
  PROVE  Copies(m) = IF m \in dropped THEN 0 ELSE 1
<1>1. PICK place \in [Unclashed -> Locations] : PlacedBy(place)
  BY DEF PlaceInv, OnePlace
<1>t. m \notin clashed /\ m \in Sound
  <2>1. log \in Seq(Users) /\ Len(log) \in Nat /\ Len(log) <= MaxMsgs /\ MaxMsgs \in Nat
    BY LenProperties, ChatServerAssumption DEF TypeOK
  <2>2. DOMAIN log \subseteq Msg
    BY <2>1, LenProperties DEF Msg
  <2>3. QED
    BY <2>2 DEF Unclashed, Sound
<1> DEFINE l == place[m]
           In(k) == {s \in Sessions : l = <<k, s>>}
<1>2. l \in Locations
  BY <1>1
<1>3. m \in dropped <=> l = <<"dropped", None>>
  BY <1>1, <1>t DEF PlacedBy, At
<1>4. /\ IF l = <<"tasks", None>> THEN \E i : InTasks(m) = {i} ELSE InTasks(m) = {}
      /\ \A w \in Workers : l = <<"worker", w>> => InWorker(m) = {w}
      /\ (\A w \in Workers : l # <<"worker", w>>) => InWorker(m) = {}
  BY <1>1, FewCopies DEF PlaceInv
<1>5. /\ DOMAIN strand = Sessions /\ \A s \in Sessions : strand[s] \in Seq(Msg) /\ Once(strand[s], Sound)
      /\ DOMAIN outbox = Sessions /\ \A s \in Sessions : outbox[s] \in Seq(Msg) /\ Once(outbox[s], Sound)
  BY DEF TypeOK, PlaceInv, NoRepeats
<1>6. Cardinality(Occurs(strand, m)) = IF In("strand") = {} THEN 0 ELSE 1
  <2>1. \A s \in Sessions : m \in Range(strand[s]) <=> s \in In("strand")
    BY <1>1, <1>t DEF PlacedBy, At
  <2>2. In("strand") \in SUBSET Sessions /\ \A s, t \in In("strand") : s = t
    OBVIOUS
  <2>3. DOMAIN strand = Sessions /\ \A s \in Sessions : strand[s] \in Seq(Msg) /\ Once(strand[s], Sound)
    BY <1>5
  <2> HIDE DEF In
  <2>4. QED
    BY <1>t, <2>1, <2>2, <2>3, FewOccurrences
<1>7. Cardinality(Occurs(outbox, m)) = IF In("outbox") = {} THEN 0 ELSE 1
  <2>1. \A s \in Sessions : m \in Range(outbox[s]) <=> s \in In("outbox")
    BY <1>1, <1>t DEF PlacedBy, At
  <2>2. In("outbox") \in SUBSET Sessions /\ \A s, t \in In("outbox") : s = t
    OBVIOUS
  <2>3. DOMAIN outbox = Sessions /\ \A s \in Sessions : outbox[s] \in Seq(Msg) /\ Once(outbox[s], Sound)
    BY <1>5
  <2> HIDE DEF In
  <2>4. QED
    BY <1>t, <2>1, <2>2, <2>3, FewOccurrences
<1>8. Cardinality(InFile(m)) + Cardinality(Occurs(Rewritten, m)) = IF l = <<"store", None>> THEN 1 ELSE 0
  <2>1. m \in InStore <=> l = <<"store", None>>
    BY <1>1, <1>t DEF PlacedBy, At
  <2>2. QED
    BY <2>1, StoredOnce DEF PlaceInv
<1>9. (\A x : Cardinality({x}) = 1) /\ Cardinality({}) = 0
  BY FS_Singleton, FS_EmptySet
<1> HIDE DEF l
<1>10. Cardinality(InTasks(m)) = IF l = <<"tasks", None>> THEN 1 ELSE 0
  BY <1>4, <1>9
<1>11. Cardinality(InWorker(m)) = IF \E w \in Workers : l = <<"worker", w>> THEN 1 ELSE 0
  BY <1>4, <1>9
<1>12. Cardinality(Occurs(strand, m)) = IF \E s \in Sessions : l = <<"strand", s>> THEN 1 ELSE 0
  BY <1>6
<1>13. Cardinality(Occurs(outbox, m)) = IF \E s \in Sessions : l = <<"outbox", s>> THEN 1 ELSE 0
  BY <1>7
<1>14. \/ l = <<"tasks", None>> \/ l = <<"store", None>> \/ l = <<"dropped", None>>
       \/ \E w \in Workers : l = <<"worker", w>>
       \/ \E s \in Sessions : l = <<"strand", s>>
       \/ \E s \in Sessions : l = <<"outbox", s>>
  BY <1>2 DEF Locations
<1>15. Copies(m) = Cardinality(InTasks(m)) + Cardinality(InWorker(m))
         + (IF l = <<"store", None>> THEN 1 ELSE 0)
         + Cardinality(Occurs(strand, m)) + Cardinality(Occurs(outbox, m))
  <2>1. Cardinality(InFile(m)) \in Nat /\ Cardinality(Occurs(Rewritten, m)) \in Nat
    BY StoredOnce DEF PlaceInv
  <2>2. QED
    BY <1>8, <1>10, <1>11, <1>12, <1>13, <2>1 DEF Copies
<1>16. QED
  BY <1>3, <1>10, <1>11, <1>12, <1>13, <1>14, <1>15

(* No private message is duplicated or silently lost between the handlers, *)
(* the pool's queue, the business threads, the steps of their calls of the *)
(* offline store and the sessions' queues, for any number of each, but by  *)
(* two calls of the store that overlap and both touch it.                  *)
THEOREM NothingLostOrDoubled == Spec => []MessagesConserved
<1>1. ServerIInv => MessagesConserved
  BY CopiesCounted DEF ServerIInv, Consistent, ServerInv, MessagesConserved
<1>2. QED
  BY <1>1, AlwaysServer, PTL

-----------------------------------------------------------------------------
(* What the server holds is what it neither delivered nor gave up.         *)
GivenUp == dropped \cup clashed
Delivered == {m \in Unclashed : \E s \in Sessions : m \in Range(outbox[s])}

HeldExact ==
  /\ Held = DOMAIN log \ (GivenUp \cup Delivered)
  /\ GivenUp \subseteq DOMAIN log /\ Delivered \subseteq DOMAIN log
  /\ GivenUp \cap Delivered = {}

(* Since each sound message has one place.                                 *)
LEMMA WhatIsHeld == TypeOK /\ StoreInv /\ PlaceInv => HeldExact
<1> SUFFICES ASSUME TypeOK, StoreInv, PlaceInv PROVE HeldExact
  OBVIOUS
<1>1. PICK place \in [Unclashed -> Locations] : PlacedBy(place)
  BY DEF PlaceInv, OnePlace
<1>c. clashed \subseteq DOMAIN log /\ \A m : m \in Unclashed <=> m \in DOMAIN log /\ m \notin clashed
  BY DEF StoreInv, StoredSent, Unclashed
<1>2. \A m : m \in dropped \ clashed <=> m \in Unclashed /\ place[m] = <<"dropped", None>>
  BY <1>1 DEF PlacedBy, At
<1>3. \A m \in Unclashed : m \in Delivered <=> \E s \in Sessions : place[m] = <<"outbox", s>>
  BY <1>1, <1>c DEF PlacedBy, At, Delivered
<1>4. \A m \in Unclashed :
        m \in Held <=> \/ place[m] = <<"tasks", None>> \/ place[m] = <<"store", None>>
                       \/ \E w \in Workers : place[m] = <<"worker", w>>
                       \/ \E s \in Sessions : place[m] = <<"strand", s>>
  <2> SUFFICES ASSUME NEW m \in Unclashed
               PROVE  InMemory(m) \/ m \in InStore <=>
                        \/ place[m] = <<"tasks", None>> \/ place[m] = <<"store", None>>
                        \/ \E w \in Workers : place[m] = <<"worker", w>>
                        \/ \E s \in Sessions : place[m] = <<"strand", s>>
    BY DEF Held
  <2>1. InTasks(m) # {} <=> place[m] = <<"tasks", None>>
    BY <1>1, <1>c, WhereInMemory DEF PlacedBy, At
  <2>2. InWorker(m) # {} <=> \E w \in Workers : place[m] = <<"worker", w>>
    BY <1>1, <1>c, WhereInMemory DEF PlacedBy, At
  <2>3. InStrand(m) # {} <=> \E s \in Sessions : place[m] = <<"strand", s>>
    BY <1>1, <1>c DEF PlacedBy, At, InStrand
  <2>4. m \in InStore <=> place[m] = <<"store", None>>
    BY <1>1, <1>c DEF PlacedBy, At
  <2>5. QED
    BY <2>1, <2>2, <2>3, <2>4 DEF InMemory
<1>5. \A m \in Unclashed :
        \/ place[m] = <<"tasks", None>> \/ place[m] = <<"store", None>>
        \/ place[m] = <<"dropped", None>>
        \/ \E w \in Workers : place[m] = <<"worker", w>>
        \/ \E s \in Sessions : place[m] = <<"strand", s>> \/ place[m] = <<"outbox", s>>
  BY <1>1 DEF Locations
<1>6. Held \subseteq Unclashed /\ Delivered \subseteq Unclashed
  BY DEF Held, Delivered
<1>7. ASSUME NEW m \in Unclashed PROVE m \in Held <=> m \notin dropped /\ m \notin Delivered
  BY <1>2, <1>3, <1>4, <1>5, <1>c
<1>8. \A m \in Unclashed : ~(m \in dropped /\ m \in Delivered)
  BY <1>2, <1>3, <1>c
<1>9. QED
  BY <1>2, <1>6, <1>7, <1>8, <1>c DEF HeldExact, GivenUp

(* The same after a step.                                                  *)
LEMMA WhatIsHeldNext == TypeOK' /\ StoreInv' /\ PlaceInv' => HeldExact'
<1>1. QED
  BY WhatIsHeld, PTL

(* Only what the store contains, or a worker is about to put there, can    *)
(* clash, ...                                                              *)
LEMMA ClashedHere ==
  ASSUME TypeOK, StoreInv, [Next]_serverVars
  PROVE  /\ clashed \subseteq clashed'
         /\ \A m \in clashed' \ clashed : m \in InStore \/ \E v \in Workers : m \in HeldIn(running[v])
<1> DEFINE Here(m) == m \in InStore \/ \E v \in Workers : m \in HeldIn(running[v])
<1>s. /\ \A m \in Range(stored) : Here(m)
      /\ \A v \in Workers : \A m \in Saving(v) : Here(m)
  BY DEF InStore, Saving, Runs, HeldIn
<1>1. ASSUME NEW s \in Sessions, Client(s) \/ RunPosted(s) PROVE UNCHANGED clashed
  BY <1>1 DEF Client, Accept, RegisterUser, Login, PrivateMessage, JoinRoom, Heartbeat,
              CloseFromReader, CloseFromWriter, close_session, RunPosted, mailVars, storeVars
<1>2. ASSUME NEW w \in Workers, Worker(w) \/ StoreThrows(w)
      PROVE  clashed \subseteq clashed' /\ \A m \in clashed' \ clashed : Here(m)
  <2>1. CASE ReadFile(w)
    <3>1. clashed' = clashed \cup Caught(w) /\ store = "file" /\ at[w] = "idle"
      BY <2>1 DEF ReadFile
    <3>2. ASSUME NEW m \in Caught(w), m \notin clashed PROVE Here(m)
      <4>1. \/ m \in Range(stored)
            \/ \E v \in UnderWay \cup {w} : m \in Range(memory[v]) \cup Saving(v)
        BY <3>2 DEF Caught
      <4>2. ASSUME NEW v \in UnderWay \cup {w}, m \in Range(memory[v]) PROVE Here(m)
        <5>1. v \in Workers /\ at[v] \in {"idle", "open", "write"} /\ (at[v] = "idle" => memory[v] = <<>>)
          BY <3>1 DEF StoreInv, Stages, UnderWay, TypeOK
        <5>2. at[v] # "idle"
          BY <4>2, <5>1, EmptyRange
        <5>3. ~AllClashed(v)
          BY <3>2, <4>2 DEF AllClashed
        <5>4. Alone(v)
          BY <5>1, <5>2, <5>3 DEF StoreInv, FileInv
        <5>5. m \in Range(stored) \/ at[v] = "write"
          BY <4>2, <5>1, <5>2, <5>4 DEF Alone
        <5>6. QED
          BY <4>2, <5>1, <5>5 DEF InStore, Writers
      <4>3. UnderWay \cup {w} \subseteq Workers
        BY DEF UnderWay
      <4> HIDE DEF Here
      <4>4. QED
        BY <1>s, <4>1, <4>2, <4>3
    <3> HIDE DEF Here
    <3>3. QED
      BY <3>1, <3>2
  <2>2. CASE SelectMessages(w)
    <3>1. /\ clashed \subseteq clashed'
          /\ clashed' \subseteq clashed \cup Range(For(stored, running[w].name))
      BY <2>2 DEF SelectMessages
    <3>2. Range(For(stored, running[w].name)) \subseteq Range(stored)
      BY OnlyKeeps DEF TypeOK, For
    <3> HIDE DEF Here
    <3>3. QED
      BY <1>s, <3>1, <3>2
  <2>3. CASE SaveMessage(w) \/ SaveThrows(w)
    <3>1. /\ Runs(w, "save") /\ clashed \subseteq clashed'
          /\ clashed' \subseteq clashed \cup {running[w].msg}
      BY <2>3 DEF SaveMessage, SaveThrows, Insert
    <3>2. Saving(w) = {running[w].msg}
      BY <3>1 DEF Saving
    <3> HIDE DEF Here
    <3>3. QED
      BY <1>s, <3>1, <3>2
  <2>4. CASE \/ PopTask(w) \/ OpenTruncated(w) \/ TakeMessages(w) \/ SendTaken(w) \/ TakeThrows(w)
    BY <2>4 DEF PopTask, OpenTruncated, TakeMessages, SendTaken, TakeThrows, mailVars, storeVars
  <2>5. QED
    BY <1>2, <2>1, <2>2, <2>3, <2>4 DEF Worker, StoreThrows
<1>3. ASSUME Terminate \/ UNCHANGED serverVars PROVE UNCHANGED clashed
  BY <1>3 DEF Terminate, serverVars, mailVars, storeVars
<1>4. QED
  <2> HIDE DEF Here
  <2>1. clashed \subseteq clashed' /\ \A m \in clashed' \ clashed : Here(m)
    BY <1>1, <1>2, <1>3 DEF Next
  <2>2. QED
    BY <2>1 DEF Here

(* ... so what was delivered remains so.                                   *)
LEMMA SameReceived ==
  ASSUME ServerIInv, [Next]_serverVars, UNCHANGED log, NEW s \in Sessions
  PROVE  Only(outbox[s], Unclashed') = Only(outbox[s], Unclashed)
<1>1. outbox[s] \in Seq(Msg) /\ TypeOK
  BY DEF ServerIInv, Consistent, ServerInv, TypeOK
<1>2. ASSUME NEW m \in Range(outbox[s]), m \in clashed', m \notin clashed PROVE FALSE
  <2>1. PICK place \in [Unclashed -> Locations] : PlacedBy(place)
    BY DEF ServerIInv, PlaceInv, OnePlace
  <2>2. place[m] = <<"outbox", s>>
    BY <1>2, <2>1 DEF PlacedBy, At
  <2>3. m \notin InStore /\ \A v \in Workers : m \notin HeldIn(running[v])
    BY <1>2, <2>1, <2>2 DEF PlacedBy, At
  <2>4. QED
    BY <1>1, <1>2, <2>3, ClashedHere DEF ServerIInv
<1>3. clashed \subseteq clashed'
  BY <1>1, ClashedHere DEF ServerIInv
<1>4. \A m \in Range(outbox[s]) : m \in Unclashed' <=> m \in Unclashed
  BY <1>2, <1>3 DEF Unclashed
<1>5. QED
  BY <1>1, <1>4, OnlySame

(* A step that delivers nothing and renames nobody at most gives messages  *)
(* up.                                                                     *)
LEMMA GiveUpStep ==
  ASSUME ServerIInv, ServerIInv', [Next]_serverVars, UNCHANGED <<log, user_name_>>,
         dropped \subseteq dropped',
         \A s \in Sessions : Only(outbox'[s], Unclashed') = Only(outbox[s], Unclashed)
  PROVE  Messaging!Next
<1>t. /\ \A s \in Sessions : outbox[s] \in Seq(Msg) /\ outbox'[s] \in Seq(Msg)
      /\ TypeOK /\ TypeOK' /\ HeldExact /\ HeldExact'
  BY WhatIsHeld, WhatIsHeldNext DEF ServerIInv, Consistent, ServerInv, TypeOK
<1>1. clashed \subseteq clashed'
  BY <1>t, ClashedHere DEF ServerIInv
<1>2. Delivered' = Delivered
  <2>1. ASSUME NEW s \in Sessions
        PROVE  /\ Range(Only(outbox[s], Unclashed)) = Range(outbox[s]) \cap Unclashed
               /\ Range(Only(outbox'[s], Unclashed')) = Range(outbox'[s]) \cap Unclashed'
    BY <1>t, OnlyKeeps
  <2>2. \A s \in Sessions : Range(outbox[s]) \cap Unclashed = Range(outbox'[s]) \cap Unclashed'
    BY <2>1
  <2>3. QED
    BY <2>2 DEF Delivered
<1>3. /\ GivenUp \subseteq GivenUp' /\ GivenUp' \subseteq GivenUp \cup Held
      /\ Held' = Held \ GivenUp'
  BY <1>t, <1>1, <1>2 DEF HeldExact, GivenUp
<1>4. [s \in Sessions |-> Only(outbox[s], Unclashed)]' = [s \in Sessions |-> Only(outbox[s], Unclashed)]
  OBVIOUS
<1>5. Messaging!GiveUp
  BY <1>3, <1>4 DEF Messaging!GiveUp, GivenUp
<1>6. QED
  BY <1>5 DEF Messaging!Next

(* A posted deliver() delivers what the server held, or gives it up.       *)
LEMMA DeliverStep ==
  ASSUME ServerIInv, ServerIInv', NEW s \in Sessions, RunPosted(s)
  PROVE  Messaging!Next
<1>t. TypeOK /\ [Next]_serverVars
  BY DEF ServerIInv, Consistent, ServerInv, Next
<1> DEFINE m == Head(strand[s])
<1>1. /\ UNCHANGED <<log, user_name_, clashed>> /\ strand[s] # <<>> /\ DeliverNow(s, m)
  BY DEF RunPosted, loginVars, storeVars
<1>2. strand \in [Sessions -> Seq(Msg)] /\ outbox \in [Sessions -> Seq(Msg)]
  BY <1>t DEF TypeOK
<1>3. m \in Range(strand[s]) /\ m \in Msg
  BY <1>1, <1>2, TailRange
<1>4. \A t \in Sessions : Only(outbox[t], Unclashed') = Only(outbox[t], Unclashed)
  BY <1>t, <1>1, SameReceived
<1>5. CASE phase[s] = "stopped"
  BY <1>t, <1>1, <1>4, <1>5, GiveUpStep DEF DeliverNow
<1>6. CASE phase[s] # "stopped"
  <2>1. m \in DOMAIN log /\ user_name_[s] = log[m]
    BY <1>3, <1>6 DEF ServerIInv, MailInv, Addressed, MailAddressed, Bears
  <2>2. outbox' = [outbox EXCEPT ![s] = Append(@, m)] /\ UNCHANGED dropped
    BY <1>1, <1>6 DEF DeliverNow
  <2>3. Unclashed' = Unclashed
    BY <1>1 DEF Unclashed
  <2>4. /\ \A t \in Sessions : t # s => Only(outbox'[t], Unclashed') = Only(outbox[t], Unclashed)
        /\ Only(outbox'[s], Unclashed') = IF m \in Unclashed THEN Append(Only(outbox[s], Unclashed), m)
                                          ELSE Only(outbox[s], Unclashed)
    <3>1. outbox[s] \in Seq(Msg) /\ outbox'[s] = Append(outbox[s], m)
          /\ \A t \in Sessions : t # s => outbox'[t] = outbox[t]
      BY <1>2, <2>2
    <3> HIDE DEF m
    <3>2. \A S : Only(Append(outbox[s], m), S) = IF m \in S THEN Append(Only(outbox[s], S), m)
                                                 ELSE Only(outbox[s], S)
      <4>1. outbox[s] \in Seq(Msg) /\ m \in Msg
        BY <1>3, <3>1
      <4>2. QED
        BY <4>1, OnlyAppend, ZenonT(30)
    <3>3. QED
      BY <2>3, <3>1, <3>2
  <2> HIDE DEF m
  <2>5. CASE m \in clashed
    <3>1. m \notin Unclashed
      BY <2>5 DEF Unclashed
    <3>2. QED
      BY <1>t, <1>1, <2>2, <2>4, <3>1, GiveUpStep
  <2>6. CASE m \notin clashed
    <3>1. m \in Unclashed
      BY <2>1, <2>6 DEF Unclashed
    <3>2. HeldExact /\ HeldExact'
      BY WhatIsHeld, WhatIsHeldNext DEF ServerIInv, Consistent, ServerInv
    <3>3. m \notin GivenUp \cup Delivered
      <4>1. PICK place \in [Unclashed -> Locations] : PlacedBy(place)
        BY DEF ServerIInv, PlaceInv, OnePlace
      <4>2. place[m] = <<"strand", s>>
        BY <1>3, <2>6, <4>1 DEF PlacedBy, At
      <4>3. QED
        BY <2>6, <4>1, <4>2 DEF PlacedBy, At, Delivered, GivenUp
    <3>4. Delivered' = Delivered \cup {m}
      <4>1. \A t \in Sessions : Range(outbox'[t]) = IF s = t THEN Range(outbox[t]) \cup {m} ELSE Range(outbox[t])
        BY <1>t, <1>1, <1>3, <1>6, DeliverNowAdds
      <4>2. QED
        BY <2>3, <3>1, <4>1 DEF Delivered
    <3>5. GivenUp' = GivenUp
      BY <1>1, <2>2 DEF GivenUp
    <3>6. m \in Held /\ Held' = Held \ {m}
      BY <1>1, <2>1, <3>2, <3>3, <3>4, <3>5 DEF HeldExact
    <3>7. [t \in Sessions |-> Only(outbox[t], Unclashed)]' =
            [[t \in Sessions |-> Only(outbox[t], Unclashed)] EXCEPT ![s] = Append(@, m)]
      BY <2>4, <3>1
    <3>8. Messaging!Deliver(s, m)
      BY <1>1, <2>1, <3>5, <3>6, <3>7 DEF Messaging!Deliver, Messaging!Give, GivenUp
    <3>9. QED
      BY <3>6, <3>8 DEF Messaging!Next
  <2>7. QED
    BY <2>5, <2>6
<1>7. QED
  BY <1>5, <1>6

(* A private message is delivered, held or given up.                       *)
LEMMA SendStep ==
  ASSUME ServerIInv, ServerIInv', NEW s \in Sessions, NEW u \in Users, PrivateMessage(s, u)
  PROVE  Messaging!Next
<1>t. TypeOK /\ RoomTypeOK
  BY DEF ServerIInv, Consistent, ServerInv, TypeOK
<1> DEFINE m == Len(log) + 1
<1>1. /\ log' = Append(log, u) /\ UNCHANGED <<user_name_, clashed>> /\ Len(log) < MaxMsgs
      /\ \/ name_index_[u] # None /\ deliver(name_index_[u], m)
         \/ UNCHANGED <<outbox, dropped>>
  BY DEF PrivateMessage, loginVars, storeVars
<1>2. m \in Msg
  BY <1>t, <1>1, LenProperties, ChatServerAssumption DEF TypeOK, Msg
<1>3. DOMAIN log' = DOMAIN log \cup {m} /\ m \notin DOMAIN log
  BY <1>t, <1>1, LogGrows
<1>4. HeldExact /\ HeldExact'
  BY WhatIsHeld, WhatIsHeldNext DEF ServerIInv, Consistent, ServerInv
<1> HIDE DEF m
<1>c. m \notin clashed /\ m \in Unclashed' /\ Unclashed' = Unclashed \cup {m} /\ m \notin Unclashed
  BY <1>1, <1>3 DEF ServerIInv, StoreInv, StoredSent, Unclashed
<1>o. \A t \in Sessions : outbox[t] \in Seq(Msg) /\ m \notin Range(outbox[t])
  <2>1. PICK place \in [Unclashed -> Locations] : PlacedBy(place)
    BY DEF ServerIInv, PlaceInv, OnePlace
  <2>2. QED
    BY <1>t, <1>c, <2>1 DEF TypeOK, PlacedBy, At
<1>r. \A t \in Sessions : Only(outbox[t], Unclashed') = Only(outbox[t], Unclashed)
  BY <1>c, <1>o, OnlySame
<1> DEFINE Received == [t \in Sessions |-> Only(outbox[t], Unclashed)]
<1>5. SUFFICES \/ \E t \in Sessions : /\ user_name_[t] = u
                                      /\ Received' = [Received EXCEPT ![t] = Append(@, m)]
                                      /\ UNCHANGED <<Held, GivenUp>>
               \/ Held' = Held \cup {m} /\ UNCHANGED <<Received, GivenUp>>
               \/ GivenUp' = GivenUp \cup {m} /\ UNCHANGED <<Held, Received>>
  <2>1. ASSUME \/ \E t \in Sessions : /\ user_name_[t] = u
                                      /\ Received' = [Received EXCEPT ![t] = Append(@, m)]
                                      /\ UNCHANGED <<Held, GivenUp>>
               \/ Held' = Held \cup {m} /\ UNCHANGED <<Received, GivenUp>>
               \/ GivenUp' = GivenUp \cup {m} /\ UNCHANGED <<Held, Received>>
        PROVE  Messaging!Send(u)
    BY <1>1, <2>1 DEF Messaging!Send, Messaging!Give, GivenUp, m
  <2>2. QED
    BY <2>1 DEF Messaging!Next
<1>6. ASSUME UNCHANGED <<outbox, dropped>>
      PROVE  Held' = Held \cup {m} /\ UNCHANGED <<Received, GivenUp>>
  <2>1. Delivered' = Delivered
    BY <1>6, <1>c, <1>o DEF Delivered
  <2>2. GivenUp' = GivenUp
    BY <1>1, <1>6 DEF GivenUp
  <2>3. Held' = Held \cup {m}
    BY <1>3, <1>4, <2>1, <2>2 DEF HeldExact
  <2>4. QED
    BY <1>6, <1>r, <2>2, <2>3
<1>7. CASE name_index_[u] # None /\ deliver(name_index_[u], m)
  <2> DEFINE t == name_index_[u]
  <2>1. t \in Sessions
    BY <1>t, <1>7, ChatRoomAssumption DEF RoomTypeOK
  <2>2. user_name_[t] = u
    BY <1>t, <1>7, <2>1, ChatRoomAssumption
       DEF ServerIInv, Consistent, ServerInv, RegistryMatchesSession, RegistryInv, NameIndexExact,
           SameSessions
  <2> HIDE DEF t
  <2>3. CASE DeliverNow(t, m) /\ phase[t] # "stopped"
    <3>1. outbox' = [outbox EXCEPT ![t] = Append(@, m)] /\ UNCHANGED dropped
      BY <2>3 DEF DeliverNow
    <3>2. \A x \in Sessions : Range(outbox'[x]) = IF x = t THEN Range(outbox[x]) \cup {m} ELSE Range(outbox[x])
      BY <1>t, <1>2, <2>1, <2>3, DeliverNowAdds
    <3>3. Delivered' = Delivered \cup {m}
      BY <1>c, <1>o, <2>1, <3>2 DEF Delivered
    <3>4. GivenUp' = GivenUp
      BY <1>1, <3>1 DEF GivenUp
    <3>5. Held' = Held
      BY <1>3, <1>4, <3>3, <3>4 DEF HeldExact
    <3>6. Received' = [Received EXCEPT ![t] = Append(@, m)]
      <4>1. outbox'[t] = Append(outbox[t], m) /\ \A x \in Sessions : x # t => outbox'[x] = outbox[x]
        BY <1>t, <2>1, <3>1 DEF TypeOK
      <4>2. Only(outbox'[t], Unclashed') = Append(Only(outbox[t], Unclashed), m)
        <5>1. \A S : Only(Append(outbox[t], m), S) = IF m \in S THEN Append(Only(outbox[t], S), m)
                                                     ELSE Only(outbox[t], S)
          <6>1. outbox[t] \in Seq(Msg) /\ m \in Msg
            BY <1>2, <1>o, <2>1
          <6>2. QED
            BY <6>1, OnlyAppend, ZenonT(30)
        <5>2. Only(Append(outbox[t], m), Unclashed') = Append(Only(outbox[t], Unclashed'), m)
          BY <1>c, <5>1
        <5>3. QED
          BY <1>r, <2>1, <4>1, <5>2
      <4>3. QED
        BY <1>r, <2>1, <4>1, <4>2
    <3> HIDE DEF Received
    <3>7. QED
      BY <2>1, <2>2, <3>4, <3>5, <3>6
  <2>4. CASE DeliverNow(t, m) /\ phase[t] = "stopped"
    <3>1. dropped' = dropped \cup {m} /\ UNCHANGED outbox
      BY <2>4 DEF DeliverNow
    <3>2. Delivered' = Delivered /\ Received' = Received
      BY <1>c, <1>o, <1>r, <3>1 DEF Delivered
    <3>3. GivenUp' = GivenUp \cup {m}
      BY <1>1, <3>1 DEF GivenUp
    <3>4. Held' = Held
      BY <1>3, <1>4, <3>2, <3>3 DEF HeldExact
    <3> HIDE DEF Received
    <3>5. QED
      BY <3>2, <3>3, <3>4
  <2>5. CASE UNCHANGED <<outbox, dropped>>
    <3> HIDE DEF Received
    <3>1. QED
      BY <1>6, <2>5
  <2>6. QED
    BY <1>7, <2>3, <2>4, <2>5 DEF deliver, t
<1> HIDE DEF Received
<1>8. QED
  BY <1>1, <1>6, <1>7

(* Every step of the server is one of PrivateMessaging.                    *)
LEMMA StepImplements ==
  ASSUME ServerIInv, ServerIInv', [Next]_serverVars
  PROVE  [Messaging!Next]_(Messaging!vars)
<1>0. ASSUME UNCHANGED <<log, outbox, user_name_>>, dropped \subseteq dropped' PROVE Messaging!Next
  <2>1. \A s \in Sessions : Only(outbox'[s], Unclashed') = Only(outbox[s], Unclashed)
    BY <1>0, SameReceived
  <2>2. QED
    BY <1>0, <2>1, GiveUpStep
<1>1. ASSUME NEW s \in Sessions, Client(s) PROVE Messaging!Next
  <2>1. ASSUME NEW u \in Users, PrivateMessage(s, u) PROVE Messaging!Next
    BY <2>1, SendStep
  <2>2. ASSUME NEW u \in Users, Login(s, u) PROVE Messaging!Next
    <3>1. UNCHANGED <<log, outbox, dropped, clashed>>
      BY <2>2 DEF Login, mailVars, storeVars
    <3>2. Delivered' = Delivered /\ GivenUp' = GivenUp /\ Unclashed' = Unclashed
      BY <3>1 DEF Delivered, GivenUp, Unclashed
    <3>3. Held' = Held
      BY <3>1, <3>2, WhatIsHeld, WhatIsHeldNext DEF ServerIInv, Consistent, ServerInv, HeldExact
    <3>4. Messaging!Rename
      BY <3>1, <3>2, <3>3 DEF Messaging!Rename, GivenUp
    <3>5. QED
      BY <3>4 DEF Messaging!Next
  <2>3. ASSUME \/ Accept(s) \/ Heartbeat(s) \/ CloseFromReader(s) \/ CloseFromWriter(s)
               \/ \E u \in Users : RegisterUser(s, u)
               \/ \E r \in Rooms : JoinRoom(s, r)
        PROVE  Messaging!Next
    <3>1. UNCHANGED <<log, outbox, user_name_, dropped>>
      BY <2>3 DEF Accept, Heartbeat, CloseFromReader, CloseFromWriter, close_session,
                  RegisterUser, JoinRoom, mailVars, storeVars, loginVars
    <3>2. QED
      BY <1>0, <3>1
  <2>4. QED
    BY <1>1, <2>1, <2>2, <2>3 DEF Client
<1>2. ASSUME NEW s \in Sessions, RunPosted(s) PROVE Messaging!Next
  BY <1>2, DeliverStep
<1>3. ASSUME NEW w \in Workers, Worker(w) \/ StoreThrows(w) PROVE Messaging!Next
  <2>1. UNCHANGED <<log, outbox, user_name_>> /\ dropped \subseteq dropped'
    BY <1>3 DEF Worker, StoreThrows, PopTask, ReadFile, OpenTruncated, SelectMessages, SaveMessage,
                TakeMessages, HandOut, Insert, SendTaken, SaveThrows, TakeThrows, WorkerFrame,
                loginVars, mailVars, storeVars
  <2>2. QED
    BY <1>0, <2>1
<1>4. ASSUME Terminate PROVE Messaging!Next
  BY <1>0, <1>4 DEF Terminate
<1>5. ASSUME UNCHANGED serverVars PROVE Messaging!Next
  BY <1>0, <1>5 DEF serverVars, mailVars, storeVars, loginVars
<1>6. QED
  BY <1>1, <1>2, <1>3, <1>4, <1>5 DEF Next

(* Its initial states are PrivateMessaging's.                              *)
LEMMA InitImplements == Init => Messaging!Init
<1> SUFFICES ASSUME Init PROVE Messaging!Init
  OBVIOUS
<1>1. DOMAIN log = {}
  BY EmptySeq, LenProperties DEF Init
<1>2. Held = {} /\ dropped \cup clashed = {} /\ log = <<>>
  BY <1>1 DEF Init, Held, Unclashed
<1>3. \A s \in Sessions : user_name_[s] \notin Users
  BY ChatRoomAssumption DEF Init
<1>4. [s \in Sessions |-> Only(outbox[s], Unclashed)] = [s \in Sessions |-> <<>>]
  BY OnlyEmpty DEF Init
<1>5. QED
  BY <1>2, <1>3, <1>4 DEF Messaging!Init

(* The server implements PrivateMessaging, step by step and with calls of  *)
(* the store that interleave: a message sent is held until it is           *)
(* delivered, once and to a connection that bears the recipient's name, or *)
(* given up; what two overlapping calls have touched counts as given up.   *)
THEOREM MessagingImplemented == Spec => ImplementsMessaging
<1>1. ServerIInv /\ ServerIInv' /\ [Next]_serverVars => [Messaging!Next]_(Messaging!vars)
  BY StepImplements
<1>2. QED
  BY <1>1, InitImplements, AlwaysServer, PTL DEF Spec, ImplementsMessaging, Messaging!Spec

-----------------------------------------------------------------------------
(* A message for a user who is logged in is followed by a load of that     *)
(* user's mail that has not read the store yet, wherever it is between the *)
(* request and the store.                                                  *)
Connected(n) == name_index_[n] # None
LoadAfter(i, n) == \E j \in DOMAIN tasks : i < j /\ tasks[j].kind = "load" /\ tasks[j].name = n
LoadBegins(n) == \E w \in Workers : Runs(w, "load") /\ running[w].name = n /\ at[w] = "idle"

FetchInv ==
  faults = 0 /\ store # "none" =>
    /\ \A i \in DOMAIN tasks :
         tasks[i].kind = "save" /\ Connected(log[tasks[i].msg]) => LoadAfter(i, log[tasks[i].msg])
    /\ \A w \in Workers :
         Runs(w, "save") /\ Connected(log[running[w].msg]) /\ running[w].msg \notin overtaken =>
           LoadAfter(0, log[running[w].msg]) \/ LoadBegins(log[running[w].msg])
    /\ \A m \in InStore \ (overtaken \cup clashed) : Connected(log[m]) => Loads(log[m])

(* Nothing is under way in a server that starts.                           *)
LEMMA InitFetch == Init => FetchInv
<1> SUFFICES ASSUME Init PROVE FetchInv
  OBVIOUS
<1>1. InStore = {}
  BY EmptyRange DEF Init, InStore, Writers
<1>2. QED
  BY <1>1, EmptySeq DEF Init, FetchInv, Runs

(* Every message that is somewhere was sent.                               *)
LEMMA OnlySent ==
  ASSUME TypeOK, StoreInv
  PROVE  /\ InStore \subseteq DOMAIN log
         /\ \A i \in DOMAIN tasks : tasks[i].kind = "save" => tasks[i].msg \in DOMAIN log
         /\ \A w \in Workers : Runs(w, "save") => running[w].msg \in DOMAIN log
<1>1. InStore \subseteq DOMAIN log
  BY DEF StoreInv, StoredSent, InStore, Writers
<1>2. \A i \in DOMAIN tasks : tasks[i].kind = "save" => tasks[i].msg \in DOMAIN log
  BY DEF StoreInv, StoredSent, SavesSent, Range
<1>3. \A w \in Workers : Runs(w, "save") => running[w].msg \in DOMAIN log
  BY DEF StoreInv, StoredSent, Saving
<1>4. QED
  BY <1>1, <1>2, <1>3

(* The tasks of a longer queue, place by place.                            *)
LEMMA TasksAppend ==
  ASSUME NEW q \in Seq(Task), NEW t \in Task
  PROVE  /\ Len(q) \in Nat /\ DOMAIN q = 1..Len(q) /\ DOMAIN Append(q, t) = 1..(Len(q) + 1)
         /\ \A i \in DOMAIN q : Append(q, t)[i] = q[i]
         /\ Append(q, t)[Len(q) + 1] = t
  BY AppendProperties, LenProperties

(* The tasks left when the first is popped, place by place.                *)
LEMMA TasksTail ==
  ASSUME NEW q \in Seq(Task), q # <<>>
  PROVE  /\ Len(q) \in Nat \ {0} /\ DOMAIN q = 1..Len(q) /\ DOMAIN Tail(q) = 1..(Len(q) - 1)
         /\ \A i \in DOMAIN Tail(q) : i + 1 \in DOMAIN q /\ Tail(q)[i] = q[i + 1]
         /\ \A i \in DOMAIN q : i = 1 \/ (i - 1 \in DOMAIN Tail(q) /\ Tail(q)[i - 1] = q[i])
         /\ Head(q) = q[1] /\ 1 \in DOMAIN q /\ Head(q) \in Task
<1>1. /\ Len(q) \in Nat \ {0} /\ DOMAIN q = 1..Len(q) /\ Tail(q) \in Seq(Task)
      /\ Len(Tail(q)) = Len(q) - 1 /\ Head(q) = q[1] /\ Head(q) \in Task
      /\ \A i \in 1..(Len(q) - 1) : Tail(q)[i] = q[i + 1]
  BY HeadTailProperties, LenProperties, EmptySeq
<1>2. DOMAIN Tail(q) = 1..(Len(q) - 1)
  BY <1>1, LenProperties
<1>3. \A i \in 1..(Len(q) - 1) : i + 1 \in 1..Len(q)
  BY <1>1
<1>4. \A i \in 1..Len(q) : i = 1 \/ (i - 1 \in 1..(Len(q) - 1) /\ (i - 1) + 1 = i)
  BY <1>1
<1>5. 1 \in 1..Len(q)
  BY <1>1
<1>6. QED
  BY <1>1, <1>2, <1>3, <1>4, <1>5

(* A load appended to the queue comes after every save in it.              *)
LEMMA LoginFetch ==
  ASSUME Consistent, StoreInv, FetchInv, NEW s \in Sessions, NEW u \in Users, Login(s, u)
  PROVE  FetchInv'
<1>t. TypeOK /\ RoomTypeOK
  BY DEF Consistent, ServerInv, TypeOK
<1>n. PICK n \in Names : Register(s, n)
  BY LoginRegisters DEF Login
<1>1. names_'[s] = n
  BY <1>t, <1>n DEF Register, RoomTypeOK
<1> DEFINE load == [kind |-> "load", session |-> s, name |-> n]
<1>2. /\ UNCHANGED <<log, running, store, stored, at, memory, clashed, overtaken, faults>>
      /\ tasks' = Append(tasks, load)
      /\ \A x \in Names : x # n => name_index_'[x] = name_index_[x]
  BY <1>t, <1>n, <1>1 DEF Login, Frame, submit_store_task, mailVars, storeVars, Register, RoomTypeOK
<1>3. load \in Task /\ load.kind = "load" /\ load.name = n /\ load.kind # "save"
  BY DEF Task, LoadTask
<1>4. tasks \in Seq(Task)
  BY <1>t DEF TypeOK, Task
<1> HIDE DEF load
<1>5. /\ Len(tasks) \in Nat /\ DOMAIN tasks = 1..Len(tasks) /\ DOMAIN tasks' = 1..(Len(tasks) + 1)
      /\ \A i \in DOMAIN tasks : tasks'[i] = tasks[i]
      /\ tasks'[Len(tasks) + 1] = load
  BY <1>2, <1>3, <1>4, TasksAppend
<1>6. \A i \in 0..Len(tasks) : LoadAfter(i, n)'
  BY <1>3, <1>5 DEF LoadAfter
<1>7. \A j \in DOMAIN tasks : j \in DOMAIN tasks'
  BY <1>5
<1>8. /\ \A i, x : LoadAfter(i, x) => LoadAfter(i, x)'
      /\ \A x : LoadBegins(x) => LoadBegins(x)'
      /\ \A x : Loads(x) => Loads(x)'
  BY <1>2, <1>5, <1>7 DEF LoadAfter, LoadBegins, Loads, Runs
<1>9. Loads(n)' /\ InStore' = InStore
  <2>1. Len(tasks) + 1 \in DOMAIN tasks'
    BY <1>5
  <2>2. QED
    BY <1>2, <1>3, <1>5, <2>1 DEF Loads, InStore, Writers
<1>10. \A m \in DOMAIN log : log[m] \in Names /\ (Connected(log[m])' => Connected(log[m]) \/ log[m] = n)
  <2>1. \A m \in DOMAIN log : log[m] \in Names
    BY <1>t, ChatRoomAssumption DEF TypeOK
  <2>2. QED
    BY <1>2, <2>1 DEF Connected
<1>11. SUFFICES ASSUME faults = 0, store # "none" PROVE FetchInv'
  BY <1>2 DEF FetchInv
<1>12. ASSUME NEW i \in DOMAIN tasks', tasks'[i].kind = "save",
              NEW x, x = log[tasks'[i].msg], Connected(x)'
       PROVE  LoadAfter(i, x)'
  <2>1. i \in DOMAIN tasks /\ i \in 0..Len(tasks) /\ tasks'[i] = tasks[i]
    <3>1. i # Len(tasks) + 1
      BY <1>3, <1>5, <1>12
    <3>2. QED
      BY <1>5, <3>1
  <2>2. tasks[i].msg \in DOMAIN log
    BY <1>t, <1>12, <2>1, OnlySent
  <2>3. CASE x = n
    BY <1>6, <2>1, <2>3
  <2>4. CASE Connected(x)
    BY <1>8, <1>11, <1>12, <2>1, <2>4 DEF FetchInv
  <2>5. QED
    BY <1>2, <1>10, <1>12, <2>1, <2>2, <2>3, <2>4
<1>13. ASSUME NEW w \in Workers, Runs(w, "save"), running[w].msg \notin overtaken,
              NEW x, x = log[running[w].msg], Connected(x)'
       PROVE  LoadAfter(0, x)' \/ LoadBegins(x)'
  <2>1. running[w].msg \in DOMAIN log
    BY <1>t, <1>13, OnlySent
  <2>2. 0 \in 0..Len(tasks)
    BY <1>5
  <2>3. CASE x = n
    BY <1>6, <2>2, <2>3
  <2>4. CASE Connected(x)
    BY <1>8, <1>11, <1>13, <2>4 DEF FetchInv
  <2>5. QED
    BY <1>2, <1>10, <1>13, <2>1, <2>3, <2>4
<1>14. ASSUME NEW m \in InStore \ (overtaken \cup clashed), NEW x, x = log[m], Connected(x)'
       PROVE  Loads(x)'
  <2>1. m \in DOMAIN log
    BY <1>t, OnlySent
  <2>2. CASE x = n
    BY <1>9, <2>2
  <2>3. CASE Connected(x)
    BY <1>8, <1>11, <1>14, <2>3 DEF FetchInv
  <2>4. QED
    BY <1>2, <1>10, <1>14, <2>1, <2>2, <2>3
<1>15. QED
  BY <1>2, <1>9, <1>12, <1>13, <1>14 DEF FetchInv, Runs

(* Steps that neither move mail nor connect a user.                        *)
LEMMA SameFetch ==
  ASSUME TypeOK, StoreInv, FetchInv,
         UNCHANGED <<tasks, running, store, stored, at, memory, clashed, overtaken>>,
         faults' = 0 => faults = 0,
         \A m \in DOMAIN log : log'[m] = log[m],
         \A n \in Names : Connected(n)' => Connected(n)
  PROVE  FetchInv'
<1>1. \A m \in DOMAIN log : log[m] \in Names
  BY ChatRoomAssumption DEF TypeOK
<1>2. /\ \A i, x : LoadAfter(i, x)' = LoadAfter(i, x)
      /\ \A x : Loads(x)' = Loads(x) /\ LoadBegins(x)' = LoadBegins(x)
      /\ InStore' = InStore
  BY DEF LoadAfter, Loads, LoadBegins, Runs, InStore, Writers
<1>3. SUFFICES ASSUME faults = 0, store # "none" PROVE FetchInv'
  BY DEF FetchInv
<1>4. ASSUME NEW i \in DOMAIN tasks, tasks[i].kind = "save",
             NEW x, x = log'[tasks[i].msg], Connected(x)'
      PROVE  LoadAfter(i, x)
  <2>1. tasks[i].msg \in DOMAIN log
    BY <1>4, OnlySent
  <2>2. QED
    BY <1>1, <1>3, <1>4, <2>1 DEF FetchInv
<1>5. ASSUME NEW w \in Workers, Runs(w, "save"), running[w].msg \notin overtaken,
             NEW x, x = log'[running[w].msg], Connected(x)'
      PROVE  LoadAfter(0, x) \/ LoadBegins(x)
  <2>1. running[w].msg \in DOMAIN log
    BY <1>5, OnlySent
  <2>2. QED
    BY <1>1, <1>3, <1>5, <2>1 DEF FetchInv
<1>6. ASSUME NEW m \in InStore \ (overtaken \cup clashed), NEW x, x = log'[m], Connected(x)'
      PROVE  Loads(x)
  <2>1. m \in DOMAIN log
    BY OnlySent
  <2>2. QED
    BY <1>1, <1>3, <1>6, <2>1 DEF FetchInv
<1>7. QED
  BY <1>2, <1>4, <1>5, <1>6 DEF FetchInv, Runs

(* A message is queued only for a user who is not connected.               *)
LEMMA PrivateMessageFetch ==
  ASSUME Consistent, StoreInv, FetchInv, NEW s \in Sessions, NEW u \in Users, PrivateMessage(s, u)
  PROVE  FetchInv'
<1>t. TypeOK /\ RoomTypeOK
  BY DEF Consistent, ServerInv, TypeOK
<1> DEFINE m == Len(log) + 1
           save == [kind |-> "save", msg |-> m]
<1>1. /\ UNCHANGED <<running, store, stored, at, memory, clashed, overtaken, faults, name_index_>>
      /\ log' = Append(log, u)
      /\ \/ UNCHANGED tasks
         \/ name_index_[u] = None /\ tasks' = Append(tasks, save)
  BY DEF PrivateMessage, Frame, submit_store_task, roomVars, storeVars
<1>2. m \in Msg
  <2>1. Len(log) < MaxMsgs
    BY DEF PrivateMessage
  <2>2. QED
    BY <1>t, <2>1, LenProperties, ChatServerAssumption DEF TypeOK, Msg
<1>3. log'[m] = u /\ m \notin DOMAIN log /\ \A k \in DOMAIN log : log'[k] = log[k]
  BY <1>t, <1>1, LogGrows
<1>4. save \in Task /\ save.kind = "save" /\ save.msg = m
  BY <1>2 DEF Task, SaveTask
<1> HIDE DEF save, m
<1>5. CASE UNCHANGED tasks
  BY <1>t, <1>1, <1>3, <1>5, SameFetch DEF Connected
<1>6. CASE name_index_[u] = None /\ tasks' = Append(tasks, save)
  <2>1. tasks \in Seq(Task)
    BY <1>t DEF TypeOK, Task
  <2>2. /\ Len(tasks) \in Nat /\ DOMAIN tasks = 1..Len(tasks) /\ DOMAIN tasks' = 1..(Len(tasks) + 1)
        /\ \A i \in DOMAIN tasks : tasks'[i] = tasks[i]
        /\ tasks'[Len(tasks) + 1] = save
    BY <1>4, <1>6, <2>1, TasksAppend
  <2>3. \A j \in DOMAIN tasks : j \in DOMAIN tasks'
    BY <2>2
  <2>4. /\ \A i, x : LoadAfter(i, x) => LoadAfter(i, x)'
        /\ \A x : (Loads(x) => Loads(x)') /\ (LoadBegins(x) => LoadBegins(x)')
        /\ \A x : Connected(x)' = Connected(x)
        /\ InStore' = InStore
    BY <1>1, <2>2, <2>3 DEF LoadAfter, Loads, LoadBegins, Runs, Connected, InStore, Writers
  <2>5. SUFFICES ASSUME faults = 0, store # "none" PROVE FetchInv'
    BY <1>1 DEF FetchInv
  <2>6. ASSUME NEW i \in DOMAIN tasks', tasks'[i].kind = "save",
               NEW x, x = log'[tasks'[i].msg], Connected(x)
        PROVE  LoadAfter(i, x)
    <3>1. i \in DOMAIN tasks /\ tasks'[i] = tasks[i]
      <4>1. i # Len(tasks) + 1
        BY <1>3, <1>4, <1>6, <2>2, <2>6 DEF Connected
      <4>2. QED
        BY <2>2, <4>1
    <3>2. tasks[i].msg \in DOMAIN log
      BY <1>t, <2>6, <3>1, OnlySent
    <3>3. QED
      BY <1>3, <2>5, <2>6, <3>1, <3>2 DEF FetchInv
  <2>7. ASSUME NEW w \in Workers, Runs(w, "save"), running[w].msg \notin overtaken,
               NEW x, x = log'[running[w].msg], Connected(x)
        PROVE  LoadAfter(0, x) \/ LoadBegins(x)
    <3>1. running[w].msg \in DOMAIN log
      BY <1>t, <2>7, OnlySent
    <3>2. QED
      BY <1>3, <2>5, <2>7, <3>1 DEF FetchInv
  <2>8. ASSUME NEW k \in InStore \ (overtaken \cup clashed), NEW x, x = log'[k], Connected(x)
        PROVE  Loads(x)
    <3>1. k \in DOMAIN log
      BY <1>t, OnlySent
    <3>2. QED
      BY <1>3, <2>5, <2>8, <3>1 DEF FetchInv
  <2>9. QED
    BY <1>1, <2>4, <2>6, <2>7, <2>8 DEF FetchInv, Runs
<1>7. QED
  BY <1>1, <1>5, <1>6

(* What the store contains after a call has rewritten the file, inserted   *)
(* its message or deleted a user's.                                        *)
LEMMA InStoreNext ==
  ASSUME Typed, StoreInv, store # "none", NEW w \in Workers
  PROVE  /\ SaveMessage(w) => InStore' \subseteq InStore \cup {running[w].msg}
         /\ TakeMessages(w) =>
              \A m \in InStore' \ clashed : m \in InStore /\ log[m] # running[w].name
         /\ OpenTruncated(w) => InStore' \ clashed \subseteq InStore
         /\ ReadFile(w) \/ SelectMessages(w) => InStore' = InStore
<1>t. /\ stored \in Seq(Msg) /\ \A v \in Workers : memory[v] \in Seq(Msg)
      /\ at \in [Workers -> {"idle", "open", "write", "delete"}]
      /\ memory \in [Workers -> Seq(Msg)]
  BY DEF Typed, TypeOK
<1>o. ASSUME NEW new \in Seq(Msg), stored' = Overwrite(stored, new)
      PROVE  Range(stored') \subseteq Range(stored) \cup Range(new) /\ (stored = <<>> => stored' = new)
  BY <1>t, <1>o, Overwritten DEF Overwrite
<1>1. ASSUME SaveMessage(w) PROVE InStore' \subseteq InStore \cup {running[w].msg}
  <2> DEFINE m == running[w].msg
  <2>1. /\ \A v \in Workers : at'[v] = "write" => at[v] = "write" /\ memory'[v] = memory[v]
        /\ \/ at[w] = "write" /\ stored' = Overwrite(stored, Append(memory[w], m))
           \/ stored' = Append(stored, m)
    BY <1>t, <1>1 DEF SaveMessage, CallReturns, Rewrite, Insert
  <2>2. m \in Msg
    BY <1>1 DEF SaveMessage, Typed, TypeOK, Runs, SaveTask, LoadTask, SendTask
  <2> HIDE DEF m
  <2>3. Append(memory[w], m) \in Seq(Msg) /\ Range(Append(memory[w], m)) = Range(memory[w]) \cup {m}
        /\ Range(Append(stored, m)) = Range(stored) \cup {m}
    BY <1>t, <2>2, AppendRange
  <2>4. Range(stored') \subseteq InStore \cup {m}
    BY <1>o, <2>1, <2>3 DEF InStore, Writers
  <2>5. QED
    BY <2>1, <2>4, StoreHas, StoreHasNext DEF m
<1>2. ASSUME TakeMessages(w), NEW m \in InStore', m \notin clashed
      PROVE  m \in InStore /\ log[m] # running[w].name
  <2> DEFINE n == running[w].name
  <2>1. /\ \A v \in Workers : at'[v] = "write" => v # w /\ at[v] = "write" /\ memory'[v] = memory[v]
        /\ \/ at[w] = "write" /\ stored' = Overwrite(stored, NotFor(memory[w], n))
           \/ at[w] = "delete" /\ stored' = NotFor(stored, n)
    BY <1>t, <1>2 DEF TakeMessages, CallReturns, Rewrite
  <2>2. m \in Range(stored') \/ \E v \in Workers : at'[v] = "write" /\ m \in Range(memory'[v])
    BY <1>2, StoreHasNext
  <2>3. ASSUME NEW u \in Seq(Msg)
        PROVE  /\ NotFor(u, n) \in Seq(Msg)
               /\ Range(NotFor(u, n)) = {k \in Range(u) : k \in DOMAIN log /\ log[k] # n}
    BY OnlyKeeps DEF NotFor
  <2> HIDE DEF n
  <2>4. ASSUME NEW v \in Workers, v # w, at[v] = "write" PROVE m \notin Range(memory[v])
    <3>1. AllClashed(v)
      BY <1>2, <2>1, <2>4 DEF StoreInv, FileInv, Alone, Stages
    <3>2. QED
      BY <1>2, <3>1 DEF AllClashed
  <2>5. m \in Range(stored')
    BY <2>1, <2>2, <2>4
  <2>6. CASE at[w] = "write" /\ stored' = Overwrite(stored, NotFor(memory[w], n))
    <3>1. Alone(w) \/ AllClashed(w)
      BY <2>6 DEF StoreInv, FileInv
    <3>2. CASE AllClashed(w)
      <4>1. Range(stored') \subseteq Range(stored) \cup Range(memory[w])
        BY <1>t, <1>o, <2>3, <2>6
      <4>2. QED
        BY <1>2, <2>5, <3>2, <4>1 DEF AllClashed
    <3>3. CASE Alone(w)
      <4>1. stored' = NotFor(memory[w], n)
        BY <1>t, <1>o, <2>3, <2>6, <3>3 DEF Alone
      <4>2. m \in Range(memory[w]) /\ log[m] # n
        BY <1>t, <2>3, <2>5, <4>1
      <4>3. QED
        BY <2>6, <4>2, StoreHas DEF n
    <3>4. QED
      BY <3>1, <3>2, <3>3
  <2>7. CASE stored' = NotFor(stored, n)
    BY <1>t, <2>3, <2>5, <2>7, StoreHas DEF n
  <2>8. QED
    BY <2>1, <2>6, <2>7
<1>3. ASSUME OpenTruncated(w), NEW m \in InStore', m \notin clashed PROVE m \in InStore
  <2>1. /\ at[w] = "open" /\ stored' = <<>> /\ UNCHANGED memory
        /\ \A v \in Workers : at'[v] = "write" => v = w \/ at[v] = "write"
    BY <1>t, <1>3 DEF OpenTruncated
  <2>2. PICK v \in Workers : at'[v] = "write" /\ m \in Range(memory[v])
    BY <1>3, <2>1, EmptyRange, StoreHasNext
  <2>3. CASE v = w
    <3>1. ~AllClashed(w)
      BY <1>3, <2>2, <2>3 DEF AllClashed
    <3>2. memory[w] = stored
      BY <2>1, <3>1 DEF StoreInv, FileInv, Alone
    <3>3. QED
      BY <2>2, <2>3, <3>2, StoreHas
  <2>4. CASE v # w
    BY <2>1, <2>2, <2>4, StoreHas
  <2>5. QED
    BY <2>3, <2>4
<1>4. ASSUME ReadFile(w) \/ SelectMessages(w) PROVE InStore' = InStore
  <2>1. /\ UNCHANGED stored
        /\ \A v \in Workers : at'[v] = "write" => at[v] = "write" /\ memory'[v] = memory[v]
        /\ \A v \in Workers : at[v] = "write" => at'[v] = "write" /\ memory'[v] = memory[v]
    BY <1>t, <1>4 DEF ReadFile, SelectMessages
  <2>2. \A m : m \in InStore' <=> m \in InStore
    BY <2>1, StoreHas, StoreHasNext
  <2>3. QED
    BY <2>2
<1>5. QED
  BY <1>1, <1>2, <1>3, <1>4

(* A save has a load behind it, or the load that read the store too early  *)
(* has overtaken it, whichever workers run them.                           *)
LEMMA WorkerFetch ==
  ASSUME NEW w \in Workers, Consistent, StoreInv, FetchInv, faults = 0, faults' = 0, store # "none",
         Worker(w)
  PROVE  FetchInv'
<1>t. TypeOK /\ Typed
  BY DEF Consistent, ServerInv, Typed
<1>r. /\ tasks \in Seq(Task) /\ running \in [Workers -> Task \cup SendTask \cup {None}]
      /\ at \in [Workers -> {"idle", "open", "write", "delete"}]
  BY <1>t DEF TypeOK, Task
<1>0. UNCHANGED <<log, name_index_, store>>
  BY DEF Worker, PopTask, ReadFile, OpenTruncated, SelectMessages, SaveMessage, TakeMessages,
         SendTaken, CallReturns, WorkerFrame, roomVars, mailVars, storeVars
<1>1. /\ \A i \in DOMAIN tasks : \A x :
           tasks[i].kind = "save" /\ x = log[tasks[i].msg] /\ Connected(x) => LoadAfter(i, x)
      /\ \A v \in Workers : \A x :
           Runs(v, "save") /\ x = log[running[v].msg] /\ Connected(x) /\ running[v].msg \notin overtaken =>
             LoadAfter(0, x) \/ LoadBegins(x)
      /\ \A m \in InStore \ (overtaken \cup clashed) : \A x : x = log[m] /\ Connected(x) => Loads(x)
  BY DEF FetchInv
<1> DEFINE Queue ==
             \A i \in DOMAIN tasks' : \A x :
               tasks'[i].kind = "save" /\ x = log[tasks'[i].msg] /\ Connected(x) => LoadAfter(i, x)'
           Saves ==
             \A v \in Workers : \A x :
               /\ running'[v] # None /\ running'[v].kind = "save" /\ x = log[running'[v].msg]
               /\ Connected(x) /\ running'[v].msg \notin overtaken'
               => LoadAfter(0, x)' \/ LoadBegins(x)'
           Store ==
             \A m \in InStore' \ (overtaken' \cup clashed') : \A x : x = log[m] /\ Connected(x) => Loads(x)'
<1>2. SUFFICES Queue /\ Saves /\ Store
  BY <1>0 DEF FetchInv, Connected, Runs
<1>3. ASSUME PopTask(w) PROVE Queue /\ Saves /\ Store
  <2>1. /\ running[w] = None /\ tasks # <<>> /\ tasks' = Tail(tasks)
        /\ running' = [running EXCEPT ![w] = Head(tasks)] /\ running'[w] = Head(tasks)
        /\ \A v \in Workers : v # w => running'[v] = running[v]
        /\ UNCHANGED <<at, overtaken, clashed, stored, memory>>
    BY <1>r, <1>3 DEF PopTask, mailVars, storeVars
  <2>2. /\ Len(tasks) \in Nat \ {0} /\ DOMAIN tasks = 1..Len(tasks)
        /\ DOMAIN tasks' = 1..(Len(tasks) - 1)
        /\ \A i \in DOMAIN tasks' : i + 1 \in DOMAIN tasks /\ tasks'[i] = tasks[i + 1]
        /\ \A i \in DOMAIN tasks : i = 1 \/ (i - 1 \in DOMAIN tasks' /\ tasks'[i - 1] = tasks[i])
        /\ running'[w] = tasks[1] /\ 1 \in DOMAIN tasks /\ tasks[1] \in Task /\ running'[w] # None
    BY <1>r, <2>1, TasksTail, TasksHold
  <2>i. at[w] = "idle"
    BY <2>1 DEF StoreInv, Stages, Runs
  <2>3. ASSUME NEW i \in Nat, NEW x, LoadAfter(i + 1, x) PROVE LoadAfter(i, x)'
    <3>1. PICK j \in DOMAIN tasks : i + 1 < j /\ tasks[j].kind = "load" /\ tasks[j].name = x
      BY <2>3 DEF LoadAfter
    <3>2. i < j - 1 /\ j # 1
      BY <2>2, <3>1
    <3>3. QED
      BY <2>2, <3>1, <3>2 DEF LoadAfter
  <2>4. ASSUME NEW x, LoadBegins(x) PROVE LoadBegins(x)'
    BY <2>1, <2>4 DEF LoadBegins, Runs
  <2>5. ASSUME NEW j \in DOMAIN tasks, NEW x, tasks[j].kind = "load", tasks[j].name = x
        PROVE  LoadAfter(0, x)' \/ LoadBegins(x)'
    <3>1. CASE j = 1
      BY <2>1, <2>2, <2>5, <2>i, <3>1 DEF LoadBegins, Runs
    <3>2. CASE j # 1
      <4>1. j - 1 \in DOMAIN tasks' /\ tasks'[j - 1] = tasks[j] /\ 0 < j - 1
        BY <2>2, <3>2
      <4>2. QED
        BY <2>5, <4>1 DEF LoadAfter
    <3>3. QED
      BY <3>1, <3>2
  <2>6. ASSUME NEW x, LoadAfter(0, x)' \/ LoadBegins(x)' PROVE Loads(x)'
    BY <2>6 DEF LoadAfter, LoadBegins, Loads
  <2>7. ASSUME NEW x, Loads(x) PROVE Loads(x)'
    <3>1. CASE \E j \in DOMAIN tasks : tasks[j].kind = "load" /\ tasks[j].name = x
      BY <2>5, <2>6, <3>1
    <3>2. CASE \E v \in Workers : Runs(v, "load") /\ running[v].name = x
      BY <2>1, <3>2 DEF Loads, Runs
    <3>3. QED
      BY <2>7, <3>1, <3>2 DEF Loads
  <2>8. Queue
    <3> SUFFICES ASSUME NEW i \in DOMAIN tasks', NEW x, tasks'[i].kind = "save",
                        x = log[tasks'[i].msg], Connected(x)
                 PROVE  LoadAfter(i, x)'
      OBVIOUS
    <3>1. i \in Nat /\ i + 1 \in DOMAIN tasks /\ tasks'[i] = tasks[i + 1]
      BY <2>2
    <3>2. QED
      BY <1>1, <2>3, <3>1
  <2>9. Saves
    <3> SUFFICES ASSUME NEW v \in Workers, NEW x, running'[v] # None, running'[v].kind = "save",
                        x = log[running'[v].msg], Connected(x), running'[v].msg \notin overtaken
                 PROVE  LoadAfter(0, x)' \/ LoadBegins(x)'
      BY <2>1
    <3>1. CASE v = w
      <4>1. LoadAfter(1, x)
        BY <1>1, <2>2, <3>1
      <4>2. 0 \in Nat /\ 0 + 1 = 1
        OBVIOUS
      <4>3. QED
        BY <2>3, <4>1, <4>2
    <3>2. CASE v # w
      <4>1. LoadAfter(0, x) \/ LoadBegins(x)
        BY <1>1, <2>1, <3>2 DEF Runs
      <4>2. QED
        BY <2>4, <2>5, <4>1 DEF LoadAfter
    <3>3. QED
      BY <3>1, <3>2
  <2>10. Store
    <3>1. InStore' = InStore
      BY <2>1 DEF InStore, Writers
    <3>2. QED
      BY <1>1, <2>1, <2>7, <3>1
  <2>11. QED
    BY <2>8, <2>9, <2>10
<1>4. ASSUME ReadFile(w) \/ SelectMessages(w) PROVE Queue /\ Saves /\ Store
  <2>1. /\ UNCHANGED <<tasks, running>> /\ at[w] = "idle"
        /\ \A v \in Workers : v # w => at'[v] = at[v]
        /\ overtaken' = overtaken \cup Missed(w) /\ clashed \subseteq clashed'
    BY <1>r, <1>4 DEF ReadFile, SelectMessages, WorkerFrame
  <2>2. InStore' = InStore
    BY <1>t, <1>4, InStoreNext
  <2>3. \A x : Loads(x)' = Loads(x) /\ \A i : LoadAfter(i, x)' = LoadAfter(i, x)
    BY <2>1 DEF Loads, LoadAfter, Runs
  <2>4. ASSUME NEW x, LoadBegins(x) PROVE LoadBegins(x)' \/ (Runs(w, "load") /\ running[w].name = x)
    BY <2>1, <2>4 DEF LoadBegins, Runs
  <2>5. Saves
    <3> SUFFICES ASSUME NEW v \in Workers, NEW x, Runs(v, "save"),
                        x = log[running[v].msg], Connected(x), running[v].msg \notin overtaken'
                 PROVE  LoadAfter(0, x)' \/ LoadBegins(x)'
      BY <2>1 DEF Runs
    <3>1. LoadAfter(0, x) \/ LoadBegins(x)
      BY <1>1, <2>1
    <3>2. ~(Runs(w, "load") /\ running[w].name = x)
      <4>1. running[v].msg \in DOMAIN log /\ running[v].msg \in Saving(v)
        BY <1>t, OnlySent DEF Saving
      <4>2. QED
        BY <2>1, <4>1 DEF Missed
    <3>3. QED
      BY <2>3, <2>4, <3>1, <3>2
  <2>6. QED
    BY <1>1, <2>1, <2>2, <2>3, <2>5
<1>5. ASSUME OpenTruncated(w) PROVE Queue /\ Saves /\ Store
  <2>1. UNCHANGED <<tasks, running, overtaken, clashed>> /\ at[w] = "open" /\ at' = [at EXCEPT ![w] = "write"]
    BY <1>5 DEF OpenTruncated, WorkerFrame
  <2>2. InStore' \ clashed \subseteq InStore
    BY <1>t, <1>5, InStoreNext
  <2>3. \A x : Loads(x)' = Loads(x) /\ \A i : LoadAfter(i, x)' = LoadAfter(i, x)
    BY <2>1 DEF Loads, LoadAfter, Runs
  <2>4. \A x : LoadBegins(x) => LoadBegins(x)'
    BY <1>r, <2>1 DEF LoadBegins, Runs
  <2>5. QED
    BY <1>1, <2>1, <2>2, <2>3, <2>4 DEF Runs
<1>6. ASSUME SaveMessage(w) PROVE Queue /\ Saves /\ Store
  <2>1. /\ Runs(w, "save") /\ UNCHANGED <<tasks, overtaken>> /\ running' = [running EXCEPT ![w] = None]
        /\ at' = [at EXCEPT ![w] = "idle"] /\ clashed \subseteq clashed'
    BY <1>6 DEF SaveMessage, TaskDone, CallReturns, WorkerFrame, Insert
  <2>2. running'[w] = None /\ \A v \in Workers : v # w => running'[v] = running[v] /\ at'[v] = at[v]
    BY <1>r, <2>1
  <2>3. InStore' \subseteq InStore \cup {running[w].msg}
    BY <1>t, <1>6, InStoreNext
  <2>4. \A i, x : LoadAfter(i, x)' = LoadAfter(i, x)
    BY <2>1 DEF LoadAfter
  <2>5. \A x : (Loads(x) => Loads(x)') /\ (LoadBegins(x) => LoadBegins(x)')
    BY <2>1, <2>2 DEF Loads, LoadBegins, Runs
  <2>6. \A x : LoadAfter(0, x) \/ LoadBegins(x) => Loads(x)
    BY DEF LoadAfter, LoadBegins, Loads
  <2>7. Queue
    BY <1>1, <2>1, <2>4
  <2>8. Saves
    <3> SUFFICES ASSUME NEW v \in Workers, NEW x, running'[v] # None, running'[v].kind = "save",
                        x = log[running'[v].msg], Connected(x), running'[v].msg \notin overtaken
                 PROVE  LoadAfter(0, x)' \/ LoadBegins(x)'
      BY <2>1
    <3>1. v # w /\ running'[v] = running[v]
      BY <2>2
    <3>2. QED
      BY <1>1, <2>4, <2>5, <3>1 DEF Runs
  <2>9. Store
    <3> SUFFICES ASSUME NEW m \in InStore', m \notin overtaken, m \notin clashed, NEW x, x = log[m], Connected(x)
                 PROVE  Loads(x)'
      BY <2>1
    <3>1. CASE m \in InStore
      BY <1>1, <2>5, <3>1
    <3>2. CASE m = running[w].msg
      BY <1>1, <2>1, <2>5, <2>6, <3>2
    <3>3. QED
      BY <2>3, <3>1, <3>2
  <2>10. QED
    BY <2>7, <2>8, <2>9
<1>7. ASSUME TakeMessages(w) PROVE Queue /\ Saves /\ Store
  <2> DEFINE n == running[w].name
  <2>1. /\ Runs(w, "load") /\ UNCHANGED <<tasks, overtaken, clashed>> /\ at[w] # "idle"
        /\ at' = [at EXCEPT ![w] = "idle"]
        /\ \E x : running' = [running EXCEPT ![w] = x] /\ (x = None \/ x.kind = "send")
    BY <1>7 DEF TakeMessages, HandOut, TaskDone, CallReturns, WorkerFrame, Sending, Rewrite
  <2>2. /\ running'[w] = None \/ running'[w].kind = "send"
        /\ \A v \in Workers : v # w => running'[v] = running[v] /\ at'[v] = at[v]
    BY <1>r, <2>1
  <2>3. \A m \in InStore' \ clashed : m \in InStore /\ log[m] # n
    BY <1>t, <1>7, InStoreNext
  <2>4. \A x : x # n /\ Loads(x) => Loads(x)'
    BY <2>1, <2>2 DEF Loads, Runs
  <2>5. \A i, x : LoadAfter(i, x)' = LoadAfter(i, x)
    BY <2>1 DEF LoadAfter
  <2>6. \A x : LoadBegins(x) => LoadBegins(x)'
    BY <2>1, <2>2 DEF LoadBegins, Runs
  <2> HIDE DEF n
  <2>7. Queue
    BY <1>1, <2>1, <2>5
  <2>8. Saves
    <3> SUFFICES ASSUME NEW v \in Workers, NEW x, running'[v] # None, running'[v].kind = "save",
                        x = log[running'[v].msg], Connected(x), running'[v].msg \notin overtaken
                 PROVE  LoadAfter(0, x)' \/ LoadBegins(x)'
      BY <2>1
    <3>1. v # w /\ running'[v] = running[v]
      BY <2>2
    <3>2. QED
      BY <1>1, <2>5, <2>6, <3>1 DEF Runs
  <2>9. Store
    BY <1>1, <2>1, <2>3, <2>4
  <2>10. QED
    BY <2>7, <2>8, <2>9
<1>8. ASSUME SendTaken(w) PROVE Queue /\ Saves /\ Store
  <2> DEFINE next == Sending(running[w].session, Tail(running[w].msgs))
  <2>1. /\ Runs(w, "send") /\ UNCHANGED <<tasks, stored, at, memory, clashed, overtaken>>
        /\ running' = [running EXCEPT ![w] = next]
        /\ next = None \/ next.kind = "send"
    <3>1. next = None \/ next.kind = "send"
      BY DEF Sending
    <3> HIDE DEF next
    <3>2. running' = [running EXCEPT ![w] = next]
      BY <1>8 DEF SendTaken, next
    <3>3. QED
      BY <1>8, <3>1, <3>2 DEF SendTaken, WorkerFrame, storeVars
  <2> HIDE DEF next
  <2>2. /\ running'[w] = None \/ running'[w].kind = "send"
        /\ \A v \in Workers : v # w => running'[v] = running[v]
    BY <1>r, <2>1
  <2>3. \A x : (Loads(x) => Loads(x)') /\ (LoadBegins(x) => LoadBegins(x)')
    BY <2>1, <2>2 DEF Loads, LoadBegins, Runs
  <2>4. InStore' = InStore /\ \A i, x : LoadAfter(i, x)' = LoadAfter(i, x)
    BY <2>1 DEF LoadAfter, InStore, Writers
  <2>5. Saves
    <3> SUFFICES ASSUME NEW v \in Workers, NEW x, running'[v] # None, running'[v].kind = "save",
                        x = log[running'[v].msg], Connected(x), running'[v].msg \notin overtaken
                 PROVE  LoadAfter(0, x)' \/ LoadBegins(x)'
      BY <2>1
    <3>1. v # w /\ running'[v] = running[v]
      BY <2>2
    <3>2. QED
      BY <1>1, <2>3, <2>4, <3>1 DEF Runs
  <2>6. QED
    BY <1>1, <2>1, <2>3, <2>4, <2>5
<1>9. QED
  BY <1>3, <1>4, <1>5, <1>6, <1>7, <1>8 DEF Worker

(* Every step keeps a load behind what it is to fetch.                     *)
LEMMA StepFetch ==
  ASSUME Consistent, StoreInv, FetchInv, [Next]_serverVars
  PROVE  FetchInv'
<1>t. TypeOK /\ RoomTypeOK
  BY DEF Consistent, ServerInv, TypeOK
<1>f. ASSUME faults' # 0 \/ store' = "none" PROVE FetchInv'
  BY <1>f DEF FetchInv
<1>1. ASSUME NEW s \in Sessions, CloseFromReader(s) \/ CloseFromWriter(s) PROVE FetchInv'
  <2>1. /\ UNCHANGED <<tasks, running, store, stored, at, memory, clashed, overtaken, faults, log>>
        /\ \A n \in Names : name_index_'[n] # None => name_index_[n] # None
    BY <1>t, <1>1 DEF CloseFromReader, CloseFromWriter, close_session, leave, mailVars, storeVars,
                      poolVars, RoomTypeOK
  <2>2. QED
    BY <1>t, <2>1, SameFetch DEF Connected
<1>2. ASSUME NEW s \in Sessions,
             \/ Accept(s) \/ Heartbeat(s) \/ RunPosted(s)
             \/ \E u \in Users : RegisterUser(s, u)
             \/ \E r \in Rooms : JoinRoom(s, r)
      PROVE FetchInv'
  <2>1. UNCHANGED <<tasks, running, store, stored, at, memory, clashed, overtaken, faults, log, name_index_>>
    BY <1>2 DEF Accept, Heartbeat, RunPosted, RegisterUser, JoinRoom, Frame, change_room, roomVars,
                mailVars, storeVars, poolVars
  <2>2. QED
    BY <1>t, <2>1, SameFetch DEF Connected
<1>4. ASSUME NEW v \in Workers, Worker(v) \/ StoreThrows(v) PROVE FetchInv'
  <2>1. \/ StoreThrows(v) /\ faults' = faults + 1
        \/ Worker(v) /\ faults' = faults
    BY <1>4 DEF Worker, StoreThrows, PopTask, ReadFile, OpenTruncated, SelectMessages, SaveMessage,
                TakeMessages, SendTaken, SaveThrows, TakeThrows
  <2>2. store' = store
    BY <1>4 DEF Worker, StoreThrows, PopTask, ReadFile, OpenTruncated, SelectMessages, SaveMessage,
                TakeMessages, SendTaken, SaveThrows, TakeThrows, CallReturns, mailVars, storeVars
  <2>3. CASE faults' = 0 /\ store # "none"
    <3>1. Worker(v) /\ faults = 0
      BY <1>t, <2>1, <2>3, ChatServerAssumption DEF TypeOK
    <3>2. QED
      BY <2>3, <3>1, WorkerFetch
  <2>4. QED
    BY <1>f, <2>2, <2>3
<1>5. CASE Terminate
  BY <1>t, <1>f, <1>5, ChatServerAssumption DEF Terminate, TypeOK
<1>6. CASE UNCHANGED serverVars
  BY <1>t, <1>6, SameFetch DEF serverVars, roomVars, mailVars, storeVars, poolVars, Connected
<1>7. QED
  BY <1>1, <1>2, <1>4, <1>5, <1>6, LoginFetch, PrivateMessageFetch DEF Next, Client

(* A user who logs in while messages for them are being saved gets those   *)
(* too, for any number of business threads: as long as nothing throws, no  *)
(* message stays in the store beside the session that waits for it, but    *)
(* those that a load has overtaken or that two overlapping calls touched.  *)
THEOREM NothingStranded == Spec => []NoStranded
<1> DEFINE Inv == ServerIInv /\ FetchInv
<1>1. Init => Inv
  BY InitConsistentServer, InitStore, InitMail, InitPlace, InitFetch DEF ServerIInv
<1>2. Inv /\ [Next]_serverVars => Inv'
  BY StepKeepsConsistent, StepStore, StepMail, StepPlace, StepFetch DEF ServerIInv
<1>3. Inv => NoStranded
  <2>1. ASSUME Inv, store = "none" PROVE InStore = {}
    BY <2>1, EmptyRange DEF ServerIInv, StoreInv, Stages, StoredSent, InStore, Writers
  <2>2. QED
    BY <2>1 DEF FetchInv, NoStranded, Stranded, Connected
<1> HIDE DEF Inv
<1>4. QED
  BY <1>1, <1>2, <1>3, PTL DEF Spec

-----------------------------------------------------------------------------
(* A pool of one thread: no other runs a task or calls the store.          *)
Single(w) ==
  /\ threads = {w}
  /\ \A v \in Workers \ {w} : running[v] = None /\ at[v] = "idle"

(* With one business thread no two calls of the store overlap: nothing     *)
(* clashes, no load overtakes a save, and what a call has read is what is  *)
(* in the store.                                                           *)
Solo(w) ==
  /\ clashed = {} /\ overtaken = {}
  /\ at[w] = "open" => memory[w] = stored
  /\ at[w] = "write" => stored = <<>>
  /\ at[w] = "delete" => memory[w] = For(stored, running[w].name)

(* The messages in the store, wherever its only caller has them.           *)
Box(w) == IF at[w] = "write" THEN memory[w] ELSE stored

(* They are messages that were sent.                                       *)
LEMMA BoxTyped ==
  ASSUME Typed, StoreInv, NEW w \in Workers
  PROVE  Box(w) \in Seq(Msg) /\ Range(Box(w)) \subseteq DOMAIN log
  BY DEF Box, Typed, TypeOK, StoreInv, StoredSent

(* What is rewritten goes into an empty file.                              *)
LEMMA IntoEmptyFile ==
  ASSUME NEW new \in Seq(Msg)
  PROVE  Overwrite(<<>>, new) = new
  BY EmptySeq, Overwritten DEF Overwrite

(* While a thread runs a load, none saves.                                 *)
LEMMA MissedNothing ==
  ASSUME NEW w \in Workers, Single(w), Runs(w, "save") \/ Runs(w, "load")
  PROVE  Missed(w) = {}
<1>1. Runs(w, "load") => ~Runs(w, "save")
  BY DEF Runs
<1>2. \A v \in Workers \ {w} : ~Runs(v, "save")
  BY DEF Single, Runs
<1>3. QED
  BY <1>1, <1>2 DEF Missed, Saving

(* Only the thread that was started does anything.                         *)
LEMMA OnlyWorker ==
  ASSUME NEW w \in Workers, Single(w), NEW v \in Workers, Worker(v) \/ StoreThrows(v)
  PROVE  v = w
<1>1. CASE running[v] # None \/ at[v] # "idle"
  BY <1>1 DEF Single
<1>2. CASE running[v] = None /\ at[v] = "idle"
  BY <1>2 DEF Worker, StoreThrows, PopTask, ReadFile, OpenTruncated, SelectMessages, SaveMessage,
              TakeMessages, SendTaken, SaveThrows, TakeThrows, Runs, Single
<1>3. QED
  BY <1>1, <1>2

(* The pool is started once.                                               *)
LEMMA ThreadsStay ==
  ASSUME [Next]_serverVars
  PROVE  threads' = threads
<1>1. ASSUME NEW s \in Sessions, Client(s) \/ RunPosted(s) PROVE threads' = threads
  BY <1>1 DEF Client, Accept, RegisterUser, Login, PrivateMessage, JoinRoom, Heartbeat,
              CloseFromReader, CloseFromWriter, close_session, RunPosted, mailVars, storeVars
<1>2. ASSUME NEW w \in Workers, Worker(w) \/ StoreThrows(w) PROVE threads' = threads
  BY <1>2 DEF Worker, StoreThrows, PopTask, ReadFile, OpenTruncated, SelectMessages, SaveMessage,
              TakeMessages, SendTaken, SaveThrows, TakeThrows, CallReturns, mailVars, storeVars
<1>3. CASE Terminate
  BY <1>3 DEF Terminate
<1>4. CASE UNCHANGED serverVars
  BY <1>4 DEF serverVars, mailVars, storeVars
<1>5. QED
  BY <1>1, <1>2, <1>3, <1>4 DEF Next

(* A pool of one thread stays one.                                         *)
LEMMA StepSingle ==
  ASSUME NEW w \in Workers, Typed, Single(w), [Next]_serverVars
  PROVE  Single(w)'
<1>t. /\ at \in [Workers -> {"idle", "open", "write", "delete"}]
      /\ running \in [Workers -> SaveTask \cup LoadTask \cup SendTask \cup {None}]
  BY DEF Typed, TypeOK
<1>0. threads' = {w}
  BY ThreadsStay DEF Single
<1>1. ASSUME NEW v \in Workers, Worker(v) \/ StoreThrows(v) PROVE Single(w)'
  <2>1. v = w
    BY <1>1, OnlyWorker
  <2>2. \A x \in Workers \ {w} : running'[x] = running[x] /\ at'[x] = at[x]
    BY <1>t, <1>1, <2>1
       DEF Worker, StoreThrows, PopTask, ReadFile, OpenTruncated, SelectMessages, SaveMessage,
           TakeMessages, SendTaken, SaveThrows, TakeThrows, HandOut, TaskDone, CallReturns,
           mailVars, storeVars
  <2>3. QED
    BY <1>0, <2>2 DEF Single
<1>2. ASSUME NEW s \in Sessions, Client(s) \/ RunPosted(s) PROVE Single(w)'
  <2>1. UNCHANGED <<at, running>>
    BY <1>2 DEF Client, Accept, RegisterUser, Login, PrivateMessage, JoinRoom, Heartbeat,
                CloseFromReader, CloseFromWriter, close_session, RunPosted, mailVars, storeVars, poolVars
  <2>2. QED
    BY <1>0, <2>1 DEF Single
<1>3. CASE Terminate
  BY <1>0, <1>3 DEF Terminate, Single
<1>4. CASE UNCHANGED serverVars
  BY <1>0, <1>4 DEF Single, serverVars, mailVars, storeVars, poolVars
<1>5. QED
  BY <1>1, <1>2, <1>3, <1>4 DEF Next

(* The steps that read the store or open the file leave the messages where *)
(* they are.                                                               *)
LEMMA SoloReads ==
  ASSUME NEW w \in Workers, Single(w), Typed, StoreInv, Solo(w),
         ReadFile(w) \/ OpenTruncated(w) \/ SelectMessages(w)
  PROVE  Solo(w)' /\ Box(w)' = Box(w)
<1>t. at \in [Workers -> {"idle", "open", "write", "delete"}] /\ memory \in [Workers -> Seq(Msg)]
  BY DEF Typed, TypeOK
<1>1. CASE ReadFile(w)
  <2>1. /\ at[w] = "idle" /\ at'[w] = "open" /\ memory'[w] = stored /\ UNCHANGED stored
        /\ clashed' = clashed \cup Caught(w) /\ overtaken' = overtaken \cup Missed(w)
    BY <1>t, <1>1 DEF ReadFile
  <2>2. Caught(w) = {}
    BY <2>1 DEF Caught, UnderWay, Single
  <2>3. Missed(w) = {}
    BY <1>1, MissedNothing DEF ReadFile
  <2>4. QED
    BY <2>1, <2>2, <2>3 DEF Solo, Box
<1>2. CASE OpenTruncated(w)
  <2>1. /\ at[w] = "open" /\ at'[w] = "write" /\ stored' = <<>> /\ UNCHANGED <<memory, clashed, overtaken>>
    BY <1>t, <1>2 DEF OpenTruncated
  <2>2. QED
    BY <2>1 DEF Solo, Box
<1>3. CASE SelectMessages(w)
  <2> DEFINE n == running[w].name
  <2>1. /\ at[w] = "idle" /\ at'[w] = "delete" /\ memory'[w] = For(stored, n)
        /\ UNCHANGED <<stored, running, log>>
        /\ clashed' = clashed \cup (IF BetweenStatements(n) THEN Range(For(stored, n)) ELSE {})
        /\ overtaken' = overtaken \cup Missed(w)
    BY <1>t, <1>3 DEF SelectMessages, WorkerFrame
  <2>2. ~BetweenStatements(n)
    BY <2>1 DEF BetweenStatements, Single
  <2>3. Missed(w) = {}
    BY <1>3, MissedNothing DEF SelectMessages
  <2>4. For(stored, n)' = For(stored, n)
    BY <2>1 DEF For
  <2>5. QED
    BY <2>1, <2>2, <2>3, <2>4 DEF Solo, Box
<1>4. QED
  BY <1>1, <1>2, <1>3

(* A call that returns leaves nothing half done.                           *)
LEMMA SoloReturns ==
  ASSUME NEW w \in Workers, Single(w), Typed, Solo(w), CallReturns(w), UNCHANGED clashed
  PROVE  Solo(w)' /\ Box(w)' = stored'
  BY DEF CallReturns, Solo, Box, Typed, TypeOK

(* A save puts its message behind all others.                              *)
LEMMA SoloSaves ==
  ASSUME NEW w \in Workers, Single(w), Typed, StoreInv, Solo(w), SaveMessage(w) \/ SaveThrows(w)
  PROVE  Solo(w)' /\ (Box(w)' = Box(w) \/ Box(w)' = Append(Box(w), running[w].msg))
<1> DEFINE m == running[w].msg
<1>1. Runs(w, "save") /\ CallReturns(w)
  BY DEF SaveMessage, SaveThrows
<1>2. m \in Msg
  BY <1>1 DEF Typed, TypeOK, Runs, SaveTask, LoadTask, SendTask
<1>3. /\ at[w] \in {"open", "write"} => store = "file"
      /\ at[w] # "delete"
  BY <1>1 DEF StoreInv, Stages, Runs
<1>4. at[w] # "open" \/ store = "file"
  BY <1>3
<1>5. ~BetweenStatements(log[m])
  BY <1>3 DEF BetweenStatements, Single
<1> HIDE DEF m
<1>6. \/ at[w] = "write" /\ stored' = Overwrite(stored, Append(memory[w], m)) /\ UNCHANGED clashed
      \/ store = "mysql" /\ stored' = Append(stored, m) /\ UNCHANGED clashed
      \/ store \in {"none", "mysql"} /\ UNCHANGED <<stored, clashed>>
  BY <1>5 DEF SaveMessage, SaveThrows, Insert, Rewrite, m
<1>7. Solo(w)' /\ Box(w)' = stored'
  BY <1>1, <1>6, SoloReturns
<1>8. CASE at[w] = "write" /\ stored' = Overwrite(stored, Append(memory[w], m))
  <2>1. stored = <<>> /\ Append(memory[w], m) \in Seq(Msg)
    BY <1>2, <1>8, AppendProperties DEF Solo, Typed, TypeOK
  <2>2. QED
    BY <1>7, <1>8, <2>1, IntoEmptyFile DEF Box, m
<1>9. QED
  BY <1>3, <1>6, <1>7, <1>8 DEF Box, m

(* A take hands out all that is there for its user, and leaves the rest.   *)
LEMMA SoloTakes ==
  ASSUME NEW w \in Workers, Single(w), Typed, StoreInv, Solo(w), TakeMessages(w)
  PROVE  /\ Solo(w)' /\ Box(w)' = NotFor(Box(w), running[w].name)
         /\ HandOut(w, For(Box(w), running[w].name))
<1> DEFINE n == running[w].name
<1>1. CallReturns(w) /\ UNCHANGED clashed
  BY DEF TakeMessages
<1>2. Solo(w)' /\ Box(w)' = stored'
  BY <1>1, SoloReturns
<1>3. Stages /\ (store = "none" => stored = <<>>)
  BY DEF StoreInv, StoredSent
<1> HIDE DEF n
<1>4. \/ /\ at[w] = "write" /\ stored' = Overwrite(stored, NotFor(memory[w], n))
         /\ HandOut(w, For(memory[w], n))
      \/ at[w] = "delete" /\ stored' = NotFor(stored, n) /\ HandOut(w, memory[w])
      \/ store = "none" /\ UNCHANGED stored /\ HandOut(w, <<>>)
  BY DEF TakeMessages, Rewrite, n
<1>5. CASE at[w] = "write" /\ stored' = Overwrite(stored, NotFor(memory[w], n))
           /\ HandOut(w, For(memory[w], n))
  <2>1. stored = <<>> /\ memory[w] \in Seq(Msg)
    BY <1>5 DEF Solo, Typed, TypeOK
  <2>2. NotFor(memory[w], n) \in Seq(Msg)
    BY <2>1, OnlyKeeps DEF NotFor
  <2>3. QED
    BY <1>2, <1>5, <2>1, <2>2, IntoEmptyFile DEF Box, n
<1>6. CASE at[w] = "delete" /\ stored' = NotFor(stored, n) /\ HandOut(w, memory[w])
  BY <1>2, <1>6 DEF Box, Solo, n
<1>7. CASE store = "none" /\ UNCHANGED stored /\ HandOut(w, <<>>)
  <2>1. Box(w) = <<>> /\ stored = <<>>
    BY <1>3, <1>7 DEF Stages, Box
  <2>2. For(<<>>, n) = <<>> /\ NotFor(<<>>, n) = <<>>
    BY OnlyEmpty DEF For, NotFor
  <2>3. QED
    BY <1>2, <1>7, <2>1, <2>2 DEF n
<1>8. QED
  BY <1>4, <1>5, <1>6, <1>7

(* A take that throws leaves the messages or loses its user's.             *)
LEMMA SoloTakeThrows ==
  ASSUME NEW w \in Workers, Single(w), Typed, StoreInv, Solo(w), TakeThrows(w)
  PROVE  Solo(w)' /\ (Box(w)' = Box(w) \/ Box(w)' = NotFor(Box(w), running[w].name))
<1>1. /\ CallReturns(w) /\ UNCHANGED clashed /\ store = "mysql"
      /\ UNCHANGED stored \/ stored' = NotFor(stored, running[w].name)
  BY DEF TakeThrows
<1>2. Solo(w)' /\ Box(w)' = stored'
  BY <1>1, SoloReturns
<1>3. Box(w) = stored
  BY <1>1 DEF StoreInv, Stages, Box
<1>4. QED
  BY <1>1, <1>2, <1>3

(* The steps that are not the worker's leave the store alone, ...          *)
LEMMA SoloStays ==
  ASSUME NEW w \in Workers, Single(w), Typed, StoreInv, Solo(w),
         UNCHANGED <<stored, at, memory, clashed, overtaken>>,
         UNCHANGED running \/ at[w] = "idle",
         \A m \in DOMAIN log : m \in DOMAIN log' /\ log'[m] = log[m]
  PROVE  Solo(w)' /\ Box(w)' = Box(w)
<1>1. ASSUME at[w] = "delete" PROVE For(stored, running[w].name)' = For(stored, running[w].name)
  <2> DEFINE n == running[w].name
  <2>1. stored \in Seq(Msg) /\ Range(stored) \subseteq DOMAIN log
    BY DEF Typed, TypeOK, StoreInv, StoredSent
  <2>2. \A m \in Range(stored) : m \in {k \in DOMAIN log' : log'[k] = n} <=> m \in {k \in DOMAIN log : log[k] = n}
    BY <2>1
  <2>3. Only(stored, {k \in DOMAIN log' : log'[k] = n}) = Only(stored, {k \in DOMAIN log : log[k] = n})
    BY <2>1, <2>2, OnlySame
  <2>4. QED
    BY <1>1, <2>3 DEF For
<1>2. QED
  BY <1>1 DEF Solo, Box

(* ... unless the process ends, which can empty the file.                  *)
LEMMA SoloEnds ==
  ASSUME NEW w \in Workers, Single(w), Typed, Solo(w), Terminate
  PROVE  Solo(w)' /\ (Box(w)' = Box(w) \/ Box(w)' = <<>>)
  BY DEF Terminate, Solo, Box

(* So it goes for every step.                                              *)
LEMMA SoloStep ==
  ASSUME NEW w \in Workers, Single(w), Consistent, StoreInv, Solo(w), [Next]_serverVars
  PROVE  Solo(w)'
<1>t. Typed /\ TypeOK
  BY DEF Consistent, ServerInv, Typed
<1>1. ASSUME NEW s \in Sessions, Client(s) \/ RunPosted(s) PROVE Solo(w)'
  <2>1. UNCHANGED <<stored, at, memory, clashed, overtaken, running>>
    BY <1>1 DEF Client, Accept, RegisterUser, Login, PrivateMessage, JoinRoom, Heartbeat,
                CloseFromReader, CloseFromWriter, close_session, RunPosted, mailVars, storeVars, poolVars
  <2>2. UNCHANGED log \/ \E u \in Users : log' = Append(log, u)
    BY <1>1 DEF Client, Accept, RegisterUser, Login, PrivateMessage, JoinRoom, Heartbeat,
                CloseFromReader, CloseFromWriter, close_session, RunPosted, mailVars
  <2>3. \A m \in DOMAIN log : m \in DOMAIN log' /\ log'[m] = log[m]
    BY <1>t, <2>2, LogGrows
  <2>4. QED
    BY <1>t, <2>1, <2>3, SoloStays
<1>2. CASE PopTask(w) \/ SendTaken(w)
  <2>1. UNCHANGED <<stored, at, memory, clashed, overtaken, log>>
    BY <1>2 DEF PopTask, SendTaken, WorkerFrame, mailVars, storeVars
  <2>2. at[w] = "idle"
    BY <1>2 DEF PopTask, SendTaken, StoreInv, Stages, Runs
  <2>3. QED
    BY <1>t, <2>1, <2>2, SoloStays
<1>3. CASE UNCHANGED serverVars
  BY <1>t, <1>3, SoloStays DEF serverVars, mailVars, storeVars, poolVars
<1>4. ASSUME NEW v \in Workers, Worker(v) \/ StoreThrows(v) PROVE v = w
  BY <1>4, OnlyWorker
<1>5. QED
  BY <1>t, <1>1, <1>2, <1>3, <1>4, SoloReads, SoloSaves, SoloTakes, SoloTakeThrows, SoloEnds
     DEF Next, Worker, StoreThrows

(* In a server that starts no call is under way.                           *)
LEMMA InitSolo ==
  ASSUME NEW w \in Workers, Init
  PROVE  Solo(w) /\ (threads = {w} => Single(w))
  BY DEF Init, Solo, Single

(* What holds while the pool has one thread.                               *)
SoloInv == \A w \in Workers : threads = {w} => Single(w) /\ Solo(w)

LEMMA StepSolo ==
  ASSUME Consistent, StoreInv, SoloInv, [Next]_serverVars
  PROVE  SoloInv'
<1> SUFFICES ASSUME NEW w \in Workers, threads' = {w} PROVE Single(w)' /\ Solo(w)'
  BY DEF SoloInv
<1>1. Typed /\ threads = {w}
  BY ThreadsStay DEF Consistent, ServerInv, Typed
<1>2. Single(w) /\ Solo(w)
  BY <1>1 DEF SoloInv
<1>3. QED
  BY <1>1, <1>2, StepSingle, SoloStep

(* With one business thread, nothing that is stored for a user stays       *)
(* behind once a login's load is over.                                     *)
THEOREM LoginFetchesAll == Spec => [](OneThread => LoginEmptiesStore)
<1> DEFINE Inv == Consistent /\ StoreInv /\ SoloInv
<1>1. Init => Inv
  BY InitConsistentServer, InitStore, InitSolo DEF SoloInv
<1>2. Inv /\ [Next]_serverVars => Inv'
  BY StepKeepsConsistent, StepStore, StepSolo
<1>3. Inv /\ NoStranded => (OneThread => LoginEmptiesStore)
  BY DEF SoloInv, Solo, OneThread, NoStranded, LoginEmptiesStore
<1> HIDE DEF Inv
<1>4. QED
  BY <1>1, <1>2, <1>3, NothingStranded, PTL DEF Spec

-----------------------------------------------------------------------------
(* The stored messages on their way to a session through the hands of w,   *)
(* in the order in which they reach its write queue.                       *)
Hand(w, s) == IF Runs(w, "send") /\ running[w].session = s THEN running[w].msgs ELSE <<>>
Line(w, s) == Only(outbox[s], queued) \o (Only(strand[s], queued) \o Hand(w, s))

(* The messages that are to be saved or are in the store.                  *)
Unsaved(w) == SavesIn(tasks) \cup (IF Runs(w, "save") THEN {running[w].msg} ELSE {})
Untaken(w) == Unsaved(w) \cup Range(Box(w))

Above(A, B) == \A a \in A, b \in B : a < b
SavesGrow(q) ==
  \A i, j \in DOMAIN q : i < j /\ q[i].kind = "save" /\ q[j].kind = "save" => q[i].msg < q[j].msg

StoreInOrder(w) ==
  /\ SavesGrow(tasks) /\ Increasing(Box(w))
  /\ Runs(w, "save") => Above({running[w].msg}, SavesIn(tasks))
  /\ Above(Range(Box(w)), Unsaved(w))

LineInOrder(w, s) ==
  /\ Increasing(Only(outbox[s], queued))
  /\ phase[s] # "stopped" =>
       /\ Increasing(Line(w, s))
       /\ Above(Range(Line(w, s)), {m \in Untaken(w) : log[m] = user_name_[s]})

AllQueued(w) ==
  /\ queued \subseteq DOMAIN log
  /\ Untaken(w) \subseteq queued
  /\ Runs(w, "send") => Range(running[w].msgs) \subseteq queued

OrderInv(w) == AllQueued(w) /\ StoreInOrder(w) /\ \A s \in Sessions : LineInOrder(w, s)

(* A server that starts has nothing to put in order.                       *)
LEMMA InitOrder ==
  ASSUME NEW w \in Workers, Init
  PROVE  OrderInv(w)
<1>1. /\ tasks = <<>> /\ Box(w) = <<>> /\ queued = {} /\ running[w] = None
      /\ \A s \in Sessions : outbox[s] = <<>> /\ strand[s] = <<>>
  BY DEF Init, Box
<1>2. SavesIn(tasks) = {} /\ Range(Box(w)) = {} /\ DOMAIN <<>> = {}
  BY <1>1, EmptyRange, EmptySeq DEF SavesIn
<1>3. Untaken(w) = {} /\ Unsaved(w) = {} /\ ~Runs(w, "send") /\ ~Runs(w, "save")
  BY <1>1, <1>2 DEF Untaken, Unsaved, Runs
<1>4. <<>> \o <<>> = <<>>
  BY ConcatEmptySeq
<1>5. \A s \in Sessions : Only(outbox[s], queued) = <<>> /\ Line(w, s) = <<>>
  BY <1>1, <1>3, <1>4, OnlyEmpty DEF Line, Hand
<1>6. Increasing(<<>>) /\ SavesGrow(tasks)
  BY <1>1, <1>2 DEF Increasing, SavesGrow
<1>7. QED
  BY <1>1, <1>2, <1>3, <1>5, <1>6, EmptyRange
     DEF OrderInv, AllQueued, StoreInOrder, LineInOrder, Above

(* Messages are compared by their numbers in the log.                      *)
LEMMA MessagesAreNumbers ==
  ASSUME NEW q \in Seq(Msg)
  PROVE  q \in Seq(Nat) /\ Range(q) \subseteq Nat
<1>1. Len(q) \in Nat /\ DOMAIN q = 1..Len(q) /\ \A i \in 1..Len(q) : q[i] \in Msg
  BY LenProperties
<1>0. \A m \in Msg : m \in Nat
  BY ChatServerAssumption DEF Msg
<1>2. QED
  BY <1>0, <1>1, LenProperties DEF Range

(* What is on its way to a session.                                        *)
LEMMA LineTyped ==
  ASSUME TypeOK, NEW w \in Workers, NEW s \in Sessions
  PROVE  /\ Only(outbox[s], queued) \in Seq(Nat) /\ Only(strand[s], queued) \in Seq(Nat)
         /\ Hand(w, s) \in Seq(Msg) /\ Hand(w, s) \in Seq(Nat)
         /\ Line(w, s) \in Seq(Nat)
         /\ Range(Line(w, s)) =
              ((Range(outbox[s]) \cup Range(strand[s])) \cap queued) \cup Range(Hand(w, s))
<1>1. /\ outbox[s] \in Seq(Msg) /\ strand[s] \in Seq(Msg)
      /\ running[w] \in SaveTask \cup LoadTask \cup SendTask \cup {None}
  BY DEF TypeOK
<1>2. outbox[s] \in Seq(Nat) /\ strand[s] \in Seq(Nat)
  BY <1>1, MessagesAreNumbers
<1>3. /\ Only(outbox[s], queued) \in Seq(Nat) /\ Range(Only(outbox[s], queued)) = Range(outbox[s]) \cap queued
      /\ Only(strand[s], queued) \in Seq(Nat) /\ Range(Only(strand[s], queued)) = Range(strand[s]) \cap queued
  BY <1>2, OnlyKeeps
<1>4. Hand(w, s) \in Seq(Msg)
  BY <1>1, EmptySeq DEF Hand, Runs, SaveTask, LoadTask, SendTask
<1>5. Hand(w, s) \in Seq(Nat)
  BY <1>4, MessagesAreNumbers
<1>6. /\ Only(strand[s], queued) \o Hand(w, s) \in Seq(Nat)
      /\ Range(Only(strand[s], queued) \o Hand(w, s)) = (Range(strand[s]) \cap queued) \cup Range(Hand(w, s))
  BY <1>3, <1>5, ConcatRange
<1> DEFINE first == Only(outbox[s], queued)
           rest == Only(strand[s], queued) \o Hand(w, s)
<1>7. Line(w, s) = first \o rest
  BY DEF Line
<1> HIDE DEF first, rest
<1>8. first \o rest \in Seq(Nat) /\ Range(first \o rest) = Range(first) \cup Range(rest)
  <2>1. first \in Seq(Nat) /\ rest \in Seq(Nat)
    BY <1>3, <1>6 DEF first, rest
  <2>2. QED
    BY <2>1, ConcatRange
<1>9. QED
  BY <1>3, <1>4, <1>5, <1>6, <1>7, <1>8 DEF first, rest

(* A line that does not change stays below what follows it.                *)
LEMMA LineKept ==
  ASSUME NEW w, NEW s, LineInOrder(w, s), Increasing(Only(outbox[s], queued))',
         phase'[s] # "stopped" =>
           /\ phase[s] # "stopped" /\ Line(w, s)' = Line(w, s)
           /\ user_name_'[s] = user_name_[s] \/ Range(Line(w, s)) = {},
         \A m \in Untaken(w)' : m \in Untaken(w) /\ log'[m] = log[m]
  PROVE  LineInOrder(w, s)'
  BY DEF LineInOrder, Above

(* The steps that leave the mail where it is.                              *)
LEMMA SameOrder ==
  ASSUME NEW w \in Workers, OrderInv(w),
         UNCHANGED <<log, queued, running, outbox, strand>>, Box(w)' = Box(w),
         SavesIn(tasks)' = SavesIn(tasks), SavesGrow(tasks)',
         \A s \in Sessions : phase'[s] # "stopped" =>
           phase[s] # "stopped" /\ (user_name_'[s] = user_name_[s] \/ Range(Line(w, s)) = {})
  PROVE  OrderInv(w)'
<1>1. Untaken(w)' = Untaken(w) /\ Unsaved(w)' = Unsaved(w)
  BY DEF Untaken, Unsaved, Runs
<1>2. \A s \in Sessions : Line(w, s)' = Line(w, s)
  BY DEF Line, Hand, Runs
<1>3. ASSUME NEW s \in Sessions PROVE LineInOrder(w, s)'
  <2>1. LineInOrder(w, s) /\ Increasing(Only(outbox[s], queued))'
    BY DEF OrderInv, LineInOrder
  <2>2. QED
    BY <1>1, <1>2, <2>1, LineKept
<1>4. StoreInOrder(w)' /\ AllQueued(w)'
  BY <1>1 DEF OrderInv, StoreInOrder, AllQueued, Runs
<1>5. QED
  BY <1>3, <1>4 DEF OrderInv

(* The save tasks of a queue, place by place.                              *)
LEMMA SavesAre ==
  ASSUME NEW q \in Seq(Task)
  PROVE  \A m : m \in SavesIn(q) <=> \E i \in DOMAIN q : q[i].kind = "save" /\ q[i].msg = m
<1>1. \A i \in DOMAIN q : q[i] \in Task
  OBVIOUS
<1>2. \A i \in DOMAIN q : HeldIn(q[i]) = IF q[i].kind = "save" THEN {q[i].msg} ELSE {}
  BY <1>1, TasksHold
<1>3. ASSUME NEW m
      PROVE  m \in SavesIn(q) <=> \E i \in DOMAIN q : m \in HeldIn(q[i])
  BY DEF SavesIn, Range
<1>4. ASSUME NEW m, NEW i \in DOMAIN q
      PROVE  m \in HeldIn(q[i]) <=> q[i].kind = "save" /\ q[i].msg = m
  BY <1>2
<1>5. QED
  BY <1>3, <1>4

(* A session that logs in has nothing on its way.                          *)
LEMMA LoginOrder ==
  ASSUME NEW w \in Workers, Single(w), ServerIInv, Solo(w), OrderInv(w), NEW s \in Sessions, NEW u \in Users, Login(s, u)
  PROVE  OrderInv(w)'
<1>t. TypeOK /\ RoomTypeOK /\ Typed /\ w \in Workers
  BY DEF ServerIInv, Consistent, ServerInv, TypeOK, Typed
<1>n. PICK n \in Names : names_'[s] = n
  <2>1. PICK x \in Names : Register(s, x)
    BY LoginRegisters DEF Login
  <2>2. QED
    BY <1>t, <2>1 DEF Register, RoomTypeOK
<1> DEFINE load == [kind |-> "load", session |-> s, name |-> n]
<1>1. /\ UNCHANGED <<log, queued, running, outbox, strand, phase>> /\ ~logged_in_[s]
      /\ tasks' = Append(tasks, load) /\ \A t \in Sessions : t # s => user_name_'[t] = user_name_[t]
  BY <1>t, <1>n DEF Login, Frame, submit_store_task, mailVars, storeVars, TypeOK
<1>2. load \in Task /\ tasks \in Seq(Task) /\ load.kind = "load"
  BY <1>t DEF Task, LoadTask, TypeOK
<1> HIDE DEF load
<1>3. HeldIn(load) = {}
  BY <1>2, TasksHold
<1>4. SavesIn(tasks)' = SavesIn(tasks)
  BY <1>1, <1>2, <1>3, SavesAppend
<1>5. SavesGrow(tasks)'
  <2>1. /\ Len(tasks) \in Nat /\ DOMAIN tasks = 1..Len(tasks) /\ DOMAIN tasks' = 1..(Len(tasks) + 1)
        /\ \A i \in DOMAIN tasks : tasks'[i] = tasks[i]
        /\ tasks'[Len(tasks) + 1] = load
    BY <1>1, <1>2, TasksAppend
  <2>2. \A i \in DOMAIN tasks' : tasks'[i].kind = "save" => i \in DOMAIN tasks
    BY <1>2, <2>1
  <2>3. QED
    BY <2>1, <2>2 DEF OrderInv, StoreInOrder, SavesGrow
<1>6. ASSUME phase[s] # "stopped" PROVE Range(Line(w, s)) = {}
  <2>1. Addressed(s) /\ \A x : ~Bears(s, x)
    BY <1>1, <1>6 DEF ServerIInv, MailInv, Bears
  <2>2. Range(outbox[s]) = {} /\ Range(strand[s]) = {}
    BY <2>1 DEF Addressed, MailAddressed
  <2>3. Range(Hand(w, s)) = {}
    BY <2>1, EmptyRange DEF Addressed, MailAddressed, Hand
  <2>4. QED
    BY <1>t, <2>2, <2>3, LineTyped
<1>7. Box(w)' = Box(w)
  BY <1>1 DEF Login, mailVars, storeVars, Box
<1>8. QED
  BY <1>t, <1>1, <1>4, <1>5, <1>6, <1>7, SameOrder

(* What is on its way to a session was sent.                               *)
LEMMA OnlyDelivered ==
  ASSUME PlaceInv, clashed = {}
  PROVE  \A s \in Sessions : Range(outbox[s]) \subseteq DOMAIN log /\ Range(strand[s]) \subseteq DOMAIN log
  BY DEF PlaceInv, OnePlace, PlacedBy, At, Unclashed

(* A message that is sent is the newest, whether it goes to its recipient  *)
(* at once or into the queue.                                              *)
LEMMA PrivateMessageOrder ==
  ASSUME NEW w \in Workers, Single(w), ServerIInv, Solo(w), OrderInv(w), NEW s \in Sessions, NEW u \in Users,
         PrivateMessage(s, u)
  PROVE  OrderInv(w)'
<1>t. TypeOK /\ RoomTypeOK /\ StoreInv /\ Typed /\ w \in Workers
  BY DEF ServerIInv, Consistent, ServerInv, TypeOK, Typed
<1> DEFINE m == Len(log) + 1
           save == [kind |-> "save", msg |-> m]
<1>1. /\ UNCHANGED <<running, phase, user_name_>> /\ Box(w)' = Box(w) /\ log' = Append(log, u)
      /\ \/ /\ name_index_[u] # None /\ deliver(name_index_[u], m)
            /\ UNCHANGED <<queued, tasks>>
         \/ /\ tasks' = Append(tasks, save) /\ queued' = queued \cup {m}
            /\ UNCHANGED <<strand, outbox>>
  BY DEF PrivateMessage, Frame, submit_store_task, loginVars, storeVars, Box
<1>2. m \in Msg
  <2>1. Len(log) < MaxMsgs
    BY DEF PrivateMessage
  <2>2. QED
    BY <1>t, <2>1, LenProperties, ChatServerAssumption DEF TypeOK, Msg
<1>3. /\ DOMAIN log' = DOMAIN log \cup {m} /\ m \notin DOMAIN log
      /\ \A k \in DOMAIN log : log'[k] = log[k]
  BY <1>t, <1>1, LogGrows
<1>4. \A k \in DOMAIN log : k \in Nat /\ k < m
  <2>1. Len(log) \in Nat /\ DOMAIN log = 1..Len(log)
    BY <1>t, LenProperties DEF TypeOK
  <2>2. QED
    BY <2>1
<1>5. save \in Task /\ save.kind = "save" /\ save.msg = m /\ tasks \in Seq(Task)
  BY <1>2, <1>t DEF Task, SaveTask, TypeOK
<1> HIDE DEF save, m
<1>6. /\ queued \subseteq DOMAIN log /\ Untaken(w) \subseteq queued /\ Untaken(w) \subseteq DOMAIN log
      /\ \A t \in Sessions : Range(Line(w, t)) \subseteq DOMAIN log
  <2>1. /\ queued \subseteq DOMAIN log /\ Untaken(w) \subseteq queued
        /\ Runs(w, "send") => Range(running[w].msgs) \subseteq queued
    BY DEF OrderInv, AllQueued
  <2>2. \A t \in Sessions : Range(Hand(w, t)) \subseteq queued
    BY <2>1, EmptyRange DEF Hand
  <2>3. QED
    BY <1>t, <2>1, <2>2, LineTyped
<1>7. CASE deliver(name_index_[u], m) /\ name_index_[u] # None /\ UNCHANGED <<queued, tasks>>
  <2> DEFINE r == name_index_[u]
  <2>1. r \in Sessions
    BY <1>t, <1>7, ChatRoomAssumption DEF RoomTypeOK
  <2> HIDE DEF r
  <2>2. deliver(r, m)
    BY <1>7 DEF r
  <2>3. /\ outbox \in [Sessions -> Seq(Msg)] /\ strand \in [Sessions -> Seq(Msg)]
        /\ m \notin queued
    BY <1>t, <1>3, <1>6 DEF TypeOK
  <2>4. /\ Only(Append(outbox[r], m), queued) = Only(outbox[r], queued)
        /\ Only(Append(strand[r], m), queued) = Only(strand[r], queued)
    BY <1>2, <2>1, <2>3, OnlyAppend
  <2>5. \A t \in Sessions : /\ Only(outbox'[t], queued) = Only(outbox[t], queued)
                            /\ Only(strand'[t], queued) = Only(strand[t], queued)
    BY <2>1, <2>2, <2>3, <2>4 DEF deliver, DeliverNow
  <2>6. /\ \A t \in Sessions : Line(w, t)' = Line(w, t)
        /\ Untaken(w)' = Untaken(w) /\ Unsaved(w)' = Unsaved(w)
    BY <1>1, <1>7, <2>5 DEF Line, Hand, Runs, Untaken, Unsaved, SavesIn
  <2>7. ASSUME NEW t \in Sessions PROVE LineInOrder(w, t)'
    <3>1. LineInOrder(w, t)
      BY DEF OrderInv
    <3>2. Increasing(Only(outbox[t], queued))'
      BY <1>7, <2>5, <3>1 DEF LineInOrder
    <3>3. \A k \in Untaken(w)' : k \in Untaken(w) /\ log'[k] = log[k]
      BY <1>3, <1>6, <2>6
    <3>4. QED
      BY <1>1, <2>6, <3>1, <3>2, <3>3, LineKept
  <2>8. StoreInOrder(w)' /\ AllQueued(w)'
    BY <1>1, <1>3, <1>6, <1>7, <2>6 DEF OrderInv, StoreInOrder, AllQueued, Runs, SavesIn
  <2>9. QED
    BY <2>7, <2>8 DEF OrderInv
<1>8. CASE tasks' = Append(tasks, save) /\ queued' = queued \cup {m} /\ UNCHANGED <<strand, outbox>>
  <2>1. SavesIn(tasks)' = SavesIn(tasks) \cup {m}
    <3>1. HeldIn(save) = {m}
      BY <1>5, TasksHold
    <3>2. QED
      BY <1>5, <1>8, <3>1, SavesAppend
  <2>2. Unsaved(w)' = Unsaved(w) \cup {m} /\ Untaken(w)' = Untaken(w) \cup {m}
    BY <1>1, <2>1 DEF Unsaved, Untaken, Runs
  <2>3. ASSUME NEW t \in Sessions
        PROVE  Only(outbox[t], queued') = Only(outbox[t], queued) /\ Line(w, t)' = Line(w, t)
    <3>1. outbox[t] \in Seq(Msg) /\ strand[t] \in Seq(Msg)
      BY <1>t DEF TypeOK
    <3>2. m \notin Range(outbox[t]) /\ m \notin Range(strand[t])
      BY <1>3, OnlyDelivered DEF ServerIInv, Solo
    <3>3. \A k : k # m => (k \in queued' <=> k \in queued)
      BY <1>8
    <3>4. /\ Only(outbox[t], queued') = Only(outbox[t], queued)
          /\ Only(strand[t], queued') = Only(strand[t], queued)
      BY <3>1, <3>2, <3>3, OnlySame
    <3>5. QED
      BY <1>1, <1>8, <3>4 DEF Line, Hand, Runs
  <2>4. ASSUME NEW t \in Sessions PROVE LineInOrder(w, t)'
    <3>1. LineInOrder(w, t)
      BY DEF OrderInv
    <3>2. \A k \in Untaken(w) : log'[k] = log[k]
      BY <1>3, <1>6
    <3>3. \A a \in Range(Line(w, t)) : a < m
      BY <1>4, <1>6
    <3>4. Increasing(Only(outbox[t], queued))'
      BY <1>8, <2>3, <3>1 DEF LineInOrder
    <3>5. ASSUME phase'[t] # "stopped"
          PROVE  /\ Increasing(Line(w, t))'
                 /\ \A a \in Range(Line(w, t)), b \in Untaken(w) \cup {m} :
                      log'[b] = user_name_[t] => a < b
      BY <1>1, <2>3, <3>1, <3>2, <3>3, <3>5 DEF LineInOrder, Above
    <3>6. QED
      BY <1>1, <2>2, <2>3, <3>4, <3>5 DEF LineInOrder, Above
  <2>5. SavesGrow(tasks)'
    <3>1. /\ Len(tasks) \in Nat /\ DOMAIN tasks = 1..Len(tasks) /\ DOMAIN tasks' = 1..(Len(tasks) + 1)
          /\ \A i \in DOMAIN tasks : tasks'[i] = tasks[i]
          /\ tasks'[Len(tasks) + 1] = save
      BY <1>5, <1>8, TasksAppend
    <3>2. \A i \in DOMAIN tasks' : i \in DOMAIN tasks \/ i = Len(tasks) + 1
      BY <3>1
    <3>3. \A i \in DOMAIN tasks : i < Len(tasks) + 1 /\ ~(Len(tasks) + 1 < i)
      BY <3>1
    <3>4. \A i \in DOMAIN tasks : tasks[i].kind = "save" => tasks[i].msg < m
      BY <1>t, <1>4, OnlySent
    <3>5. ASSUME NEW i \in DOMAIN tasks', NEW j \in DOMAIN tasks', i < j,
                 tasks'[i].kind = "save", tasks'[j].kind = "save"
          PROVE  tasks'[i].msg < tasks'[j].msg
      <4>1. i \in DOMAIN tasks
        BY <3>1, <3>2, <3>3, <3>5
      <4>2. CASE j = Len(tasks) + 1
        BY <1>5, <3>1, <3>4, <3>5, <4>1, <4>2
      <4>3. CASE j \in DOMAIN tasks
        BY <3>1, <3>5, <4>1, <4>3 DEF OrderInv, StoreInOrder, SavesGrow
      <4>4. QED
        BY <3>2, <4>2, <4>3
    <3>6. QED
      BY <3>5 DEF SavesGrow
  <2>6. StoreInOrder(w)'
    <3>1. Increasing(Box(w))'
      BY <1>1 DEF OrderInv, StoreInOrder
    <3>2. \A k \in Untaken(w) : k < m
      BY <1>4, <1>6
    <3>3. Range(Box(w)) \subseteq Untaken(w) /\ (Runs(w, "save") => running[w].msg \in Untaken(w))
      BY DEF Untaken, Unsaved
    <3>4. Above(Range(Box(w)), Unsaved(w))'
      BY <1>1, <2>2, <3>2, <3>3 DEF OrderInv, StoreInOrder, Above
    <3>5. Runs(w, "save") => Above({running[w].msg}, SavesIn(tasks) \cup {m})
      BY <3>2, <3>3 DEF OrderInv, StoreInOrder, Above
    <3>6. QED
      BY <1>1, <2>1, <2>5, <3>1, <3>4, <3>5 DEF StoreInOrder, Runs
  <2>7. AllQueued(w)'
    BY <1>1, <1>3, <1>8, <2>2 DEF OrderInv, AllQueued, Runs
  <2>8. QED
    BY <2>4, <2>6, <2>7 DEF OrderInv
<1>9. QED
  BY <1>1, <1>7, <1>8

(* A sequence is its head and its tail.                                    *)
LEMMA HeadAndTail ==
  ASSUME NEW X, NEW q \in Seq(X), q # <<>>
  PROVE  /\ Head(q) \in X /\ Tail(q) \in Seq(X)
         /\ <<Head(q)>> \o Tail(q) = q
<1>1. Head(q) \in X /\ Tail(q) \in Seq(X)
  BY TailRange
<1>2. Only(q, X) = <<Head(q)>> \o Only(Tail(q), X)
  BY <1>1, OnlyHead
<1>3. QED
  BY <1>1, <1>2, OnlyAll

(* A posted deliver() that runs takes a stored message from the strand to  *)
(* the write queue, or drops it.                                           *)
LEMMA RunPostedOrder ==
  ASSUME NEW w \in Workers, Single(w), ServerIInv, Solo(w), OrderInv(w), NEW s \in Sessions, RunPosted(s)
  PROVE  OrderInv(w)'
<1>t. TypeOK /\ w \in Workers
  BY DEF ServerIInv, Consistent, ServerInv
<1> DEFINE h == Head(strand[s])
           rest == Tail(strand[s])
           waiting == Only(outbox[s], queued)
           posted == Only(strand[s], queued)
           left == Only(rest, queued)
           hand == Hand(w, s)
<1>1. /\ strand[s] # <<>> /\ strand' = [strand EXCEPT ![s] = rest]
      /\ \/ phase[s] # "stopped" /\ outbox' = [outbox EXCEPT ![s] = Append(@, h)]
         \/ phase[s] = "stopped" /\ UNCHANGED outbox
      /\ UNCHANGED <<log, queued, tasks, running, phase, user_name_>> /\ Box(w)' = Box(w)
  BY DEF RunPosted, DeliverNow, poolVars, connVars, loginVars, storeVars, Box
<1>2. /\ outbox \in [Sessions -> Seq(Msg)] /\ strand \in [Sessions -> Seq(Msg)]
      /\ outbox[s] \in Seq(Msg) /\ strand[s] \in Seq(Msg)
  BY <1>t DEF TypeOK
<1>3. h \in Msg /\ h \in Nat /\ rest \in Seq(Msg)
  <2>1. h \in Msg /\ rest \in Seq(Msg)
    BY <1>1, <1>2, TailRange
  <2>2. QED
    BY <2>1, ChatServerAssumption DEF Msg
<1>4. /\ Only(Append(outbox[s], h), queued) = IF h \in queued THEN Append(waiting, h) ELSE waiting
      /\ posted = (IF h \in queued THEN <<h>> ELSE <<>>) \o left
  <2>1. Only(Append(outbox[s], h), queued) = IF h \in queued THEN Append(waiting, h) ELSE waiting
    <3> HIDE DEF h
    <3>1. \A q \in Seq(Msg) : Only(Append(q, h), queued) =
            IF h \in queued THEN Append(Only(q, queued), h) ELSE Only(q, queued)
      BY <1>3, OnlyAppend
    <3>2. QED
      BY <1>2, <3>1
  <2>2. posted = (IF h \in queued THEN <<h>> ELSE <<>>) \o left
    BY <1>1, <1>2, OnlyHead
  <2>3. QED
    BY <2>1, <2>2
<1>5. waiting \in Seq(Nat) /\ posted \in Seq(Nat) /\ left \in Seq(Nat) /\ hand \in Seq(Nat)
  <2>1. rest \in Seq(Nat)
    BY <1>3, MessagesAreNumbers
  <2>2. QED
    BY <1>t, <2>1, LineTyped, OnlyKeeps
<1>6. Untaken(w)' = Untaken(w) /\ Unsaved(w)' = Unsaved(w) /\ \A t \in Sessions : Hand(w, t)' = Hand(w, t)
  BY <1>1 DEF Untaken, Unsaved, Hand, Runs, SavesIn
<1>7. ASSUME NEW t \in Sessions, t # s PROVE LineInOrder(w, t)'
  <2>1. outbox'[t] = outbox[t] /\ strand'[t] = strand[t]
    BY <1>1, <1>2, <1>7
  <2>2. Line(w, t)' = Line(w, t)
    BY <1>1, <1>6, <2>1 DEF Line
  <2>3. LineInOrder(w, t)
    BY DEF OrderInv
  <2>4. Increasing(Only(outbox[t], queued))'
    BY <1>1, <2>1, <2>3 DEF LineInOrder
  <2>5. QED
    BY <1>1, <1>6, <2>2, <2>3, <2>4, LineKept
<1>8. ASSUME phase[s] # "stopped" PROVE LineInOrder(w, s)'
  <2>1. outbox'[s] = Append(outbox[s], h) /\ strand'[s] = rest
    BY <1>1, <1>2, <1>8
  <2> HIDE DEF h, rest, waiting, posted, left, hand
  <2>2. Line(w, s)' = Only(outbox'[s], queued) \o (left \o hand)
    BY <1>1, <1>6, <2>1 DEF Line, left, hand
  <2>3. Line(w, s) = waiting \o (posted \o hand)
    BY DEF Line, waiting, posted, hand
  <2>4. left \o hand \in Seq(Nat)
    BY <1>5, ConcatProperties
  <2>5. Line(w, s)' = Line(w, s)
    <3>1. CASE h \in queued
      <4>1. posted \o hand = <<h>> \o (left \o hand)
        <5>1. <<h>> \in Seq(Nat)
          BY <1>3
        <5>2. QED
          BY <1>4, <1>5, <3>1, <5>1, Regroup
      <4>2. Append(waiting, h) \o (left \o hand) = waiting \o (<<h>> \o (left \o hand))
        <5>1. \A a, b \in Seq(Nat), x \in Nat : Append(a, x) \o b = a \o (<<x>> \o b)
          BY ShiftNumbers
        <5>2. QED
          BY <1>3, <1>5, <2>4, <5>1
      <4>3. QED
        BY <1>4, <2>1, <2>2, <2>3, <3>1, <4>1, <4>2
    <3>2. CASE h \notin queued
      <4>1. posted = left
        BY <1>4, <1>5, <3>2, ConcatEmptySeq
      <4>2. QED
        BY <1>4, <2>1, <2>2, <2>3, <3>2, <4>1
    <3>3. QED
      BY <3>1, <3>2
  <2>6. LineInOrder(w, s)
    BY DEF OrderInv
  <2>7. Increasing(Only(outbox[s], queued))'
    <3> DEFINE now == Only(outbox'[s], queued)
    <3>1. now \in Seq(Nat)
      <4>1. Append(waiting, h) \in Seq(Nat)
        BY <1>3, <1>5, AppendProperties
      <4>2. QED
        BY <1>4, <1>5, <2>1, <4>1
    <3>2. Increasing(now \o (left \o hand))
      BY <1>8, <2>2, <2>5, <2>6 DEF LineInOrder
    <3> HIDE DEF now
    <3>3. Increasing(now)
      BY <2>4, <3>1, <3>2, IncreasingParts
    <3>4. QED
      BY <1>1, <3>3 DEF now
  <2>8. QED
    BY <1>1, <1>6, <1>8, <2>5, <2>6, <2>7, LineKept
<1>9. ASSUME phase[s] = "stopped" PROVE LineInOrder(w, s)'
  BY <1>1, <1>9 DEF OrderInv, LineInOrder
<1>10. StoreInOrder(w)' /\ AllQueued(w)'
  BY <1>1, <1>6 DEF OrderInv, StoreInOrder, AllQueued, Runs, SavesIn
<1>11. QED
  BY <1>6, <1>7, <1>8, <1>9, <1>10 DEF OrderInv

(* Nothing is taken out of turn, and what is not kept is gone for good.    *)
LEMMA TerminateOrder ==
  ASSUME NEW w \in Workers, Single(w), ServerIInv, Solo(w), OrderInv(w), Terminate
  PROVE  OrderInv(w)'
<1>t. TypeOK /\ Typed /\ w \in Workers
  BY DEF ServerIInv, Consistent, ServerInv, Typed
<1>b. Box(w)' = Box(w) \/ Box(w)' = <<>>
  BY <1>t, SoloEnds
<1>r. Range(Box(w)') \subseteq Range(Box(w)) /\ Increasing(Box(w)')
  <2>1. Increasing(<<>>)
    BY EmptySeq DEF Increasing
  <2>2. QED
    BY <1>b, <2>1, EmptyRange DEF OrderInv, StoreInOrder
<1>1. /\ tasks' = <<>> /\ running'[w] = None /\ UNCHANGED <<user_name_, log, queued, outbox>>
      /\ \A s \in Sessions : strand'[s] = <<>> /\ (phase'[s] # "stopped" => phase[s] # "stopped")
  BY DEF Terminate
<1>2. SavesIn(tasks)' = {} /\ Unsaved(w)' = {} /\ Untaken(w)' = Range(Box(w)')
      /\ SavesGrow(tasks)' /\ ~(Runs(w, "send")') /\ ~(Runs(w, "save")')
  BY <1>1, EmptyRange, EmptySeq DEF SavesIn, Unsaved, Untaken, Runs, SavesGrow
<1>3. ASSUME NEW s \in Sessions PROVE LineInOrder(w, s)'
  <2>1. LineInOrder(w, s) /\ Only(outbox[s], queued) \in Seq(Nat)
    BY <1>t, LineTyped DEF OrderInv
  <2>2. Line(w, s)' = Only(outbox[s], queued)
    <3>1. Only(strand'[s], queued) \o <<>> = <<>>
      BY <1>1, OnlyEmpty, ConcatEmptySeq
    <3>2. Only(outbox[s], queued) \o <<>> = Only(outbox[s], queued)
      BY <2>1, ConcatEmptySeq
    <3>3. QED
      BY <1>1, <1>2, <3>1, <3>2 DEF Line, Hand
  <2>3. Range(Only(outbox[s], queued)) \subseteq Range(Line(w, s))
    <3>1. outbox[s] \in Seq(Msg)
      BY <1>t DEF TypeOK
    <3>2. Range(Only(outbox[s], queued)) = Range(outbox[s]) \cap queued
      BY <3>1, OnlyKeeps
    <3>3. QED
      BY <1>t, <3>2, LineTyped
  <2>4. Range(Box(w)') \subseteq Untaken(w)
    BY <1>r DEF Untaken
  <2>5. Above(Range(Only(outbox[s], queued)), {m \in Range(Box(w)') : log[m] = user_name_[s]})
        \/ phase'[s] = "stopped"
    BY <1>1, <2>1, <2>3, <2>4 DEF LineInOrder, Above
  <2>6. Increasing(Only(outbox[s], queued))
    BY <2>1 DEF LineInOrder
  <2>7. QED
    BY <1>1, <1>2, <2>2, <2>5, <2>6 DEF LineInOrder, Above
<1>4. StoreInOrder(w)'
  BY <1>r, <1>1, <1>2 DEF OrderInv, StoreInOrder, Above
<1>5. AllQueued(w)'
  BY <1>r, <1>1, <1>2 DEF OrderInv, AllQueued, Untaken
<1>6. QED
  BY <1>3, <1>4, <1>5 DEF OrderInv

(* A sequence of numbers to which a larger one is added.                   *)
LEMMA IncreasingAppend ==
  ASSUME NEW q \in Seq(Nat), NEW x \in Nat, Increasing(q), \A a \in Range(q) : a < x
  PROVE  Increasing(Append(q, x))
<1>1. /\ <<x>> \in Seq(Nat) /\ Increasing(<<x>>) /\ DOMAIN <<x>> = {1} /\ <<x>>[1] = x
  BY IncreasingOne
<1>2. \A i \in DOMAIN q, j \in DOMAIN <<x>> : q[i] < <<x>>[j]
  BY <1>1 DEF Range
<1>3. Increasing(q \o <<x>>)
  BY <1>1, <1>2, IncreasingConcat
<1>4. QED
  BY <1>3, AppendIsConcat

(* A task's message goes from the queue to the thread.                     *)
LEMMA PopOrder ==
  ASSUME NEW w \in Workers, Single(w), ServerIInv, Solo(w), OrderInv(w), PopTask(w)
  PROVE  OrderInv(w)'
<1>t. TypeOK /\ StoreInv /\ w \in Workers
  BY DEF ServerIInv, Consistent, ServerInv
<1> DEFINE t == Head(tasks)
<1>1. /\ running[w] = None /\ tasks # <<>> /\ tasks' = Tail(tasks) /\ running'[w] = t
      /\ UNCHANGED <<log, queued, strand, outbox, phase, user_name_>> /\ Box(w)' = Box(w)
  BY <1>t DEF PopTask, mailVars, storeVars, connVars, loginVars, TypeOK, Box
<1>2. tasks \in Seq(Task)
  BY <1>t DEF TypeOK, Task
<1>3. /\ Len(tasks) \in Nat \ {0} /\ DOMAIN tasks = 1..Len(tasks)
      /\ DOMAIN tasks' = 1..(Len(tasks) - 1)
      /\ \A i \in DOMAIN tasks' : i + 1 \in DOMAIN tasks /\ tasks'[i] = tasks[i + 1]
      /\ t = tasks[1] /\ 1 \in DOMAIN tasks /\ t \in Task
  BY <1>1, <1>2, TasksTail
<1>4. tasks' \in Seq(Task)
  BY <1>1, <1>2, TailRange
<1> HIDE DEF t
<1>5. /\ t # None /\ t.kind # "send" /\ HeldIn(t) = IF t.kind = "save" THEN {t.msg} ELSE {}
  BY <1>3, TasksHold DEF Task, SaveTask, LoadTask
<1>6. SavesIn(tasks) = SavesIn(tasks') \cup HeldIn(t)
  <2>1. SavesApart(tasks)
    BY DEF ServerIInv, PlaceInv, NoRepeats
  <2>2. SavesIn(tasks) = SavesIn(Tail(tasks)) \cup HeldIn(Head(tasks))
    BY <1>1, <1>2, <2>1, SavesTail
  <2>3. QED
    BY <1>1, <2>2 DEF t
<1>7. /\ Unsaved(w)' = Unsaved(w) /\ Untaken(w)' = Untaken(w)
      /\ \A s \in Sessions : Line(w, s)' = Line(w, s)
  BY <1>1, <1>5, <1>6 DEF Unsaved, Untaken, Line, Hand, Runs, SavesIn
<1>8. SavesGrow(tasks)'
  <2>1. ASSUME NEW i \in DOMAIN tasks', NEW j \in DOMAIN tasks', i < j PROVE i + 1 < j + 1
    BY <1>3, <2>1
  <2>2. QED
    BY <1>3, <2>1 DEF OrderInv, StoreInOrder, SavesGrow
<1>9. t.kind = "save" => Above({t.msg}, SavesIn(tasks'))
  <2>1. ASSUME NEW m \in SavesIn(tasks'), t.kind = "save" PROVE t.msg < m
    <3>1. PICK i \in DOMAIN tasks' : tasks'[i].kind = "save" /\ tasks'[i].msg = m
      BY <1>4, <2>1, SavesAre
    <3>2. 1 < i + 1
      BY <1>3
    <3>3. QED
      BY <1>3, <2>1, <3>1, <3>2 DEF OrderInv, StoreInOrder, SavesGrow
  <2>2. QED
    BY <2>1 DEF Above
<1>10. StoreInOrder(w)'
  BY <1>1, <1>7, <1>8, <1>9 DEF OrderInv, StoreInOrder, Runs, SavesIn
<1>11. AllQueued(w)'
  BY <1>1, <1>5, <1>7 DEF OrderInv, AllQueued, Runs
<1>12. ASSUME NEW s \in Sessions PROVE LineInOrder(w, s)'
  <2>1. LineInOrder(w, s)
    BY DEF OrderInv
  <2>2. Increasing(Only(outbox[s], queued))'
    BY <1>1, <2>1 DEF LineInOrder
  <2>3. QED
    BY <1>1, <1>7, <2>1, <2>2, LineKept
<1>13. QED
  BY <1>10, <1>11, <1>12 DEF OrderInv

(* A message that is saved is newer than those in the store.               *)
LEMMA SaveOrder ==
  ASSUME NEW w \in Workers, Single(w), ServerIInv, Solo(w), OrderInv(w), SaveMessage(w) \/ SaveThrows(w)
  PROVE  OrderInv(w)'
<1>t. TypeOK /\ Typed /\ StoreInv /\ w \in Workers
  BY DEF ServerIInv, Consistent, ServerInv, Typed
<1> DEFINE m == running[w].msg
<1>1. /\ Runs(w, "save") /\ running'[w] = None
      /\ Box(w)' = Box(w) \/ Box(w)' = Append(Box(w), m)
      /\ UNCHANGED <<log, queued, tasks, strand, outbox, phase, user_name_>>
  <2>1. Box(w)' = Box(w) \/ Box(w)' = Append(Box(w), m)
    BY <1>t, SoloSaves
  <2>2. QED
    BY <1>t, <2>1 DEF SaveMessage, SaveThrows, TaskDone, WorkerFrame, connVars, loginVars, TypeOK
<1>2. m \in Msg /\ Box(w) \in Seq(Msg) /\ Box(w) \in Seq(Nat) /\ m \in Nat
  <2>1. m \in Msg /\ Box(w) \in Seq(Msg)
    BY <1>t, <1>1, BoxTyped, NoneIsNoTask DEF TypeOK, Runs, SaveTask, LoadTask, SendTask
  <2>2. QED
    BY <2>1, MessagesAreNumbers, ChatServerAssumption DEF Msg
<1>3. Range(Box(w)') \subseteq Range(Box(w)) \cup {m}
  <2> HIDE DEF m
  <2>1. Range(Append(Box(w), m)) = Range(Box(w)) \cup {m}
    BY <1>2, AppendRange
  <2>2. QED
    BY <1>1, <2>1
<1>4. /\ Unsaved(w)' = SavesIn(tasks) /\ Unsaved(w) = SavesIn(tasks) \cup {m}
      /\ Untaken(w)' \subseteq Untaken(w)
  BY <1>1, <1>3 DEF Unsaved, Untaken, Runs, SavesIn
<1>5. \A s \in Sessions : Line(w, s)' = Line(w, s)
  BY <1>1 DEF Line, Hand, Runs
<1> HIDE DEF m
<1>6. StoreInOrder(w)'
  <2>1. \A a \in Range(Box(w)) : a < m
    BY <1>4 DEF OrderInv, StoreInOrder, Above
  <2>2. Increasing(Box(w)')
    BY <1>1, <1>2, <2>1, IncreasingAppend DEF OrderInv, StoreInOrder
  <2>3. Above(Range(Box(w)'), SavesIn(tasks))
    BY <1>1, <1>3, <1>4 DEF OrderInv, StoreInOrder, Above, m
  <2>4. QED
    BY <1>1, <1>4, <2>2, <2>3 DEF OrderInv, StoreInOrder, Runs, SavesIn, SavesGrow
<1>7. AllQueued(w)'
  BY <1>1, <1>4 DEF OrderInv, AllQueued, Runs
<1>8. ASSUME NEW s \in Sessions PROVE LineInOrder(w, s)'
  <2>1. LineInOrder(w, s)
    BY DEF OrderInv
  <2>2. Increasing(Only(outbox[s], queued))'
    BY <1>1, <2>1 DEF LineInOrder
  <2>3. QED
    BY <1>1, <1>4, <1>5, <2>1, <2>2, LineKept
<1>9. QED
  BY <1>6, <1>7, <1>8 DEF OrderInv

(* A store that is split by user stays in order.                           *)
LEMMA BoxSplit ==
  ASSUME NEW w \in Workers, Typed, StoreInv, OrderInv(w), NEW n
  PROVE  /\ For(Box(w), n) \in Seq(Nat) /\ Increasing(For(Box(w), n))
         /\ Range(For(Box(w), n)) = {m \in Range(Box(w)) : log[m] = n}
         /\ NotFor(Box(w), n) \in Seq(Nat) /\ Increasing(NotFor(Box(w), n))
         /\ Range(NotFor(Box(w), n)) = {m \in Range(Box(w)) : log[m] # n}
<1>1. /\ Box(w) \in Seq(Nat) /\ Increasing(Box(w)) /\ Range(Box(w)) \subseteq DOMAIN log
  BY BoxTyped, MessagesAreNumbers DEF OrderInv, StoreInOrder
<1>2. \A S : /\ Only(Box(w), S) \in Seq(Nat) /\ Range(Only(Box(w), S)) = Range(Box(w)) \cap S
             /\ Increasing(Only(Box(w), S))
  BY <1>1, OnlyKeeps, IncreasingOnly
<1>3. /\ Range(Box(w)) \cap {m \in DOMAIN log : log[m] = n} = {m \in Range(Box(w)) : log[m] = n}
      /\ Range(Box(w)) \cap {m \in DOMAIN log : log[m] # n} = {m \in Range(Box(w)) : log[m] # n}
  BY <1>1
<1>4. QED
  BY <1>2, <1>3 DEF For, NotFor

(* What is taken for a session goes behind what is on its way to it, and   *)
(* is older than what is still to be saved.                                *)
LEMMA TakeOrder ==
  ASSUME NEW w \in Workers, Single(w), ServerIInv, Solo(w), OrderInv(w), TakeMessages(w)
  PROVE  OrderInv(w)'
<1>t. TypeOK /\ Typed /\ StoreInv /\ w \in Workers
  BY DEF ServerIInv, Consistent, ServerInv, Typed
<1> DEFINE r == running[w].session
           n == running[w].name
           taken == For(Box(w), n)
           left == NotFor(Box(w), n)
<1>1. /\ Runs(w, "load") /\ Box(w)' = left
      /\ running' = [running EXCEPT ![w] = Sending(r, taken)] \/ running' = [running EXCEPT ![w] = None]
      /\ UNCHANGED <<log, queued, tasks, strand, outbox, phase, user_name_>>
  <2>1. Box(w)' = left /\ HandOut(w, taken)
    BY <1>t, SoloTakes
  <2>2. QED
    BY <1>t, <2>1 DEF TakeMessages, HandOut, TaskDone, WorkerFrame, connVars, loginVars
<1>3. /\ taken \in Seq(Nat) /\ Increasing(taken)
      /\ Range(taken) = {m \in Range(Box(w)) : log[m] = n}
      /\ left \in Seq(Nat) /\ Increasing(left)
      /\ Range(left) = {m \in Range(Box(w)) : log[m] # n}
  BY <1>t, BoxSplit
<1>4. /\ Unsaved(w) = SavesIn(tasks) /\ Unsaved(w)' = SavesIn(tasks)
      /\ ~(Runs(w, "save")') /\ ~(Runs(w, "load")')
      /\ \A s \in Sessions : Hand(w, s) = <<>>
      /\ \A s \in Sessions : Hand(w, s)' = <<>> \/ (Hand(w, s)' = taken /\ s = r)
      /\ Runs(w, "send")' => running'[w].msgs = taken
  <2> HIDE DEF taken, r
  <2>1. running' = [running EXCEPT ![w] = [kind |-> "send", session |-> r, msgs |-> taken]]
        \/ running' = [running EXCEPT ![w] = None]
    BY <1>1 DEF Sending
  <2>2. \/ running'[w] = [kind |-> "send", session |-> r, msgs |-> taken]
        \/ running'[w] = None
    BY <1>t, <2>1 DEF TypeOK
  <2>3. /\ ~(Runs(w, "save")') /\ ~(Runs(w, "load")')
        /\ Runs(w, "send")' => running'[w].session = r /\ running'[w].msgs = taken
    BY <2>2 DEF Runs
  <2>4. ~Runs(w, "save") /\ ~Runs(w, "send")
    BY <1>1 DEF Runs
  <2>5. \A s \in Sessions : Hand(w, s)' = <<>> \/ (Hand(w, s)' = taken /\ s = r)
    BY <2>3 DEF Hand
  <2>6. QED
    BY <1>1, <2>3, <2>4, <2>5 DEF Unsaved, Hand, SavesIn
<1>5. /\ Range(taken) \subseteq Untaken(w) /\ Range(left) \subseteq Range(Box(w))
      /\ Untaken(w)' = SavesIn(tasks) \cup Range(left) /\ Untaken(w) = SavesIn(tasks) \cup Range(Box(w))
  BY <1>1, <1>3, <1>4 DEF Untaken
<1> HIDE DEF taken, left
<1>6. StoreInOrder(w)'
  BY <1>1, <1>3, <1>4, <1>5 DEF OrderInv, StoreInOrder, Above, SavesIn, SavesGrow
<1>7. AllQueued(w)'
  BY <1>1, <1>4, <1>5 DEF OrderInv, AllQueued
<1>8. ASSUME NEW s \in Sessions PROVE LineInOrder(w, s)'
  <2>1. LineInOrder(w, s)
    BY DEF OrderInv
  <2>2. Increasing(Only(outbox[s], queued))'
    BY <1>1, <2>1 DEF LineInOrder
  <2>3. CASE Hand(w, s)' = <<>>
    <3>1. Line(w, s)' = Line(w, s)
      BY <1>1, <1>4, <2>3 DEF Line
    <3>2. Untaken(w)' \subseteq Untaken(w)
      BY <1>5
    <3>3. QED
      BY <1>1, <2>1, <2>2, <3>1, <3>2, LineKept
  <2>4. CASE Hand(w, s)' = taken /\ s = r
    <3> DEFINE waiting == Only(outbox[s], queued)
               posted == Only(strand[s], queued)
    <3>0. waiting \in Seq(Nat) /\ posted \in Seq(Nat) /\ Line(w, s) \in Seq(Nat)
      BY <1>t, LineTyped
    <3>9. taken \in Seq(Nat)
      BY <1>3
    <3>1. Line(w, s)' = waiting \o (posted \o taken)
      BY <1>1, <2>4 DEF Line
    <3>2. Line(w, s) = waiting \o posted
      <4>1. posted \o <<>> = posted
        BY <3>0, ConcatEmptySeq
      <4>2. QED
        BY <1>4, <4>1 DEF Line
    <3> HIDE DEF waiting, posted
    <3>3. Line(w, s)' = Line(w, s) \o taken
      <4>1. (waiting \o posted) \o taken = waiting \o (posted \o taken)
        BY <3>0, <3>9, Regroup
      <4>2. QED
        BY <3>1, <3>2, <4>1
    <3>4. ASSUME phase[s] # "stopped" PROVE user_name_[s] = n
      <4>1. LoadAddressed(s, running[w])
        BY <1>1, <3>4 DEF ServerIInv, MailInv, Addressed, Runs
      <4>2. QED
        BY <1>1, <2>4, <4>1 DEF LoadAddressed, Bears, Runs
    <3>5. ASSUME phase[s] # "stopped"
          PROVE  /\ Increasing(Line(w, s)')
                 /\ Above(Range(Line(w, s)'), {m \in Untaken(w)' : log[m] = user_name_[s]})
      <4>1. Increasing(Line(w, s)) /\ Above(Range(Line(w, s)), {m \in Untaken(w) : log[m] = n})
        BY <2>1, <3>4, <3>5 DEF LineInOrder
      <4>2. Above(Range(Line(w, s)), Range(taken))
        BY <1>3, <1>5, <4>1 DEF Above
      <4>3. \A i \in DOMAIN Line(w, s), j \in DOMAIN taken : Line(w, s)[i] < taken[j]
        BY <4>2 DEF Above, Range
      <4>4. Increasing(Line(w, s)')
        BY <1>3, <3>0, <3>3, <4>1, <4>3, IncreasingConcat
      <4>5. Range(Line(w, s)') = Range(Line(w, s)) \cup Range(taken)
        BY <1>3, <3>0, <3>3, ConcatRange
      <4>6. Above(Range(taken), SavesIn(tasks))
        BY <1>3, <1>4 DEF OrderInv, StoreInOrder, Above
      <4>7. \A m \in Untaken(w)' : log[m] = n => m \in SavesIn(tasks) /\ m \in Untaken(w)
        BY <1>3, <1>5
      <4>8. QED
        BY <3>4, <3>5, <4>1, <4>4, <4>5, <4>6, <4>7 DEF Above
    <3>6. QED
      BY <1>1, <2>2, <3>5 DEF LineInOrder, Above
  <2>5. QED
    BY <1>4, <2>3, <2>4
<1>9. QED
  BY <1>6, <1>7, <1>8 DEF OrderInv

(* What is posted goes from the thread's hands to the end of the strand.   *)
LEMMA SendOrder ==
  ASSUME NEW w \in Workers, Single(w), ServerIInv, Solo(w), OrderInv(w), SendTaken(w)
  PROVE  OrderInv(w)'
<1>t. TypeOK /\ SendsSome /\ w \in Workers
  BY DEF ServerIInv, Consistent, ServerInv
<1> DEFINE r == running[w].session
           msgs == running[w].msgs
           h == Head(msgs)
           rest == Tail(msgs)
<1>1. /\ Runs(w, "send") /\ strand' = [strand EXCEPT ![r] = Append(@, h)]
      /\ running' = [running EXCEPT ![w] = Sending(r, rest)]
      /\ UNCHANGED <<log, queued, tasks, outbox, phase, user_name_>> /\ Box(w)' = Box(w)
  BY DEF SendTaken, WorkerFrame, connVars, loginVars, storeVars, Box
<1>2. /\ r \in Sessions /\ msgs \in Seq(Msg) /\ msgs # <<>>
      /\ strand \in [Sessions -> Seq(Msg)] /\ strand[r] \in Seq(Msg)
  <2>1. r \in Sessions /\ msgs \in Seq(Msg)
    BY <1>t, <1>1, NoneIsNoTask DEF TypeOK, Runs, SaveTask, LoadTask, SendTask
  <2>2. QED
    BY <1>t, <1>1, <2>1 DEF TypeOK, SendsSome
<1>3. /\ h \in Msg /\ rest \in Seq(Msg) /\ <<h>> \o rest = msgs /\ Range(msgs) = Range(rest) \cup {h}
  <2>1. h \in Msg /\ rest \in Seq(Msg) /\ <<h>> \o rest = msgs
    BY <1>2, HeadAndTail
  <2>2. QED
    BY <1>2, <2>1, TailRange
<1> HIDE DEF r, msgs, h, rest
<1>4. /\ running'[w] = Sending(r, rest)
      /\ Runs(w, "send")' => running'[w].msgs = rest /\ running'[w].session = r
      /\ rest # <<>> => Runs(w, "send")'
      /\ ~(Runs(w, "save")') /\ ~Runs(w, "save")
  <2>1. running'[w] = Sending(r, rest)
    BY <1>t, <1>1 DEF TypeOK
  <2>2. [kind |-> "send", session |-> r, msgs |-> rest] # None
    BY <1>2, <1>3, NoneIsNoTask DEF SendTask
  <2>3. QED
    BY <1>1, <2>1, <2>2 DEF Sending, Runs
<1>5. h \in queued /\ Range(rest) \subseteq queued
  BY <1>1, <1>3 DEF OrderInv, AllQueued, msgs
<1>6. Untaken(w)' = Untaken(w) /\ Unsaved(w)' = Unsaved(w)
  BY <1>1, <1>4 DEF Untaken, Unsaved, SavesIn
<1>7. ASSUME NEW s \in Sessions PROVE Line(w, s)' = Line(w, s)
  <2>1. CASE s # r
    <3>1. Hand(w, s) = <<>> /\ Hand(w, s)' = <<>> /\ strand'[s] = strand[s]
      BY <1>1, <1>2, <1>4, <2>1 DEF Hand, r
    <3>2. QED
      BY <1>1, <3>1 DEF Line
  <2>2. CASE s = r
    <3> DEFINE posted == Only(strand[r], queued)
    <3>0. /\ posted \in Seq(Nat) /\ rest \in Seq(Nat) /\ h \in Nat
      <4>1. h \in Nat /\ rest \in Seq(Nat)
        BY <1>3, MessagesAreNumbers, ChatServerAssumption DEF Msg
      <4>2. QED
        BY <1>t, <1>2, <4>1, LineTyped
    <3>1. Hand(w, s) = msgs /\ Hand(w, s)' = rest
      BY <1>1, <1>4, <2>2 DEF Hand, r, msgs
    <3>2. Only(strand'[s], queued) = Append(posted, h)
      <4>1. \A q \in Seq(Msg) : Only(Append(q, h), queued) = Append(Only(q, queued), h)
        BY <1>3, <1>5, OnlyAppend
      <4>2. strand'[s] = Append(strand[r], h)
        BY <1>1, <1>2, <2>2
      <4>3. QED
        BY <1>2, <4>1, <4>2
    <3> HIDE DEF posted
    <3>3. Append(posted, h) \o rest = posted \o msgs
      <4>1. \A a, b \in Seq(Nat), x \in Nat : Append(a, x) \o b = a \o (<<x>> \o b)
        BY ShiftNumbers
      <4>2. QED
        BY <1>3, <3>0, <4>1
    <3>4. QED
      BY <1>1, <2>2, <3>1, <3>2, <3>3 DEF Line, posted
  <2>3. QED
    BY <2>1, <2>2
<1>8. StoreInOrder(w)' /\ AllQueued(w)'
  BY <1>1, <1>4, <1>5, <1>6 DEF OrderInv, StoreInOrder, AllQueued, SavesIn
<1>9. ASSUME NEW s \in Sessions PROVE LineInOrder(w, s)'
  <2>1. LineInOrder(w, s)
    BY DEF OrderInv
  <2>2. Increasing(Only(outbox[s], queued))'
    BY <1>1, <2>1 DEF LineInOrder
  <2>3. QED
    BY <1>1, <1>6, <1>7, <2>1, <2>2, LineKept
<1>10. QED
  BY <1>8, <1>9 DEF OrderInv

(* A take that throws loses its user's messages or leaves them.            *)
LEMMA TakeThrowsOrder ==
  ASSUME NEW w \in Workers, Single(w), ServerIInv, Solo(w), OrderInv(w), TakeThrows(w)
  PROVE  OrderInv(w)'
<1>t. TypeOK /\ Typed /\ StoreInv /\ w \in Workers
  BY DEF ServerIInv, Consistent, ServerInv, Typed
<1>1. /\ Runs(w, "load") /\ running'[w] = None
      /\ UNCHANGED <<log, queued, tasks, strand, outbox, phase, user_name_>>
  BY <1>t DEF TakeThrows, TaskDone, WorkerFrame, connVars, loginVars, TypeOK
<1>2. running'[w] = None /\ ~Runs(w, "send") /\ ~(Runs(w, "send")') /\ ~(Runs(w, "save")') /\ ~Runs(w, "save")
  BY <1>1 DEF Runs
<1>3. Range(Box(w)') \subseteq Range(Box(w)) /\ Increasing(Box(w)')
  <2>1. Box(w)' = Box(w) \/ Box(w)' = NotFor(Box(w), running[w].name)
    BY <1>t, SoloTakeThrows
  <2>2. Increasing(Box(w))
    BY DEF OrderInv, StoreInOrder
  <2>3. ASSUME NEW n PROVE Range(NotFor(Box(w), n)) \subseteq Range(Box(w)) /\ Increasing(NotFor(Box(w), n))
    BY <1>t, BoxSplit
  <2>4. QED
    BY <2>1, <2>2, <2>3
<1>4. Untaken(w)' \subseteq Untaken(w) /\ Unsaved(w)' = Unsaved(w)
  BY <1>1, <1>2, <1>3 DEF Untaken, Unsaved, SavesIn
<1>5. \A s \in Sessions : Line(w, s)' = Line(w, s)
  BY <1>1, <1>2 DEF Line, Hand
<1>6. StoreInOrder(w)' /\ AllQueued(w)'
  BY <1>1, <1>2, <1>3, <1>4 DEF OrderInv, StoreInOrder, AllQueued, Above, SavesIn, SavesGrow
<1>7. ASSUME NEW s \in Sessions PROVE LineInOrder(w, s)'
  <2>1. LineInOrder(w, s)
    BY DEF OrderInv
  <2>2. Increasing(Only(outbox[s], queued))'
    BY <1>1, <2>1 DEF LineInOrder
  <2>3. QED
    BY <1>1, <1>4, <1>5, <2>1, <2>2, LineKept
<1>8. QED
  BY <1>6, <1>7 DEF OrderInv

(* Every step keeps the stored messages of each session in line.           *)
LEMMA StepOrder ==
  ASSUME NEW w \in Workers, Single(w), ServerIInv, Solo(w), OrderInv(w), [Next]_serverVars
  PROVE  OrderInv(w)'
<1>t. TypeOK /\ Typed /\ StoreInv /\ w \in Workers
  BY DEF ServerIInv, Consistent, ServerInv, Typed
<1>0. SavesGrow(tasks)
  BY DEF OrderInv, StoreInOrder
<1>1. ASSUME NEW s \in Sessions,
             \/ Accept(s) \/ Heartbeat(s) \/ CloseFromReader(s) \/ CloseFromWriter(s)
             \/ \E u \in Users : RegisterUser(s, u)
             \/ \E r \in Rooms : JoinRoom(s, r)
      PROVE  OrderInv(w)'
  <2>1. /\ UNCHANGED <<log, queued, running, outbox, strand, tasks, user_name_>> /\ Box(w)' = Box(w)
        /\ \A x \in Sessions : phase'[x] # "stopped" => phase[x] # "stopped"
    BY <1>t, <1>1 DEF Accept, Heartbeat, CloseFromReader, CloseFromWriter, close_session, Frame,
                      RegisterUser, JoinRoom, mailVars, storeVars, poolVars, loginVars, TypeOK, Box
  <2>2. SavesIn(tasks)' = SavesIn(tasks) /\ SavesGrow(tasks)'
    BY <1>0, <2>1 DEF SavesIn, SavesGrow
  <2>3. QED
    BY <1>t, <2>1, <2>2, SameOrder
<1>2. ASSUME NEW v \in Workers, Worker(v) \/ StoreThrows(v) PROVE OrderInv(w)'
  <2>1. v = w
    BY <1>2, OnlyWorker
  <2>2. ASSUME ReadFile(w) \/ OpenTruncated(w) \/ SelectMessages(w) PROVE OrderInv(w)'
    <3>1. /\ UNCHANGED <<log, queued, running, outbox, strand, tasks, user_name_, phase>>
      BY <2>2 DEF ReadFile, OpenTruncated, SelectMessages, WorkerFrame, connVars, loginVars
    <3>2. Box(w)' = Box(w)
      BY <1>t, <2>2, SoloReads
    <3>3. SavesIn(tasks)' = SavesIn(tasks) /\ SavesGrow(tasks)'
      BY <1>0, <3>1 DEF SavesIn, SavesGrow
    <3>4. QED
      BY <1>t, <3>1, <3>2, <3>3, SameOrder
  <2>3. QED
    BY <1>t, <1>2, <2>1, <2>2, PopOrder, SaveOrder, TakeOrder, SendOrder, TakeThrowsOrder
       DEF Worker, StoreThrows
<1>3. CASE UNCHANGED serverVars
  <2>1. /\ UNCHANGED <<log, queued, running, outbox, strand, tasks, user_name_, phase>> /\ Box(w)' = Box(w)
    BY <1>3 DEF serverVars, connVars, loginVars, mailVars, storeVars, poolVars, Box
  <2>2. SavesIn(tasks)' = SavesIn(tasks) /\ SavesGrow(tasks)'
    BY <1>0, <2>1 DEF SavesIn, SavesGrow
  <2>3. QED
    BY <1>t, <2>1, <2>2, SameOrder
<1>4. QED
  BY <1>t, <1>1, <1>2, <1>3, LoginOrder, PrivateMessageOrder, RunPostedOrder, TerminateOrder
     DEF Next, Client

(* With one business thread a client is sent its stored messages in the    *)
(* order in which they were sent to it: neither the queue, the store, the  *)
(* thread nor the strand lets a later one past an earlier one, and a live  *)
(* message between them does not disturb it.                               *)
THEOREM StoredInOrder == Spec => []StoredOrder
<1> DEFINE Orders == \A w \in Workers : threads = {w} => OrderInv(w)
           Inv == ServerIInv /\ SoloInv /\ Orders
<1>1. Init => Inv
  BY InitConsistentServer, InitStore, InitMail, InitPlace, InitSolo, InitOrder DEF ServerIInv, SoloInv
<1>2. Inv /\ [Next]_serverVars => Inv'
  <2> SUFFICES ASSUME Inv, [Next]_serverVars PROVE Inv'
    OBVIOUS
  <2>1. ServerIInv' /\ SoloInv'
    BY StepKeepsConsistent, StepStore, StepMail, StepPlace, StepSolo DEF ServerIInv
  <2>2. ASSUME NEW w \in Workers, threads' = {w} PROVE OrderInv(w)'
    <3>1. threads = {w}
      BY <2>2, ThreadsStay
    <3>2. Single(w) /\ Solo(w) /\ OrderInv(w)
      BY <3>1 DEF SoloInv
    <3>3. QED
      BY <3>2, StepOrder
  <2>3. QED
    BY <2>1, <2>2
<1>3. Inv => StoredOrder
  <2> SUFFICES ASSUME Inv, NEW w \in Workers, threads = {w}, NEW s \in Sessions,
                      NEW i \in DOMAIN outbox[s], NEW j \in DOMAIN outbox[s],
                      i < j, outbox[s][i] \in queued, outbox[s][j] \in queued
               PROVE  outbox[s][i] < outbox[s][j]
    BY DEF StoredOrder, InStoredOrder, OneThread
  <2>1. outbox[s] \in Seq(Msg)
    BY DEF ServerIInv, Consistent, ServerInv, TypeOK
  <2>2. Increasing(Only(outbox[s], queued))
    BY DEF OrderInv, LineInOrder
  <2>3. \E k, l \in DOMAIN Only(outbox[s], queued) :
          k < l /\ Only(outbox[s], queued)[k] = outbox[s][i] /\ Only(outbox[s], queued)[l] = outbox[s][j]
    BY <2>1, OnlyOrder
  <2>4. QED
    BY <2>2, <2>3 DEF Increasing
<1> HIDE DEF Inv
<1>4. QED
  BY <1>1, <1>2, <1>3, PTL DEF Spec
=============================================================================
