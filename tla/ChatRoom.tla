------------------------------ MODULE ChatRoom ------------------------------
(***************************************************************************)
(* The registry of logged-in sessions (src/src/server/chat_room.cpp): who  *)
(* is logged in, under which name, in which room.  ChatRoom's mutex_ makes *)
(* every operation atomic, so an operation is one action.                  *)
(*                                                                         *)
(* A std::unordered_map is a total function here: None is "no entry", and  *)
(* the empty set in room_members_ is "no such room" (the code erases a     *)
(* room's entry with its last member).                                     *)
(*                                                                         *)
(* A definition whose comment begins with "Defect:" is no part of the      *)
(* model: it is a plausible fault of the definition that follows it, kept  *)
(* to show that a property would notice.                                   *)
(***************************************************************************)
EXTENDS Naturals, FiniteSets

CONSTANTS
  Sessions,    \* ChatSession objects (connections)
  Names,       \* every name a session can be given
  Users,       \* the names a client can ask for at login
  Rooms,       \* room names
  Lobby,       \* kLobbyRoom
  BotNames,    \* configured_ai_bot_names_(): reserved for the AI agents
  MaxSuffix,   \* bound on the suffix counter of login()
  Candidate,   \* Candidate[u][k]: u for k = 1, else u followed by the digits of k
  None

ASSUME ChatRoomAssumption ==
  /\ Users \subseteq Names
  /\ BotNames \subseteq Names
  /\ Lobby \in Rooms
  /\ MaxSuffix \in Nat \ {0}
  /\ Candidate \in [Users -> [1..MaxSuffix -> Names]]
  /\ None \notin Sessions \cup Names \cup Rooms

(* login() counts on without a bound, and two counts make two names:       *)
(* MaxSuffix stands for a count it does not reach.                         *)
ASSUME CandidatesSuffice ==
  /\ IsFiniteSet(Sessions) /\ IsFiniteSet(BotNames)
  /\ MaxSuffix > Cardinality(Sessions) + Cardinality(BotNames)
  /\ \A u \in Users : \A j, k \in 1..MaxSuffix : Candidate[u][j] = Candidate[u][k] => j = k

VARIABLES
  sessions_,        \* the sessions the registry keeps alive
  names_,           \* session -> its name
  session_rooms_,   \* session -> its room
  name_index_,      \* name -> the session that holds it
  room_members_     \* room -> its members

roomVars == <<sessions_, names_, session_rooms_, name_index_, room_members_>>

RoomTypeOK ==
  /\ sessions_ \in SUBSET Sessions
  /\ names_ \in [Sessions -> Names \cup {None}]
  /\ session_rooms_ \in [Sessions -> Rooms \cup {None}]
  /\ name_index_ \in [Names -> Sessions \cup {None}]
  /\ room_members_ \in [Rooms -> SUBSET Sessions]

RoomInit ==
  /\ sessions_ = {}
  /\ names_ = [s \in Sessions |-> None]
  /\ session_rooms_ = [s \in Sessions |-> None]
  /\ name_index_ = [n \in Names |-> None]
  /\ room_members_ = [r \in Rooms |-> {}]

-----------------------------------------------------------------------------
(* login(): the while loop stops at the first candidate that no session    *)
(* holds and no bot reserves.                                              *)
(* Defect: reserved names are not looked up. *)
TakenBotsFree(n) == name_index_[n] # None
Taken(n) == name_index_[n] # None \/ n \in BotNames

FirstFree(u, k) ==
  /\ ~Taken(Candidate[u][k])
  /\ \A j \in 1..(k - 1) : Taken(Candidate[u][j])

Register(s, n) ==
  /\ sessions_' = sessions_ \cup {s}
  /\ names_' = [names_ EXCEPT ![s] = n]
  /\ session_rooms_' = [session_rooms_ EXCEPT ![s] = Lobby]
  /\ name_index_' = [name_index_ EXCEPT ![n] = s]
  /\ room_members_' = [room_members_ EXCEPT ![Lobby] = @ \cup {s}]

login(s, u) == \E k \in 1..MaxSuffix : FirstFree(u, k) /\ Register(s, Candidate[u][k])

(* change_room(): false when the session has no entry, and nothing moves   *)
(* when it asks for the room it is in.                                     *)
(* Defect: the session stays a member of the room it left. *)
KeepOldMembership(s, r) ==
  /\ session_rooms_[s] \notin {None, r}
  /\ room_members_' = [room_members_ EXCEPT ![r] = @ \cup {s}]
  /\ session_rooms_' = [session_rooms_ EXCEPT ![s] = r]
  /\ UNCHANGED <<sessions_, names_, name_index_>>

change_room(s, r) ==
  /\ session_rooms_[s] \notin {None, r}
  /\ room_members_' = [room_members_ EXCEPT ![session_rooms_[s]] = @ \ {s}, ![r] = @ \cup {s}]
  /\ session_rooms_' = [session_rooms_ EXCEPT ![s] = r]
  /\ UNCHANGED <<sessions_, names_, name_index_>>

(* leave(): removes whatever the registry holds of the session, which is   *)
(* nothing for a session that never logged in.                             *)
(* Defect: the name index is not cleaned. *)
LeaveKeepingName(s) ==
  /\ sessions_' = sessions_ \ {s}
  /\ names_' = [names_ EXCEPT ![s] = None]
  /\ session_rooms_' = [session_rooms_ EXCEPT ![s] = None]
  /\ room_members_' = [r \in Rooms |-> room_members_[r] \ {s}]
  /\ UNCHANGED name_index_

leave(s) ==
  /\ sessions_' = sessions_ \ {s}
  /\ names_' = [names_ EXCEPT ![s] = None]
  /\ name_index_' = [n \in Names |-> IF n = names_[s] THEN None ELSE name_index_[n]]
  /\ session_rooms_' = [session_rooms_ EXCEPT ![s] = None]
  /\ room_members_' =
       [r \in Rooms |-> IF r = session_rooms_[s] THEN room_members_[r] \ {s} ELSE room_members_[r]]

-----------------------------------------------------------------------------
(* The registry on its own.  A caller logs a session in only when it is    *)
(* not logged in; ChatServer shows that the sessions' logged_in_ flags     *)
(* guarantee it.                                                           *)
RoomNext ==
  \E s \in Sessions :
    \/ leave(s)
    \/ \E u \in Users : s \notin sessions_ /\ login(s, u)
    \/ \E r \in Rooms : change_room(s, r)

RoomSpec == RoomInit /\ [][RoomNext]_roomVars

-----------------------------------------------------------------------------
(* The name of a session and the name index are inverse to each other: no  *)
(* two sessions hold one name, and no name outlives its session (it would  *)
(* never be free again, and private messages to it would go nowhere).      *)
NameIndexExact ==
  \A s \in Sessions, n \in Names : names_[s] = n <=> name_index_[n] = s

(* A session is in the member set of exactly the room recorded for it, so  *)
(* a broadcast reaches it once and from its own room only.                 *)
MembershipExact ==
  \A s \in Sessions, r \in Rooms : s \in room_members_[r] <=> session_rooms_[s] = r

(* The five maps have the same sessions: broadcast_to_room looks members   *)
(* up in sessions_ and room_users looks them up in names_, and both skip   *)
(* in silence a member that is missing there.                              *)
SameSessions ==
  \A s \in Sessions :
    /\ s \in sessions_ <=> names_[s] # None
    /\ s \in sessions_ <=> session_rooms_[s] # None

(* No session is given the name of a configured AI agent.                  *)
BotNamesReserved == \A s \in Sessions : names_[s] \notin BotNames

(* The registry is consistent: all of this holds together after any        *)
(* sequence of logins, room changes and departures, in any order.          *)
RegistryInv ==
  /\ RoomTypeOK
  /\ NameIndexExact
  /\ MembershipExact
  /\ SameSessions
  /\ BotNamesReserved

(* The candidate loop of login() ends within MaxSuffix tries, whoever is   *)
(* logged in.                                                              *)
LoginLoopEnds == \A u \in Users : \E k \in 1..MaxSuffix : FirstFree(u, k)
=============================================================================
