---------------------------- MODULE RoomAiConfig ----------------------------
(***************************************************************************)
(* Which AI agent each room has.  AppConfig::load() (app_config.cpp) lays  *)
(* the values of the configuration file over each other; ChatRoom (names,  *)
(* welcome) and RoomAiAgentService (replies) then look a room's agent up   *)
(* in it, each in its own way.                                             *)
(*                                                                         *)
(* A file is its section for the default agent and one per room.  A        *)
(* section gives values to some of the keys; a room of whose section no    *)
(* key is set is one the file does not mention.                            *)
(***************************************************************************)
EXTENDS Naturals

CONSTANTS
  Texts,    \* the texts a file can give for a name, a welcome or a provider
  Unset,    \* the file has no such key
  Nothing   \* std::nullopt

AgentConfig ==
  [enabled : BOOLEAN, bot_name : Texts, welcome_message : Texts, provider : Texts,
   history_messages : Nat]
Section ==
  [enabled : BOOLEAN \cup {Unset}, bot_name : Texts \cup {Unset},
   welcome_message : Texts \cup {Unset}, provider : Texts \cup {Unset},
   history_messages : Nat \cup {Unset}]

ASSUME RoomAiConfigAssumption ==
  /\ {"", "room-bot", "local"} \subseteq Texts
  /\ Nothing \notin AgentConfig

(* RoomAiAgentConfig as it is before the file is read.                     *)
Initial == [enabled |-> FALSE, bot_name |-> "room-bot", welcome_message |-> "",
            provider |-> "local", history_messages |-> 8]

Mentioned(section) == \E key \in DOMAIN section : section[key] # Unset

load_room_ai_config(section, cfg) ==
  [key \in DOMAIN cfg |-> IF section[key] = Unset THEN cfg[key] ELSE section[key]]

default_room_ai_agent(file) ==
  LET cfg == load_room_ai_config(file.default, Initial) IN IF cfg.enabled THEN cfg ELSE Nothing

(* A room inherits the default agent, when there is one.                   *)
Inherited(file) == IF default_room_ai_agent(file) = Nothing THEN Initial ELSE default_room_ai_agent(file)

room_ai_agents(file) ==
  LET cfg(r) == load_room_ai_config(file.rooms[r], Inherited(file))
      Kept == {r \in DOMAIN file.rooms : Mentioned(file.rooms[r]) /\ cfg(r).enabled}
  IN  [r \in Kept |-> cfg(r)]

-----------------------------------------------------------------------------
(* ChatRoom: configure_ai_agents() and its lookups.                        *)
Named(file) == default_room_ai_agent(file) # Nothing /\ default_room_ai_agent(file).bot_name # ""

is_ai_enabled_for_room_(file, r) ==
  r \in DOMAIN room_ai_agents(file) \/ default_room_ai_agent(file) # Nothing

ai_agent_name_for_room_(file, r) ==
  IF r \in DOMAIN room_ai_agents(file) THEN room_ai_agents(file)[r].bot_name
  ELSE IF Named(file) THEN default_room_ai_agent(file).bot_name
  ELSE Nothing

ai_agent_welcome_for_room_(file, r) ==
  IF r \in DOMAIN room_ai_agents(file) /\ room_ai_agents(file)[r].welcome_message # ""
  THEN room_ai_agents(file)[r].welcome_message
  ELSE IF default_room_ai_agent(file) # Nothing /\ default_room_ai_agent(file).welcome_message # ""
  THEN default_room_ai_agent(file).welcome_message
  ELSE Nothing

configured_ai_bot_names_(file) ==
  {room_ai_agents(file)[r].bot_name : r \in DOMAIN room_ai_agents(file)}
    \cup IF Named(file) THEN {default_room_ai_agent(file).bot_name} ELSE {}

-----------------------------------------------------------------------------
(* RoomAiAgentService: the agent that answers in a room.                   *)
WithName(cfg, name) == [key \in DOMAIN cfg |-> IF key = "bot_name" THEN name ELSE cfg[key]]

ensure_room_state_(file, r) ==
  IF r \in DOMAIN room_ai_agents(file) THEN room_ai_agents(file)[r]
  ELSE IF default_room_ai_agent(file) = Nothing THEN Nothing
  ELSE IF default_room_ai_agent(file).bot_name = ""
  THEN WithName(default_room_ai_agent(file), "room-bot")
  ELSE default_room_ai_agent(file)
=============================================================================
