----------------------------- MODULE MCRoomChat -----------------------------
(* Two sessions and two rooms.  The agent of the lobby is the default one, *)
(* local because its provider is left empty, with a history of one; the    *)
(* den has its own, on a provider written in another letter case.  One     *)
(* user asks for the name of an agent.                                     *)
EXTENDS RoomChat, TLC

CONSTANTS s1, s2

MCUsers == {"ann", "robo"}
MCMaxSuffix == 5
MCCandidate ==
  [u \in MCUsers |-> [k \in 1..MCMaxSuffix |-> IF k = 1 THEN u ELSE u \o ToString(k)]]
MCNames == UNION {{MCCandidate[u][k] : k \in 1..MCMaxSuffix} : u \in MCUsers} \cup {"nova"}
MCRooms == {"lobby", "den"}

Empty == [key \in DOMAIN Initial |-> Unset]
MCFile ==
  [default |-> [Empty EXCEPT !.enabled = TRUE, !.bot_name = "robo", !.provider = "",
                              !.history_messages = 0],
   rooms |-> ("lobby" :> Empty @@
              "den" :> [Empty EXCEPT !.bot_name = "nova", !.welcome_message = "hello",
                                     !.provider = "DeepSeek", !.history_messages = 2])]
MCTexts == {"", "room-bot", "local", "DeepSeek", "deepseek", "robo", "nova", "hello"}
MCLower == [t \in MCTexts |-> IF t = "DeepSeek" THEN "deepseek" ELSE t]
MCBotNames == configured_ai_bot_names_(MCFile)
=============================================================================
