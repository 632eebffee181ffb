---------------------------- MODULE MCChatClient ----------------------------
EXTENDS ChatClient

(* A message with a length of two bytes, one too long for a frame, a       *)
(* command without what it needs, and the command that ends the client.    *)
MCLines == {[command |-> "text", complete |-> TRUE, length |-> 300],
            [command |-> "pm", complete |-> TRUE, length |-> kMaxBodyLength + 1],
            [command |-> "login", complete |-> FALSE, length |-> 30],
            [command |-> "quit", complete |-> TRUE, length |-> 15]}
MCReplyLengths == {kMaxBodyLength, kMaxBodyLength + 1}
=============================================================================
