-------------------------- MODULE PrivateMessaging --------------------------
(***************************************************************************)
(* What the server promises about private messages, whatever its threads,  *)
(* queues and stores do: a message sent is held until it is delivered once *)
(* to a connection that bears the name it is addressed to, or given up.  A *)
(* message delivered is never heard of again, and of one that was given up *)
(* nothing is promised any more.  It does not promise an order, nor that a *)
(* message is not given up.                                                *)
(***************************************************************************)
EXTENDS Naturals, Sequences

CONSTANTS Connections, Recipients

VARIABLES
  sent,       \* the recipients of the messages sent, in order
  held,       \* the messages the server still has to deliver
  received,   \* connection -> the messages delivered to it, in order
  given_up,   \* the messages it does not answer for any longer
  name        \* connection -> the name it bears

vars == <<sent, held, received, given_up, name>>

Init ==
  /\ sent = <<>> /\ held = {} /\ given_up = {}
  /\ received = [c \in Connections |-> <<>>]
  /\ \A c \in Connections : name[c] \notin Recipients

Give(c, m, to) ==
  /\ name[c] = to
  /\ received' = [received EXCEPT ![c] = Append(@, m)]

(* A new message is delivered at once, held for later or given up.         *)
Send(to) ==
  LET m == Len(sent) + 1
  IN  /\ sent' = Append(sent, to)
      /\ \/ \E c \in Connections : Give(c, m, to) /\ UNCHANGED <<held, given_up>>
         \/ held' = held \cup {m} /\ UNCHANGED <<received, given_up>>
         \/ given_up' = given_up \cup {m} /\ UNCHANGED <<held, received>>
      /\ UNCHANGED name

Deliver(c, m) ==
  /\ m \in held
  /\ held' = held \ {m}
  /\ Give(c, m, sent[m])
  /\ UNCHANGED <<sent, given_up, name>>

GiveUp ==
  /\ given_up \subseteq given_up' /\ given_up' \subseteq given_up \cup held
  /\ held' = held \ given_up'
  /\ UNCHANGED <<sent, received, name>>

Rename == UNCHANGED <<sent, held, received, given_up>>

Next ==
  \/ Rename
  \/ \E to \in Recipients : Send(to)
  \/ \E c \in Connections, m \in held : Deliver(c, m)
  \/ GiveUp

Spec == Init /\ [][Next]_vars
=============================================================================
