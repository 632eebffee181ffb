---------------------------- MODULE MCChatServer ----------------------------
(* Instances of ChatServer.  "ann2" is a user's own name and also what a   *)
(* second session of "ann" is called.                                      *)
EXTENDS ChatServer, TLC

CONSTANTS s1, s2, w1, w2

MCMaxSuffix == 3
MCCandidate ==
  [u \in Users |-> [k \in 1..MCMaxSuffix |-> IF k = 1 THEN u ELSE u \o ToString(k)]]
MCNames == UNION {{MCCandidate[u][k] : k \in 1..MCMaxSuffix} : u \in Users}
Symmetry == Permutations(Sessions) \cup Permutations(Workers)
=============================================================================
