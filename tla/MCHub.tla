-------------------------------- MODULE MCHub --------------------------------
(* Instances of Hub.  User u1 connects twice; u2 connects once or never.  A *)
(* frame names its author, whatever connection sends it, so frames of one  *)
(* author reach participants of every kind.                                *)
EXTENDS Hub, TLC

CONSTANTS c1, c2, c3, u1, u2, v1

MCUserOf == [c \in Clients |-> IF c = c3 THEN u2 ELSE u1]
MCFrames == [from: {u1}, conv: {v1}]
MCParticipants == [v \in {v1} |-> {u1, u2}]

\* The two connections of u1 are alike.
ClientSymmetry == Permutations({c1, c2})
=============================================================================
