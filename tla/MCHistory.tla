------------------------------ MODULE MCHistory ------------------------------
(* Instances of History: u1 writes, u2 reads and pages; there is no         *)
(* conversation 4.                                                         *)
EXTENDS History

CONSTANTS u1, u2

MCConvs == {1, 2, 3}
MCParticipants == [v \in MCConvs |-> {u1, u2}]
Text(v, u) == [kind |-> "message", conv |-> v, from |-> u, upto |-> 0]
Mark(v, n) == [kind |-> "mark_as_read", conv |-> v, from |-> u2, upto |-> n]

MCEvents == {Text(1, u1), Text(2, u1), Text(4, u1), Mark(2, 1), Mark(2, 2)}
=============================================================================
