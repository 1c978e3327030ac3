---------------------------- MODULE MCPersistence ----------------------------
(* Instances of Persistence: u1 writes, u2 reads. *)
EXTENDS Persistence, TLC

CONSTANTS p1, p2, u1, u2

MCConvs == {1, 2}
MCParticipants == [v \in MCConvs |-> {u1, u2}]
Text(v) == [kind |-> "message", conv |-> v, from |-> u1, upto |-> 0]
Mark(n) == [kind |-> "mark_as_read", conv |-> 1, from |-> u2, upto |-> n]

\* Conversation 3 does not exist.
MCTexts == {Text(1), Text(2), Text(3)}
MCMarksAndBad == {Mark(1), Mark(2), Text(3)}

PartitionSymmetry == Permutations(Partitions)
=============================================================================
