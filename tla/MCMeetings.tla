------------------------------ MODULE MCMeetings ------------------------------
(* u1 creates the meetings, m1 with u2 and u3 invited and m2 with nobody,    *)
(* joins as j1 and ends them; u2 joins as j2.                                *)
EXTENDS Meetings

CONSTANTS m1, m2, j1, j2, e1, e2, k1, k2, u1, u2, u3

MCUserOf == [c \in Creates \cup Joins \cup Ends |-> IF c = j2 THEN u2 ELSE u1]
MCInvitedBy == [m \in Creates |-> IF m = m1 THEN {u2, u3} ELSE {}]
=============================================================================
