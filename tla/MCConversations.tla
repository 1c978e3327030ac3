--------------------------- MODULE MCConversations ---------------------------
(* r1 and r2 are calls of u1 and u2 for each other, r3 is a call of u1 for *)
(* itself and r4 one of u1 for u3.                                         *)
EXTENDS Conversations

CONSTANTS r1, r2, r3, r4, u1, u2, u3

MCUserOf == [r \in Requests |-> IF r = r2 THEN u2 ELSE u1]
MCPartnerOf == [r \in Requests |-> CASE r = r1 -> u2 [] r = r4 -> u3 [] OTHER -> u1]
=============================================================================
