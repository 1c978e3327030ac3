------------------------------ MODULE MCRestApi -------------------------------
(* A private conversation of u1 and u2 in which u2 spoke last, one of u1 and *)
(* u3 without messages, a group in which u2 spoke last, and a conversation   *)
(* of u1 with itself.  Listing the first and the third asks for u2 thrice.   *)
EXTENDS RestApi

CONSTANTS u1, u2, u3

Row(g, ms, s) == [group |-> g, members |-> ms, sender |-> s]
MCConversations ==
  { Row(FALSE, {u1, u2}, u2), Row(FALSE, {u1, u3}, Nobody),
    Row(TRUE, {u1, u2, u3}, u2), Row(FALSE, {u1}, u1) }

\* A token as the user service signs it, as withAuth_test.go does, and no token.
Token(v, i, u) == [valid |-> v, id |-> i, user_id |-> u]
MCTokens ==
  { Token(TRUE, u1, Nobody), Token(TRUE, Nobody, u1), Token(FALSE, Nobody, Nobody) }
=============================================================================
