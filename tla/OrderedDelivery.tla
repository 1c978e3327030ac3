--------------------------- MODULE OrderedDelivery ---------------------------
(***************************************************************************)
(* What the chat hub promises, without goroutines, channels or a client    *)
(* table.  Frames are put in one global order.  The newest frame, and only *)
(* the newest, is handed to participants of its conversation: to one       *)
(* connection of a participant or, when it is not the author, as one push  *)
(* notification - never twice and never both.                              *)
(*                                                                         *)
(* Nothing obliges the system to hand a frame to everyone: a queue may be  *)
(* lost with its connection and the participant lookup may fail.           *)
(* Module Hub implements this specification (Hub!Delivery).                *)
(***************************************************************************)
EXTENDS Naturals, Sequences

CONSTANTS
  Clients,       \* connections
  Users,
  Convs,         \* conversations
  UserOf,        \* the user of each connection
  Participants   \* the users of each conversation

VARIABLES
  order,     \* frames in the order they were broadcast
  inbox,     \* per connection, the indices into order it was handed
  notified   \* <<n, u>>: user u was sent a notification for order[n]

vars == <<order, inbox, notified>>

Frame == [from: Users, conv: Convs]

Newest == Len(order)

\* Connection c has been handed the n-th frame.
Holds(c, n) == \E i \in DOMAIN inbox[c] : inbox[c][i] = n

\* User u has already been served the n-th frame one way or the other.
Reached(u, n) ==
  \/ \E c \in Clients : UserOf[c] = u /\ Holds(c, n)
  \/ <<n, u>> \in notified

MayReach(u) ==
  /\ Newest > 0
  /\ u \in Participants[order[Newest].conv]
  /\ ~Reached(u, Newest)

-----------------------------------------------------------------------------

Init ==
  /\ order = <<>>
  /\ inbox = [c \in Clients |-> <<>>]
  /\ notified = {}

Broadcast(f) ==
  /\ order' = Append(order, f)
  /\ UNCHANGED <<inbox, notified>>

HandTo(c) ==
  /\ MayReach(UserOf[c])
  /\ inbox' = [inbox EXCEPT ![c] = Append(@, Newest)]
  /\ UNCHANGED <<order, notified>>

Notify(u) ==
  /\ MayReach(u)
  /\ order[Newest].from # u
  /\ notified' = notified \cup {<<Newest, u>>}
  /\ UNCHANGED <<order, inbox>>

Next ==
  \/ \E f \in Frame : Broadcast(f)
  \/ \E c \in Clients : HandTo(c)
  \/ \E u \in Users : Notify(u)

Spec == Init /\ [][Next]_vars
=============================================================================
