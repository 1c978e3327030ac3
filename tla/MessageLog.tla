----------------------------- MODULE MessageLog -----------------------------
(***************************************************************************)
(* What the way from the hub to the message table promises, without Kafka, *)
(* batches, offsets or restarts.  Events are pushed in one order.  A       *)
(* pushed message may be stored in one of several logs, at most once in    *)
(* all of them together and never after one of the same log that was       *)
(* pushed later; any number of messages may never be stored.               *)
(*                                                                         *)
(* Module Persistence implements this specification with a log for each    *)
(* partition of the topic (Persistence!Log).                               *)
(***************************************************************************)
EXTENDS Naturals, Sequences

CONSTANTS Events, Partitions

VARIABLES
  pushed,  \* events in the order they were pushed
  stored   \* per log, positions in pushed of its messages

vars == <<pushed, stored>>

Init ==
  /\ pushed = <<>>
  /\ stored = [p \in Partitions |-> <<>>]

Push(e) ==
  /\ pushed' = Append(pushed, e)
  /\ UNCHANGED stored

StoredIn(p, n) == \E i \in DOMAIN stored[p] : stored[p][i] = n

Store(p, n) ==
  /\ pushed[n].kind = "message"
  /\ \A i \in DOMAIN stored[p] : stored[p][i] < n
  /\ \A q \in Partitions : ~ StoredIn(q, n)
  /\ stored' = [stored EXCEPT ![p] = Append(@, n)]
  /\ UNCHANGED pushed

Next ==
  \/ \E e \in Events : Push(e)
  \/ \E p \in Partitions : \E n \in DOMAIN pushed : Store(p, n)

Spec == Init /\ [][Next]_vars
=============================================================================
