--------------------------- MODULE ChatStoreProofs ---------------------------
(***************************************************************************)
(* What the database worker does to the chat tables, whatever feeds it:    *)
(* lemmas about one step of the worker that PersistenceProofs and          *)
(* HistoryProofs rest on.                                                  *)
(*                                                                         *)
(* Between the insert of a message and the update of the conversation it   *)
(* belongs to, the row that was inserted is the one with the highest id    *)
(* (Inserted): one worker inserts, and nobody else takes ids.              *)
(***************************************************************************)
EXTENDS ChatStore, TLAPS

\* The event in hand is of the kind that the worker's place in its loop says.
InHand ==
  /\ worker # "read" => job \in Events
  /\ worker \in {"insert", "update"} => job.kind = "message"
  /\ worker = "mark" => job.kind = "mark_as_read"

\* The row inserted last is the newest, and of the conversation in hand.
Inserted ==
  worker = "update" =>
    \E m \in messages : m.id = messageSeq /\ m.conv = job.conv

StoreInv == StoreTypeOK /\ InHand /\ Inserted

\* What a step can do to the worker and the tables.
StoreStep ==
  \/ \E e \in Events : \E s : Take(e, s)
  \/ Work
  \/ NextRecord /\ UNCHANGED tables
  \/ UNCHANGED storeVars

-----------------------------------------------------------------------------

\* An event names its user and has numbers for its conversation and its mark.
LEMMA EventFields ==
  ASSUME NEW e \in Events
  PROVE  /\ e.kind \in {"message", "mark_as_read"}
         /\ e.conv \in Nat
         /\ e.from \in Users
         /\ e.upto \in Nat
BY EventsAssumption DEF Event

\* When nothing was written and nothing is in hand the invariant holds.
LEMMA StoreInitInv == StoreInit => StoreInv
BY DEF StoreInit, StoreInv, StoreTypeOK, InHand, Inserted

\* An insert that takes effect adds one row, whose id is above all others.
LEMMA InsertedRow ==
  ASSUME StoreInv, CreateMessage, messages' # messages
  PROVE  LET row == [id |-> messageSeq + 1, conv |-> job.conv,
                     sender |-> job.from, source |-> source]
         IN  /\ messages' = messages \cup {row}
             /\ messageSeq' = messageSeq + 1
             /\ row.conv \in Convs
             /\ row.sender \in Users
             /\ \A m \in messages : m.id \in Nat /\ m.id < row.id
<1>1. /\ worker = "insert"
      /\ job \in Events
      /\ job.conv \in Convs
      /\ messageSeq' = messageSeq + 1
      /\ messages' = messages \cup
           {[id |-> messageSeq + 1, conv |-> job.conv, sender |-> job.from,
             source |-> source]}
  BY DEF CreateMessage, InsertFailed, Insertable, StoreInv, InHand
<1>2. job.from \in Users
  BY <1>1, EventFields
<1>3. ASSUME NEW m \in messages
      PROVE  m.id \in Nat /\ m.id < messageSeq + 1
  <2>1. m.id \in 1..messageSeq /\ messageSeq \in Nat
    BY DEF StoreInv, StoreTypeOK
  <2> QED BY <2>1
<1> QED BY <1>1, <1>2, <1>3

\* Whatever statement of the worker fails, its tables keep their types.
LEMMA StoreTypeStep == StoreInv /\ StoreStep => StoreTypeOK'
<1> SUFFICES ASSUME StoreInv, StoreStep PROVE StoreTypeOK'
  OBVIOUS
<1> USE DEF StoreInv
<1>1. ASSUME NEW e \in Events, NEW s, Take(e, s) PROVE StoreTypeOK'
  BY <1>1 DEF Take, StoreTypeOK, tables
<1>2. CASE CreateMessage
  <2>1. lastMessage' = lastMessage /\ lastRead' = lastRead /\ messageSeq' \in Nat
    BY <1>2 DEF CreateMessage, InsertFailed, StoreTypeOK
  <2>2. worker' \in {"read", "insert", "update", "mark"} /\ job' \in Events \cup {None}
    BY <1>2 DEF CreateMessage, InsertFailed, NextRecord, StoreTypeOK
  <2>3. ASSUME NEW m \in messages'
        PROVE  m.id \in 1..messageSeq' /\ m.conv \in Convs /\ m.sender \in Users
    <3>1. CASE m \in messages
      <4>1. messageSeq' = messageSeq \/ messageSeq' = messageSeq + 1
        BY <1>2 DEF CreateMessage, InsertFailed
      <4>2. m.id \in 1..messageSeq /\ m.conv \in Convs /\ m.sender \in Users
        BY <3>1 DEF StoreTypeOK
      <4>3. messageSeq \in Nat
        BY DEF StoreTypeOK
      <4> QED BY <4>1, <4>2, <4>3
    <3>2. CASE m \notin messages
      <4>1. /\ m = [id |-> messageSeq + 1, conv |-> job.conv,
                     sender |-> job.from, source |-> source]
            /\ messageSeq' = messageSeq + 1
            /\ m.conv \in Convs /\ m.sender \in Users
        BY <1>2, <3>2, InsertedRow
      <4>2. m.id = messageSeq + 1 /\ messageSeq \in Nat
        BY <4>1 DEF StoreTypeOK
      <4> QED BY <4>1, <4>2
    <3> QED BY <3>1, <3>2
  <2> QED BY <2>1, <2>2, <2>3 DEF StoreTypeOK
<1>3. CASE UpdateConversationLastMessage
  BY <1>3 DEF UpdateConversationLastMessage, LastMessageSet, NextRecord,
              StoreTypeOK, Inserted
<1>4. CASE MarkMessageAsRead
  <2>1. job.upto \in Nat
    BY <1>4, EventFields DEF MarkMessageAsRead, InHand
  <2>2. lastRead' \in [ParticipantRows -> Nat]
    BY <1>4, <2>1 DEF MarkMessageAsRead, StoreTypeOK
  <2> QED BY <1>4, <2>2 DEF MarkMessageAsRead, NextRecord, StoreTypeOK
<1>5. CASE NextRecord /\ UNCHANGED tables
  BY <1>5 DEF NextRecord, tables, StoreTypeOK
<1>6. CASE UNCHANGED storeVars
  BY <1>6 DEF storeVars, tables, StoreTypeOK
<1> QED BY <1>1, <1>2, <1>3, <1>4, <1>5, <1>6 DEF StoreStep, Work

\* The worker updates the conversation of the row it has inserted, right after
\* it (dbworker.go:71-85).
LEMMA StoreHandStep == StoreInv /\ StoreStep => InHand' /\ Inserted'
<1> SUFFICES ASSUME StoreInv, StoreStep PROVE InHand' /\ Inserted'
  OBVIOUS
<1> USE DEF StoreInv, InHand, Inserted
<1>1. ASSUME NEW e \in Events, NEW s, Take(e, s) PROVE InHand' /\ Inserted'
  <2>1. e.kind \in {"message", "mark_as_read"}
    BY EventFields
  <2> QED BY <1>1, <2>1 DEF Take
<1>2. CASE CreateMessage
  <2>1. CASE NextRecord
    BY <2>1 DEF NextRecord
  <2>2. CASE worker' = "update" /\ UNCHANGED <<job, source>>
    <3>1. /\ messageSeq' = messageSeq + 1
          /\ messages' = messages \cup
               {[id |-> messageSeq + 1, conv |-> job.conv, sender |-> job.from,
                 source |-> source]}
      BY <1>2, <2>2 DEF CreateMessage, InsertFailed, NextRecord
    <3>2. \E m \in messages' : m.id = messageSeq' /\ m.conv = job'.conv
      <4> DEFINE row == [id |-> messageSeq + 1, conv |-> job.conv,
                         sender |-> job.from, source |-> source]
      <4>1. row \in messages'
        BY <3>1
      <4>2. row.id = messageSeq' /\ row.conv = job'.conv
        BY <2>2, <3>1
      <4> QED BY <4>1, <4>2
    <3> QED BY <1>2, <2>2, <3>2 DEF CreateMessage
  <2> QED BY <1>2, <2>1, <2>2 DEF CreateMessage, InsertFailed
<1>3. CASE UpdateConversationLastMessage \/ MarkMessageAsRead \/ (NextRecord /\ UNCHANGED tables)
  BY <1>3 DEF UpdateConversationLastMessage, MarkMessageAsRead, NextRecord
<1>4. CASE UNCHANGED storeVars
  BY <1>4 DEF storeVars, tables
<1> QED BY <1>1, <1>2, <1>3, <1>4 DEF StoreStep, Work

\* What the worker needs to know before a step it knows after it.
LEMMA StoreInvStep == StoreInv /\ StoreStep => StoreInv'
BY StoreTypeStep, StoreHandStep DEF StoreInv

\* The pointer to the last message moves to the newest message of its
\* conversation, or not at all.
LEMMA NewestStep ==
  ASSUME StoreInv, StoreStep, NEW v \in Convs, lastMessage'[v] # lastMessage[v]
  PROVE  /\ lastMessage'[v] \in MessageIds(v)
         /\ \A i \in MessageIds(v) : i <= lastMessage'[v]
<1>1. UpdateConversationLastMessage
  BY DEF StoreStep, Work, Take, CreateMessage, MarkMessageAsRead, NextRecord,
         storeVars, tables
<1>2. lastMessage' = [lastMessage EXCEPT ![job.conv] = messageSeq]
  BY <1>1 DEF UpdateConversationLastMessage, LastMessageSet
<1>3. lastMessage'[v] = messageSeq /\ v = job.conv
  BY <1>2 DEF StoreInv, StoreTypeOK
<1>4. PICK m \in messages : m.id = messageSeq /\ m.conv = v
  BY <1>1, <1>3 DEF UpdateConversationLastMessage, StoreInv, Inserted
<1>5. messageSeq \in MessageIds(v)
  BY <1>4 DEF MessageIds
<1>6. ASSUME NEW i \in MessageIds(v) PROVE i <= messageSeq
  <2>1. PICK n \in messages : i = n.id
    BY DEF MessageIds
  <2>2. n.id \in 1..messageSeq /\ messageSeq \in Nat
    BY DEF StoreInv, StoreTypeOK
  <2> QED BY <2>1, <2>2
<1> QED BY <1>3, <1>5, <1>6

\* A step of the worker adds to the messages at most the row of the message in
\* hand, and the id of every row stays its own.
LEMMA RowsStep ==
  ASSUME StoreInv, StoreStep
  PROVE  \/ messages' = messages
         \/ /\ worker = "insert"
            /\ LET row == [id |-> messageSeq + 1, conv |-> job.conv,
                           sender |-> job.from, source |-> source]
               IN  /\ messages' = messages \cup {row}
                   /\ \A m \in messages : m.id \in Nat /\ m.id < row.id
<1>1. messages' # messages => CreateMessage
  BY DEF StoreStep, Work, Take, UpdateConversationLastMessage,
         MarkMessageAsRead, NextRecord, storeVars, tables
<1>2. CreateMessage => worker = "insert"
  BY DEF CreateMessage
<1> QED BY <1>1, <1>2, InsertedRow
=============================================================================
