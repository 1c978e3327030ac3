-------------------------- MODULE PersistenceProofs --------------------------
(***************************************************************************)
(* Proofs about the way from the hub to the message table, for any number  *)
(* of partitions, events, resends, restarts and rebalances.                *)
(*                                                                         *)
(* That a record becomes one row, in its partition's order, rests on where *)
(* the reader stands: a record that was handed to the worker, unless its   *)
(* commit straddled a rebalance, is committed, and fetching has passed it  *)
(* and will not return to it (Settled), so what is handed over next lies   *)
(* behind everything of its partition that was written (Ahead).            *)
(***************************************************************************)
EXTENDS Persistence, ChatStoreProofs

\* s is the record of a row, or of the mark a pointer is from.
Written(s) ==
  \/ \E m \in messages : s = m.source
  \/ \E r \in ParticipantRows : setBy[r] # None /\ s = setBy[r]

\* s was handed to the worker.
Handled(s) == Written(s) \/ (worker # "read" /\ s = source)

Settled(s) ==
  s \notin straddled =>
    /\ s[2] <= committed[s[1]]
    /\ s[2] <= position[s[1]]
    /\ fetched # None /\ fetched[1] = s[1] => s[2] < fetched[2]

\* A record is being committed only while the worker waits for one, and
\* without a rebalance fetching goes on behind it.
InReader ==
  fetched # None =>
    /\ worker = "read"
    /\ fetched \in straddled \/ fetched[2] <= position[fetched[1]]

Placed == \A s : Handled(s) => InTopic(s)

AllSettled == \A s : Handled(s) => Settled(s)

\* A record in hand that is not written yet is behind all that are.
Ahead ==
  worker \in {"insert", "mark"} =>
    \A s : Written(s) /\ s[1] = source[1]
            => s[2] < source[2] \/ s \in straddled

IInv ==
  /\ TypeOK
  /\ StoreInv
  /\ InReader
  /\ Placed
  /\ AllSettled
  /\ Ahead
  /\ WrittenOnce
  /\ PartitionOrder

-----------------------------------------------------------------------------
(* The parts of a step *)

\* A position in a log is one in every longer log.
LEMMA LongerLog ==
  ASSUME accepted \in Seq(Events), NEW e \in Events, accepted' = Append(accepted, e)
  PROVE  /\ accepted' \in Seq(Events)
         /\ Len(accepted) + 1 \in DOMAIN accepted'
         /\ DOMAIN accepted \subseteq DOMAIN accepted'
         /\ \A s : s \in Seq(DOMAIN accepted) => s \in Seq(DOMAIN accepted')
<1>1. accepted' \in Seq(Events) /\ Len(accepted') = Len(accepted) + 1
  OBVIOUS
<1>2. DOMAIN accepted = 1..Len(accepted) /\ DOMAIN accepted' = 1..(Len(accepted) + 1)
  BY <1>1
<1>3. DOMAIN accepted \subseteq DOMAIN accepted'
  BY <1>2
<1>4. \A s : s \in Seq(DOMAIN accepted) => s \in Seq(DOMAIN accepted')
  BY <1>3
<1> QED BY <1>1, <1>2, <1>3, <1>4
\* Records stay in the topic.
LEMMA TopicGrows ==
  ASSUME TypeOK, [Next]_vars
  PROVE  /\ \A q \in Partitions : /\ Len(topic[q]) \in Nat
                                  /\ Len(topic'[q]) \in Nat
                                  /\ Len(topic[q]) <= Len(topic'[q])
         /\ \A s : InTopic(s) => InTopic(s)'
<1>1. ASSUME NEW q \in Partitions
      PROVE  /\ Len(topic[q]) \in Nat /\ Len(topic'[q]) \in Nat
             /\ Len(topic[q]) <= Len(topic'[q])
  <2>1. topic[q] \in Seq(DOMAIN accepted) /\ batch[q] \in Seq(DOMAIN accepted)
    BY DEF TypeOK
  <2>2. ASSUME NEW p \in Partitions, WriteBatch(p)
        PROVE  topic'[q] = topic[q] \/ topic'[q] = topic[q] \o batch[q]
    BY <2>2 DEF WriteBatch, TypeOK
  <2>3. UNCHANGED topic \/ \E p \in Partitions : WriteBatch(p)
    BY DEF Next, PushEvent, StartBatch, DropBatch, FetchMessage, CommitMessages,
           DBWorker, Rebalance, Restart, vars
  <2>4. topic'[q] = topic[q] \/ topic'[q] = topic[q] \o batch[q]
    BY <2>2, <2>3
  <2>5. /\ Len(topic[q]) \in Nat /\ Len(batch[q]) \in Nat
        /\ Len(topic[q] \o batch[q]) = Len(topic[q]) + Len(batch[q])
    BY <2>1
  <2>6. Len(topic'[q]) = Len(topic[q]) \/ Len(topic'[q]) = Len(topic[q]) + Len(batch[q])
    BY <2>4, <2>5
  <2> DEFINE a == Len(topic[q])
             b == Len(batch[q])
             c == Len(topic'[q])
  <2>7. a \in Nat /\ b \in Nat /\ (c = a \/ c = a + b)
    BY <2>5, <2>6
  <2> HIDE DEF a, b, c
  <2>8. c \in Nat /\ a <= c
    BY <2>7
  <2> QED BY <2>7, <2>8 DEF a, b, c
<1>2. ASSUME NEW s, InTopic(s) PROVE InTopic(s)'
  <2>1. PICK p \in Partitions : \E o \in 1..Len(topic[p]) : s = <<p, o>>
    BY <1>2 DEF InTopic
  <2>2. \E o \in 1..Len(topic'[p]) : s = <<p, o>>
    BY <1>1, <2>1
  <2> QED BY <2>2 DEF InTopic
<1> QED BY <1>1, <1>2

\* A record is a partition with an offset, and holds an event.
LEMMA RecordFields ==
  ASSUME TypeOK, NEW s, InTopic(s)
  PROVE  /\ s[1] \in Partitions /\ s[2] \in 1..Len(topic[s[1]])
         /\ s = <<s[1], s[2]>>
         /\ Pushed(s) \in DOMAIN accepted
         /\ Record(s) \in Events
<1>1. PICK p \in Partitions : \E o \in 1..Len(topic[p]) : s = <<p, o>>
  BY DEF InTopic
<1>2. PICK o \in 1..Len(topic[p]) : s = <<p, o>>
  BY <1>1
<1>3. topic[p] \in Seq(DOMAIN accepted) /\ accepted \in Seq(Events)
  BY DEF TypeOK
<1>4. topic[p][o] \in DOMAIN accepted
  BY <1>3
<1>5. accepted[topic[p][o]] \in Events
  BY <1>3, <1>4
<1> QED BY <1>2, <1>4, <1>5 DEF Pushed, Record

\* What FetchMessage does: the record behind the last one fetched is fetched.
LEMMA FetchEffect ==
  ASSUME TypeOK, NEW p \in Partitions, FetchMessage(p)
  PROVE  /\ position[p] \in Nat
         /\ position' = [position EXCEPT ![p] = position[p] + 1]
         /\ fetched' = <<p, position[p] + 1>>
         /\ position[p] + 1 \in 1..Len(topic[p])
         /\ UNCHANGED <<storeVars, accepted, topic, committed, straddled, setBy>>
<1>1. position[p] \in Nat /\ topic[p] \in Seq(DOMAIN accepted)
  BY DEF TypeOK
<1>2. Len(topic[p]) \in Nat
  BY <1>1
<1> QED BY <1>1, <1>2 DEF FetchMessage, writerVars, historyVars

\* What CommitMessages does: the worker is given the record and its offset is
\* committed, or the record is left and its offset may be committed.
LEMMA CommitEffect ==
  ASSUME TypeOK, CommitMessages
  PROVE  /\ InTopic(fetched) /\ fetched' = None
         /\ Record(fetched) \in Events
         /\ UNCHANGED <<accepted, topic, position, straddled, setBy>>
         /\ LET commit == [committed EXCEPT ![fetched[1]] = fetched[2]]
            IN  \/ committed' = commit /\ Take(Record(fetched), fetched)
                \/ committed' \in {committed, commit} /\ UNCHANGED storeVars
<1>1. InTopic(fetched)
  BY DEF CommitMessages, TypeOK
<1>2. Record(fetched) \in Events
  BY <1>1, RecordFields
<1> QED BY <1>1, <1>2 DEF CommitMessages, Returned, writerVars, historyVars

\* Seen from the tables, every step is one of the worker or none.
LEMMA StepIsStoreStep == TypeOK /\ [Next]_vars => StoreStep
<1> SUFFICES ASSUME TypeOK, [Next]_vars PROVE StoreStep
  OBVIOUS
<1>1. CASE CommitMessages
  BY <1>1, CommitEffect DEF StoreStep
<1>2. CASE Restart
  BY <1>2 DEF Restart, StoreStep
<1>3. CASE DBWorker
  BY <1>3 DEF DBWorker, StoreStep
<1>4. CASE UNCHANGED storeVars
  BY <1>4 DEF StoreStep
<1> QED
  BY <1>1, <1>2, <1>3, <1>4
     DEF Next, PushEvent, StartBatch, WriteBatch, DropBatch, FetchMessage,
         Rebalance, vars

\* A reading pointer changes when the worker applies a mark, and then to the
\* mark in hand.
LEMMA PointerSet ==
  ASSUME TypeOK, [Next]_vars, NEW r \in ParticipantRows, lastRead'[r] # lastRead[r]
  PROVE  worker = "mark" /\ worker' = "read" /\ setBy'[r] = source
<1>1. MarkMessageAsRead
  BY StepIsStoreStep
     DEF StoreStep, Work, Take, CreateMessage, UpdateConversationLastMessage,
         NextRecord, storeVars, tables
<1>2. worker = "mark" /\ worker' = "read"
  BY <1>1 DEF MarkMessageAsRead, NextRecord
<1>3. DBWorker
  BY <1>2 DEF Next, PushEvent, StartBatch, WriteBatch, DropBatch, FetchMessage,
              CommitMessages, Returned, Take, Rebalance, Restart, vars,
              storeVars, tables
<1> QED BY <1>2, <1>3 DEF DBWorker

\* What was written before a step was written after it or is in hand.
LEMMA WrittenStep ==
  ASSUME TypeOK, StoreInv, [Next]_vars, NEW s, Written(s)'
  PROVE  \/ Written(s)
         \/ /\ worker \in {"insert", "mark"} /\ worker' \in {"read", "update"}
            /\ s = source
<1>1. CASE \E m \in messages' : s = m.source
  <2>1. PICK m \in messages' : s = m.source
    BY <1>1
  <2>2. CASE m \in messages
    BY <2>1, <2>2 DEF Written
  <2>3. CASE m \notin messages
    <3>1. worker = "insert" /\ m.source = source
      BY <2>3, StepIsStoreStep, RowsStep
    <3>2. CreateMessage
      BY <2>3, StepIsStoreStep
         DEF StoreStep, Work, Take, UpdateConversationLastMessage,
             MarkMessageAsRead, NextRecord, storeVars, tables
    <3>3. worker' \in {"read", "update"}
      BY <3>2 DEF CreateMessage, InsertFailed, NextRecord
    <3> QED BY <2>1, <3>1, <3>3
  <2> QED BY <2>2, <2>3
<1>2. CASE \E r \in ParticipantRows : setBy'[r] # None /\ s = setBy'[r]
  <2>1. PICK r \in ParticipantRows : setBy'[r] # None /\ s = setBy'[r]
    BY <1>2
  <2>2. CASE lastRead'[r] # lastRead[r]
    BY <2>1, <2>2, PointerSet
  <2>3. CASE lastRead'[r] = lastRead[r]
    <3>1. setBy'[r] = setBy[r]
      BY <2>3 DEF Next, PushEvent, StartBatch, WriteBatch, DropBatch,
                  FetchMessage, CommitMessages, DBWorker, Rebalance, Restart,
                  vars, historyVars
    <3> QED BY <2>1, <3>1 DEF Written
  <2> QED BY <2>2, <2>3
<1> QED BY <1>1, <1>2 DEF Written, ParticipantRows

-----------------------------------------------------------------------------
(* Every conjunct is preserved *)

\* In the initial state there is nothing to lose or to repeat.
LEMMA InitInv == Init => IInv
<1> SUFFICES ASSUME Init PROVE IInv
  OBVIOUS
<1>1. StoreInv
  BY StoreInitInv DEF Init
<1>2. TypeOK
  <2>1. <<>> \in Seq(DOMAIN accepted) /\ accepted \in Seq(Events)
    BY DEF Init
  <2>2. Len(<<>>) = 0
    OBVIOUS
  <2>3. resends \in 0..MaxResends /\ restarts \in 0..MaxRestarts
    BY BoundsAssumption DEF Init
  <2> QED BY <1>1, <2>1, <2>2, <2>3 DEF Init, TypeOK, StoreInv
<1>3. /\ \A s : ~ Handled(s)
      /\ InReader /\ Ahead /\ WrittenOnce /\ PartitionOrder
  BY DEF Init, StoreInit, Handled, Written, InReader, Ahead, WrittenOnce,
         PartitionOrder
<1> QED BY <1>1, <1>2, <1>3 DEF IInv, Placed, AllSettled

\* The bounds, and the records that the reader and the history name.
LEMMA RecordsStep ==
  ASSUME IInv, [Next]_vars
  PROVE  /\ fetched' # None => InTopic(fetched)'
         /\ \A s \in straddled' : InTopic(s)'
         /\ setBy' = [r \in ParticipantRows |-> setBy'[r]]
         /\ \A r \in ParticipantRows : (setBy[r] # None => InTopic(setBy[r]))'
         /\ resends' \in 0..MaxResends /\ restarts' \in 0..MaxRestarts
<1> USE DEF IInv
<1>g. \A s : InTopic(s) => InTopic(s)'
  BY TopicGrows
<1>1. ASSUME fetched' # None PROVE InTopic(fetched)'
  <2>1. ASSUME NEW p \in Partitions, FetchMessage(p) PROVE InTopic(fetched)'
    <3>1. /\ fetched' = <<p, position[p] + 1>> /\ topic' = topic
          /\ position[p] + 1 \in 1..Len(topic[p])
      BY <2>1, FetchEffect
    <3> QED BY <3>1 DEF InTopic
  <2>2. CASE fetched' = fetched
    <3>1. InTopic(fetched)
      BY <1>1, <2>2 DEF TypeOK
    <3>2. \E p \in Partitions : \E o \in 1..Len(topic'[p]) : fetched = <<p, o>>
      BY <3>1, <1>g DEF InTopic
    <3> QED BY <2>2, <3>2 DEF InTopic
  <2> QED
    BY <1>1, <2>1, <2>2
       DEF Next, PushEvent, StartBatch, WriteBatch, DropBatch, CommitMessages,
           DBWorker, Rebalance, Restart, vars, readerVars
<1>2. ASSUME NEW s \in straddled' PROVE InTopic(s)'
  <2>1. CASE Rebalance
    <3>1. s \in straddled \/ (s = fetched /\ fetched # None)
      BY <2>1 DEF Rebalance
    <3> QED BY <3>1, <1>g DEF TypeOK
  <2>2. CASE UNCHANGED straddled
    BY <2>2, <1>g DEF TypeOK
  <2> QED
    BY <2>1, <2>2
       DEF Next, PushEvent, StartBatch, WriteBatch, DropBatch, FetchMessage,
           CommitMessages, DBWorker, Restart, vars, historyVars
<1>3. setBy' = [r \in ParticipantRows |-> setBy'[r]]
  <2>1. UNCHANGED setBy \/ DBWorker
    BY DEF Next, PushEvent, StartBatch, WriteBatch, DropBatch, FetchMessage,
           CommitMessages, Rebalance, Restart, vars, historyVars
  <2> QED BY <2>1 DEF TypeOK, DBWorker
<1>4. ASSUME NEW r \in ParticipantRows, (setBy[r] # None)'
      PROVE  InTopic(setBy[r])'
  <2>1. PICK s : s = setBy'[r]
    OBVIOUS
  <2>2. Written(s)'
    BY <1>4, <2>1 DEF Written, ParticipantRows
  <2>3. InTopic(s)
    BY <2>2, WrittenStep DEF Placed, Handled
  <2>4. InTopic(s)'
    BY <2>3, <1>g
  <2> QED BY <2>1, <2>4 DEF InTopic
<1>5. resends' \in 0..MaxResends
  <2>1. resends' = resends \/ (resends < MaxResends /\ resends' = resends + 1)
    BY DEF Next, PushEvent, StartBatch, WriteBatch, DropBatch, FetchMessage,
           CommitMessages, DBWorker, Rebalance, Restart, vars, writerVars
  <2> QED BY <2>1, BoundsAssumption DEF TypeOK
<1>6. restarts' \in 0..MaxRestarts
  <2>1. restarts' = restarts \/ (restarts < MaxRestarts /\ restarts' = restarts + 1)
    BY DEF Next, PushEvent, StartBatch, WriteBatch, DropBatch, FetchMessage,
           CommitMessages, DBWorker, Rebalance, Restart, vars
  <2> QED BY <2>1, BoundsAssumption DEF TypeOK
<1> QED BY <1>1, <1>2, <1>3, <1>4, <1>5, <1>6

\* Whatever the writer does, its queues hold positions in the log of events.
LEMMA QueuesStep ==
  ASSUME TypeOK, [Next]_vars
  PROVE  /\ accepted' \in Seq(Events)
         /\ waiting' \in [Partitions -> Seq(DOMAIN accepted')]
         /\ batch' \in [Partitions -> Seq(DOMAIN accepted')]
         /\ topic' \in [Partitions -> Seq(DOMAIN accepted')]
<1> DEFINE Goal == /\ accepted' \in Seq(Events)
                   /\ waiting' \in [Partitions -> Seq(DOMAIN accepted')]
                   /\ batch' \in [Partitions -> Seq(DOMAIN accepted')]
                   /\ topic' \in [Partitions -> Seq(DOMAIN accepted')]
<1> USE DEF TypeOK
<1>1. ASSUME NEW p \in Partitions, PushEvent(p) PROVE Goal
  <2>1. PICK e \in Events : accepted' = Append(accepted, e)
    BY <1>1 DEF PushEvent
  <2>2. /\ accepted' \in Seq(Events)
        /\ Len(accepted) + 1 \in DOMAIN accepted'
        /\ \A s : s \in Seq(DOMAIN accepted) => s \in Seq(DOMAIN accepted')
    BY <2>1, LongerLog
  <2>3. waiting' \in [Partitions -> Seq(DOMAIN accepted')]
    <3>1. Append(waiting[p], Len(accepted) + 1) \in Seq(DOMAIN accepted')
      BY <2>2
    <3> QED BY <1>1, <2>2, <3>1 DEF PushEvent
  <2>4. batch' \in [Partitions -> Seq(DOMAIN accepted')]
        /\ topic' \in [Partitions -> Seq(DOMAIN accepted')]
    BY <1>1, <2>2 DEF PushEvent
  <2> QED BY <2>2, <2>3, <2>4
<1>2. ASSUME NEW p \in Partitions, StartBatch(p) PROVE Goal
  <2>1. PICK n \in 1..Len(waiting[p]) :
          /\ batch' = [batch EXCEPT ![p] = SubSeq(waiting[p], 1, n)]
          /\ waiting' = [waiting EXCEPT ![p] = SubSeq(@, n + 1, Len(@))]
    BY <1>2 DEF StartBatch
  <2>2. waiting[p] \in Seq(DOMAIN accepted) /\ n \in 1..Len(waiting[p])
    OBVIOUS
  <2>3. SubSeq(waiting[p], 1, n) \in Seq(DOMAIN accepted)
    BY <2>2
  <2>4. SubSeq(waiting[p], n + 1, Len(waiting[p])) \in Seq(DOMAIN accepted)
    BY <2>2
  <2> QED BY <1>2, <2>1, <2>3, <2>4 DEF StartBatch
<1>3. ASSUME NEW p \in Partitions, WriteBatch(p) PROVE Goal
  <2>1. topic[p] \in Seq(DOMAIN accepted) /\ batch[p] \in Seq(DOMAIN accepted)
    OBVIOUS
  <2>2. topic[p] \o batch[p] \in Seq(DOMAIN accepted) /\ <<>> \in Seq(DOMAIN accepted)
    BY <2>1
  <2>3. batch' = batch \/ batch' = [batch EXCEPT ![p] = <<>>]
    BY <1>3 DEF WriteBatch
  <2> QED BY <1>3, <2>2, <2>3 DEF WriteBatch
<1>4. ASSUME NEW p \in Partitions, DropBatch(p) PROVE Goal
  <2>1. <<>> \in Seq(DOMAIN accepted)
    OBVIOUS
  <2> QED BY <1>4, <2>1 DEF DropBatch
<1>5. CASE Restart
  <2>1. <<>> \in Seq(DOMAIN accepted)
    OBVIOUS
  <2> QED BY <1>5, <2>1 DEF Restart
<1>6. CASE UNCHANGED <<accepted, waiting, batch, topic>>
  BY <1>6
<1> QED
  BY <1>1, <1>2, <1>3, <1>4, <1>5, <1>6
     DEF Next, FetchMessage, CommitMessages, DBWorker, Rebalance, vars, writerVars

\* Offsets stay within the topic.
LEMMA OffsetsStep ==
  ASSUME IInv, [Next]_vars
  PROVE  /\ committed' \in [Partitions -> Nat] /\ position' \in [Partitions -> Nat]
         /\ \A q \in Partitions : /\ committed'[q] <= Len(topic'[q])
                                  /\ position'[q] <= Len(topic'[q])
<1> DEFINE Within(c, p) == /\ c \in [Partitions -> Nat] /\ p \in [Partitions -> Nat]
                           /\ \A q \in Partitions : /\ c[q] <= Len(topic[q])
                                                    /\ p[q] <= Len(topic[q])
<1>0. Within(committed, position) /\ TypeOK
  BY DEF IInv, TypeOK
<1>1. Within(committed', position')
  <2>1. ASSUME NEW p \in Partitions, FetchMessage(p) PROVE Within(committed', position')
    <3> DEFINE n == position[p] + 1
    <3>1. /\ position' = [position EXCEPT ![p] = n] /\ committed' = committed
          /\ n \in 1..Len(topic[p])
      BY <1>0, <2>1, FetchEffect
    <3>2. n \in Nat /\ n <= Len(topic[p])
      BY <3>1, <1>0, TopicGrows
    <3> HIDE DEF n
    <3> QED BY <1>0, <3>1, <3>2
  <2>2. CASE CommitMessages
    <3> DEFINE q == fetched[1]
               n == fetched[2]
    <3>1. /\ committed' \in {committed, [committed EXCEPT ![q] = n]}
          /\ position' = position /\ InTopic(fetched)
      BY <1>0, <2>2, CommitEffect
    <3>2. q \in Partitions /\ n \in 1..Len(topic[q])
      BY <1>0, <3>1, RecordFields
    <3>3. n \in Nat /\ n <= Len(topic[q])
      BY <3>2, <1>0, TopicGrows
    <3> HIDE DEF q, n
    <3> QED BY <1>0, <3>1, <3>2, <3>3
  <2>3. CASE position' = committed /\ committed' = committed
    BY <1>0, <2>3
  <2>4. CASE UNCHANGED <<position, committed>>
    BY <1>0, <2>4
  <2> QED
    BY <2>1, <2>2, <2>3, <2>4
       DEF Next, PushEvent, StartBatch, WriteBatch, DropBatch, DBWorker,
           Rebalance, Restart, vars, readerVars
<1>2. ASSUME NEW q \in Partitions
      PROVE  committed'[q] <= Len(topic'[q]) /\ position'[q] <= Len(topic'[q])
  <2>1. committed'[q] \in Nat /\ committed'[q] <= Len(topic[q])
    BY <1>1
  <2>2. position'[q] \in Nat /\ position'[q] <= Len(topic[q])
    BY <1>1
  <2>3. Len(topic[q]) \in Nat /\ Len(topic'[q]) \in Nat /\ Len(topic[q]) <= Len(topic'[q])
    BY <1>0, TopicGrows
  <2> QED BY <2>1, <2>2, <2>3
<1> QED BY <1>1, <1>2

\* Whatever happens, every variable stays in its set.
LEMMA TypeStep == IInv /\ [Next]_vars => TypeOK'
<1> SUFFICES ASSUME IInv, [Next]_vars PROVE TypeOK'
  OBVIOUS
<1>1. StoreTypeOK'
  BY StepIsStoreStep, StoreTypeStep DEF IInv
<1>2. /\ accepted' \in Seq(Events)
      /\ waiting' \in [Partitions -> Seq(DOMAIN accepted')]
      /\ batch' \in [Partitions -> Seq(DOMAIN accepted')]
      /\ topic' \in [Partitions -> Seq(DOMAIN accepted')]
  BY QueuesStep DEF IInv
<1>3. ParticipantRows' = ParticipantRows
  BY DEF ParticipantRows
<1> HIDE DEF ParticipantRows
<1> QED BY <1>1, <1>2, <1>3, RecordsStep, OffsetsStep DEF TypeOK

\* What is handed to the worker is a record of the topic.
LEMMA PlacedStep == IInv /\ [Next]_vars => Placed'
<1> SUFFICES ASSUME IInv, [Next]_vars, NEW s, Handled(s)' PROVE InTopic(s)'
  BY DEF Placed
<1>1. CASE Handled(s)
  BY <1>1, TopicGrows DEF IInv, Placed
<1>2. CASE ~ Handled(s)
  <2>1. ~ Written(s)' /\ worker' # "read" /\ s = source'
    BY <1>2, WrittenStep DEF Handled, IInv
  <2>2. s = fetched /\ CommitMessages
    <3>1. ~ (worker # "read" /\ source' = source)
      BY <1>2, <2>1 DEF Handled
    <3>2. ~ UNCHANGED storeVars
      BY <2>1, <3>1 DEF storeVars
    <3>3. CASE CommitMessages
      BY <3>2, <3>3, CommitEffect, <2>1 DEF IInv, Take
    <3>4. CASE DBWorker
      BY <2>1, <3>1, <3>4
         DEF DBWorker, Work, CreateMessage, InsertFailed,
             UpdateConversationLastMessage, MarkMessageAsRead, NextRecord
    <3>5. CASE Restart
      BY <2>1, <3>5 DEF Restart, NextRecord
    <3> QED
      BY <3>2, <3>3, <3>4, <3>5
         DEF Next, PushEvent, StartBatch, WriteBatch, DropBatch, FetchMessage,
             Rebalance, vars
  <2> QED BY <2>2, CommitEffect, TopicGrows DEF IInv
<1> QED BY <1>1, <1>2

\* A record is being committed while the worker waits for it; without a
\* rebalance fetching stays behind it.
LEMMA InReaderStep == IInv /\ [Next]_vars => InReader'
<1> SUFFICES ASSUME IInv, [Next]_vars PROVE InReader'
  OBVIOUS
<1> USE DEF IInv
<1>1. ASSUME NEW p \in Partitions, FetchMessage(p) PROVE InReader'
  <2>1. /\ position[p] \in Nat
        /\ position' = [position EXCEPT ![p] = position[p] + 1]
        /\ fetched' = <<p, position[p] + 1>>
    BY <1>1, FetchEffect
  <2>2. position'[p] = position[p] + 1
    BY <2>1 DEF TypeOK
  <2>3. worker' = "read"
    BY <1>1 DEF FetchMessage, storeVars
  <2> QED BY <2>1, <2>2, <2>3 DEF InReader
<1>2. CASE fetched' = None
  BY <1>2 DEF InReader
<1>3. CASE Rebalance
  <2>1. fetched' = fetched /\ worker' = worker
        /\ (fetched # None => fetched \in straddled')
    BY <1>3 DEF Rebalance, storeVars
  <2> QED BY <2>1 DEF InReader
<1>4. CASE DBWorker
  <2>1. worker # "read" /\ fetched' = fetched
    BY <1>4 DEF DBWorker, Work, CreateMessage, UpdateConversationLastMessage,
                MarkMessageAsRead, readerVars
  <2> QED BY <2>1 DEF InReader
<1>5. CASE UNCHANGED <<storeVars, readerVars, straddled>>
  BY <1>5 DEF InReader, storeVars, readerVars
<1> QED
  BY <1>1, <1>2, <1>3, <1>4, <1>5
     DEF Next, PushEvent, StartBatch, WriteBatch, DropBatch, CommitMessages,
         Restart, vars, historyVars

\* What is fetched lies behind what was handed over, a commit passes it, and
\* a rebalance or restart goes back to what is committed.
LEMMA SettledStays ==
  ASSUME IInv, [Next]_vars, NEW s, Handled(s)
  PROVE  Settled(s)'
<1> USE DEF IInv
<1> SUFFICES ASSUME s \notin straddled' PROVE Settled(s)'
  BY DEF Settled
<1>1. s[1] \in Partitions /\ s[2] \in Nat
  <2>1. InTopic(s)
    BY DEF Placed
  <2>2. s[1] \in Partitions /\ s[2] \in 1..Len(topic[s[1]])
    BY <2>1, RecordFields
  <2>3. Len(topic[s[1]]) \in Nat
    BY <2>2, TopicGrows
  <2> QED BY <2>2, <2>3
<1>2. s \notin straddled
  BY DEF Next, PushEvent, StartBatch, WriteBatch, DropBatch, FetchMessage,
         CommitMessages, DBWorker, Rebalance, Restart, vars, historyVars
<1>3. /\ s[2] <= committed[s[1]]
      /\ s[2] <= position[s[1]]
      /\ fetched # None /\ fetched[1] = s[1] => s[2] < fetched[2]
  BY <1>2 DEF AllSettled, Settled
<1>4. committed \in [Partitions -> Nat] /\ position \in [Partitions -> Nat]
  BY DEF TypeOK
<1>5. ASSUME NEW p \in Partitions, FetchMessage(p) PROVE Settled(s)'
  <2> DEFINE n == position[p] + 1
  <2>1. /\ position' = [position EXCEPT ![p] = n]
        /\ fetched' = <<p, n>> /\ committed' = committed
    BY <1>5, FetchEffect
  <2>2. n \in Nat /\ (p = s[1] => s[2] < n)
    BY <1>1, <1>3, <1>4
  <2> HIDE DEF n
  <2>3. s[2] <= position'[s[1]]
    BY <1>1, <1>3, <1>4, <2>1, <2>2
  <2>4. fetched'[1] = s[1] => s[2] < fetched'[2]
    BY <2>1, <2>2
  <2> QED BY <1>3, <2>1, <2>3, <2>4 DEF Settled
<1>6. CASE CommitMessages
  <2> DEFINE q == fetched[1]
             n == fetched[2]
  <2>1. /\ committed' \in {committed, [committed EXCEPT ![q] = n]}
        /\ fetched' = None /\ position' = position
    BY <1>6, CommitEffect
  <2>2. fetched # None
    BY <1>6 DEF CommitMessages
  <2>3. q \in Partitions /\ n \in Nat /\ (q = s[1] => s[2] < n)
    <3>1. InTopic(fetched)
      BY <2>2 DEF TypeOK
    <3>2. q \in Partitions /\ n \in 1..Len(topic[q])
      BY <3>1, RecordFields
    <3>3. Len(topic[q]) \in Nat
      BY <3>2, TopicGrows
    <3> QED BY <1>3, <2>2, <3>2, <3>3
  <2> HIDE DEF q, n
  <2>4. s[2] <= committed'[s[1]]
    BY <1>1, <1>3, <1>4, <2>1, <2>3
  <2> QED BY <1>3, <2>1, <2>4 DEF Settled
<1>7. CASE position' = committed /\ committed' = committed /\ fetched' \in {None, fetched}
  BY <1>3, <1>7 DEF Settled
<1>8. CASE UNCHANGED readerVars
  BY <1>3, <1>8 DEF Settled, readerVars
<1> QED
  BY <1>5, <1>6, <1>7, <1>8
     DEF Next, PushEvent, StartBatch, WriteBatch, DropBatch, DBWorker,
         Rebalance, Restart, vars

\* The record in hand comes from the reader, which has committed it, or was in
\* hand before.
LEMMA HandStep ==
  ASSUME IInv, [Next]_vars, worker' # "read"
  PROVE  \/ /\ worker # "read" /\ source' = source
            /\ worker' \in {"insert", "mark"} => worker' = worker
         \/ /\ CommitMessages /\ source' = fetched
            /\ Take(Record(fetched), fetched)
            /\ committed' = [committed EXCEPT ![fetched[1]] = fetched[2]]
            /\ UNCHANGED <<accepted, topic, messages, setBy, straddled, position>>
<1> USE DEF IInv
<1>1. CASE CommitMessages
  <2>1. fetched # None /\ worker = "read"
    BY <1>1 DEF CommitMessages, InReader
  <2>2. ~ UNCHANGED storeVars
    BY <2>1 DEF storeVars
  <2>3. /\ UNCHANGED <<accepted, topic, setBy, straddled, position>>
        /\ committed' = [committed EXCEPT ![fetched[1]] = fetched[2]]
        /\ Take(Record(fetched), fetched)
    BY <1>1, <2>2, CommitEffect
  <2>4. source' = fetched /\ messages' = messages
    BY <2>3 DEF Take, tables
  <2> QED BY <1>1, <2>3, <2>4
<1>2. CASE DBWorker
  BY <1>2 DEF DBWorker, Work, CreateMessage, InsertFailed,
              UpdateConversationLastMessage, MarkMessageAsRead, NextRecord
<1>3. CASE Restart
  BY <1>3 DEF Restart, NextRecord
<1>4. CASE UNCHANGED storeVars
  BY <1>4 DEF storeVars, tables
<1> QED
  BY <1>1, <1>2, <1>3, <1>4
     DEF Next, PushEvent, StartBatch, WriteBatch, DropBatch, FetchMessage,
         Rebalance, vars

\* What is handed over is settled.
LEMMA AllSettledStep == IInv /\ [Next]_vars => AllSettled'
<1> SUFFICES ASSUME IInv, [Next]_vars, NEW s, Handled(s)' PROVE Settled(s)'
  BY DEF AllSettled
<1>1. CASE Handled(s)
  BY <1>1, SettledStays
<1>2. CASE ~ Handled(s)
  <2>1. ~ Written(s)' /\ worker' # "read" /\ s = source'
    BY <1>2, WrittenStep DEF Handled, IInv
  <2>2. ~ (worker # "read" /\ source' = source)
    BY <1>2, <2>1 DEF Handled
  <2>3. /\ CommitMessages /\ s = fetched
        /\ committed' = [committed EXCEPT ![fetched[1]] = fetched[2]]
        /\ UNCHANGED <<straddled, position>>
    BY <2>1, <2>2, HandStep
  <2>4. InTopic(fetched) /\ fetched' = None /\ fetched # None
    BY <2>3, CommitEffect DEF IInv, CommitMessages
  <2>5. fetched[1] \in Partitions /\ fetched[2] \in Nat
    <3>1. fetched[1] \in Partitions /\ fetched[2] \in 1..Len(topic[fetched[1]])
      BY <2>4, RecordFields DEF IInv
    <3>2. Len(topic[fetched[1]]) \in Nat
      BY <3>1, TopicGrows DEF IInv
    <3> QED BY <3>1, <3>2
  <2>6. committed'[fetched[1]] = fetched[2]
    BY <2>3, <2>5 DEF IInv, TypeOK
  <2>7. fetched \in straddled \/ fetched[2] <= position[fetched[1]]
    BY <2>4 DEF IInv, InReader
  <2> QED BY <2>3, <2>4, <2>5, <2>6, <2>7 DEF Settled
<1> QED BY <1>1, <1>2

\* The record handed over next is behind all that are written.
LEMMA AheadStep == IInv /\ [Next]_vars => Ahead'
<1> SUFFICES ASSUME IInv, [Next]_vars, worker' \in {"insert", "mark"},
                    NEW s, Written(s)', s[1] = source'[1], s \notin straddled'
             PROVE  s[2] < source'[2]
  BY DEF Ahead
<1> USE DEF IInv
<1>0. s \notin straddled
  BY DEF Next, PushEvent, StartBatch, WriteBatch, DropBatch, FetchMessage,
         CommitMessages, DBWorker, Rebalance, Restart, vars, historyVars
<1>1. Written(s)
  BY WrittenStep
<1>2. CASE worker \in {"insert", "mark"} /\ source' = source
  BY <1>0, <1>1, <1>2 DEF Ahead
<1>3. CASE CommitMessages /\ source' = fetched
  BY <1>0, <1>1, <1>3 DEF AllSettled, Settled, Handled, CommitMessages
<1> QED BY <1>2, <1>3, HandStep

\* The row that a step adds has the highest id and comes behind every row of
\* its partition whose commit straddled no rebalance.
LEMMA OrderStep == IInv /\ [Next]_vars => WrittenOnce' /\ PartitionOrder'
<1> SUFFICES ASSUME IInv, [Next]_vars PROVE WrittenOnce' /\ PartitionOrder'
  OBVIOUS
<1> USE DEF IInv
<1>0. straddled \subseteq straddled'
  BY DEF Next, PushEvent, StartBatch, WriteBatch, DropBatch, FetchMessage,
         CommitMessages, DBWorker, Rebalance, Restart, vars, historyVars
<1>1. CASE messages' = messages
  BY <1>0, <1>1 DEF WrittenOnce, PartitionOrder
<1>2. CASE messages' # messages
  <2> DEFINE row == [id |-> messageSeq + 1, conv |-> job.conv,
                     sender |-> job.from, source |-> source]
  <2>1. /\ worker = "insert"
        /\ messages' = messages \cup {row}
        /\ \A m \in messages : m.id \in Nat /\ m.id < row.id
    BY <1>2, StepIsStoreStep, RowsStep
  <2>2. row.source = source /\ row.id \in Nat
    BY DEF StoreInv, StoreTypeOK
  <2>3. ASSUME NEW m \in messages, m.source[1] = row.source[1]
        PROVE  /\ m.source[2] \in Nat /\ row.source[2] \in Nat
               /\ m.source[2] < row.source[2] \/ m.source \in straddled
    <3>1. Written(m.source) /\ Handled(m.source) /\ Handled(source)
      BY <2>1 DEF Written, Handled
    <3>2. InTopic(m.source) /\ InTopic(source)
      BY <3>1 DEF Placed
    <3>3. m.source[2] \in Nat /\ source[2] \in Nat
      BY <3>2 DEF InTopic
    <3> QED BY <2>1, <2>2, <2>3, <3>1, <3>3 DEF Ahead
  <2> HIDE DEF row
  <2>4. ASSUME NEW m \in messages', NEW n \in messages', m.source = n.source
        PROVE  m = n \/ m.source \in straddled'
    <3>1. CASE m \in messages /\ n \in messages
      BY <1>0, <2>4, <3>1 DEF WrittenOnce
    <3>2. CASE m \in messages /\ n = row
      BY <1>0, <2>3, <2>4, <3>2
    <3>3. CASE m = row /\ n \in messages
      BY <1>0, <2>3, <2>4, <3>3
    <3> QED BY <2>1, <3>1, <3>2, <3>3
  <2>5. ASSUME NEW m \in messages', NEW n \in messages',
               m.source[1] = n.source[1], m.id < n.id
        PROVE  m.source[2] <= n.source[2] \/ m.source \in straddled'
    <3>1. CASE m \in messages /\ n \in messages
      BY <1>0, <2>5, <3>1 DEF PartitionOrder
    <3>2. CASE n = row /\ m \in messages
      BY <1>0, <2>3, <2>5, <3>2
    <3>3. CASE m = row
      BY <2>1, <2>2, <2>5, <3>3
    <3> QED BY <2>1, <3>1, <3>2, <3>3
  <2> QED BY <2>4, <2>5 DEF WrittenOnce, PartitionOrder
<1> QED BY <1>1, <1>2

-----------------------------------------------------------------------------
(* The theorems *)

\* The invariant the others follow from.
LEMMA InvStep == IInv /\ [Next]_vars => IInv'
<1> SUFFICES ASSUME IInv, [Next]_vars PROVE IInv'
  OBVIOUS
<1>1. StoreInv'
  BY StepIsStoreStep, StoreInvStep DEF IInv
<1> QED
  BY <1>1, TypeStep, InReaderStep, PlacedStep, AllSettledStep, AheadStep, OrderStep
     DEF IInv

THEOREM Inductive == Spec => []IInv
BY InitInv, InvStep, PTL DEF Spec

\* Every variable stays in its set; above all nothing is committed or fetched
\* that is not in the topic.
THEOREM TypeCorrect == Spec => []TypeOK
BY Inductive, PTL DEF IInv

\* A record becomes two rows only if the group was rebalanced while its commit
\* was under way (dbworker.go:29-33 and 71-75).
THEOREM WrittenOnceAlways == Spec => []WrittenOnce
BY Inductive, PTL DEF IInv

\* The rows of a partition are numbered in the order of its records, whatever
\* stops, restarts or fails, but for those whose commit straddled a rebalance
\* (dbworker.go:28-75, chat.sql.go:182).
THEOREM PartitionOrderAlways == Spec => []PartitionOrder
BY Inductive, PTL DEF IInv

\* The pointer to a conversation's last message only ever moves to the newest
\* message of that conversation (dbworker.go:71-85).
THEOREM LastMessageIsNewestAlways == Spec => LastMessageIsNewest
<1> DEFINE Newest ==
      \A v \in Convs :
        lastMessage'[v] # lastMessage[v]
          => lastMessage'[v] \in MessageIds(v)
             /\ \A i \in MessageIds(v) : i <= lastMessage'[v]
<1>1. IInv /\ [Next]_vars => Newest
  BY StepIsStoreStep, NewestStep DEF IInv
<1>2. UNCHANGED vars => UNCHANGED storeVars
  BY DEF vars
<1> QED BY Inductive, <1>1, <1>2, PTL DEF Spec, LastMessageIsNewest
=============================================================================
