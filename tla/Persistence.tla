----------------------------- MODULE Persistence -----------------------------
(***************************************************************************)
(* From the hub to the message table: the asynchronous Kafka writer of     *)
(* internal/broker, the persistence topic, and the consumer that feeds the *)
(* database worker of internal/worker (module ChatStore).                  *)
(*                                                                         *)
(* kafka-go is not part of the repository; it is modelled as the code      *)
(* configures it.  The writer has Async set, so WriteMessages only queues, *)
(* and its LeastBytes balancer picks a partition by load, not by key.  A   *)
(* background goroutine per partition sends batches, repeats one when its  *)
(* answer does not come and finally drops it without telling anybody.  The *)
(* reader has a GroupID, so ReadMessage fetches a record, commits its      *)
(* offset and then returns it.  The commit is a request of its own, served *)
(* by whatever generation of the group is current: when the group is       *)
(* rebalanced in between, the new generation first starts at the old       *)
(* committed offset, and then acknowledges the commit.                     *)
(*                                                                         *)
(* Hub and worker run in one process.  When it stops, what the writer has  *)
(* not sent and the record the reader or worker has are gone; topic,       *)
(* committed offsets and tables stay.                                      *)
(***************************************************************************)
EXTENDS ChatStore, Sequences

CONSTANTS
  Partitions,   \* partitions of the persistence topic
  MaxEvents,    \* bound: events pushed
  MaxResends,   \* bound: batches whose answer is lost
  MaxRestarts   \* bound: stops of the process and rebalances of the group

ASSUME BoundsAssumption ==
  MaxEvents \in Nat /\ MaxResends \in Nat /\ MaxRestarts \in Nat

VARIABLES
  accepted,   \* events WriteMessages accepted, in the order of the hub
  waiting,    \* per partition, positions in accepted not sent yet
  batch,      \* per partition, the batch being sent
  topic,      \* per partition, its records: positions in accepted
  committed,  \* per partition, the offset the group has committed
  position,   \* per partition, the offset of the last record fetched
  fetched,    \* the record ReadMessage has fetched and is committing
  resends,
  restarts

\* History variables, which no action reads.
VARIABLES
  straddled,  \* records in fetched when the group was rebalanced
  setBy       \* per reading pointer, the record of the mark it is from

writerVars == <<accepted, waiting, batch, resends>>
readerVars == <<committed, position, fetched>>
historyVars == <<straddled, setBy>>
vars == <<storeVars, writerVars, topic, readerVars, restarts, historyVars>>

\* A record is named by its partition and offset; this is what it holds.
Pushed(s) == topic[s[1]][s[2]]
Record(s) == accepted[Pushed(s)]

InTopic(s) == \E p \in Partitions : \E o \in 1..Len(topic[p]) : s = <<p, o>>

TypeOK ==
  /\ StoreTypeOK
  /\ accepted \in Seq(Events)
  /\ waiting \in [Partitions -> Seq(DOMAIN accepted)]
  /\ batch \in [Partitions -> Seq(DOMAIN accepted)]
  /\ topic \in [Partitions -> Seq(DOMAIN accepted)]
  /\ committed \in [Partitions -> Nat]
  /\ position \in [Partitions -> Nat]
  /\ \A p \in Partitions : /\ committed[p] <= Len(topic[p])
                          /\ position[p] <= Len(topic[p])
  /\ fetched # None => InTopic(fetched)
  /\ resends \in 0..MaxResends
  /\ restarts \in 0..MaxRestarts
  /\ \A s \in straddled : InTopic(s)
  /\ setBy = [r \in ParticipantRows |-> setBy[r]]
  /\ \A r \in ParticipantRows : setBy[r] # None => InTopic(setBy[r])

Init ==
  /\ StoreInit
  /\ accepted = <<>>
  /\ waiting = [p \in Partitions |-> <<>>]
  /\ batch = [p \in Partitions |-> <<>>]
  /\ topic = [p \in Partitions |-> <<>>]
  /\ committed = [p \in Partitions |-> 0]
  /\ position = [p \in Partitions |-> 0]
  /\ fetched = None
  /\ resends = 0
  /\ restarts = 0
  /\ straddled = {}
  /\ setBy = [r \in ParticipantRows |-> None]

-----------------------------------------------------------------------------
(* The writer *)

PushEvent(p) ==
  /\ Len(accepted) < MaxEvents
  /\ \E e \in Events : accepted' = Append(accepted, e)
  /\ waiting' = [waiting EXCEPT ![p] = Append(@, Len(accepted) + 1)]
  /\ UNCHANGED <<storeVars, batch, resends, topic, readerVars, restarts,
                 historyVars>>

\* What has been queued so far, or a first part of it, makes up a batch.
StartBatch(p) ==
  /\ batch[p] = <<>>
  /\ \E n \in 1..Len(waiting[p]) :
       /\ batch' = [batch EXCEPT ![p] = SubSeq(waiting[p], 1, n)]
       /\ waiting' = [waiting EXCEPT ![p] = SubSeq(@, n + 1, Len(@))]
  /\ UNCHANGED <<storeVars, accepted, resends, topic, readerVars, restarts,
                 historyVars>>

\* The broker appends the batch; when its answer is lost the batch stays to
\* be sent again.
WriteBatch(p) ==
  /\ batch[p] # <<>>
  /\ topic' = [topic EXCEPT ![p] = @ \o batch[p]]
  /\ \/ /\ batch' = [batch EXCEPT ![p] = <<>>]
        /\ UNCHANGED resends
     \/ /\ resends < MaxResends
        /\ resends' = resends + 1
        /\ UNCHANGED batch
  /\ UNCHANGED <<storeVars, accepted, waiting, readerVars, restarts,
                 historyVars>>

\* The last attempt has failed.
DropBatch(p) ==
  /\ batch[p] # <<>>
  /\ batch' = [batch EXCEPT ![p] = <<>>]
  /\ UNCHANGED <<storeVars, accepted, waiting, resends, topic, readerVars,
                 restarts, historyVars>>

-----------------------------------------------------------------------------
(* The reader and the process *)

\* The next record of a partition is fetched.
FetchMessage(p) ==
  /\ worker = "read"
  /\ fetched = None
  /\ position[p] < Len(topic[p])
  /\ position' = [position EXCEPT ![p] = @ + 1]
  /\ fetched' = <<p, position[p] + 1>>
  /\ UNCHANGED <<storeVars, writerVars, topic, committed, restarts, historyVars>>

\* Mutant: a record is processed although its commit failed.
ReturnedAnyway(acked) == TRUE

\* ReadMessage returns a record only when its commit was acknowledged, and an
\* error otherwise, upon which the worker goes on with the next record.
Returned(acked) == acked

\* The offset is committed, unless the commit fails or its answer is lost.
CommitMessages ==
  /\ fetched # None
  /\ LET commit == [committed EXCEPT ![fetched[1]] = fetched[2]]
     IN  \E acked \in BOOLEAN :
           /\ committed' \in {commit} \cup IF acked THEN {} ELSE {committed}
           /\ IF Returned(acked) THEN Take(Record(fetched), fetched)
                                 ELSE UNCHANGED storeVars
  /\ fetched' = None
  /\ UNCHANGED <<writerVars, topic, position, restarts, historyVars>>

\* The group is rebalanced: fetching starts at the committed offsets again,
\* the commit that is under way stays under way.
Rebalance ==
  /\ restarts < MaxRestarts
  /\ restarts' = restarts + 1
  /\ position' = committed
  /\ straddled' = straddled \cup ({fetched} \ {None})
  /\ UNCHANGED <<storeVars, writerVars, topic, committed, fetched, setBy>>

\* The process stops at any point and is started again.
Restart ==
  /\ restarts < MaxRestarts
  /\ restarts' = restarts + 1
  /\ waiting' = [p \in Partitions |-> <<>>]
  /\ batch' = [p \in Partitions |-> <<>>]
  /\ position' = committed
  /\ fetched' = None
  /\ NextRecord
  /\ UNCHANGED <<tables, accepted, resends, topic, committed, historyVars>>

-----------------------------------------------------------------------------

DBWorker ==
  /\ Work
  /\ setBy' = [r \in ParticipantRows |->
                IF lastRead'[r] # lastRead[r] THEN source ELSE setBy[r]]
  /\ UNCHANGED <<writerVars, topic, readerVars, restarts, straddled>>

Next ==
  \/ \E p \in Partitions : \/ PushEvent(p) \/ StartBatch(p)
                           \/ WriteBatch(p) \/ DropBatch(p)
                           \/ FetchMessage(p)
  \/ CommitMessages
  \/ DBWorker
  \/ Rebalance
  \/ Restart

Spec == Init /\ [][Next]_vars

(* The worker's loop never waits for anything but the next record, every    *)
(* statement and commit returns, and the fetchers of all partitions feed    *)
(* one queue.                                                               *)
Fairness ==
  /\ WF_vars(DBWorker)
  /\ WF_vars(CommitMessages)
  /\ \A p \in Partitions : SF_vars(FetchMessage(p))

FairSpec == Spec /\ Fairness

-----------------------------------------------------------------------------
(* Properties *)

\* A record of the topic becomes two rows only if the group was rebalanced
\* while its commit was under way, wherever else the process stops, a commit
\* fails or the group is rebalanced: the offset is committed before the record
\* is processed, and a record whose commit failed is not processed
\* (dbworker.go:29-33 and 71-75).
WrittenOnce ==
  \A m, n \in messages :
    m.source = n.source => m = n \/ m.source \in straddled

\* Within a partition the rows that follow a row come from no earlier record,
\* unless that row's commit straddled a rebalance, across restarts, failed
\* commits and failed inserts: history is ordered by id (chat.sql.go:182), so
\* it shows a partition's messages in topic order.
PartitionOrder ==
  \A m, n \in messages :
    m.source[1] = n.source[1] /\ m.id < n.id
      => m.source[2] <= n.source[2] \/ m.source \in straddled

\* A record that is neither a repetition of an earlier one in its partition,
\* from a batch sent again, nor was fetched before a rebalance and committed
\* after it.
FirstCopy(s) == \A o \in 1..(s[2] - 1) : topic[s[1]][o] # Pushed(s)
Clean(s) == FirstCopy(s) /\ s \notin straddled

\* The rows of a partition from such records, in the order of their ids, each
\* as what was pushed: the i-th row is the one with i rows up to it.
CleanRows(p) == {m \in messages : m.source[1] = p /\ Clean(m.source)}
Rank(rows, m) == Cardinality({n \in rows : n.id <= m.id})
Nth(rows, i) == CHOOSE m \in rows : Rank(rows, m) = i
InOrder(rows) ==
  [i \in 1..Cardinality(rows) |-> Pushed(Nth(rows, i).source)]
Stored == [p \in Partitions |-> InOrder(CleanRows(p))]

\* For each partition the rows from such records are a log of what the hub
\* pushed to it, in the hub's order and without repetition, whatever is lost
\* and whatever other rows lie between them (hub.go:88-89, dbworker.go:28-75).
Log == INSTANCE MessageLog WITH pushed <- accepted, stored <- Stored
ImplementsLog == Log!Spec

\* A reading pointer changes only by a mark that was pushed after the one it
\* is from, as long as both come from such records of one partition: a reader
\* whose marks go forward does not see the pointer go back by a restart, a
\* rebalance, a failed commit or a batch sent again (dbworker.go:41-46).
LaterMarkWins ==
  [][\A r \in ParticipantRows :
       /\ lastRead'[r] # lastRead[r]
       /\ setBy[r] # None
       /\ setBy[r][1] = source[1]
       /\ Clean(setBy[r]) /\ Clean(source)
       => Pushed(setBy[r]) < Pushed(source)]_vars

\* No record blocks the worker: whatever fails while a record is processed,
\* the ones behind it are taken (the continue statements of dbworker.go).
TopicDrains ==
  \A p \in Partitions : \A k \in 1..(MaxEvents * (1 + MaxResends)) :
    Len(topic[p]) >= k ~> position[p] >= k
=============================================================================
