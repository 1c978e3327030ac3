# CoreChain Communication: TLA+ models, checks and proofs

This directory holds a verification project for the CoreChain communication
service (Go): a WebSocket chat with a Kafka-fed message store, a REST API for
conversations and messages, and video meetings on LiveKit. It contains TLA+
modules translated from the Go source and the SQL it runs, TLC configurations
that check them on small instances, and TLAPS proofs of every safety property
the passing runs check, for instances of every size.

Paths below are relative to `src/internal/` unless they start with `src/`.

## 1. The system

One process (`src/cmd/main.go`) runs an HTTP server, the hub goroutine and the
database worker. PostgreSQL, Redis, Kafka, MinIO, LiveKit and a user service
are outside of it.

```
 peer <-ws-> ReadPump --broadcast--> Hub.Run --+--> Client.Send --> WritePump <-ws-> peer
             (register, unregister)   |        +--> notification topic (Kafka)
                                      |        +--> participants: Redis, else PostgreSQL
                                      +--> persistence topic (Kafka)
                                                    |
                                           StartDBWorker --> PostgreSQL <-- REST handlers
```

| Component | State it keeps | Operations | What is hard | What makes it correct |
|---|---|---|---|---|
| Chat hub (`chat/hub.go`) | table user -> connection; three unbuffered channels | register, unregister, broadcast; delivery to each participant | one goroutine serves everybody and itself sends on its own channel; connections of one user overlap | no send on, or second close of, a closed channel; a replaced connection stays out; at-most-once ordered delivery; everybody waiting is served |
| Connections (`chat/client.go`, `chat/handler.go` ServeWS) | `Send` (256), the socket, two goroutines | ServeWS, ReadPump, WritePump | the pumps learn of each other's end only through the socket; read, write and pong deadlines | both pumps end, the connection unregisters |
| Producer, topic, worker (`broker/kafka.go`, `worker/dbworker.go`) | queue of the asynchronous writer, topic, committed offsets | PushEvent, fetch and commit (ReadMessage), insert, update, mark | loss, resending, several partitions, commit before processing, a rebalance between fetch and commit, restart anywhere, two transactions per message | what may be stored twice or out of order in a partition, a later mark wins, no record blocks the rest |
| Chat tables (`db/chat.sql.go`, migrations) | conversations, participants, messages | the queries | read while written | pages complete, a detail does not contradict itself, the two unread counts agree |
| REST reading (`chat/service.go`, `chat/handler.go`) | none | list conversations, messages, detail, unread count | paging with `before_id` and `offset` between writes; one answer put together from several reads | see above and below |
| Private conversations (`chat/service.go:75-127`) | rows of conversations and participants | get or create | racing calls, failing statements | both users take part, never a half-made conversation |
| Participants cache (`db/redis.go:58-69`) | a Redis set per conversation | SMEMBERS; DEL then SADD | two commands, either may fail; filled by a lookup that may precede the commit | never stale or partial |
| Meetings (`meeting/`) | meetings, meeting_invites, LiveKit rooms | create, join, end, list | a retry loop in a transaction, reads used after they are stale, room and row updated separately | invites complete, host first, ended once, what is listed can be joined |
| Authentication (`middleware/withAuth.go`, `chat/handler.go:213`) | none | token to claims | two readers of one claim, and a test that signs another | the user of the token is the user of the request |
| User client (`client/user.go`) | none | fetch one user, fetch many in parallel | goroutines sharing a map and a counter; the same id fetched twice; failures | no race on the map, one name per person, every name that was fetched, an answer in the end |
| Storage, configuration, CORS, migration runner | - | I/O | - | not modelled |

How they interact: the hub reads `participants` through the cache and writes
only to Kafka; the worker is the only writer of `messages`,
`conversations.last_message_id` and `participants.last_read_message_id`;
`GetOrCreatePrivateConversation` is the only writer of conversations and
participants, so a conversation and its two rows exist, unchanged, before any
message in it can be stored. This is why `ChatStore` takes conversations and
participants as constants and `Conversations` leaves messages out.

`PROJECT.json` lists the hazards (what is hard to test, at its line) with the
properties that cover each; section 3 explains the properties module by module.

## 2. Modules

| Module | Models | Extends / instance |
|---|---|---|
| `OrderedDelivery` | the abstract promise of the hub | - |
| `Hub` | hub goroutine, ServeWS, both pumps | `INSTANCE OrderedDelivery` (refinement) |
| `HubProofs` | theorems about `Hub` | `Hub`, TLAPS |
| `ChatStore` | chat tables, database worker, queries | - |
| `ChatStoreProofs` | lemmas about one step of the worker | `ChatStore`, TLAPS |
| `MessageLog` | the abstract promise of the way from hub to message table, a log per partition | - |
| `Persistence` | Kafka writer, topic, consumer, restarts | `ChatStore`; `INSTANCE MessageLog` (refinement) |
| `PersistenceProofs` | theorems about `Persistence` | `Persistence`, `ChatStoreProofs` |
| `PersistenceOrderProofs` | the refinement of `MessageLog`, and the reading pointer | `PersistenceProofs` |
| `History` | clients paging over REST while the worker writes | `ChatStore` |
| `HistoryProofs` | theorems about `History` | `History`, `ChatStoreProofs` |
| `Conversations` | get-or-create and the participants lookup with its cache | - |
| `ConversationsProofs` | theorems about `Conversations` | `Conversations`, TLAPS |
| `Meetings` | create, join, end, list | - |
| `MeetingsProofs` | theorems about `Meetings` | `Meetings`, TLAPS |
| `RestApi` | one request that reads conversations: authentication, queries, fan-out of name fetches, answer | - |
| `RestApiProofs` | theorems about `RestApi` | `RestApi`, TLAPS |
| `MC...` | constants for TLC | the module they instantiate |

Every module ends with its properties, each with a comment. Definitions headed
`Mutant:` are not part of a specification: each is the definition below it with
a plausible bug, and `PROJECT.json` names the property that TLC finds violated
when it takes that definition's place.

### Hub and OrderedDelivery

State: `clients` is `Hub.clients`; `hub` and `todo` are where `Run` /
`handleMessageDelivery` is and the participants its loop has left; `log` is the
sequence of frames taken from `broadcast`; `produced` and `pushed` are what was
handed to the two Kafka topics; per connection, `pc` is where ServeWS and then
ReadPump is, `writer` where WritePump is, `open` the socket, `closed` whether
`Send` is closed. `Send` is the sequence of everything ever put into it
(`queued`) with a count of what was taken out (`popped`), so that "who was
handed what" stays visible.

Actions: `Upgrade`, `StartPumps` (ServeWS); `ReadFrame`, `ReadError`,
`CloseConn` (ReadPump); `WriteFrame`, `WriteError`, `WriteClose` (WritePump);
`HubRegister`, `HubUnregister`, `HubReceive` (the three cases of the select,
each a rendezvous on an unbuffered channel); `HubPersist`, `HubResolve`,
`DeliverOnline`, `DeliverOffline`, `DeliverFull`, `DeliverDone` (the steps of
`handleMessageDelivery`). Pumps interleave with every one of them.
The hub's mutex is never contended (only the hub goroutine takes it) and is left
out. `DeliverFull` is the `default` case: the hub stays in
`h.unregister <- client` for ever, so `hub = "blocked"` has no successor.

`OrderedDelivery` says what this amounts to: one global order of frames, each
handed at most once to each participant of its conversation, by one connection
or one notification, the author never by a notification. The refinement mapping
is `order <- log, inbox <- queued, notified <- pushed`.

Properties: `NoChannelPanic`, `NeverReinstated`, `ImplementsDelivery`,
`AllOrNobody` (safety; the last one is what `OrderedDelivery` leaves open: a
frame passes over no participant but its author, or the lookup gave nobody and
it reaches nobody); `HubServes`, `PumpsEndTogether` (liveness, both "or the hub
has blocked"), `QueueDrains` (liveness: what was queued for a connection is
written unless its pump has ended, also for connections that were replaced);
`PongWaitEnds`, `DisconnectedIsOffline` (violated, see section 5).

### ChatStore, Persistence, History

`ChatStore` has one variable per column that matters (`messages`,
`lastMessage`, `lastRead`, the id sequence) and the worker's place in its loop
(`worker`, `job`, `source`). `CreateMessage`, `UpdateConversationLastMessage`
and `MarkMessageAsRead` are one transaction each; each may fail without effect,
and may commit although the worker is told of an error. The queries are
operators over the tables.

`Persistence` puts Kafka in front: `PushEvent` queues an event at any partition
(LeastBytes ignores the key); `StartBatch`, `WriteBatch` (whose answer may get
lost, so that the batch is sent again) and `DropBatch` are kafka-go's background
goroutines. `ReadMessage` of kafka-go is two steps: `FetchMessage` takes the next
record of a partition, `CommitMessages` commits its offset and hands the record
to the worker only if the commit was acknowledged (a commit may also take effect
with its answer lost). `Rebalance` goes back to the committed offsets and may
fall between the two; the commit then reaches the new generation, which has
already started from the old offset. `Restart` also forgets the queue, the
batches and the record in hand.

What that means for the table took some care, because the natural statements
are false. A record whose commit straddled a rebalance is fetched again and
becomes two rows. If the commits of some records before it had failed, the new
generation reads those first, so the second row is not even next to the first:
fetch 1, its commit fails; fetch 2; rebalance; the commit of 2 is acknowledged
and its row inserted; record 1 is read again and its row comes after that of
record 2. `straddled` (a history variable) holds the records that were fetched
when a rebalance came, and the properties say that nothing else goes wrong:

* `WrittenOnce`: only a straddled record becomes two rows.
* `PartitionOrder`: in a partition, only a straddled record's row is followed by
  one of an earlier record.
* `ImplementsLog`, a refinement. A record is `Clean` if no rebalance straddled
  its commit and it is not a second copy from a batch sent twice. For each
  partition the rows of clean records, in id order and read back as positions in
  `accepted` (`Stored`: the i-th row is the one with i rows up to it, `Rank`),
  are a log of `MessageLog`, where a pushed message may be stored once, in one
  log, and never after a later one of the same log. Whatever other rows lie
  between them does not matter.
* `LaterMarkWins`: a reading pointer that a clean mark set is changed by a clean
  mark of the same partition only if that one was pushed later (`setBy`, a
  history variable, is the mark a pointer is from).
* `LastMessageIsNewest` and, under fairness, `TopicDrains`.

Across partitions nothing keeps an order, neither of messages nor of marks, and
none of the properties says so. `Hub` relates what participants are handed to
the order `accepted` is in, so live delivery and history agree on the order of
two clean messages of one partition.

`History` adds three clients: one asks for pages of messages with `before_id`,
one for pages of conversations with `offset`, and one opens a conversation
(`ReadConversation`, then `ReadRecent`, two statements of one request), while
the worker processes any events. `HistoryComplete`: each message there was at
the start is shown exactly once. `QuietNotSkipped`: no conversation without a
new message is skipped. `DetailConsistent`: the last message in the header of a
conversation is among the messages shown, or all of those are newer.
`UnreadAgrees`: the total equals the sum of the list's counts.

### Conversations

Each call of `GetOrCreatePrivateConversation` goes through its statements one
action at a time; its inserts become visible with `CommitConversation`. The
lookup of the hub (`GetCachedParticipants`, `ListParticipants`, `CacheDel`,
`CacheAdd`) runs next to them for any conversation id, because the id comes out
of a frame. `BothTakePart`, `TwoMembers`, `CacheCoherent`. The last one is what
allows `Hub!HubResolve` to yield the participants or nobody.

### Meetings

Each call goes through its statements one action at a time. `CreateMeeting` is
one transaction: `InsertMeeting` is a round of the retry loop (`aborted` once a
statement has failed), `AddMeetingInvite` an invite, then `CommitMeeting` or
`RollbackMeeting`. `JoinMeeting`: `FindMeeting`, `CheckJoinPermission` (by room
name only), `CheckStart`, `ActivateMeeting`, `GenerateToken`. `EndMeeting`:
`EndUpdate`, `DeleteRoom`. `Start` is time passing a meeting's start_time.
`InvitesComplete`, `EndIsFinal` (an ended, inactive meeting
stays so unless a join of its host straddled the end), `EndedOnce`, `HostFirst`;
`RetriesHelp` (violated). `ListMyMeetings` only reads and is an operator, with
the rows of its LEFT JOIN as they are; `ListedIsJoinable` compares it with the
query that decides who may join.

### RestApi

One request, since requests share nothing in the process. `WithAuth`;
`ListConversations` or `GetConversation` (the queries, which fix the ids to
fetch and the people the answer will mention); `Spawn`, once per id; per
goroutine `GetSingleUser`, `Lock`, `Write`, `Unlock`, `Done`; `Wait`; `Build`,
one lookup of a name at a time. `Rename` is the user service: a name is a
version number. A page is the set of conversations a list may hold: nothing the
answer says of people depends on their order, so `ListIds` and `ListMentions` go
through it in any order. `NoMapRace`, `OnePersonOneName`, `NamedWhenFetched`, `Returns`;
`TestedClaim` (violated). `HandleGetOrCreatePrivateConv` ends with the same
`GetConversation`.

## 3. Runs

| Run | Instance | Checks | Distinct states |
|---|---|---|---|
| `MCHub` | c1, c2 of u1, c3 of u2; capacity 1; 2 frames; symmetric c1, c2 | TypeOK, NoChannelPanic, NeverReinstated, AllOrNobody, ImplementsDelivery | 1.3 million |
| `MCHubLive` | two connections of u1, u2 offline; 2 frames | HubServes, PumpsEndTogether, QueueDrains | 54 thousand |
| `MCHubPong` | as `MCHubLive` | PongWaitEnds: violated | - |
| `MCHubReconnect` | as `MCHubLive` | DisconnectedIsOffline: violated | - |
| `MCPersistence` | 2 partitions (symmetric), 2 conversations and an unknown one, 2 events, 1 resend, 2 restarts or rebalances | TypeOK, WrittenOnce, PartitionOrder, LastMessageIsNewest, ImplementsLog | 1.2 million |
| `MCPersistenceMarks` | 2 partitions, two different marks and a message for an unknown conversation to choose 2 events from, 1 resend, 1 restart or rebalance | LaterMarkWins, TopicDrains | 91 thousand |
| `MCHistory` | 3 conversations and an unknown one, pages of 1, details of 2, 3 ids | TypeOK, HistoryComplete, QuietNotSkipped, DetailConsistent, UnreadAgrees | 283 thousand |
| `MCConversations` | 4 calls of 3 users, 3 ids | TypeOK, BothTakePart, TwoMembers, CacheCoherent | 666 thousand |
| `MCMeetings` | 2 creates, 2 keys, 2 joins (one of the host), 2 ends | TypeOK, InvitesComplete, EndedOnce, ListedIsJoinable, EndIsFinal, HostFirst | 1.4 million |
| `MCMeetingsRetry` | 2 creates, 2 keys | RetriesHelp: violated | - |
| `MCRestApi` | 3 tokens, 4 conversations of 3 users, lists of 2, each user renamed once | TypeOK, NoMapRace, OnePersonOneName, NamedWhenFetched, Returns | 110 thousand |
| `MCAuthTest` | as `MCRestApi` | TestedClaim: violated | - |

Why these bounds are enough to be interesting. Two connections of one user are
what it takes to overlap a reconnect; with a capacity of 1 and two frames a
queue fills, drains, is full again and is left behind, and with the third
connection a participant who is not the author is online. The author of a frame
is what the frame says, not who sent it, so one author shows participants of
both kinds. Two events with one resend put two records, or three and more with copies, in
one partition, or one in each; two rebalances or restarts are what it takes to
bring a record back after a failed commit and to straddle the commit of another.
Pages of one row put a page boundary everywhere. Two calls of a pair in both
directions race for the pair; the other two share the user. Details of two
messages fill up while a request is served. Two creates draw from two keys, so
they may collide while the first is still open, after it has committed, or not;
one meeting has no invites, so that the outer join has its NULL row. A join of
the host, a join of a participant and two ends are what it takes to interleave
an activation with an end and with an early participant. Listing two
conversations fetches the same user up to three times, with a change of name
between the fetches.

Bounds by name: `MaxFrames`, `MaxEvents`, `MaxResends`, `MaxRestarts`, `MaxSeq`,
`MaxConv`,
`MaxRenames`, `PageSize`; `MaxTries` is the code's own 5. `Cap` is 256 in the
code, `Recent` 20, the default page 20.
`CHECK_DEADLOCK FALSE` everywhere: peers, clients and callers do a bounded
number of things and then stop, and a hub that has blocked on itself is a state
the code reaches.

Fairness. `Hub!FairSpec`: goroutines are scheduled (weak fairness on the hub's
work and on each pump's unconditional steps); the sender on a Go channel is
queued first in, first out and a select picks among its ready cases at random,
so a waiting connection is not passed over for ever (strong fairness on
`Rendezvous`); a ping or a read on a closed connection fails (`ReadError` and
`WriteError` are fair only then, the former strongly because the read buffer may
still hold frames); `WriteFrame` ends by `writeWait`. Peers owe nothing: reading
a frame, an error on an open connection and connecting are never fair.
`Persistence!FairSpec`: the worker's loop runs, a commit that was sent ends, with
an answer or an error (`CommitMessages`), and the fetchers of all partitions
feed one queue, so none is passed over for ever (strong fairness on
`FetchMessage`); Kafka owes nothing else. `RestApi!FairSpec`: goroutines are scheduled, and a
fetch ends, by the client's timeout of five seconds at the latest
(`client/user.go:34`); weak fairness is enough for the mutex because each
goroutine takes it once.

The same is assumed of the hub's calls to Redis and PostgreSQL, which the code
gives no deadline (`chat/hub.go:81`): with a call that never returns, `HubServes`
fails as it does when the hub has blocked.

## 4. Proofs

Every safety property that a passing run checks is proved, each for every value
of the constants, as `Spec => []Inv` or, for an action property and a
refinement, `Spec => P`. Each proof has the same three parts: the inductive
invariant (`IInv`, `DeliveryInv`, `OrderInv`) holds in the initial states, every
step keeps it, by one lemma per action or per part of the invariant, and it
implies the property.

| Module | Theorem | Property |
|---|---|---|
| `HubProofs` | `TypeCorrect`, `NoPanic`, `Replaced`, `NobodyLeftOut` | `TypeOK`, `NoChannelPanic`, `NeverReinstated`, `AllOrNobody` |
| | `Implementation` | `ImplementsDelivery` |
| `PersistenceProofs` | `TypeCorrect`, `WrittenOnceAlways`, `PartitionOrderAlways`, `LastMessageIsNewestAlways` | `TypeOK`, `WrittenOnce`, `PartitionOrder`, `LastMessageIsNewest` |
| `PersistenceOrderProofs` | `MessagesAreLog`, `LaterMarkWinsAlways` | `ImplementsLog`, `LaterMarkWins` |
| `HistoryProofs` | `TypeCorrect`, `HistoryCompleteAlways`, `QuietNotSkippedAlways`, `DetailConsistentAlways`, `UnreadAgreesAlways` | `TypeOK`, `HistoryComplete`, `QuietNotSkipped`, `DetailConsistent`, `UnreadAgrees` |
| `ConversationsProofs` | `TypeCorrect`, `BothTakePartAlways`, `TwoMembersAlways`, `CacheCoherentAlways` | `TypeOK`, `BothTakePart`, `TwoMembers`, `CacheCoherent` |
| `MeetingsProofs` | `TypeCorrect`, `InvitesCompleteAlways`, `EndedOnceAlways`, `ListedIsJoinableAlways`, `EndIsFinalAlways`, `HostFirstAlways` | `TypeOK`, `InvitesComplete`, `EndedOnce`, `ListedIsJoinable`, `EndIsFinal`, `HostFirst` |
| `RestApiProofs` | `TypeCorrect`, `NoMapRaceAlways`, `OnePersonOneNameAlways`, `NamedWhenFetchedAlways` | `TypeOK`, `NoMapRace`, `OnePersonOneName`, `NamedWhenFetched` |

### What the proofs assume

Only what the modules name. `UserOf`, `Participants` and their like are
functions of the right type and frames, events and tokens name existing users;
values that stand for "none" are no members of the sets they are told apart
from; the bounds (`MaxFrames`, `BoundsAssumption`, `SeqAssumption`,
`BoundAssumption`, `MaxRenames`) are numbers, of any size. `History` and
`RestApi` take the table of conversations, and `RestApi` the one of users, to be
finite, which tables are: ranks, pages and the list of ids to fetch mean nothing
otherwise. Nothing is assumed of Kafka beyond what `Persistence` models: any
number of partitions, resends, failed commits, rebalances and restarts.

### The hub

`TypeOK` is not inductive: `HubReceive` appends the frame a reader holds, so it
takes that a reader in `"sending"` holds one (`Offers`), and delivery reads
`Current`, so it takes that there is one (`HasFrame`). `NoChannelPanic` is not
either: whether `Send` is closed says nothing until it is tied to where the
connection is. `Registered` (a connection in the table is found under its own
user and is between registering and unregistering) and `ClosedLeft` (only a
connection that has unregistered has a closed `Send`) do that: since
`HubUnregister` closes the `Send` of the connection that leaves and not of the
one it finds, a connection in the table is never one whose `Send` is closed.

The refinement needs more (`DeliveryInv`): no queue and no push refers beyond
the newest frame (`Past`), and while the loop runs nobody still in `todo` has
the newest frame (`Unserved`). That holds when the frame is appended because of
`Past`, and each pass of the loop keeps it because it reaches one user, who
leaves `todo`, for which `Registered` is needed: the connection found under a
user must be that user's. `ReceiveStep`, `OnlineStep` and `OfflineStep` are the
three actions that are steps of `OrderedDelivery`; all others stutter.
`AllOrNobody` is inductive relative to `DeliveryInv`: who has been served stays
so (`ReachedStays`), and who leaves `todo` is the author or has been served
(`PassedServed`).

### From the hub to the table

One worker's step is treated once, in `ChatStoreProofs`, whatever feeds the
worker. Its `Inserted` is what `LastMessageIsNewest` needs: between the insert
and the update of the pointer, the newest row is the one the worker has in hand.

`WrittenOnce` and `PartitionOrder` say nothing of the record in hand or of the
reader, so they are not inductive. `InReader` says where a record that is being
committed stands; `AllSettled` that a record handed to the worker, unless its
commit straddled a rebalance, lies at or below what is committed and what is
fetched, so no rebalance or restart brings it back (`Settled`); `Ahead` that the
record in hand lies behind what is written of its partition. A row that is
inserted then comes after the rows there are. This is where the commit before
the processing (`worker/dbworker.go:29`) matters.

`OrderInv` adds the order in which records were pushed. `Queued` follows it from
`waiting` over `batch` to `topic`, where a batch sent again is already there, so
that a first copy was pushed after everything before it; `Separate` says that no
event is in two partitions, `Faithful` that the job in hand and every row are
those of their record, and `Ranked` that rows can be numbered. An insert of a
clean record then appends to its partition's log, which is the one step of
`MessageLog` besides `Push` (`StoreRow`); every other step leaves `Stored` as it
is (`StoredStays`). `LaterMarkWins` follows from the same fact about first
copies (`PushedLater`).

### Reading over REST

The queries choose rows by rank: how many rows come before a row. `Ranks` shows
of any finite set with a strict order that its ranks are 0, 1, 2 and so on, each
once, by a bijection and the library's facts about cardinalities; `NewestOf`
and `Places` are what it means for a page of messages and of conversations.
`Paging` says that what is at or above `before` was shown once and nothing
below, and `TablesGrow` that rows are only added above. `Listing` says that a
conversation the worker has left alone was shown or is at `offset` or later;
`PlaceGrows` is the reason: such a conversation only moves down the list, since
pointers only grow. When a page is empty nothing is at `offset`, and ranks have
no gaps, so nothing is later either. `Viewing` keeps the header among the
messages of the conversation. `UnreadAgrees` needs only that rows are counted
(`Countable`): the sum is a recursive function of sets, the count of the unread
messages in a set of conversations satisfies its equation (`CountSumsUp`), and
two solutions would differ on a smallest set (`SumIsUnique`).

### Conversations, meetings, requests

`ConversationsProofs`: `OpenInv` is what is known of a call whose transaction is
open, `PairInv` of what is committed, `LookupInv` of a lookup between two of its
commands. `CacheCoherent` rests on a conversation having no members before it is
committed and never changing them afterwards. `Hub` assumes of a lookup what
`CacheCoherentAlways` proves of it.

`MeetingsProofs`: `Open` says that a call commits only when all invites are in,
and only once; `Joining` and `Ending` say
what a call must have read or written to be where it is; `ActiveByHost` that a
meeting is active only after its host came in, which `HostFirst` rests on.

`RestApiProofs`: `Counting` makes the WaitGroup the number of goroutines that
have not ended, so the request passes `Wait` only when none is left; `Exclusion`
is the mutex; `Named` follows a name from the fetch into the map, and
`Answering` from the map into the answer. `Asked` says that a list has fetched
everyone it mentions, for which `Listing` and `Joined` are the lemmas about
sequences.

### What is only model-checked

* `HubServes`, `PumpsEndTogether`, `QueueDrains`, `TopicDrains` and `Returns`:
  liveness under fairness is out of the provers' reach.
* The four violated properties of section 5, which are false.

## 5. Where the code and what it says disagree

* `PongWaitEnds`: `chat/client.go:13` limits the wait for a pong. After a full
  `Send` the hub waits for itself (`chat/hub.go:135`), and a connection whose
  reads end afterwards hangs in `c.Hub.unregister <- c` before it reaches
  `c.Conn.Close()`. Everything else that needs the hub hangs with it.
* `DisconnectedIsOffline`: `chat/hub.go:67-70` deletes the entry of the user,
  whichever connection it holds, and logs that the user disconnected. After a
  reconnect it is the new connection that gets lost.
* `RetriesHelp`: `meeting/meeting.service.go:44-64` retries an insert in the
  transaction that the failed insert has aborted.
* `TestedClaim`: `middleware/withAuth_test.go:54-69` signs a token that names the
  user in `user_id` and expects that user; `middleware/withAuth.go:51` reads
  `_id`, so the token is accepted and the request has the empty user.

Weaknesses the models show that no line of the repository denies, and that are
therefore no findings: messages of a conversation may be stored in another order
than delivered (several partitions, or a rebalance during a commit), stored
twice (a batch sent twice, or a rebalance during a commit) or never; marks may
take a reading pointer back for the same reasons;
two racing calls may create two conversations for a pair; a conversation that
gets a message while its user pages through the list may be skipped.

## 6. Left out, and why

* Wording, logging, JSON and HTTP layouts, signed URLs, avatars.
* The contents of messages: a frame is its author and its conversation.
* Timers: a deadline is an action that may happen whenever the code would allow
  the deadline to pass.
* A meeting key that two meetings share: the UNIQUE constraint of
  `meetings.meeting_key` is part of the model (`InsertRow`), as the foreign keys
  of the chat tables are.
* The order of conversations whose `last_message_at` is equal, which SQL leaves
  open: all exist before the first message, so those without one come last, and
  among them the id decides (`MoreRecent`). `QuietNotSkipped` depends on neither.
* A hub lookup that returns an error after Redis returned members: the members
  are used, as without an error.
* The role check of `MeetingHandler.CreateMeeting` (`meeting/handler.go:30`) and
  `validateToken` of the WebSocket handler: each is a function of the token
  alone. Where `WithAuth` leaves the user empty, `ServeWS` takes whatever
  formatting the missing claim gives (`chat/handler.go:54`).
* Storage, which is I/O without state of the program's own; configuration, the
  migrations runner and CORS; queries, Redis functions and `GetUsersBatch`
  without a caller (listed in `PROJECT.json`).
* A composition of `Hub` and `Persistence` in one module: both are shown to keep
  the order in which the hub takes frames (`ImplementsDelivery`,
  `ImplementsLog`), and they share no other state.
* `client_msg_id`: it is stored, but no index and no query uses it.
* The consumer of the notification topic is not in the repository.

## 7. Plan

The models are complete as far as section 6 goes, and every safety property of
a passing run is proved. What is left:

1. The safety halves of the liveness properties as invariants worth proving of
   their own: for `Returns`, that a counter of zero is reached by the goroutines
   that are left; for `HubServes`, that only a full `Send` blocks the hub.
2. What of the abstract specifications follows from them alone, for instance
   that two participants never see two frames of `OrderedDelivery` in different
   orders, so that it need not be read off `Hub`.
