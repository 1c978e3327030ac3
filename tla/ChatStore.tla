------------------------------- MODULE ChatStore -------------------------------
(***************************************************************************)
(* The chat tables of PostgreSQL, the queries of internal/db/chat.sql.go   *)
(* that the service runs on them, and the database worker of               *)
(* internal/worker, the only writer of messages and of the two pointers    *)
(* into them.  Module Persistence feeds the worker from Kafka, module      *)
(* History reads the tables while it writes.                               *)
(*                                                                         *)
(* Every statement of the worker is a transaction of its own.  It may fail *)
(* without effect, and it may be committed although the worker gets an     *)
(* error because the connection broke.  Conversations and their            *)
(* participants exist before the first message (see README.md).            *)
(*                                                                         *)
(* NULL is 0: ids start at 1, and the worker stores NULL for a             *)
(* last_read_message_id of 0 or less.  created_at of a message is taken to *)
(* order messages as their ids do: one worker inserts them one by one.     *)
(***************************************************************************)
EXTENDS Naturals, FiniteSets

CONSTANTS
  Users,
  Convs,         \* rows of conversations: their ids, numbered as created
  Participants,  \* rows of participants
  Events,        \* decoded records of the persistence topic
  None           \* the worker has no record

Event ==
  [kind: {"message", "mark_as_read"}, conv: Nat, from: Users, upto: Nat]

ASSUME ConvsAssumption == Convs \subseteq Nat
ASSUME ParticipantsAssumption == Participants \in [Convs -> SUBSET Users]
ASSUME EventsAssumption == Events \subseteq Event /\ None \notin Events

VARIABLES
  messages,     \* rows of messages; source is the record a row comes from
  messageSeq,   \* last value of the messages id sequence
  lastMessage,  \* conversations.last_message_id
  lastRead,     \* participants.last_read_message_id
  worker,       \* where the loop of StartDBWorker is
  job,          \* the event it is working on
  source        \* and the record it was read from

tables == <<messages, messageSeq, lastMessage, lastRead>>
storeVars == <<tables, worker, job, source>>

ParticipantRows == {r \in Convs \X Users : r[2] \in Participants[r[1]]}

StoreTypeOK ==
  /\ \A m \in messages : /\ m.id \in 1..messageSeq
                         /\ m.conv \in Convs
                         /\ m.sender \in Users
  /\ messageSeq \in Nat
  /\ lastMessage \in [Convs -> Nat]
  /\ lastRead \in [ParticipantRows -> Nat]
  /\ worker \in {"read", "insert", "update", "mark"}
  /\ job \in Events \cup {None}

StoreInit ==
  /\ messages = {}
  /\ messageSeq = 0
  /\ lastMessage = [v \in Convs |-> 0]
  /\ lastRead = [r \in ParticipantRows |-> 0]
  /\ worker = "read"
  /\ job = None
  /\ source = None

-----------------------------------------------------------------------------
(* The worker *)

\* ReadMessage returned the event; s names the record.
Take(e, s) ==
  /\ worker = "read"
  /\ worker' = IF e.kind = "mark_as_read" THEN "mark" ELSE "insert"
  /\ job' = e
  /\ source' = s
  /\ UNCHANGED tables

\* The rest of the loop body is done or given up.
NextRecord == worker' = "read" /\ job' = None /\ source' = None

\* Mutant: messages.conversation_id has no foreign key.
InsertableAnywhere == TRUE

\* messages.conversation_id refers to a row of conversations.
Insertable == job.conv \in Convs

\* Mutant: a failed insert is tried again until it succeeds.
InsertRetried == UNCHANGED <<messages, messageSeq, worker, job, source>>

\* A failed insert may have used up an id; an insert whose answer is lost
\* counts as failed too.
InsertFailed ==
  /\ messageSeq' \in {messageSeq, messageSeq + 1}
  /\ UNCHANGED messages
  /\ NextRecord

CreateMessage ==
  /\ worker = "insert"
  /\ \/ /\ Insertable
        /\ messageSeq' = messageSeq + 1
        /\ messages' = messages \cup
             {[id |-> messageSeq + 1, conv |-> job.conv, sender |-> job.from,
               source |-> source]}
        /\ \/ worker' = "update" /\ UNCHANGED <<job, source>>
           \/ NextRecord
     \/ InsertFailed
  /\ UNCHANGED <<lastMessage, lastRead>>

\* Mutant: the UPDATE has lost its WHERE clause.
EveryLastMessageSet == [v \in Convs |-> messageSeq]

\* The id of the inserted row is the last one of the sequence, which nobody
\* else uses.
LastMessageSet == [lastMessage EXCEPT ![job.conv] = messageSeq]

\* An error is only logged.
UpdateConversationLastMessage ==
  /\ worker = "update"
  /\ lastMessage' \in {lastMessage, LastMessageSet}
  /\ NextRecord
  /\ UNCHANGED <<messages, messageSeq, lastRead>>

\* No row matches when the sender does not take part in the conversation.
MarkMessageAsRead ==
  /\ worker = "mark"
  /\ \/ /\ <<job.conv, job.from>> \in ParticipantRows
        /\ lastRead' = [lastRead EXCEPT ![<<job.conv, job.from>>] = job.upto]
     \/ UNCHANGED lastRead
  /\ NextRecord
  /\ UNCHANGED <<messages, messageSeq, lastMessage>>

Work == CreateMessage \/ UpdateConversationLastMessage \/ MarkMessageAsRead

-----------------------------------------------------------------------------
(* The queries *)

MessageIds(v) == {m.id : m \in {n \in messages : n.conv = v}}

\* Mutant: id <= before instead of id < before.
NotAbove(i, before) == before = 0 \/ i <= before

Below(i, before) == before = 0 \/ i < before

\* ORDER BY id DESC LIMIT limit, of the rows below before (0: of all rows).
GetMessagesByConversation(v, before, limit) ==
  LET ids == {i \in MessageIds(v) : Below(i, before)}
  IN  {i \in ids : Cardinality({j \in ids : j > i}) < limit}

\* COUNT of the messages of others that lie above the reading pointer.
UnreadIn(v, u) ==
  Cardinality({m \in messages :
    m.conv = v /\ m.id > lastRead[<<v, u>>] /\ m.sender # u})

\* Mutant: the total counts the user's own messages.
GetTotalUnreadCountAll(u) ==
  Cardinality({m \in messages :
    /\ u \in Participants[m.conv]
    /\ m.id > lastRead[<<m.conv, u>>]})

GetTotalUnreadCount(u) ==
  Cardinality({m \in messages :
    /\ u \in Participants[m.conv]
    /\ m.id > lastRead[<<m.conv, u>>]
    /\ m.sender # u})

ConversationsOf(u) == {v \in Convs : u \in Participants[v]}

\* Mutant: ORDER BY last_message_at ASC.
LessRecent(v, w) ==
  lastMessage[v] < lastMessage[w] \/ (lastMessage[v] = lastMessage[w] /\ v < w)

\* last_message_at is the time of the last message or, without one, the time
\* the conversation was created: all are there before the first message, in
\* the order of their ids.
MoreRecent(v, w) ==
  lastMessage[v] > lastMessage[w] \/ (lastMessage[v] = lastMessage[w] /\ v > w)

\* ORDER BY last_message_at DESC LIMIT limit OFFSET offset.
ListConversationsByUser(u, limit, offset) ==
  {v \in ConversationsOf(u) :
     Cardinality({w \in ConversationsOf(u) : MoreRecent(w, v)})
       \in offset..(offset + limit - 1)}

-----------------------------------------------------------------------------
(* Properties of the tables, whatever feeds the worker *)

\* When a conversation's last message changes, it becomes the newest message
\* of that conversation: the pointer never goes back and never points into
\* another conversation, although it is written in a second transaction after
\* the insert and the ones before it may have failed (dbworker.go:71-85).
LastMessageIsNewest ==
  [][\A v \in Convs :
       lastMessage'[v] # lastMessage[v]
         => lastMessage'[v] \in MessageIds(v)
            /\ \A i \in MessageIds(v) : i <= lastMessage'[v]]_storeVars
=============================================================================
