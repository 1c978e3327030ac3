------------------------------- MODULE History -------------------------------
(***************************************************************************)
(* Clients reading the tables through the REST handlers of internal/chat   *)
(* while the worker writes them (module ChatStore): one pages back through *)
(* the messages of a conversation with before_id, another pages through    *)
(* its conversations with offset, a third opens one conversation.          *)
(*                                                                         *)
(* A page is one SELECT, so it sees one state of the tables; between two   *)
(* requests the worker may do anything.  The detail of a conversation      *)
(* takes several SELECTs, with the calls to the user service in between    *)
(* (module RestApi), and is not one transaction.  How a client picks the   *)
(* next before_id and offset is not in the repository: it does what the    *)
(* parameters are made for, and passes the oldest id it has and the number *)
(* of conversations it has asked for.                                      *)
(***************************************************************************)
EXTENDS ChatStore, FiniteSetsExt

CONSTANTS
  Conv,      \* the conversation paged through
  User,      \* the user who lists conversations
  Limit,     \* the limit parameter of both
  Recent,    \* messages in the detail of a conversation: 20 in the code
  MaxSeq     \* bound: values taken from the message id sequence

ASSUME ConvAssumption == Conv \in Convs /\ User \in Users /\ IsFiniteSet(Convs)
ASSUME LimitAssumption == Limit \in Nat \ {0} /\ Recent \in Nat \ {0}
ASSUME SeqAssumption == MaxSeq \in Nat

VARIABLES
  pager,    \* the client paging through messages: its progress
  before,   \* its next before_id
  wanted,   \* the messages there were at its first request
  got,      \* how often it was shown each message
  lister,   \* the client paging through conversations: its progress
  offset,   \* its next offset
  listed,   \* the conversations it was shown
  bumped,   \* conversations whose last message changed since it started
  viewer,   \* the client opening a conversation: its request's progress
  header,   \* the last_message_id it is shown
  recent    \* the messages it is shown

pagerVars == <<pager, before, wanted, got>>
listerVars == <<lister, offset, listed, bumped>>
viewerVars == <<viewer, header, recent>>
vars == <<storeVars, pagerVars, listerVars, viewerVars>>

TypeOK ==
  /\ StoreTypeOK
  /\ pager \in {"new", "paging", "done"}
  /\ before \in 0..MaxSeq
  /\ wanted \in SUBSET (1..MaxSeq)
  /\ got \in [1..MaxSeq -> Nat]
  /\ lister \in {"new", "listing", "done"}
  /\ offset \in Nat
  /\ listed \in SUBSET Convs
  /\ bumped \in SUBSET Convs
  /\ viewer \in {"new", "read", "done"}
  /\ header \in 0..MaxSeq
  /\ recent \in SUBSET (1..MaxSeq)

Init ==
  /\ StoreInit
  /\ pager = "new"
  /\ before = 0
  /\ wanted = {}
  /\ got = [i \in 1..MaxSeq |-> 0]
  /\ lister = "new"
  /\ offset = 0
  /\ listed = {}
  /\ bumped = {}
  /\ viewer = "new"
  /\ header = 0
  /\ recent = {}

-----------------------------------------------------------------------------
(* The worker: any event may come next. *)

TakeAny ==
  /\ messageSeq < MaxSeq
  /\ \E e \in Events : Take(e, None)
  /\ UNCHANGED <<pagerVars, listerVars, viewerVars>>

DBWorker ==
  /\ Work
  /\ bumped' = bumped \cup {v \in Convs : lastMessage'[v] # lastMessage[v]}
  /\ UNCHANGED <<pagerVars, lister, offset, listed, viewerVars>>

-----------------------------------------------------------------------------
(* GET /messages and GET /conversations *)

\* An empty page ends the paging.
GetMessages ==
  /\ pager # "done"
  /\ LET page == GetMessagesByConversation(Conv, before, Limit)
     IN  /\ pager' = IF page = {} THEN "done" ELSE "paging"
         /\ before' = IF page = {} THEN before ELSE Min(page)
         /\ got' = [i \in DOMAIN got |-> IF i \in page THEN got[i] + 1 ELSE got[i]]
  /\ wanted' = IF pager = "new" THEN MessageIds(Conv) ELSE wanted
  /\ UNCHANGED <<storeVars, listerVars, viewerVars>>

ListConversations ==
  /\ lister # "done"
  /\ LET page == ListConversationsByUser(User, Limit, offset)
     IN  /\ lister' = IF page = {} THEN "done" ELSE "listing"
         /\ listed' = listed \cup page
  /\ offset' = offset + Limit
  /\ bumped' = IF lister = "new" THEN {} ELSE bumped
  /\ UNCHANGED <<storeVars, pagerVars, viewerVars>>

-----------------------------------------------------------------------------
(* GET /conversations/detail *)

\* GetConversationByID
ReadConversation ==
  /\ viewer = "new"
  /\ viewer' = "read"
  /\ header' = lastMessage[Conv]
  /\ UNCHANGED <<storeVars, pagerVars, listerVars, recent>>

\* The newest messages, read when the participants have been looked up.
ReadRecent ==
  /\ viewer = "read"
  /\ viewer' = "done"
  /\ recent' = GetMessagesByConversation(Conv, 0, Recent)
  /\ UNCHANGED <<storeVars, pagerVars, listerVars, header>>

-----------------------------------------------------------------------------

Next ==
  \/ TakeAny \/ DBWorker
  \/ GetMessages \/ ListConversations
  \/ ReadConversation \/ ReadRecent

Spec == Init /\ [][Next]_vars

-----------------------------------------------------------------------------
(* Properties *)

\* A client that has paged back to the beginning was shown every message that
\* was there when it started exactly once, and none twice, although messages
\* were inserted between its requests (chat.sql.go:181-183).
HistoryComplete ==
  /\ \A i \in DOMAIN got : got[i] <= 1
  /\ pager = "done" => \A i \in wanted : got[i] = 1

\* Paging by offset through a list ordered by the last message never skips a
\* conversation that had no new message meanwhile; one that had may move
\* from the pages to come to those already read (chat.sql.go:295-296).
QuietNotSkipped ==
  lister = "done" => ConversationsOf(User) \ bumped \subseteq listed

\* The detail of a conversation does not contradict itself: the last message
\* in its header is among the messages it shows, unless so many newer ones
\* came while the request was served that they fill the page
\* (service.go:252-312).
DetailConsistent ==
  viewer = "done" /\ header # 0 =>
    \/ header \in recent
    \/ Cardinality(recent) = Recent /\ \A i \in recent : i > header

\* The badge and the list agree: the total of GetTotalUnreadCount is the sum
\* of the unread_count column of ListConversationsByUser, whatever pointers
\* the marks have set (chat.sql.go:250-257 and 279-285).
UnreadAgrees ==
  \A u \in Users :
    GetTotalUnreadCount(u) = MapThenSumSet(LAMBDA v : UnreadIn(v, u),
                                           ConversationsOf(u))
=============================================================================
