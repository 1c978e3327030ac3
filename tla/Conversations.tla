---------------------------- MODULE Conversations ----------------------------
(***************************************************************************)
(* Private conversations: concurrent calls of                              *)
(* GetOrCreatePrivateConversation, the PostgreSQL tables they write, and   *)
(* the participants lookup of the hub with its Redis cache.                *)
(*                                                                         *)
(* A call is one request of a client.  Its queries before the transaction  *)
(* see what is committed at that moment; the rows it inserts in the        *)
(* transaction become visible together when it commits.  Any statement may *)
(* fail, and a commit may take effect although its answer is lost.         *)
(*                                                                         *)
(* The hub looks participants up one conversation at a time.  The id comes *)
(* from a frame, so it may name a conversation that is not committed yet.  *)
(***************************************************************************)
EXTENDS Naturals, FiniteSets

CONSTANTS
  Users,
  Requests,   \* calls of GetOrCreatePrivateConversation
  UserOf,     \* the authenticated user of each call
  PartnerOf,  \* its partner_id, which may be the user's own
  MaxConv     \* bound: values of the conversations id sequence

ASSUME RequestAssumption ==
  UserOf \in [Requests -> Users] /\ PartnerOf \in [Requests -> Users]
ASSUME BoundAssumption == MaxConv \in Nat

VARIABLES
  convSeq,        \* last value of the conversations id sequence
  conversations,  \* committed rows of conversations (all private)
  participants,   \* committed rows of participants: <<conversation, user>>
  pc,             \* where each call is
  conv,           \* the conversation it found or creates
  added,          \* the participants it has inserted in its transaction
  hub,            \* where the lookup is
  asked,          \* the conversation looked up
  members,        \* memberIDs
  cache           \* the Redis set conv_members:<id> of each conversation

tables == <<convSeq, conversations, participants>>
requestVars == <<pc, conv, added>>
hubVars == <<hub, asked, members, cache>>
vars == <<tables, requestVars, hubVars>>

Convs == 1..MaxConv
MembersOf(v) == {u \in Users : <<v, u>> \in participants}

TypeOK ==
  /\ convSeq \in 0..MaxConv
  /\ conversations \in SUBSET (1..convSeq)
  /\ participants \in SUBSET (conversations \X Users)
  /\ pc \in [Requests -> {"find", "partner", "create", "first", "second",
                          "commit", "done", "failed"}]
  /\ conv \in [Requests -> 0..convSeq]
  /\ added \in [Requests -> SUBSET Users]
  /\ \A r \in Requests : added[r] # {} => pc[r] \in {"second", "commit"}
  /\ hub \in {"cache", "query", "del", "add"}
  /\ asked \in 0..MaxConv
  /\ members \in SUBSET Users
  /\ cache \in [Convs -> SUBSET Users]

Init ==
  /\ convSeq = 0
  /\ conversations = {}
  /\ participants = {}
  /\ pc = [r \in Requests |-> "find"]
  /\ conv = [r \in Requests |-> 0]
  /\ added = [r \in Requests |-> {}]
  /\ hub = "cache"
  /\ asked = 0
  /\ members = {}
  /\ cache = [v \in Convs |-> {}]

-----------------------------------------------------------------------------
(* GetOrCreatePrivateConversation *)

Goto(r, to) == pc' = [pc EXCEPT ![r] = to]

\* Mutant: there is no deferred Rollback, the transaction stays open.
FailOpen(r) == Goto(r, "failed") /\ UNCHANGED added

\* An error anywhere ends the call; the deferred Rollback undoes its inserts.
Fail(r) == Goto(r, "failed") /\ added' = [added EXCEPT ![r] = {}]

\* Mutant: the query does not ask for the partner.
MatchesUser(r) == {v \in conversations : UserOf[r] \in MembersOf(v)}

\* GetPrivateConversation joins participants with itself, so for a partner
\* who is the user it matches every private conversation of the user.
Matches(r) ==
  {v \in conversations : {UserOf[r], PartnerOf[r]} \subseteq MembersOf(v)}

\* Any error of the query is taken for "there is none".
FindPrivate(r) ==
  /\ pc[r] = "find"
  /\ \/ \E v \in Matches(r) : /\ conv' = [conv EXCEPT ![r] = v]
                              /\ Goto(r, "done")
     \/ Goto(r, "partner") /\ UNCHANGED conv
  /\ UNCHANGED <<tables, added, hubVars>>

\* The user service answers that the partner exists, or not at all.
GetPartner(r) ==
  /\ pc[r] = "partner"
  /\ \/ Goto(r, "create") /\ UNCHANGED added
     \/ Fail(r)
  /\ UNCHANGED <<tables, conv, hubVars>>

\* The transaction begins.  It takes an id whether it commits or not.
CreateConversation(r) ==
  /\ pc[r] = "create"
  /\ \/ /\ convSeq < MaxConv
        /\ convSeq' = convSeq + 1
        /\ conv' = [conv EXCEPT ![r] = convSeq + 1]
        /\ Goto(r, "first")
        /\ UNCHANGED added
     \/ Fail(r) /\ UNCHANGED <<convSeq, conv>>
  /\ UNCHANGED <<conversations, participants, hubVars>>

\* Mutant: participants has no primary key.
NoKey(r, u) == TRUE

\* (conversation_id, user_id) is the primary key of participants.
NoRow(r, u) == u \notin added[r]

\* The user first, then the partner.
AddParticipant(r) ==
  /\ \/ /\ pc[r] = "first"
        /\ added' = [added EXCEPT ![r] = {UserOf[r]}]
        /\ Goto(r, "second")
     \/ /\ pc[r] = "second"
        /\ NoRow(r, PartnerOf[r])
        /\ added' = [added EXCEPT ![r] = @ \cup {PartnerOf[r]}]
        /\ Goto(r, "commit")
     \/ pc[r] \in {"first", "second"} /\ Fail(r)
  /\ UNCHANGED <<tables, conv, hubVars>>

CommitConversation(r) ==
  /\ pc[r] = "commit"
  /\ \/ /\ conversations' = conversations \cup {conv[r]}
        /\ participants' = participants \cup ({conv[r]} \X added[r])
        /\ added' = [added EXCEPT ![r] = {}]
        /\ Goto(r, "done") \/ Goto(r, "failed")
     \/ Fail(r) /\ UNCHANGED <<conversations, participants>>
  /\ UNCHANGED <<convSeq, conv, hubVars>>

-----------------------------------------------------------------------------
(* The participants lookup of handleMessageDelivery *)

\* SMEMBERS of a missing key is empty; an error counts as a miss too.
GetCachedParticipants(v) ==
  /\ hub = "cache"
  /\ asked' = v
  /\ \/ cache[v] # {} /\ members' = cache[v] /\ UNCHANGED hub
     \/ members' = {} /\ hub' = "query"
  /\ UNCHANGED <<tables, requestVars, cache>>

ListParticipants ==
  /\ hub = "query"
  /\ \/ members' = MembersOf(asked) /\ hub' = "del"
     \/ UNCHANGED members /\ hub' = "cache"
  /\ UNCHANGED <<tables, requestVars, asked, cache>>

\* CacheParticipants: DEL, whose error is ignored, ...
CacheDel ==
  /\ hub = "del"
  /\ hub' = "add"
  /\ cache' \in {cache, [cache EXCEPT ![asked] = {}]}
  /\ UNCHANGED <<tables, requestVars, asked, members>>

\* Mutant: the members are added by a command each.
AddedOneByOne == {cache[asked] \cup m : m \in SUBSET members}

\* ... then SADD, one command for all members, which fails without any.
Added == {cache[asked], cache[asked] \cup members}

CacheAdd ==
  /\ hub = "add"
  /\ hub' = "cache"
  /\ \E m \in Added : cache' = [cache EXCEPT ![asked] = m]
  /\ UNCHANGED <<tables, requestVars, asked, members>>

\* Redis drops the key or starts again without its data.
CacheLost(v) ==
  /\ cache[v] # {}
  /\ cache' = [cache EXCEPT ![v] = {}]
  /\ UNCHANGED <<tables, requestVars, hub, asked, members>>

-----------------------------------------------------------------------------

GetOrCreate(r) ==
  \/ FindPrivate(r) \/ GetPartner(r) \/ CreateConversation(r)
  \/ AddParticipant(r) \/ CommitConversation(r)

Next ==
  \/ \E r \in Requests : GetOrCreate(r)
  \/ \E v \in Convs : GetCachedParticipants(v) \/ CacheLost(v)
  \/ ListParticipants
  \/ CacheDel
  \/ CacheAdd

Spec == Init /\ [][Next]_vars

-----------------------------------------------------------------------------
(* Properties *)

\* Both users of a call that succeeded take part in the conversation it
\* returned, even when two calls for the same pair have raced and each made
\* one: a message in either reaches both (service.go:76-126).
BothTakePart ==
  \A r \in Requests :
    pc[r] = "done" => {UserOf[r], PartnerOf[r]} \subseteq MembersOf(conv[r])

\* Whatever statement fails, no conversation is left with fewer or more than
\* its two participants (service.go:91-122).
TwoMembers == \A v \in conversations : Cardinality(MembersOf(v)) = 2

\* The cache never holds a stale or partial set: what is cached for a
\* conversation, and what the hub works with after a lookup, is nothing or
\* exactly its participants, although the lookup may come before the commit
\* and DEL and SADD are two commands (hub.go:112-123, redis.go:59-63).
CacheCoherent ==
  /\ \A v \in Convs : cache[v] \in {{}, MembersOf(v)}
  /\ hub = "cache" /\ members # {} => members = MembersOf(asked)
=============================================================================
