------------------------- MODULE ConversationsProofs -------------------------
(***************************************************************************)
(* Proofs of the invariants of Conversations, for any number of users and  *)
(* of calls and any bound on the id sequence.                              *)
(*                                                                         *)
(* None of the invariants is inductive.  What they rest on is what is      *)
(* known of a call whose transaction is open (OpenInv: nobody else has its *)
(* id, and which participants it has inserted so far), of what is          *)
(* committed (PairInv) and of what the hub holds between two commands of a *)
(* lookup (LookupInv).                                                     *)
(***************************************************************************)
EXTENDS Conversations, FiniteSetTheorems, TLAPS

-----------------------------------------------------------------------------
(* The inductive invariant *)

Open(r) == pc[r] \in {"first", "second", "commit"}

\* The id of an open transaction is nobody else's, and what it has inserted
\* follows from where it is.
OpenInv ==
  \A r \in Requests : Open(r) =>
    /\ conv[r] # 0
    /\ conv[r] \notin conversations
    /\ \A q \in Requests : Open(q) /\ conv[q] = conv[r] => q = r
    /\ pc[r] = "second" => added[r] = {UserOf[r]}
    /\ pc[r] = "commit" => /\ UserOf[r] # PartnerOf[r]
                           /\ added[r] = {UserOf[r], PartnerOf[r]}

\* A committed conversation has two different participants.
PairInv ==
  \A v \in conversations :
    \E a, b \in Users : a # b /\ MembersOf(v) = {a, b}

\* Between two commands of a lookup the hub holds nothing, or what the
\* conversation it asked for has for good.
LookupInv ==
  /\ hub # "cache" => asked \in Convs
  /\ hub = "query" => members = {}
  /\ hub \in {"del", "add"} => members \in {{}, MembersOf(asked)}

IInv ==
  /\ TypeOK
  /\ OpenInv
  /\ BothTakePart
  /\ PairInv
  /\ LookupInv
  /\ CacheCoherent

-----------------------------------------------------------------------------
(* What a step may do to the members of a conversation *)

\* In the initial state nothing is committed, no call is open and the hub is
\* between lookups.
LEMMA InitInv == Init => IInv
<1> SUFFICES ASSUME Init PROVE IInv
  OBVIOUS
<1>1. TypeOK
  BY RequestAssumption, BoundAssumption DEF Init, TypeOK
<1>2. OpenInv /\ BothTakePart /\ PairInv /\ LookupInv
  BY DEF Init, OpenInv, Open, BothTakePart, PairInv, LookupInv
<1>3. CacheCoherent
  BY DEF Init, CacheCoherent, MembersOf
<1> QED BY <1>1, <1>2, <1>3 DEF IInv

\* Nothing is a member of a conversation that is not committed.
LEMMA NoMembers ==
  ASSUME TypeOK, NEW v, v \notin conversations
  PROVE  MembersOf(v) = {}
BY DEF TypeOK, MembersOf

\* A commit that takes effect gives the new conversation what its call has
\* inserted, and leaves every other conversation as it is.
LEMMA CommitMembers ==
  ASSUME TypeOK, NEW r \in Requests, conv[r] \notin conversations,
         participants' = participants \cup ({conv[r]} \X added[r]),
         NEW v
  PROVE  /\ v = conv[r] => MembersOf(v) = {} /\ MembersOf(v)' = added[r]
         /\ v # conv[r] => MembersOf(v)' = MembersOf(v)
<1>1. ASSUME v = conv[r]
      PROVE  MembersOf(v) = {} /\ MembersOf(v)' = added[r]
  <2>1. MembersOf(v) = {}
    BY <1>1, NoMembers
  <2>2. added[r] \subseteq Users
    BY DEF TypeOK
  <2>3. \A u \in Users : <<v, u>> \notin participants
    BY <2>1 DEF MembersOf
  <2>4. \A u \in Users : <<v, u>> \in participants' <=> u \in added[r]
    BY <1>1, <2>3
  <2> QED BY <2>1, <2>2, <2>4 DEF MembersOf
<1>2. ASSUME v # conv[r]
      PROVE  MembersOf(v)' = MembersOf(v)
  <2>1. \A u : <<v, u>> \in participants' <=> <<v, u>> \in participants
    BY <1>2
  <2> QED BY <2>1 DEF MembersOf
<1> QED BY <1>1, <1>2

\* A step leaves the members of a conversation as they are, unless it is the
\* commit of the call that creates it: then it had none before, and has
\* afterwards what that call has inserted.
LEMMA MembersStep ==
  ASSUME TypeOK, OpenInv, [Next]_vars, NEW v
  PROVE  \/ MembersOf(v)' = MembersOf(v)
         \/ /\ MembersOf(v) = {}
            /\ \E r \in Requests : /\ pc[r] = "commit" /\ conv[r] = v
                                   /\ MembersOf(v)' = added[r]
<1>1. CASE UNCHANGED participants
  BY <1>1 DEF MembersOf
<1>2. CASE ~ UNCHANGED participants
  <2>1. PICK r \in Requests : CommitConversation(r)
    BY <1>2 DEF Next, GetOrCreate, vars, tables, requestVars, hubVars,
                FindPrivate, GetPartner, CreateConversation, AddParticipant,
                GetCachedParticipants, CacheLost, ListParticipants, CacheDel,
                CacheAdd
  <2>2. /\ pc[r] = "commit"
        /\ participants' = participants \cup ({conv[r]} \X added[r])
    BY <1>2, <2>1 DEF CommitConversation
  <2>3. conv[r] \notin conversations
    BY <2>2 DEF OpenInv, Open
  <2> QED BY <2>2, <2>3, CommitMembers
<1> QED BY <1>1, <1>2

-----------------------------------------------------------------------------
(* Every conjunct is preserved *)

\* Every step keeps the variables in their sets.  A commit adds its id to the
\* conversations, so the id must be one that was taken: OpenInv says it is.
LEMMA TypeStep == IInv /\ [Next]_vars => TypeOK'
<1> SUFFICES ASSUME TypeOK, OpenInv, LookupInv, [Next]_vars PROVE TypeOK'
  BY DEF IInv
<1> USE RequestAssumption, BoundAssumption
        DEF TypeOK, Goto, Fail, tables, requestVars, hubVars
<1>1. ASSUME NEW r \in Requests, FindPrivate(r) PROVE TypeOK'
  BY <1>1 DEF FindPrivate, Matches
<1>2. ASSUME NEW r \in Requests, GetPartner(r) PROVE TypeOK'
  BY <1>2 DEF GetPartner
<1>3. ASSUME NEW r \in Requests, CreateConversation(r) PROVE TypeOK'
  BY <1>3 DEF CreateConversation
<1>4. ASSUME NEW r \in Requests, AddParticipant(r) PROVE TypeOK'
  BY <1>4 DEF AddParticipant
<1>5. ASSUME NEW r \in Requests, CommitConversation(r) PROVE TypeOK'
  <2>1. conv[r] \in 1..convSeq
    BY <1>5 DEF CommitConversation, OpenInv, Open
  <2>2. added' \in [Requests -> SUBSET Users] /\ pc' \in [Requests ->
          {"find", "partner", "create", "first", "second", "commit", "done", "failed"}]
    BY <1>5 DEF CommitConversation
  <2>3. conversations' \in SUBSET (1..convSeq) /\ participants' \in SUBSET (conversations' \X Users)
    BY <1>5, <2>1 DEF CommitConversation
  <2> QED BY <1>5, <2>2, <2>3 DEF CommitConversation
<1>6. ASSUME NEW v \in Convs, GetCachedParticipants(v) PROVE TypeOK'
  BY <1>6 DEF GetCachedParticipants, Convs
<1>7. ASSUME NEW v \in Convs, CacheLost(v) PROVE TypeOK'
  BY <1>7 DEF CacheLost
<1>8. CASE ListParticipants
  BY <1>8 DEF ListParticipants, MembersOf
<1>9. CASE CacheDel
  BY <1>9 DEF CacheDel
<1>10. CASE CacheAdd
  BY <1>10 DEF CacheAdd, Added, LookupInv
<1>11. CASE UNCHANGED vars
  BY <1>11 DEF vars
<1> QED
  BY <1>1, <1>2, <1>3, <1>4, <1>5, <1>6, <1>7, <1>8, <1>9, <1>10, <1>11
     DEF Next, GetOrCreate

\* An id is taken from the sequence once, so no open call has the id of
\* another or of a committed conversation.  A call for the user's own id
\* fails at the second insert, so that a commit has two participants.
LEMMA OpenStep == IInv /\ [Next]_vars => OpenInv'
<1> SUFFICES ASSUME TypeOK, OpenInv, [Next]_vars PROVE OpenInv'
  BY DEF IInv
<1> USE DEF TypeOK, OpenInv, Open, Goto, Fail, tables, requestVars, hubVars
<1>1. ASSUME NEW r \in Requests, FindPrivate(r) PROVE OpenInv'
  BY <1>1 DEF FindPrivate
<1>2. ASSUME NEW r \in Requests, GetPartner(r) PROVE OpenInv'
  BY <1>2 DEF GetPartner
<1>3. ASSUME NEW r \in Requests, CreateConversation(r) PROVE OpenInv'
  <2>1. \A q \in Requests : conv[q] # convSeq + 1
    OBVIOUS
  <2>2. convSeq + 1 # 0 /\ convSeq + 1 \notin conversations
    OBVIOUS
  <2> QED BY <1>3, <2>1, <2>2 DEF CreateConversation
<1>4. ASSUME NEW r \in Requests, AddParticipant(r) PROVE OpenInv'
  BY <1>4, RequestAssumption DEF AddParticipant, NoRow
<1>5. ASSUME NEW r \in Requests, CommitConversation(r) PROVE OpenInv'
  BY <1>5 DEF CommitConversation
<1>6. CASE UNCHANGED <<tables, requestVars>>
  BY <1>6
<1> QED
  BY <1>1, <1>2, <1>3, <1>4, <1>5, <1>6
     DEF Next, GetOrCreate, vars, GetCachedParticipants, CacheLost,
         ListParticipants, CacheDel, CacheAdd

\* A call succeeds by finding a conversation with both users or by committing
\* one with both, and the members of a conversation never get fewer.
LEMMA BothTakePartStep == IInv /\ [Next]_vars => BothTakePart'
<1> SUFFICES ASSUME TypeOK, OpenInv, BothTakePart, [Next]_vars,
                    NEW q \in Requests, pc'[q] = "done"
             PROVE  {UserOf[q], PartnerOf[q]} \subseteq MembersOf(conv[q])'
  BY DEF IInv, BothTakePart
<1>1. \A v : MembersOf(v) \subseteq MembersOf(v)'
  BY MembersStep
<1>2. CASE pc[q] = "done"
  <2>1. conv'[q] = conv[q]
    BY <1>2 DEF TypeOK, Next, GetOrCreate, vars, tables, requestVars, hubVars,
                FindPrivate, GetPartner, CreateConversation, AddParticipant,
                CommitConversation, GetCachedParticipants, CacheLost,
                ListParticipants, CacheDel, CacheAdd, Goto, Fail
  <2> QED BY <1>1, <1>2, <2>1 DEF BothTakePart, MembersOf
<1>3. CASE pc[q] # "done"
  <2>1. FindPrivate(q) \/ CommitConversation(q)
    BY <1>3 DEF TypeOK, Next, GetOrCreate, vars, tables, requestVars, hubVars,
                FindPrivate, GetPartner, CreateConversation, AddParticipant,
                CommitConversation, GetCachedParticipants, CacheLost,
                ListParticipants, CacheDel, CacheAdd, Goto, Fail
  <2>2. CASE FindPrivate(q)
    <3>1. UNCHANGED participants /\ conv'[q] \in Matches(q)
      BY <2>2, <1>3 DEF FindPrivate, Goto, TypeOK, tables
    <3> QED BY <3>1 DEF Matches, MembersOf
  <2>3. CASE CommitConversation(q)
    <3>1. /\ pc[q] = "commit"
          /\ participants' = participants \cup ({conv[q]} \X added[q])
          /\ conv' = conv
      BY <2>3 DEF CommitConversation, Goto, Fail, TypeOK
    <3>2. /\ conv[q] \notin conversations
          /\ added[q] = {UserOf[q], PartnerOf[q]}
      BY <3>1 DEF OpenInv, Open
    <3> QED BY <3>1, <3>2, CommitMembers DEF MembersOf
  <2> QED BY <2>1, <2>2, <2>3
<1> QED BY <1>2, <1>3

\* Rows of participants come only with a commit, which brings both.
LEMMA PairStep == IInv /\ [Next]_vars => PairInv'
<1> SUFFICES ASSUME TypeOK, OpenInv, PairInv, [Next]_vars,
                    NEW v \in conversations'
             PROVE  \E a, b \in Users : a # b /\ MembersOf(v)' = {a, b}
  BY DEF IInv, PairInv
<1>1. CASE v \in conversations
  <2>1. PICK a, b \in Users : a # b /\ MembersOf(v) = {a, b}
    BY <1>1 DEF PairInv
  <2> QED BY <2>1, MembersStep
<1>2. CASE v \notin conversations
  <2>1. PICK r \in Requests : CommitConversation(r)
    BY <1>2 DEF Next, GetOrCreate, vars, tables, requestVars, hubVars,
                FindPrivate, GetPartner, CreateConversation, AddParticipant,
                GetCachedParticipants, CacheLost, ListParticipants, CacheDel,
                CacheAdd
  <2>2. /\ pc[r] = "commit"
        /\ v = conv[r]
        /\ participants' = participants \cup ({conv[r]} \X added[r])
    BY <1>2, <2>1 DEF CommitConversation
  <2>3. /\ UserOf[r] # PartnerOf[r]
        /\ added[r] = {UserOf[r], PartnerOf[r]}
    BY <2>2 DEF OpenInv, Open
  <2>4. MembersOf(v)' = added[r]
    BY <1>2, <2>2, CommitMembers
  <2> QED BY <2>3, <2>4, RequestAssumption
<1> QED BY <1>1, <1>2

\* What the hub holds between two commands stays right while calls commit:
\* a set read from a committed conversation is final, and one read before
\* the commit is empty, which caches nothing.
LEMMA LookupStep == IInv /\ [Next]_vars => LookupInv' /\ CacheCoherent'
<1> SUFFICES ASSUME TypeOK, OpenInv, LookupInv, CacheCoherent, [Next]_vars
             PROVE  LookupInv' /\ CacheCoherent'
  BY DEF IInv
<1>1. \A v : MembersOf(v)' = MembersOf(v) \/ MembersOf(v) = {}
  BY MembersStep
<1>2. CASE UNCHANGED hubVars
  BY <1>1, <1>2 DEF hubVars, LookupInv, CacheCoherent
<1>3. CASE UNCHANGED <<tables, requestVars>>
  <2>1. \A v : MembersOf(v)' = MembersOf(v)
    BY <1>3 DEF tables, MembersOf
  <2> USE DEF TypeOK, LookupInv, CacheCoherent, tables, requestVars
  <2>2. ASSUME NEW v \in Convs, GetCachedParticipants(v)
        PROVE  LookupInv' /\ CacheCoherent'
    BY <2>1, <2>2 DEF GetCachedParticipants
  <2>3. ASSUME NEW v \in Convs, CacheLost(v)
        PROVE  LookupInv' /\ CacheCoherent'
    BY <2>1, <2>3 DEF CacheLost
  <2>4. CASE ListParticipants
    BY <2>1, <2>4 DEF ListParticipants
  <2>5. CASE CacheDel
    BY <2>1, <2>5 DEF CacheDel
  <2>6. CASE CacheAdd
    <3>1. PICK m \in Added : cache' = [cache EXCEPT ![asked] = m]
      BY <2>6 DEF CacheAdd
    <3>2. members \in {{}, MembersOf(asked)} /\ asked \in Convs
      BY <2>6 DEF CacheAdd
    <3>3. m \in {{}, MembersOf(asked)}
      BY <3>2 DEF Added
    <3>4. \A v \in Convs : cache'[v] \in {{}, MembersOf(v)}
      BY <3>1, <3>2, <3>3
    <3>5. hub' = "cache" /\ asked' = asked /\ members' = members
      BY <2>6 DEF CacheAdd
    <3> QED BY <2>1, <3>2, <3>4, <3>5
  <2>7. CASE UNCHANGED vars
    BY <1>2, <2>7 DEF vars
  <2> QED
    BY <1>2, <2>2, <2>3, <2>4, <2>5, <2>6, <2>7
       DEF Next, GetOrCreate, FindPrivate, GetPartner, CreateConversation,
           AddParticipant, CommitConversation
<1> QED
  BY <1>2, <1>3
     DEF Next, GetOrCreate, vars, FindPrivate, GetPartner, CreateConversation,
         AddParticipant, CommitConversation, GetCachedParticipants, CacheLost,
         ListParticipants, CacheDel, CacheAdd

-----------------------------------------------------------------------------
(* The theorems *)

\* The invariant the others follow from: what is known of open transactions,
\* committed conversations and a lookup under way.
THEOREM Inductive == Spec => []IInv
<1>1. IInv /\ [Next]_vars => IInv'
  BY TypeStep, OpenStep, BothTakePartStep, PairStep, LookupStep DEF IInv
<1> QED BY InitInv, <1>1, PTL DEF Spec

\* Every variable stays in its set; above all a committed conversation has an
\* id that the sequence has given out.
THEOREM TypeCorrect == Spec => []TypeOK
BY Inductive, PTL DEF IInv

\* Both users of a call that succeeded take part in the conversation it
\* returned, whatever calls race with it (service.go:76-126).
THEOREM BothTakePartAlways == Spec => []BothTakePart
BY Inductive, PTL DEF IInv

\* A conversation has its two participants or does not exist, whatever
\* statement of the transaction fails (service.go:91-122).
THEOREM TwoMembersAlways == Spec => []TwoMembers
<1>1. PairInv => TwoMembers
  <2> SUFFICES ASSUME PairInv, NEW v \in conversations
               PROVE  Cardinality(MembersOf(v)) = 2
    BY DEF TwoMembers
  <2>1. PICK a, b \in Users : a # b /\ MembersOf(v) = {a, b}
    BY DEF PairInv
  <2>2. IsFiniteSet({a}) /\ Cardinality({a}) = 1
    BY FS_Singleton
  <2>3. Cardinality({a} \cup {b}) = Cardinality({a}) + 1
    BY <2>1, <2>2, FS_AddElement
  <2>4. MembersOf(v) = {a} \cup {b}
    BY <2>1
  <2> QED BY <2>2, <2>3, <2>4
<1> QED BY Inductive, <1>1, PTL DEF IInv

\* No lookup leaves a stale or partial set in the cache or in the hub, even
\* one that runs before, during and after the commit of the conversation it
\* names (hub.go:112-123, redis.go:59-63).
THEOREM CacheCoherentAlways == Spec => []CacheCoherent
BY Inductive, PTL DEF IInv
=============================================================================
