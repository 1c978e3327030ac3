----------------------------- MODULE HistoryProofs -----------------------------
(***************************************************************************)
(* Proofs about clients that page through the tables while the worker      *)
(* writes them, for any number of messages, conversations and page sizes.  *)
(*                                                                         *)
(* A page is made of ranks: how many rows come before a row in the order   *)
(* of the query.  The lemmas about ranks say that the rows of a finite     *)
(* table have the ranks 0, 1, 2 and so on, each once, whatever the order.  *)
(* The invariants then say what a client has seen of what is above the     *)
(* place it has reached: a before_id (Paging), an offset (Listing), the    *)
(* header of a conversation (Viewing).                                     *)
(***************************************************************************)
EXTENDS History, ChatStoreProofs, FiniteSetTheorems

\* The worker never takes more ids than there may be.
SeqBound ==
  /\ messageSeq <= MaxSeq
  /\ worker = "insert" => messageSeq < MaxSeq

\* The rows of messages can be counted.
Countable == IsFiniteSet(messages)

\* The pointer to the last message points to a message of the conversation.
Pointing ==
  \A v \in Convs : lastMessage[v] # 0 => lastMessage[v] \in MessageIds(v)

\* The messages from i on have been asked for.
Passed(i) == before # 0 /\ before <= i

Paging ==
  /\ pager = "new" => before = 0
  /\ pager = "paging" => before # 0
  /\ wanted \subseteq MessageIds(Conv)
  /\ \A i \in DOMAIN got : got[i] <= 1 /\ (got[i] # 0 => Passed(i))
  /\ \A i \in wanted : Passed(i) => got[i] = 1
  /\ pager = "done" => \A i \in wanted : Passed(i)
  /\ pager = "new" => wanted = {}

\* How many conversations come before v in the list.
Place(v) == Cardinality({w \in ConversationsOf(User) : MoreRecent(w, v)})

Listing ==
  /\ lister = "new" => offset = 0
  /\ \A v \in ConversationsOf(User) \ bumped : v \in listed \/ offset <= Place(v)

Viewing ==
  /\ viewer # "new" /\ header # 0 => header \in MessageIds(Conv)
  /\ viewer = "new" => header = 0

IInv ==
  /\ TypeOK /\ StoreInv /\ SeqBound /\ Countable /\ Pointing
  /\ Paging
  /\ Listing /\ QuietNotSkipped
  /\ Viewing /\ DetailConsistent

-----------------------------------------------------------------------------
(* Ranks *)

StrictOrder(R, S) ==
  /\ \A x \in S : <<x, x>> \notin R
  /\ \A x, y \in S : x # y => <<x, y>> \in R \/ <<y, x>> \in R
  /\ \A x, y, z \in S : <<x, y>> \in R /\ <<y, z>> \in R => <<x, z>> \in R

Earlier(x, R, S) == {y \in S : <<y, x>> \in R}

\* In a finite ordered set the number of elements before x tells where x is:
\* every number below the size of the set is that of one element.
LEMMA Ranks ==
  ASSUME NEW S, IsFiniteSet(S), NEW R, StrictOrder(R, S)
  PROVE  /\ Cardinality(S) \in Nat
         /\ [x \in S |-> Cardinality(Earlier(x, R, S))]
              \in Bijection(S, 0..(Cardinality(S) - 1))
<1> DEFINE n == Cardinality(S)
           f == [x \in S |-> Cardinality(Earlier(x, R, S))]
<1>1. n \in Nat
  BY FS_CardinalityType
<1>2. ASSUME NEW x \in S
      PROVE  /\ IsFiniteSet(Earlier(x, R, S))
             /\ Cardinality(Earlier(x, R, S)) \in 0..(n - 1)
  <2> DEFINE E == Earlier(x, R, S)
  <2>1. E \in SUBSET S /\ E # S
    BY DEF Earlier, StrictOrder
  <2> HIDE DEF E
  <2>2. IsFiniteSet(E) /\ Cardinality(E) <= n /\ Cardinality(E) # n
    BY <2>1, FS_Subset
  <2>3. Cardinality(E) \in Nat
    BY <2>2, FS_CardinalityType
  <2> QED BY <1>1, <2>2, <2>3 DEF E
<1>3. ASSUME NEW x \in S, NEW y \in S, <<x, y>> \in R PROVE f[x] < f[y]
  <2> DEFINE D == Earlier(x, R, S)
             E == Earlier(y, R, S)
  <2>1. D \in SUBSET E /\ x \in E /\ x \notin D
    BY <1>3 DEF Earlier, StrictOrder
  <2>2. IsFiniteSet(E) /\ IsFiniteSet(D)
    BY <1>2
  <2> HIDE DEF D, E
  <2>3. Cardinality(D) <= Cardinality(E) /\ Cardinality(D) # Cardinality(E)
    BY <2>1, <2>2, FS_Subset
  <2>4. Cardinality(D) \in Nat /\ Cardinality(E) \in Nat
    BY <2>2, FS_CardinalityType
  <2>5. Cardinality(D) < Cardinality(E)
    BY <2>3, <2>4
  <2> QED BY <2>5 DEF D, E
<1>4. f \in [S -> 0..(n - 1)]
  BY <1>2
<1>5. ASSUME NEW x \in S, NEW y \in S, f[x] = f[y] PROVE x = y
  <2>1. f[x] \in Nat /\ f[y] \in Nat
    BY <1>1, <1>4
  <2> HIDE DEF f
  <2>2. ~ (f[x] < f[y]) /\ ~ (f[y] < f[x])
    BY <1>5, <2>1
  <2> QED BY <1>3, <2>2 DEF StrictOrder
<1> HIDE DEF f
<1>6. f \in Injection(S, 0..(n - 1))
  BY <1>4, <1>5 DEF Injection, IsInjective
<1>7. IsFiniteSet(0..(n - 1)) /\ Cardinality(0..(n - 1)) = n
  <2> HIDE DEF n
  <2>1. 0 \in Int /\ n - 1 \in Int
    BY <1>1
  <2>2. /\ IsFiniteSet(0..(n - 1))
        /\ Cardinality(0..(n - 1)) = IF 0 > n - 1 THEN 0 ELSE (n - 1) - 0 + 1
    BY <2>1, FS_Interval
  <2> QED BY <1>1, <2>2
<1>8. f \in Surjection(S, 0..(n - 1))
  BY <1>6, <1>7, FS_Injection
<1> QED BY <1>1, <1>6, <1>8 DEF f, n, Bijection

\* What follows of single ranks.
LEMMA RankOf ==
  ASSUME NEW S, IsFiniteSet(S), NEW R, StrictOrder(R, S)
  PROVE  /\ \A x \in S : Cardinality(Earlier(x, R, S)) \in 0..(Cardinality(S) - 1)
         /\ \A k \in 0..(Cardinality(S) - 1) :
              \E x \in S : Cardinality(Earlier(x, R, S)) = k
         /\ \A x, y \in S :
              Cardinality(Earlier(x, R, S)) = Cardinality(Earlier(y, R, S)) => x = y
<1> DEFINE f == [x \in S |-> Cardinality(Earlier(x, R, S))]
<1>1. f \in Bijection(S, 0..(Cardinality(S) - 1))
  BY Ranks
<1>2. \A x \in S : f[x] = Cardinality(Earlier(x, R, S))
  OBVIOUS
<1> HIDE DEF f
<1>3. /\ f \in [S -> 0..(Cardinality(S) - 1)]
      /\ \A x, y \in S : f[x] = f[y] => x = y
      /\ \A k \in 0..(Cardinality(S) - 1) : \E x \in S : f[x] = k
  BY <1>1 DEF Bijection, Injection, IsInjective, Surjection
<1> QED BY <1>2, <1>3

\* A non-empty finite set of numbers has a smallest one.
LEMMA Smallest ==
  ASSUME NEW S \in SUBSET Nat, IsFiniteSet(S), S # {}
  PROVE  Min(S) \in S /\ \A y \in S : Min(S) <= y
<1> DEFINE R == {p \in S \X S : p[1] < p[2]}
<1>1. StrictOrder(R, S)
  BY DEF StrictOrder
<1>2. Cardinality(S) \in Nat /\ Cardinality(S) # 0
  BY FS_CardinalityType, FS_EmptySet
<1>3. 0 \in 0..(Cardinality(S) - 1)
  BY <1>2
<1> HIDE DEF R
<1>4. PICK x \in S : Cardinality(Earlier(x, R, S)) = 0
  BY <1>1, <1>3, RankOf
<1>5. Earlier(x, R, S) = {}
  <2>1. Earlier(x, R, S) \in SUBSET S
    BY DEF Earlier
  <2>2. IsFiniteSet(Earlier(x, R, S))
    BY <2>1, FS_Subset
  <2> QED BY <1>4, <2>2, FS_EmptySet
<1>6. \A y \in S : x <= y
  <2> SUFFICES ASSUME NEW y \in S PROVE x <= y
    OBVIOUS
  <2>1. ~ (y < x)
    BY <1>5 DEF Earlier, R
  <2> QED BY <2>1
<1> QED BY <1>6 DEF Min

-----------------------------------------------------------------------------
(* The newest of a set of messages *)

\* The k highest ids of S, as the queries choose them.
Newest(k, S) == {i \in S : Cardinality({j \in S : j > i}) < k}

\* If i is among the newest, so is all above it; if S is not empty, nor is its
\* newest part; and that part has k elements unless S has fewer.
LEMMA NewestOf ==
  ASSUME NEW S \in SUBSET Nat, IsFiniteSet(S), NEW k \in Nat \ {0}
  PROVE  /\ \A i \in Newest(k, S) : \A j \in S : i <= j => j \in Newest(k, S)
         /\ S # {} => Newest(k, S) # {}
         /\ Newest(k, S) # S => Cardinality(Newest(k, S)) = k
<1> DEFINE R == {p \in S \X S : p[1] > p[2]}
           n == Cardinality(S)
           T == Newest(k, S)
           rank(i) == Cardinality({j \in S : j > i})
<1>1. StrictOrder(R, S)
  BY DEF StrictOrder
<1>2. \A i \in S : Earlier(i, R, S) = {j \in S : j > i}
  BY DEF Earlier
<1> HIDE DEF R
<1>3. n \in Nat
  BY FS_CardinalityType
<1>4. /\ \A i \in S : rank(i) \in 0..(n - 1)
      /\ \A r \in 0..(n - 1) : \E i \in S : rank(i) = r
      /\ \A i, j \in S : rank(i) = rank(j) => i = j
  <2>1. \A i \in S : rank(i) = Cardinality(Earlier(i, R, S))
    BY <1>2
  <2>2. /\ \A i \in S : Cardinality(Earlier(i, R, S)) \in 0..(n - 1)
        /\ \A r \in 0..(n - 1) : \E i \in S : Cardinality(Earlier(i, R, S)) = r
        /\ \A i, j \in S :
             Cardinality(Earlier(i, R, S)) = Cardinality(Earlier(j, R, S)) => i = j
    BY <1>1, RankOf
  <2> HIDE DEF rank, n
  <2> QED BY <2>1, <2>2
<1>5. \A i \in S : i \in T <=> rank(i) < k
  BY DEF Newest
<1>6. T \in SUBSET S
  BY DEF Newest
<1>7. ASSUME NEW i \in T, NEW j \in S, i <= j PROVE j \in T
  <2>1. {l \in S : l > j} \in SUBSET {l \in S : l > i}
    <3>1. i \in Nat /\ j \in Nat
      BY <1>6
    <3>2. \A l \in S : l \in Nat /\ (l > j => l > i)
      BY <1>7, <3>1
    <3> QED BY <3>2
  <2>2. {l \in S : l > i} \in SUBSET S
    OBVIOUS
  <2>3. IsFiniteSet({l \in S : l > i})
    BY <2>2, FS_Subset
  <2>4. rank(j) <= rank(i)
    BY <2>1, <2>3, FS_Subset
  <2>5. rank(i) < k /\ i \in S
    BY <1>5, <1>6
  <2> HIDE DEF rank, T
  <2> QED BY <1>3, <1>4, <1>5, <2>4, <2>5
<1>8. ASSUME S # {} PROVE T # {}
  <2>1. n # 0
    BY <1>8, FS_EmptySet
  <2>2. 0 \in 0..(n - 1)
    BY <1>3, <2>1
  <2> HIDE DEF rank, T
  <2> QED BY <1>4, <1>5, <2>2
<1>9. ASSUME T # S PROVE Cardinality(T) = k
  <2> DEFINE f == [i \in T |-> rank(i)]
  <2> HIDE DEF rank, T, n
  <2>1. PICK i \in S : ~ (rank(i) < k)
    BY <1>5, <1>6, <1>9
  <2>2. k <= n - 1
    BY <1>3, <1>4, <2>1
  <2>3. \A j \in T : f[j] = rank(j) /\ rank(j) \in 0..(k - 1)
    BY <1>3, <1>4, <1>5, <1>6
  <2>4. f \in [T -> 0..(k - 1)]
    BY <2>3
  <2>5. \A j, l \in T : f[j] = f[l] => j = l
    BY <1>4, <1>6, <2>3
  <2>6. \A r \in 0..(k - 1) : \E j \in T : f[j] = r
    <3> SUFFICES ASSUME NEW r \in 0..(k - 1) PROVE \E j \in T : f[j] = r
      OBVIOUS
    <3>1. r \in 0..(n - 1) /\ r < k
      BY <1>3, <2>2
    <3>2. PICK j \in S : rank(j) = r
      BY <1>4, <3>1
    <3>3. j \in T
      BY <1>5, <3>1, <3>2
    <3> QED BY <2>3, <3>2, <3>3
  <2> HIDE DEF f
  <2>7. f \in Injection(T, 0..(k - 1)) /\ f \in Surjection(T, 0..(k - 1))
    BY <2>4, <2>5, <2>6 DEF Injection, IsInjective, Surjection
  <2>8. IsFiniteSet(0..(k - 1)) /\ Cardinality(0..(k - 1)) = k
    <3>1. 0 \in Int /\ k - 1 \in Int
      OBVIOUS
    <3>2. /\ IsFiniteSet(0..(k - 1))
          /\ Cardinality(0..(k - 1)) = IF 0 > k - 1 THEN 0 ELSE (k - 1) - 0 + 1
      BY <3>1, FS_Interval
    <3> QED BY <3>2
  <2> QED BY <2>7, <2>8, FS_Injection
<1> QED BY <1>7, <1>8, <1>9 DEF T

-----------------------------------------------------------------------------
(* The tables *)

\* Seen from the tables, every step is one of the worker or none.
LEMMA StepIsStoreStep == [Next]_vars => StoreStep
BY DEF Next, TakeAny, DBWorker, GetMessages, ListConversations,
       ReadConversation, ReadRecent, vars, StoreStep

\* The ids of a conversation are numbers up to the bound.
LEMMA Ids ==
  ASSUME StoreInv, SeqBound, NEW v
  PROVE  /\ MessageIds(v) \in SUBSET (1..MaxSeq)
         /\ MessageIds(v) \in SUBSET Nat
         /\ IsFiniteSet(MessageIds(v))
<1>1. messageSeq \in Nat /\ messageSeq <= MaxSeq
  BY DEF StoreInv, StoreTypeOK, SeqBound
<1>2. ASSUME NEW i \in MessageIds(v) PROVE i \in 1..MaxSeq
  <2>1. PICK m \in messages : i = m.id
    BY DEF MessageIds
  <2>2. m.id \in 1..messageSeq
    BY DEF StoreInv, StoreTypeOK
  <2> QED BY <1>1, <2>1, <2>2, SeqAssumption
<1>3. IsFiniteSet(1..MaxSeq)
  BY SeqAssumption, FS_Interval
<1>4. MessageIds(v) \in SUBSET (1..MaxSeq)
  BY <1>2
<1>5. IsFiniteSet(MessageIds(v))
  BY <1>3, <1>4, FS_Subset
<1> QED BY <1>4, <1>5, SeqAssumption

\* Messages are never deleted, and the pointer to the last one never goes back.
LEMMA TablesGrow ==
  ASSUME StoreInv, SeqBound, Pointing, [Next]_vars
  PROVE  /\ \A v : MessageIds(v) \subseteq MessageIds(v)'
         /\ \A v \in Convs : /\ lastMessage[v] \in Nat /\ lastMessage'[v] \in Nat
                            /\ lastMessage[v] <= lastMessage'[v]
<1>1. StoreStep
  BY StepIsStoreStep
<1>2. messages \subseteq messages'
  BY <1>1, RowsStep
<1>3. \A v : MessageIds(v) \subseteq MessageIds(v)'
  BY <1>2 DEF MessageIds
<1>4. ASSUME NEW v \in Convs
      PROVE  /\ lastMessage[v] \in Nat /\ lastMessage'[v] \in Nat
             /\ lastMessage[v] <= lastMessage'[v]
  <2>1. lastMessage[v] \in Nat /\ lastMessage'[v] \in Nat
    BY <1>1, StoreTypeStep DEF StoreInv, StoreTypeOK
  <2>2. CASE lastMessage'[v] = lastMessage[v]
    BY <2>1, <2>2
  <2>3. CASE lastMessage'[v] # lastMessage[v] /\ lastMessage[v] = 0
    BY <2>1, <2>3
  <2>4. CASE lastMessage'[v] # lastMessage[v] /\ lastMessage[v] # 0
    <3>1. lastMessage[v] \in MessageIds(v)
      BY <2>4 DEF Pointing
    <3>2. \A i \in MessageIds(v) : i <= lastMessage'[v]
      BY <1>1, <2>4, NewestStep
    <3> QED BY <2>1, <3>1, <3>2
  <2> QED BY <2>2, <2>3, <2>4, <2>1
<1> QED BY <1>3, <1>4

LEMMA SeqBoundStep ==
  ASSUME StoreInv, SeqBound, [Next]_vars
  PROVE  SeqBound'
<1>1. messageSeq \in Nat
  BY DEF StoreInv, StoreTypeOK
<1>2. CASE TakeAny
  BY <1>1, <1>2 DEF TakeAny, Take, tables, SeqBound
<1>3. CASE DBWorker
  <2>1. CASE CreateMessage
    <3>1. worker = "insert" /\ worker' # "insert"
      BY <2>1 DEF CreateMessage, InsertFailed, NextRecord
    <3>2. messageSeq' = messageSeq \/ messageSeq' = messageSeq + 1
      BY <2>1 DEF CreateMessage, InsertFailed
    <3> QED BY <1>1, <3>1, <3>2, SeqAssumption DEF SeqBound
  <2>2. CASE UpdateConversationLastMessage \/ MarkMessageAsRead
    BY <2>2 DEF UpdateConversationLastMessage, MarkMessageAsRead, NextRecord, SeqBound
  <2> QED BY <1>3, <2>1, <2>2 DEF DBWorker, Work
<1>4. CASE UNCHANGED storeVars
  BY <1>4 DEF storeVars, tables, SeqBound
<1> QED
  BY <1>2, <1>3, <1>4
     DEF Next, GetMessages, ListConversations, ReadConversation, ReadRecent, vars

LEMMA PointingStep ==
  ASSUME StoreInv, SeqBound, Pointing, [Next]_vars
  PROVE  Pointing'
<1> SUFFICES ASSUME NEW v \in Convs, lastMessage'[v] # 0
             PROVE  lastMessage'[v] \in MessageIds(v)'
  BY DEF Pointing
<1>1. MessageIds(v) \subseteq MessageIds(v)'
  BY TablesGrow
<1>2. lastMessage'[v] \in MessageIds(v)
  <2>1. CASE lastMessage'[v] = lastMessage[v]
    BY <2>1 DEF Pointing
  <2>2. CASE lastMessage'[v] # lastMessage[v]
    BY <2>2, StepIsStoreStep, NewestStep
  <2> QED BY <2>1, <2>2
<1> QED BY <1>1, <1>2

-----------------------------------------------------------------------------
(* Paging through messages *)

\* What a page holds: the messages below before_id, from the newest on.
LEMMA PageOf ==
  ASSUME StoreInv, SeqBound, NEW v, NEW b \in Nat, NEW l \in Nat \ {0},
         NEW page, page = GetMessagesByConversation(v, b, l)
  PROVE  /\ \A i \in page : i \in MessageIds(v) /\ Below(i, b)
         /\ page = {} => \A i \in MessageIds(v) : ~ Below(i, b)
         /\ \A i \in page : \A j \in MessageIds(v) :
              Below(j, b) /\ i <= j => j \in page
         /\ \A j \in MessageIds(v) : Below(j, b) /\ j \notin page
              => Cardinality(page) = l
         /\ page \in SUBSET (1..MaxSeq) /\ IsFiniteSet(page)
<1> DEFINE ids == {i \in MessageIds(v) : Below(i, b)}
<1>1. ids \in SUBSET Nat /\ IsFiniteSet(ids) /\ ids \in SUBSET (1..MaxSeq)
  <2>1. ids \in SUBSET MessageIds(v)
    OBVIOUS
  <2> HIDE DEF ids
  <2> QED BY <2>1, Ids, FS_Subset
<1>2. page = Newest(l, ids)
  BY DEF GetMessagesByConversation, Newest
<1>3. \A i : i \in ids <=> i \in MessageIds(v) /\ Below(i, b)
  OBVIOUS
<1> HIDE DEF ids
<1>4. \A i \in page : \A j \in ids : i <= j => j \in page
  BY <1>1, <1>2, NewestOf
<1>5. ids # {} => page # {}
  BY <1>1, <1>2, NewestOf
<1>6. page # ids => Cardinality(page) = l
  BY <1>1, <1>2, NewestOf
<1>7. page \in SUBSET ids
  BY <1>2 DEF Newest
<1>8. IsFiniteSet(page)
  BY <1>1, <1>7, FS_Subset
<1> QED BY <1>1, <1>3, <1>4, <1>5, <1>6, <1>7, <1>8

\* A page begins where the last one ended, whatever was inserted meanwhile.
LEMMA PagingStep ==
  ASSUME TypeOK, StoreInv, SeqBound, Pointing, Paging, [Next]_vars
  PROVE  Paging'
<1>1. \A v : MessageIds(v) \subseteq MessageIds(v)'
  BY TablesGrow
<1>2. CASE UNCHANGED pagerVars
  BY <1>1, <1>2 DEF Paging, Passed, pagerVars
<1>3. CASE GetMessages
  <2>0. before \in Nat /\ Limit \in Nat \ {0}
    BY LimitAssumption DEF TypeOK
  <2>1. PICK page : page = GetMessagesByConversation(Conv, before, Limit)
    OBVIOUS
  <2>a. /\ pager # "done"
        /\ pager' = IF page = {} THEN "done" ELSE "paging"
        /\ before' = IF page = {} THEN before ELSE Min(page)
        /\ got' = [i \in DOMAIN got |-> IF i \in page THEN got[i] + 1 ELSE got[i]]
        /\ wanted' = IF pager = "new" THEN MessageIds(Conv) ELSE wanted
    BY <1>3, <2>1 DEF GetMessages
  <2>2. \A i \in page : i \in MessageIds(Conv) /\ Below(i, before)
    BY <2>0, <2>1, PageOf
  <2>3. page = {} => \A i \in MessageIds(Conv) : ~ Below(i, before)
    BY <2>0, <2>1, PageOf
  <2>4. \A i \in page : \A j \in MessageIds(Conv) :
          Below(j, before) /\ i <= j => j \in page
    BY <2>0, <2>1, PageOf
  <2>5. page \in SUBSET (1..MaxSeq) /\ IsFiniteSet(page)
    BY <2>0, <2>1, PageOf
  <2>6. MessageIds(Conv)' = MessageIds(Conv)
    BY <1>3 DEF GetMessages, storeVars, tables, MessageIds
  <2>7. wanted' \subseteq MessageIds(Conv) /\ MessageIds(Conv) \in SUBSET (1..MaxSeq)
    BY <2>a, Ids DEF Paging
  <2>8. \A i \in 1..MaxSeq : Below(i, before) <=> ~ Passed(i)
    BY <2>0, SeqAssumption DEF Below, Passed
  <2>9. \A i \in 1..MaxSeq : ~ Passed(i) => got[i] = 0
    BY DEF Paging, TypeOK
  <2>10. /\ DOMAIN got' = DOMAIN got /\ DOMAIN got = 1..MaxSeq
         /\ \A i \in 1..MaxSeq : got[i] \in Nat /\ got[i] <= 1
         /\ \A i \in 1..MaxSeq : got'[i] = IF i \in page THEN 1 ELSE got[i]
    BY <2>a, <2>2, <2>8, <2>9 DEF TypeOK, Paging
  <2>11. CASE page = {}
    <3>1. before' = before /\ pager' = "done"
      BY <2>a, <2>11
    <3>2. \A i \in wanted' : Passed(i)
      BY <2>3, <2>7, <2>8, <2>11
    <3>3. \A i \in wanted' : got[i] = 1
      BY <2>a, <3>2 DEF Paging, Passed
    <3>4. \A i \in wanted' : i \in 1..MaxSeq
      BY <2>7
    <3>5. wanted' \subseteq MessageIds(Conv)'
      BY <2>6, <2>7
    <3>6. \A i : Passed(i)' <=> Passed(i)
      BY <3>1 DEF Passed
    <3> QED BY <2>10, <2>11, <3>1, <3>2, <3>3, <3>4, <3>5, <3>6 DEF Paging
  <2>12. CASE page # {}
    <3>1. page \in SUBSET Nat
      BY <2>5, SeqAssumption
    <3>2. before' \in page /\ \A i \in page : before' <= i
      BY <2>a, <2>5, <2>12, <3>1, Smallest
    <3>3. before' \in 1..MaxSeq /\ before' \in Nat /\ before' # 0 /\ pager' = "paging"
      BY <2>a, <2>5, <2>12, <3>1, <3>2, SeqAssumption
    <3>4. before = 0 \/ before' < before
      BY <2>2, <3>2 DEF Below
    <3>5. \A i \in page : Passed(i)'
      BY <3>2, <3>3 DEF Passed
    <3>6. \A i \in 1..MaxSeq : Passed(i) => Passed(i)'
      BY <2>0, <3>3, <3>4, SeqAssumption DEF Passed
    <3>7. ASSUME NEW i \in wanted', Passed(i)' PROVE got'[i] = 1
      <4>1. i \in 1..MaxSeq /\ i \in MessageIds(Conv)
        BY <2>7
      <4>2. CASE Passed(i)
        <5>1. got[i] = 1
          BY <2>a, <4>2 DEF Paging, Passed
        <5> QED BY <2>10, <4>1, <5>1
      <4>3. CASE ~ Passed(i)
        <5>1. i \in page
          BY <2>4, <2>8, <3>2, <3>7, <4>1, <4>3 DEF Passed
        <5> QED BY <2>10, <4>1, <5>1
      <4> QED BY <4>2, <4>3
    <3>8. \A i \in 1..MaxSeq : got'[i] <= 1 /\ (got'[i] # 0 => Passed(i)')
      BY <2>9, <2>10, <3>5, <3>6
    <3> QED BY <2>6, <2>7, <2>10, <3>3, <3>7, <3>8 DEF Paging
  <2> QED BY <2>11, <2>12
<1> QED
  BY <1>2, <1>3
     DEF Next, TakeAny, DBWorker, ListConversations, ReadConversation,
         ReadRecent, vars

-----------------------------------------------------------------------------
(* Paging through conversations *)

\* The list is in a strict order, and finite.
LEMMA ListOrder ==
  ASSUME StoreInv
  PROVE  LET C == ConversationsOf(User)
         IN  /\ IsFiniteSet(C)
             /\ StrictOrder({p \in C \X C : MoreRecent(p[1], p[2])}, C)
             /\ \A v \in C : Earlier(v, {p \in C \X C : MoreRecent(p[1], p[2])}, C)
                               = {w \in C : MoreRecent(w, v)}
<1> DEFINE C == ConversationsOf(User)
           R == {p \in C \X C : MoreRecent(p[1], p[2])}
<1>1. C \in SUBSET Convs
  BY DEF ConversationsOf
<1>2. IsFiniteSet(C)
  BY <1>1, ConvAssumption, FS_Subset
<1>3. \A v \in C : v \in Nat /\ lastMessage[v] \in Nat
  BY <1>1, ConvsAssumption DEF StoreInv, StoreTypeOK
<1> HIDE DEF C
<1>4. \A v, w : <<v, w>> \in R <=> v \in C /\ w \in C /\ MoreRecent(v, w)
  OBVIOUS
<1>5. \A v \in C : ~ MoreRecent(v, v)
  BY <1>3 DEF MoreRecent
<1>6. \A v, w \in C : v # w => MoreRecent(v, w) \/ MoreRecent(w, v)
  BY <1>3 DEF MoreRecent
<1>7. \A v, w, x \in C : MoreRecent(v, w) /\ MoreRecent(w, x) => MoreRecent(v, x)
  BY <1>3 DEF MoreRecent
<1> HIDE DEF R
<1>8. StrictOrder(R, C)
  BY <1>4, <1>5, <1>6, <1>7 DEF StrictOrder
<1>9. \A v \in C : Earlier(v, R, C) = {w \in C : MoreRecent(w, v)}
  BY <1>4 DEF Earlier
<1> QED BY <1>2, <1>8, <1>9 DEF C, R

\* Places are the numbers from 0 on, without a gap.
LEMMA Places ==
  ASSUME StoreInv, NEW v \in ConversationsOf(User)
  PROVE  /\ Place(v) \in Nat
         /\ \A k \in 0..Place(v) : \E w \in ConversationsOf(User) : Place(w) = k
<1>1. PICK C : C = ConversationsOf(User)
  OBVIOUS
<1>2. PICK R : R = {p \in C \X C : MoreRecent(p[1], p[2])}
  OBVIOUS
<1>3. IsFiniteSet(C) /\ StrictOrder(R, C)
  BY <1>1, <1>2, ListOrder
<1>4. \A w \in C : Earlier(w, R, C) = {x \in C : MoreRecent(x, w)}
  BY <1>1, <1>2, ListOrder
<1>5. \A w \in C : Place(w) = Cardinality(Earlier(w, R, C))
  BY <1>1, <1>4 DEF Place
<1>6. Cardinality(C) \in Nat
  BY <1>3, FS_CardinalityType
<1>7. \A w \in C : Place(w) \in 0..(Cardinality(C) - 1)
  <2>1. \A w \in C : Cardinality(Earlier(w, R, C)) \in 0..(Cardinality(C) - 1)
    BY <1>3, RankOf
  <2> QED BY <1>5, <2>1
<1>8. \A k \in 0..(Cardinality(C) - 1) : \E w \in C : Place(w) = k
  <2>1. \A k \in 0..(Cardinality(C) - 1) :
          \E w \in C : Cardinality(Earlier(w, R, C)) = k
    BY <1>3, RankOf
  <2> QED BY <1>5, <2>1
<1>9. Place(v) \in 0..(Cardinality(C) - 1)
  BY <1>1, <1>7
<1>10. \A k \in 0..Place(v) : k \in 0..(Cardinality(C) - 1)
  BY <1>6, <1>9
<1> QED BY <1>1, <1>6, <1>8, <1>9, <1>10

\* A page is what lies between two places.
LEMMA PageIsPlaces ==
  ASSUME NEW l, NEW o
  PROVE  ListConversationsByUser(User, l, o)
           = {v \in ConversationsOf(User) : Place(v) \in o..(o + l - 1)}
BY DEF ListConversationsByUser, Place

\* Whatever the worker writes, a conversation it leaves alone only moves down
\* the list.
LEMMA PlaceGrows ==
  ASSUME StoreInv, SeqBound, Pointing, [Next]_vars,
         NEW v \in ConversationsOf(User), lastMessage'[v] = lastMessage[v]
  PROVE  /\ Place(v) \in Nat /\ Place(v)' \in Nat
         /\ Place(v) <= Place(v)'
<1> DEFINE A == {w \in ConversationsOf(User) : MoreRecent(w, v)}
           B == {w \in ConversationsOf(User) : MoreRecent(w, v)'}
<1>1. IsFiniteSet(ConversationsOf(User))
  BY ListOrder
<1>2. \A w \in ConversationsOf(User) :
        /\ w \in Nat
        /\ lastMessage[w] \in Nat /\ lastMessage'[w] \in Nat
        /\ lastMessage[w] <= lastMessage'[w]
  BY TablesGrow, ConvsAssumption DEF ConversationsOf
<1>3. \A w \in ConversationsOf(User) : MoreRecent(w, v) => MoreRecent(w, v)'
  BY <1>2 DEF MoreRecent
<1>4. A \in SUBSET B /\ B \in SUBSET ConversationsOf(User)
  BY <1>3
<1>5. Place(v) = Cardinality(A) /\ Place(v)' = Cardinality(B)
  BY DEF Place, ConversationsOf
<1> HIDE DEF A, B
<1>6. IsFiniteSet(B)
  BY <1>1, <1>4, FS_Subset
<1>7. IsFiniteSet(A) /\ Cardinality(A) <= Cardinality(B)
  BY <1>4, <1>6, FS_Subset
<1>8. Cardinality(A) \in Nat /\ Cardinality(B) \in Nat
  BY <1>6, <1>7, FS_CardinalityType
<1> QED BY <1>5, <1>7, <1>8

\* An offset never passes a conversation that has not been shown and that the
\* worker has left alone, so none is left when a page is empty.
LEMMA ListingStep ==
  ASSUME TypeOK, StoreInv, SeqBound, Pointing, Listing, QuietNotSkipped, [Next]_vars
  PROVE  Listing' /\ QuietNotSkipped'
<1> DEFINE C == ConversationsOf(User)
<1>1. \A v \in C : Place(v) \in Nat
  BY Places
<1>2. CASE UNCHANGED listerVars /\ UNCHANGED lastMessage
  <2>1. \A v : Place(v)' = Place(v)
    BY <1>2 DEF Place, ConversationsOf, MoreRecent
  <2>2. Listing'
    BY <1>2, <2>1 DEF Listing, listerVars, ConversationsOf
  <2> QED BY <1>2, <2>2 DEF QuietNotSkipped, listerVars, ConversationsOf
<1>3. CASE DBWorker
  <2>1. /\ lister' = lister /\ offset' = offset /\ listed' = listed
        /\ bumped' = bumped \cup {v \in Convs : lastMessage'[v] # lastMessage[v]}
    BY <1>3 DEF DBWorker
  <2>2. \A v \in C \ bumped' : v \notin bumped /\ lastMessage'[v] = lastMessage[v]
    BY <2>1 DEF ConversationsOf
  <2>3. ASSUME NEW v \in C \ bumped', v \notin listed' PROVE offset' <= Place(v)'
    <3>1. offset \in Nat /\ offset <= Place(v)
      BY <2>1, <2>2, <2>3 DEF Listing, TypeOK
    <3>2. lastMessage'[v] = lastMessage[v]
      BY <2>2
    <3>3. Place(v) \in Nat /\ Place(v)' \in Nat
      BY <3>2, PlaceGrows
    <3>4. Place(v) <= Place(v)'
      BY <3>2, PlaceGrows
    <3> QED BY <2>1, <3>1, <3>3, <3>4
  <2>4. Listing'
    BY <2>1, <2>3 DEF Listing, ConversationsOf
  <2>5. QuietNotSkipped'
    BY <2>1 DEF QuietNotSkipped, ConversationsOf
  <2> QED BY <2>4, <2>5
<1>4. CASE ListConversations
  <2>1. PICK page : page = ListConversationsByUser(User, Limit, offset)
    OBVIOUS
  <2>2. /\ lister' = IF page = {} THEN "done" ELSE "listing"
        /\ listed' = listed \cup page
        /\ offset' = offset + Limit
        /\ bumped' = IF lister = "new" THEN {} ELSE bumped
    BY <1>4, <2>1 DEF ListConversations
  <2>3. offset \in Nat /\ Limit \in Nat \ {0}
    BY LimitAssumption DEF TypeOK
  <2>4. \A v \in C : v \in page <=> Place(v) \in offset..(offset + Limit - 1)
    BY <2>1, PageIsPlaces
  <2>5. \A v \in C \ bumped' : v \in listed \/ offset <= Place(v)
    BY <1>1, <2>2 DEF Listing
  <2>6. \A v : Place(v)' = Place(v)
    BY <1>4 DEF ListConversations, storeVars, tables, Place, ConversationsOf, MoreRecent
  <2>7. \A v \in C \ bumped' : v \in listed' \/ offset' <= Place(v)
    BY <1>1, <2>2, <2>3, <2>4, <2>5
  <2>8. Listing'
    BY <2>2, <2>6, <2>7 DEF Listing, ConversationsOf
  <2>9. ASSUME page = {}, NEW v \in C \ bumped' PROVE v \in listed'
    <3>1. CASE offset <= Place(v)
      <4>1. offset \in 0..Place(v)
        BY <1>1, <2>3, <3>1
      <4>2. PICK w \in C : Place(w) = offset
        BY <4>1, Places
      <4>3. w \in page
        BY <2>3, <2>4, <4>2
      <4> QED BY <2>9, <4>3
    <3> QED BY <2>2, <2>5, <3>1
  <2>10. QuietNotSkipped'
    BY <2>2, <2>9 DEF QuietNotSkipped, ConversationsOf
  <2> QED BY <2>8, <2>10
<1>5. TakeAny => UNCHANGED lastMessage
  BY DEF TakeAny, Take, tables
<1>6. CASE UNCHANGED storeVars /\ UNCHANGED listerVars
  BY <1>2, <1>6 DEF storeVars, tables
<1> QED
  BY <1>2, <1>3, <1>4, <1>5, <1>6
     DEF Next, TakeAny, GetMessages, ReadConversation, ReadRecent, vars

-----------------------------------------------------------------------------
(* Opening a conversation *)

\* The newest messages, read second, reach down to the last message that was
\* read first, or are all above it.
LEMMA ViewingStep ==
  ASSUME TypeOK, StoreInv, SeqBound, Pointing, Viewing, DetailConsistent, [Next]_vars
  PROVE  Viewing' /\ DetailConsistent'
<1>1. MessageIds(Conv) \subseteq MessageIds(Conv)'
  BY TablesGrow
<1>2. CASE UNCHANGED viewerVars
  BY <1>1, <1>2 DEF Viewing, DetailConsistent, viewerVars
<1>3. CASE ReadConversation
  <2>1. viewer' = "read" /\ header' = lastMessage[Conv]
    BY <1>3 DEF ReadConversation
  <2>2. header' # 0 => header' \in MessageIds(Conv)
    BY <2>1, ConvAssumption DEF Pointing
  <2> QED BY <1>1, <2>1, <2>2 DEF Viewing, DetailConsistent
<1>4. CASE ReadRecent
  <2>1. /\ viewer = "read" /\ viewer' = "done" /\ header' = header
        /\ recent' = GetMessagesByConversation(Conv, 0, Recent)
    BY <1>4 DEF ReadRecent
  <2>2. Viewing'
    BY <1>1, <2>1 DEF Viewing
  <2>3. ASSUME header # 0, header \notin recent'
        PROVE  Cardinality(recent') = Recent /\ \A i \in recent' : i > header
    <3>1. header \in MessageIds(Conv)
      BY <2>1, <2>3 DEF Viewing
    <3>2. \A i : Below(i, 0)
      BY DEF Below
    <3>3. 0 \in Nat /\ Recent \in Nat \ {0}
      BY LimitAssumption
    <3>4. PICK page : page = GetMessagesByConversation(Conv, 0, Recent)
      OBVIOUS
    <3>5. \A j \in MessageIds(Conv) : Below(j, 0) /\ j \notin page
            => Cardinality(page) = Recent
      BY <3>3, <3>4, PageOf
    <3>6. \A i \in page : \A j \in MessageIds(Conv) :
            Below(j, 0) /\ i <= j => j \in page
      BY <3>3, <3>4, PageOf
    <3>7. \A i \in page : ~ (i <= header)
      BY <2>1, <2>3, <3>1, <3>2, <3>4, <3>6
    <3>8. page \in SUBSET (1..MaxSeq)
      BY <3>3, <3>4, PageOf
    <3>9. \A i \in page : i > header
      BY <3>7, <3>8, SeqAssumption DEF TypeOK
    <3> QED BY <2>1, <2>3, <3>1, <3>2, <3>4, <3>5, <3>9
  <2> QED BY <2>1, <2>2, <2>3 DEF DetailConsistent
<1> QED
  BY <1>2, <1>3, <1>4
     DEF Next, TakeAny, DBWorker, GetMessages, ListConversations, vars

-----------------------------------------------------------------------------
(* The unread counts *)

LEMMA CountableStep ==
  ASSUME StoreInv, Countable, [Next]_vars
  PROVE  Countable'
<1>1. StoreStep
  BY StepIsStoreStep
<1>2. messages' = messages \/ \E row : messages' = messages \cup {row}
  BY <1>1, RowsStep
<1> QED BY <1>2, FS_AddElement DEF Countable

\* The conversation that is added next, and the sum.
Some(s) == CHOOSE v \in s : TRUE
SumOfUnread(C, u) == MapThenSumSet(LAMBDA v : UnreadIn(v, u), C)

\* f holds, for every set of conversations, the sum of their unread_count
\* columns, added up one after the other.
SumsUp(f, C, u) ==
  f = [s \in SUBSET C |->
         IF s = {} THEN 0
         ELSE UnreadIn(Some(s), u) + f[s \ {Some(s)}]]

\* The sum is one of such a function, if there is one.
LEMMA SumIsOfSome ==
  ASSUME NEW C, NEW u, NEW g, SumsUp(g, C, u)
  PROVE  \E f : SumsUp(f, C, u) /\ SumOfUnread(C, u) = f[C]
<1> DEFINE iter == CHOOSE f : SumsUp(f, C, u)
<1>1. SumOfUnread(C, u) = iter[C]
  BY Zenon DEF SumOfUnread, MapThenSumSet, MapThenFoldSet, SumsUp, Some
<1>2. SumsUp(iter, C, u)
  OBVIOUS
<1> QED BY <1>1, <1>2

\* There is at most one: take the smallest set on which two of them differ.
LEMMA SumIsUnique ==
  ASSUME NEW C, IsFiniteSet(C), NEW u, NEW f, NEW g, SumsUp(f, C, u), SumsUp(g, C, u)
  PROVE  f[C] = g[C]
<1> DEFINE bad == {s \in SUBSET C : f[s] # g[s]}
           sizes == {Cardinality(s) : s \in bad}
<1> SUFFICES ASSUME f[C] # g[C] PROVE FALSE
  OBVIOUS
<1>1. \A s \in SUBSET C : IsFiniteSet(s) /\ Cardinality(s) \in Nat
                         /\ Cardinality(s) <= Cardinality(C)
  BY FS_Subset, FS_CardinalityType
<1>2. sizes \in SUBSET Nat /\ sizes # {} /\ sizes \in SUBSET (0..Cardinality(C))
  <2>1. C \in bad
    OBVIOUS
  <2>2. sizes # {}
    BY <2>1
  <2>3. \A n \in sizes : n \in Nat /\ n <= Cardinality(C)
    BY <1>1
  <2>4. Cardinality(C) \in Nat
    BY <1>1
  <2> HIDE DEF sizes, bad
  <2>5. \A n \in sizes : n \in 0..Cardinality(C)
    BY <2>3, <2>4
  <2> QED BY <2>2, <2>3, <2>5
<1>3. IsFiniteSet(sizes)
  <2>1. IsFiniteSet(0..Cardinality(C))
    BY <1>1, FS_Interval
  <2> HIDE DEF sizes
  <2> QED BY <1>2, <2>1, FS_Subset
<1>4. PICK n \in sizes : \A k \in sizes : n <= k
  <2> HIDE DEF sizes
  <2> QED BY <1>2, <1>3, Smallest
<1>5. PICK s \in bad : Cardinality(s) = n
  BY <1>4
<1>6. PICK x : x = Some(s)
  OBVIOUS
<1>7. /\ f[s] = IF s = {} THEN 0 ELSE UnreadIn(x, u) + f[s \ {x}]
      /\ g[s] = IF s = {} THEN 0 ELSE UnreadIn(x, u) + g[s \ {x}]
  BY <1>6 DEF SumsUp
<1>8. s # {} /\ f[s \ {x}] # g[s \ {x}]
  BY <1>5, <1>7
<1>9. x \in s
  BY <1>6, <1>8 DEF Some
<1>10. s \ {x} \in bad
  BY <1>5, <1>8
<1>11. n <= Cardinality(s \ {x})
  BY <1>4, <1>10
<1>12. IsFiniteSet(s) /\ Cardinality(s) \in Nat
  BY <1>1, <1>5
<1>13. Cardinality(s \ {x}) = Cardinality(s) - 1
  BY <1>9, <1>12, FS_RemoveElement
<1> QED BY <1>5, <1>11, <1>12, <1>13

\* The unread messages of u in the conversations of s.
Unread(s, u) ==
  {m \in messages : m.conv \in s /\ m.id > lastRead[<<m.conv, u>>] /\ m.sender # u}

\* Counting the unread messages of several conversations at once sums up.
LEMMA CountSumsUp ==
  ASSUME Countable, NEW C, NEW u
  PROVE  SumsUp([s \in SUBSET C |-> Cardinality(Unread(s, u))], C, u)
<1> DEFINE g == [s \in SUBSET C |-> Cardinality(Unread(s, u))]
<1> SUFFICES ASSUME NEW s \in SUBSET C
             PROVE  Cardinality(Unread(s, u)) =
                      IF s = {} THEN 0
                      ELSE UnreadIn(Some(s), u) + g[s \ {Some(s)}]
  BY DEF SumsUp
<1>1. CASE s = {}
  <2>1. Unread(s, u) = {}
    BY <1>1 DEF Unread
  <2> QED BY <1>1, <2>1, FS_EmptySet
<1>2. CASE s # {}
  <2>1. PICK x : x = Some(s)
    OBVIOUS
  <2>2. x \in s
    BY <1>2, <2>1 DEF Some
  <2>3. PICK A : A = {m \in messages :
                        m.conv = x /\ m.id > lastRead[<<x, u>>] /\ m.sender # u}
    OBVIOUS
  <2>4. PICK B : B = Unread(s \ {x}, u)
    OBVIOUS
  <2>5. A \in SUBSET messages /\ B \in SUBSET messages
    BY <2>3, <2>4 DEF Unread
  <2>6. IsFiniteSet(A) /\ IsFiniteSet(B)
    BY <2>5, FS_Subset DEF Countable
  <2>7. A \cap B = {}
    BY <2>3, <2>4 DEF Unread
  <2>8. A \cup B = Unread(s, u)
    BY <2>2, <2>3, <2>4 DEF Unread
  <2>9. Cardinality(A \cup B) = Cardinality(A) + Cardinality(B) - Cardinality(A \cap B)
    BY <2>6, FS_Union
  <2>10. Cardinality(A \cap B) = 0
    BY <2>7, FS_EmptySet
  <2>11. Cardinality(A) \in Nat /\ Cardinality(B) \in Nat
    BY <2>6, FS_CardinalityType
  <2>12. UnreadIn(x, u) = Cardinality(A)
    BY <2>3 DEF UnreadIn
  <2>13. g[s \ {x}] = Cardinality(B)
    BY <2>4
  <2>14. Cardinality(Unread(s, u)) = UnreadIn(x, u) + g[s \ {x}]
    <3> HIDE DEF g
    <3>1. Cardinality(A \cup B) = Cardinality(A) + Cardinality(B)
      BY <2>9, <2>10, <2>11
    <3> QED BY <2>8, <2>12, <2>13, <3>1
  <2> HIDE DEF g
  <2> QED BY <1>2, <2>1, <2>14
<1> QED BY <1>1, <1>2

LEMMA TotalIsSum == StoreInv /\ Countable => UnreadAgrees
<1> SUFFICES ASSUME StoreInv, Countable, NEW u \in Users
             PROVE  GetTotalUnreadCount(u) = SumOfUnread(ConversationsOf(u), u)
  BY Zenon DEF UnreadAgrees, SumOfUnread
<1>1. PICK C : C = ConversationsOf(u)
  OBVIOUS
<1>2. IsFiniteSet(C)
  <2>1. C \in SUBSET Convs
    BY <1>1 DEF ConversationsOf
  <2> QED BY <2>1, ConvAssumption, FS_Subset
<1>3. PICK g : g = [s \in SUBSET C |-> Cardinality(Unread(s, u))]
  OBVIOUS
<1>4. SumsUp(g, C, u)
  BY <1>3, CountSumsUp
<1>5. PICK f : SumsUp(f, C, u) /\ SumOfUnread(C, u) = f[C]
  BY <1>4, SumIsOfSome
<1>6. f[C] = g[C]
  BY <1>2, <1>4, <1>5, SumIsUnique
<1>7. g[C] = Cardinality(Unread(C, u))
  BY <1>3
<1>8. Unread(C, u) = {m \in messages : /\ u \in Participants[m.conv]
                                      /\ m.id > lastRead[<<m.conv, u>>]
                                      /\ m.sender # u}
  BY <1>1 DEF Unread, ConversationsOf, StoreInv, StoreTypeOK
<1>9. GetTotalUnreadCount(u) = Cardinality(Unread(C, u))
  BY <1>8 DEF GetTotalUnreadCount
<1> QED BY <1>1, <1>5, <1>6, <1>7, <1>9

-----------------------------------------------------------------------------
(* The invariant *)

LEMMA InitInv == Init => IInv
<1> SUFFICES ASSUME Init PROVE IInv
  OBVIOUS
<1>1. StoreInv
  BY StoreInitInv DEF Init
<1>2. TypeOK
  BY <1>1, SeqAssumption DEF Init, TypeOK, StoreInv
<1>3. SeqBound /\ Countable /\ Pointing
  BY SeqAssumption, FS_EmptySet DEF Init, StoreInit, SeqBound, Countable, Pointing
<1>4. Paging
  BY DEF Init, Paging
<1>5. Viewing /\ DetailConsistent /\ QuietNotSkipped
  BY DEF Init, Viewing, DetailConsistent, QuietNotSkipped
<1>6. Listing
  <2>1. offset = 0
    BY DEF Init
  <2>2. \A v \in ConversationsOf(User) : Place(v) \in Nat
    BY <1>1, Places
  <2> QED BY <2>1, <2>2 DEF Listing
<1> QED BY <1>1, <1>2, <1>3, <1>4, <1>5, <1>6 DEF IInv

LEMMA TypeStep == IInv /\ [Next]_vars => TypeOK'
<1> SUFFICES ASSUME IInv, [Next]_vars PROVE TypeOK'
  OBVIOUS
<1> USE DEF IInv
<1>1. StoreTypeOK'
  BY StepIsStoreStep, StoreTypeStep
<1>2. CASE TakeAny
  BY <1>1, <1>2 DEF TakeAny, pagerVars, listerVars, viewerVars, TypeOK
<1>3. CASE DBWorker
  BY <1>1, <1>3 DEF DBWorker, pagerVars, viewerVars, TypeOK
<1>4. CASE GetMessages
  <2>1. before \in Nat /\ Limit \in Nat \ {0}
    BY LimitAssumption DEF TypeOK
  <2>2. PICK page : page = GetMessagesByConversation(Conv, before, Limit)
    OBVIOUS
  <2>3. page \in SUBSET (1..MaxSeq) /\ IsFiniteSet(page)
    BY <2>1, <2>2, PageOf
  <2>4. /\ pager' = IF page = {} THEN "done" ELSE "paging"
        /\ before' = IF page = {} THEN before ELSE Min(page)
        /\ got' = [i \in DOMAIN got |-> IF i \in page THEN got[i] + 1 ELSE got[i]]
        /\ wanted' = IF pager = "new" THEN MessageIds(Conv) ELSE wanted
    BY <1>4, <2>2 DEF GetMessages
  <2>5. before' \in 0..MaxSeq
    <3>1. CASE page = {}
      BY <2>4, <3>1 DEF TypeOK
    <3>2. CASE page # {}
      <4>1. page \in SUBSET Nat
        BY <2>3
      <4>2. Min(page) \in page
        BY <2>3, <3>2, <4>1, Smallest
      <4>3. before' = Min(page)
        BY <2>4, <3>2
      <4>4. Min(page) \in 1..MaxSeq
        BY <2>3, <4>2
      <4> QED BY <4>3, <4>4, SeqAssumption
    <3> QED BY <3>1, <3>2
  <2>6. wanted' \in SUBSET (1..MaxSeq)
    <3>1. MessageIds(Conv) \in SUBSET (1..MaxSeq)
      BY Ids
    <3> QED BY <2>4, <3>1 DEF TypeOK
  <2>7. got' \in [1..MaxSeq -> Nat] /\ pager' \in {"new", "paging", "done"}
    BY <2>4 DEF TypeOK
  <2> QED
    BY <1>1, <1>4, <2>5, <2>6, <2>7 DEF GetMessages, listerVars, viewerVars, TypeOK
<1>5. CASE ListConversations
  <2>1. ListConversationsByUser(User, Limit, offset) \in SUBSET Convs
    BY DEF ListConversationsByUser, ConversationsOf
  <2>2. listed' \in SUBSET Convs /\ offset' \in Nat
    BY <1>5, <2>1, LimitAssumption DEF ListConversations, TypeOK
  <2> QED
    BY <1>1, <1>5, <2>2 DEF ListConversations, pagerVars, viewerVars, TypeOK
<1>6. CASE ReadConversation
  <2>1. lastMessage[Conv] \in 0..MaxSeq
    <3>1. MessageIds(Conv) \in SUBSET (1..MaxSeq)
      BY Ids
    <3>2. lastMessage[Conv] # 0 => lastMessage[Conv] \in MessageIds(Conv)
      BY ConvAssumption DEF Pointing
    <3> QED BY <3>1, <3>2, SeqAssumption
  <2> QED
    BY <1>1, <1>6, <2>1 DEF ReadConversation, pagerVars, listerVars, TypeOK
<1>7. CASE ReadRecent
  <2>1. 0 \in Nat /\ Recent \in Nat \ {0}
    BY LimitAssumption
  <2>2. PICK page : page = GetMessagesByConversation(Conv, 0, Recent)
    OBVIOUS
  <2>3. page \in SUBSET (1..MaxSeq)
    BY <2>1, <2>2, PageOf
  <2> QED
    BY <1>1, <1>7, <2>2, <2>3 DEF ReadRecent, pagerVars, listerVars, TypeOK
<1>8. CASE UNCHANGED vars
  BY <1>1, <1>8 DEF vars, pagerVars, listerVars, viewerVars, TypeOK
<1> QED BY <1>2, <1>3, <1>4, <1>5, <1>6, <1>7, <1>8 DEF Next

LEMMA NextInv == IInv /\ [Next]_vars => IInv'
<1> SUFFICES ASSUME IInv, [Next]_vars PROVE IInv'
  OBVIOUS
<1>0. /\ TypeOK /\ StoreInv /\ SeqBound /\ Countable /\ Pointing /\ Paging
      /\ Listing /\ QuietNotSkipped /\ Viewing /\ DetailConsistent
  BY DEF IInv
<1>1. TypeOK'
  BY TypeStep
<1>2. StoreInv'
  BY <1>0, StepIsStoreStep, StoreInvStep
<1>3. SeqBound'
  BY <1>0, SeqBoundStep
<1>4. Pointing'
  BY <1>0, PointingStep
<1>5. Paging'
  BY <1>0, PagingStep
<1>6. Listing' /\ QuietNotSkipped'
  BY <1>0, ListingStep
<1>7. Viewing' /\ DetailConsistent'
  BY <1>0, ViewingStep
<1>8. Countable'
  BY <1>0, CountableStep
<1> QED BY <1>1, <1>2, <1>3, <1>4, <1>5, <1>6, <1>7, <1>8 DEF IInv

-----------------------------------------------------------------------------
(* Theorems *)

\* What pages, lists and details have shown is, after every request and every
\* statement of the worker, what the place they have reached says.
THEOREM Inductive == Spec => []IInv
BY InitInv, NextInv, PTL DEF Spec

THEOREM TypeCorrect == Spec => []TypeOK
BY Inductive, PTL DEF IInv

\* A client that pages back with before_id is shown no message twice, and when
\* a page comes back empty every message there was at its first request
\* (chat.sql.go:181-183).
THEOREM HistoryCompleteAlways == Spec => []HistoryComplete
<1>1. IInv => HistoryComplete
  BY DEF IInv, Paging, HistoryComplete
<1> QED BY <1>1, Inductive, PTL

\* Paging by offset skips no conversation that had no new message meanwhile
\* (chat.sql.go:295-296).
THEOREM QuietNotSkippedAlways == Spec => []QuietNotSkipped
BY Inductive, PTL DEF IInv

\* The header and the messages of a conversation's detail, read in different
\* transactions, fit together (service.go:252-312).
THEOREM DetailConsistentAlways == Spec => []DetailConsistent
BY Inductive, PTL DEF IInv

\* The total of unread messages is the sum of the unread counts in the list,
\* whatever the marks have set (chat.sql.go:250-257 and 279-285).
THEOREM UnreadAgreesAlways == Spec => []UnreadAgrees
<1>1. IInv => UnreadAgrees
  BY TotalIsSum DEF IInv
<1> QED BY <1>1, Inductive, PTL
=============================================================================
