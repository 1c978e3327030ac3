------------------------ MODULE PersistenceOrderProofs ------------------------
(***************************************************************************)
(* Proofs of what holds of the message table and the reading pointers for  *)
(* any number of partitions, resends, restarts and rebalances: the rows of *)
(* clean records make Persistence implement MessageLog, and of the clean   *)
(* marks of a partition a pointer is set by the later one.                 *)
(*                                                                         *)
(* OrderInv adds to the invariant of PersistenceProofs that a record which *)
(* repeats no earlier one of its partition was pushed after all of them,   *)
(* because what is sent or waits was pushed after what is in the topic or  *)
(* is there already (Queued); that no two partitions hold the same event   *)
(* (Separate); that the job in hand and every row are those of their       *)
(* record (Faithful); and that the rows can be numbered by rank (Ranked),  *)
(* which is what Stored does.                                              *)
(***************************************************************************)
EXTENDS PersistenceProofs, FiniteSetTheorems, SequenceTheorems

Increasing(s) == \A i, j \in DOMAIN s : i < j => s[i] < s[j]
Before(s, t) == \A i \in DOMAIN s : \A j \in DOMAIN t : s[i] < t[j]
Holds(s, n) == \E i \in DOMAIN s : s[i] = n
Within(s, t) == \A i \in DOMAIN s : Holds(t, s[i])

\* What does not occur earlier in s is above all that does.
NewestYet(s) ==
  \A i \in DOMAIN s :
    (\A j \in 1..(i - 1) : s[j] # s[i]) => \A j \in 1..(i - 1) : s[j] < s[i]

Queued ==
  \A p \in Partitions :
    /\ Increasing(batch[p]) /\ Increasing(waiting[p])
    /\ Before(topic[p], batch[p]) \/ Within(batch[p], topic[p])
    /\ Before(topic[p], waiting[p])
    /\ Before(batch[p], waiting[p])
    /\ NewestYet(topic[p])

HeldBy(p, n) == Holds(topic[p], n) \/ Holds(batch[p], n) \/ Holds(waiting[p], n)

Separate == \A p, q \in Partitions : \A n : HeldBy(p, n) /\ HeldBy(q, n) => p = q

Faithful ==
  /\ worker # "read" => job = Record(source)
  /\ \A m \in messages : Record(m.source).kind = "message"

\* The ranks of a set of rows number it.
Numbered(rows) ==
  /\ IsFiniteSet(rows)
  /\ \A m \in rows : Rank(rows, m) \in 1..Cardinality(rows)
  /\ \A m, n \in rows : Rank(rows, m) = Rank(rows, n) => m = n
  /\ \A i \in 1..Cardinality(rows) : \E m \in rows : Rank(rows, m) = i

Ranked == \A p \in Partitions : Numbered(CleanRows(p))

OrderInv == IInv /\ Queued /\ Separate /\ Faithful /\ Ranked

-----------------------------------------------------------------------------
(* The order of a partition *)

\* Where the elements of two sequences are when they are joined.
LEMMA ConcatIndex ==
  ASSUME NEW s \in Seq(Nat), NEW t \in Seq(Nat)
  PROVE  /\ Len(s) \in Nat /\ Len(t) \in Nat
         /\ DOMAIN s = 1..Len(s) /\ DOMAIN t = 1..Len(t)
         /\ DOMAIN (s \o t) = 1..(Len(s) + Len(t))
         /\ \A i \in 1..Len(s) : (s \o t)[i] = s[i]
         /\ \A i \in DOMAIN t : \E k \in DOMAIN (s \o t) : (s \o t)[k] = t[i]
         /\ \A i \in DOMAIN (s \o t) :
              \/ i \in DOMAIN s /\ (s \o t)[i] = s[i]
              \/ i - Len(s) \in DOMAIN t /\ (s \o t)[i] = t[i - Len(s)]
<1> DEFINE u == s \o t
<1>1. /\ Len(s) \in Nat /\ Len(t) \in Nat
      /\ DOMAIN s = 1..Len(s) /\ DOMAIN t = 1..Len(t)
  BY LenProperties
<1>2. /\ u \in Seq(Nat) /\ Len(u) = Len(s) + Len(t)
      /\ \A i \in 1..(Len(s) + Len(t)) :
           u[i] = IF i <= Len(s) THEN s[i] ELSE t[i - Len(s)]
  BY ConcatProperties
<1>3. DOMAIN u = 1..(Len(s) + Len(t))
  BY <1>2, LenProperties
<1> HIDE DEF u
<1>4. \A i \in 1..Len(s) : u[i] = s[i]
  BY <1>1, <1>2
<1>5. ASSUME NEW i \in DOMAIN u
      PROVE  \/ i \in DOMAIN s /\ u[i] = s[i]
             \/ i - Len(s) \in DOMAIN t /\ u[i] = t[i - Len(s)]
  <2>1. CASE i <= Len(s)
    BY <1>1, <1>2, <1>3, <2>1
  <2>2. CASE i > Len(s)
    <3>1. i - Len(s) \in 1..Len(t)
      BY <1>1, <1>3, <2>2
    <3> QED BY <1>1, <1>2, <1>3, <2>2, <3>1
  <2> QED BY <1>1, <1>3, <2>1, <2>2
<1>6. ASSUME NEW i \in DOMAIN t PROVE \E k \in DOMAIN u : u[k] = t[i]
  <2>1. /\ Len(s) + i \in 1..(Len(s) + Len(t)) /\ ~ (Len(s) + i <= Len(s))
        /\ Len(s) + i - Len(s) = i
    BY <1>1
  <2> QED BY <1>2, <1>3, <2>1
<1> QED BY <1>1, <1>3, <1>4, <1>5, <1>6 DEF u

\* What is put behind greater positions keeps a sequence increasing.
LEMMA AppendIncreasing ==
  ASSUME NEW s \in Seq(Nat), NEW n \in Nat, Increasing(s),
         \A i \in DOMAIN s : s[i] < n
  PROVE  Increasing(Append(s, n))
BY DEF Increasing

\* The parts into which an increasing sequence is cut are increasing, and the
\* first lies before the second.
LEMMA SplitIncreasing ==
  ASSUME NEW s \in Seq(Nat), NEW n \in 1..Len(s), Increasing(s),
         NEW a, a = SubSeq(s, 1, n),
         NEW b, b = SubSeq(s, n + 1, Len(s))
  PROVE  /\ Increasing(a) /\ Increasing(b) /\ Before(a, b)
         /\ \A i \in DOMAIN a : i \in DOMAIN s /\ a[i] = s[i]
         /\ \A i \in DOMAIN b : n + i \in DOMAIN s /\ b[i] = s[n + i]
<1>a. DOMAIN a = 1..n /\ \A i \in 1..n : a[i] = s[i]
  OBVIOUS
<1>b. DOMAIN b = 1..(Len(s) - n) /\ \A i \in 1..(Len(s) - n) : b[i] = s[n + i]
  OBVIOUS
<1>c. Len(s) \in Nat /\ n \in Nat /\ n <= Len(s) /\ DOMAIN s = 1..Len(s)
  OBVIOUS
<1>2. Increasing(a)
  BY <1>a, <1>b, <1>c DEF Increasing
<1>3. Increasing(b)
  <2> SUFFICES ASSUME NEW i \in DOMAIN b, NEW j \in DOMAIN b, i < j PROVE b[i] < b[j]
    BY DEF Increasing
  <2>1. n + i \in DOMAIN s /\ n + j \in DOMAIN s /\ n + i < n + j
    BY <1>a, <1>b, <1>c
  <2>2. s[n + i] < s[n + j]
    BY <2>1 DEF Increasing
  <2> QED BY <1>a, <1>b, <1>c, <2>2
<1>4. Before(a, b)
  <2> SUFFICES ASSUME NEW i \in DOMAIN a, NEW j \in DOMAIN b PROVE a[i] < b[j]
    BY DEF Before
  <2>1. i \in DOMAIN s /\ n + j \in DOMAIN s /\ i < n + j
    BY <1>a, <1>b, <1>c
  <2>2. s[i] < s[n + j]
    BY <2>1 DEF Increasing
  <2> QED BY <1>a, <1>b, <1>c, <2>2
<1>5. \A i \in DOMAIN a : i \in DOMAIN s /\ a[i] = s[i]
  BY <1>a, <1>c
<1>6. ASSUME NEW i \in DOMAIN b PROVE n + i \in DOMAIN s /\ b[i] = s[n + i]
  <2>1. i \in 1..(Len(s) - n) /\ n + i \in 1..Len(s)
    BY <1>b, <1>c
  <2> QED BY <1>b, <1>c, <2>1
<1> QED BY <1>2, <1>3, <1>4, <1>5, <1>6

\* The positions in a partition are numbers below those of events to come.
LEMMA Positions ==
  ASSUME TypeOK, NEW s \in Seq(DOMAIN accepted)
  PROVE  /\ s \in Seq(Nat)
         /\ \A i \in DOMAIN s : s[i] \in DOMAIN accepted /\ s[i] < Len(accepted) + 1
<1>1. DOMAIN accepted = 1..Len(accepted) /\ Len(accepted) \in Nat
  BY DEF TypeOK
<1>2. DOMAIN accepted \subseteq Nat
  BY <1>1
<1> QED BY <1>1, <1>2

\* A sequence to which a batch is joined that was pushed later, or is in it
\* already, still grows by what it does not hold.
LEMMA ConcatNewest ==
  ASSUME NEW s \in Seq(Nat), NEW t \in Seq(Nat),
         NewestYet(s), Increasing(t), Before(s, t) \/ Within(t, s)
  PROVE  NewestYet(s \o t)
<1> DEFINE u == s \o t
<1> SUFFICES ASSUME NEW i \in DOMAIN u, \A j \in 1..(i - 1) : u[j] # u[i],
                    NEW j \in 1..(i - 1)
             PROVE  u[j] < u[i]
  BY DEF NewestYet
<1>1. /\ Len(s) \in Nat /\ Len(t) \in Nat
      /\ DOMAIN s = 1..Len(s) /\ DOMAIN t = 1..Len(t)
      /\ DOMAIN u = 1..(Len(s) + Len(t))
      /\ \A k \in 1..Len(s) : u[k] = s[k]
      /\ \A k \in DOMAIN u :
           \/ k \in DOMAIN s /\ u[k] = s[k]
           \/ k - Len(s) \in DOMAIN t /\ u[k] = t[k - Len(s)]
  BY ConcatIndex
<1> HIDE DEF u
<1>2. i \in Nat /\ j \in DOMAIN u /\ j < i
  BY <1>1
<1>3. CASE i \in DOMAIN s
  <2>0. i \in Nat /\ i >= 1 /\ i <= Len(s) /\ i \in 1..i /\ j \in 1..i
    BY <1>1, <1>2, <1>3
  <2>1. \A k \in 1..i : u[k] = s[k]
    BY <1>1, <2>0
  <2>2. \A k \in 1..(i - 1) : s[k] # s[i]
    BY <1>1, <1>2, <1>3, <2>1
  <2>3. s[j] < s[i]
    BY <1>3, <2>2 DEF NewestYet
  <2> QED BY <2>0, <2>1, <2>3
<1>4. CASE i - Len(s) \in DOMAIN t /\ u[i] = t[i - Len(s)]
  <2>1. CASE Within(t, s)
    <3>1. PICK k \in DOMAIN s : s[k] = u[i]
      BY <1>4, <2>1 DEF Within, Holds
    <3>2. k \in 1..(i - 1) /\ u[k] = u[i]
      BY <1>1, <1>2, <1>4, <3>1
    <3> QED BY <3>2
  <2>2. CASE Before(s, t)
    <3>1. CASE j \in DOMAIN s /\ u[j] = s[j]
      BY <1>4, <2>2, <3>1 DEF Before
    <3>2. CASE j - Len(s) \in DOMAIN t /\ u[j] = t[j - Len(s)]
      <4>1. j - Len(s) < i - Len(s)
        BY <1>1, <1>2
      <4> QED BY <1>4, <3>2, <4>1 DEF Increasing
    <3> QED BY <1>1, <1>2, <3>1, <3>2
  <2> QED BY <2>1, <2>2
<1> QED BY <1>1, <1>3, <1>4

\* What is sent was pushed after what is in the topic or is in it already, and
\* what waits was pushed after both.
LEMMA QueuedStep ==
  ASSUME TypeOK, Queued, [Next]_vars
  PROVE  Queued'
<1>0. \A q \in Partitions : /\ topic[q] \in Seq(DOMAIN accepted)
                           /\ batch[q] \in Seq(DOMAIN accepted)
                           /\ waiting[q] \in Seq(DOMAIN accepted)
  BY DEF TypeOK
<1>e. Increasing(<<>>) /\ \A s : Before(s, <<>>) /\ Before(<<>>, s)
  BY DEF Increasing, Before
<1>1. ASSUME NEW p \in Partitions, PushEvent(p) PROVE Queued'
  <2> DEFINE n == Len(accepted) + 1
             w == Append(waiting[p], n)
  <2>1. /\ waiting' = [waiting EXCEPT ![p] = w]
        /\ UNCHANGED <<batch, topic>>
    BY <1>1 DEF PushEvent
  <2>2. waiting[p] \in Seq(Nat) /\ n \in Nat
    BY <1>0, Positions DEF TypeOK
  <2>3. Increasing(w)
    BY <1>0, <2>2, AppendIncreasing, Positions DEF Queued
  <2>4. ASSUME NEW t \in Seq(DOMAIN accepted), Before(t, waiting[p])
        PROVE  Before(t, w)
    <3>1. \A i \in DOMAIN t : t[i] < n
      BY Positions
    <3>2. \A j \in DOMAIN w : w[j] = n \/ (j \in DOMAIN waiting[p] /\ w[j] = waiting[p][j])
      BY <2>2
    <3> HIDE DEF n, w
    <3> QED BY <2>4, <3>1, <3>2 DEF Before
  <2> HIDE DEF w
  <2> QED BY <1>0, <2>1, <2>3, <2>4 DEF Queued, TypeOK
<1>2. ASSUME NEW p \in Partitions, StartBatch(p) PROVE Queued'
  <2>1. PICK n \in 1..Len(waiting[p]) :
          /\ batch' = [batch EXCEPT ![p] = SubSeq(waiting[p], 1, n)]
          /\ waiting' = [waiting EXCEPT ![p] = SubSeq(@, n + 1, Len(@))]
    BY <1>2 DEF StartBatch
  <2> DEFINE w == waiting[p]
             a == SubSeq(w, 1, n)
             b == SubSeq(w, n + 1, Len(w))
  <2>2. w \in Seq(Nat) /\ Increasing(w) /\ n \in 1..Len(w)
    BY <1>0, Positions DEF Queued
  <2>a. a = SubSeq(w, 1, n) /\ b = SubSeq(w, n + 1, Len(w))
    OBVIOUS
  <2>4. batch' = [batch EXCEPT ![p] = a] /\ waiting' = [waiting EXCEPT ![p] = b]
    BY <2>1
  <2> HIDE DEF a, b
  <2> HIDE DEF w
  <2>3. Increasing(a) /\ Increasing(b) /\ Before(a, b)
    BY <2>2, <2>a, SplitIncreasing
  <2>b. \A i \in DOMAIN a : i \in DOMAIN w /\ a[i] = w[i]
    BY <2>2, <2>a, SplitIncreasing
  <2>c. \A i \in DOMAIN b : n + i \in DOMAIN w /\ b[i] = w[n + i]
    BY <2>2, <2>a, SplitIncreasing
  <2>5. Before(topic[p], a) /\ Before(topic[p], b)
    BY <2>b, <2>c DEF Queued, Before, w
  <2>6. UNCHANGED topic
    BY <1>2 DEF StartBatch
  <2> QED BY <2>3, <2>4, <2>5, <2>6 DEF Queued, TypeOK
<1>3. ASSUME NEW p \in Partitions, WriteBatch(p) PROVE Queued'
  <2> DEFINE t == topic[p] \o batch[p]
  <2>1. /\ topic' = [topic EXCEPT ![p] = t]
        /\ batch' \in {batch, [batch EXCEPT ![p] = <<>>]}
        /\ UNCHANGED waiting
    BY <1>3 DEF WriteBatch
  <2>2. topic[p] \in Seq(Nat) /\ batch[p] \in Seq(Nat)
    BY <1>0, Positions
  <2>3. NewestYet(t)
    BY <2>2, ConcatNewest DEF Queued
  <2>4. Before(t, waiting[p])
    <3>1. ASSUME NEW i \in DOMAIN t
          PROVE  \/ i \in DOMAIN topic[p] /\ t[i] = topic[p][i]
                 \/ \E k \in DOMAIN batch[p] : t[i] = batch[p][k]
      BY <2>2, ConcatIndex
    <3> HIDE DEF t
    <3> QED BY <3>1 DEF Before, Queued
  <2>5. Within(batch[p], t)
    <3>1. ASSUME NEW i \in DOMAIN batch[p]
          PROVE  \E k \in DOMAIN t : t[k] = batch[p][i]
      BY <2>2, ConcatIndex
    <3> HIDE DEF t
    <3> QED BY <3>1 DEF Within, Holds
  <2> HIDE DEF t
  <2> QED BY <1>e, <2>1, <2>3, <2>4, <2>5 DEF Queued, TypeOK
<1>4. ASSUME NEW p \in Partitions, DropBatch(p) PROVE Queued'
  <2>1. batch' = [batch EXCEPT ![p] = <<>>] /\ UNCHANGED <<topic, waiting>>
    BY <1>4 DEF DropBatch
  <2> QED BY <1>e, <2>1 DEF Queued, TypeOK
<1>5. CASE Restart
  BY <1>e, <1>5 DEF Restart, Queued
<1>6. CASE UNCHANGED <<topic, batch, waiting>>
  BY <1>6 DEF Queued
<1> QED
  BY <1>1, <1>2, <1>3, <1>4, <1>5, <1>6
     DEF Next, FetchMessage, CommitMessages, DBWorker, Rebalance, vars, writerVars

\* What a partition holds in one of three sequences after a step it held
\* before, or it is the event pushed to it.
LEMMA HeldStep ==
  ASSUME TypeOK, [Next]_vars
  PROVE  \/ \A q \in Partitions : \A n : HeldBy(q, n)' => HeldBy(q, n)
         \/ \E p \in Partitions : \A q \in Partitions : \A n :
              HeldBy(q, n)' => HeldBy(q, n) \/ (q = p /\ n = Len(accepted) + 1)
<1>0. \A q \in Partitions : /\ topic[q] \in Seq(Nat)
                           /\ batch[q] \in Seq(Nat)
                           /\ waiting[q] \in Seq(Nat)
  BY Positions DEF TypeOK
<1>e. \A n : ~ Holds(<<>>, n)
  BY DEF Holds
<1>1. ASSUME NEW p \in Partitions, PushEvent(p)
      PROVE  \A q \in Partitions : \A n :
               HeldBy(q, n)' => HeldBy(q, n) \/ (q = p /\ n = Len(accepted) + 1)
  <2> SUFFICES ASSUME NEW q \in Partitions, NEW n, HeldBy(q, n)', ~ HeldBy(q, n)
               PROVE  q = p /\ n = Len(accepted) + 1
    OBVIOUS
  <2> DEFINE k == Len(accepted) + 1
  <2>1. waiting' = [waiting EXCEPT ![p] = Append(waiting[p], k)] /\ UNCHANGED <<batch, topic>>
    BY <1>1 DEF PushEvent
  <2>2. Holds(waiting'[q], n) /\ ~ Holds(waiting[q], n)
    BY <2>1 DEF HeldBy, Holds
  <2>3. q = p /\ waiting'[q] = Append(waiting[p], k)
    BY <2>1, <2>2 DEF Holds, TypeOK
  <2>4. k \in Nat
    BY DEF TypeOK
  <2> HIDE DEF k
  <2>5. \A i \in DOMAIN Append(waiting[p], k) :
          \/ Append(waiting[p], k)[i] = k
          \/ i \in DOMAIN waiting[p] /\ Append(waiting[p], k)[i] = waiting[p][i]
    BY <1>0, <2>4
  <2>6. n = k
    BY <2>2, <2>3, <2>5 DEF Holds
  <2> QED BY <2>3, <2>6 DEF k
<1>2. ASSUME NEW p \in Partitions, StartBatch(p), NEW q \in Partitions, NEW n, HeldBy(q, n)'
      PROVE  HeldBy(q, n)
  <2>1. PICK k \in 1..Len(waiting[p]) :
          /\ batch' = [batch EXCEPT ![p] = SubSeq(waiting[p], 1, k)]
          /\ waiting' = [waiting EXCEPT ![p] = SubSeq(@, k + 1, Len(@))]
    BY <1>2 DEF StartBatch
  <2> DEFINE w == waiting[p]
             a == SubSeq(w, 1, k)
             b == SubSeq(w, k + 1, Len(w))
  <2>2. w \in Seq(Nat) /\ k \in 1..Len(w)
    BY <1>0
  <2>3. \A i \in DOMAIN a : Holds(w, a[i])
    <3>1. DOMAIN a = 1..k /\ \A i \in 1..k : a[i] = w[i] /\ i \in DOMAIN w
      BY <2>2
    <3> HIDE DEF a, w
    <3> QED BY <3>1 DEF Holds
  <2>4. \A i \in DOMAIN b : Holds(w, b[i])
    <3>1. /\ DOMAIN b = 1..(Len(w) - k)
          /\ \A i \in 1..(Len(w) - k) : b[i] = w[k + i]
      BY <2>2
    <3>2. DOMAIN w = 1..Len(w) /\ Len(w) \in Nat /\ k \in Nat
      BY <2>2
    <3> HIDE DEF b, w
    <3>3. \A i \in 1..(Len(w) - k) : k + i \in DOMAIN w
      BY <3>2
    <3> QED BY <3>1, <3>3 DEF Holds
  <2>5. batch' = [batch EXCEPT ![p] = a] /\ waiting' = [waiting EXCEPT ![p] = b] /\ UNCHANGED topic
    BY <1>2, <2>1 DEF StartBatch
  <2> HIDE DEF a, b
  <2>6. CASE q # p
    BY <1>2, <2>5, <2>6 DEF HeldBy, Holds, TypeOK
  <2>7. CASE q = p
    <3>1. batch'[q] = a /\ waiting'[q] = b /\ topic'[q] = topic[q]
      BY <2>5, <2>7 DEF TypeOK
    <3>2. Holds(topic[q], n) \/ Holds(a, n) \/ Holds(b, n)
      BY <1>2, <3>1 DEF HeldBy, Holds
    <3>3. Holds(topic[q], n) \/ Holds(w, n)
      BY <2>3, <2>4, <3>2 DEF Holds
    <3> QED BY <2>7, <3>3 DEF HeldBy
  <2> QED BY <2>6, <2>7
<1>3. ASSUME NEW p \in Partitions, WriteBatch(p), NEW q \in Partitions, NEW n, HeldBy(q, n)'
      PROVE  HeldBy(q, n)
  <2> DEFINE t == topic[p] \o batch[p]
  <2>1. /\ topic' = [topic EXCEPT ![p] = t]
        /\ batch' \in {batch, [batch EXCEPT ![p] = <<>>]}
        /\ UNCHANGED waiting
    BY <1>3 DEF WriteBatch
  <2>2. \A i \in DOMAIN t : Holds(topic[p], t[i]) \/ Holds(batch[p], t[i])
    <3>1. \A i \in DOMAIN t :
            \/ i \in DOMAIN topic[p] /\ t[i] = topic[p][i]
            \/ i - Len(topic[p]) \in DOMAIN batch[p] /\ t[i] = batch[p][i - Len(topic[p])]
      BY <1>0, ConcatIndex
    <3> HIDE DEF t
    <3> QED BY <3>1 DEF Holds
  <2> HIDE DEF t
  <2>3. topic'[q] = topic[q] \/ (q = p /\ topic'[q] = t)
    BY <2>1 DEF TypeOK
  <2>4. batch'[q] = batch[q] \/ batch'[q] = <<>>
    BY <2>1 DEF TypeOK
  <2>5. Holds(topic'[q], n) \/ Holds(batch[q], n) \/ Holds(waiting[q], n)
    BY <1>3, <1>e, <2>1, <2>4 DEF HeldBy, Holds
  <2>6. Holds(topic'[q], n) => Holds(topic[q], n) \/ Holds(batch[q], n)
    BY <2>2, <2>3 DEF Holds
  <2> QED BY <2>5, <2>6 DEF HeldBy
<1>4. ASSUME NEW p \in Partitions, DropBatch(p), NEW q \in Partitions, NEW n, HeldBy(q, n)'
      PROVE  HeldBy(q, n)
  <2>1. batch'[q] = batch[q] \/ batch'[q] = <<>>
    BY <1>4 DEF DropBatch, TypeOK
  <2> QED BY <1>4, <1>e, <2>1 DEF DropBatch, HeldBy, Holds
<1>5. ASSUME Restart, NEW q \in Partitions, NEW n, HeldBy(q, n)' PROVE HeldBy(q, n)
  BY <1>5, <1>e DEF Restart, HeldBy, Holds
<1>6. ASSUME UNCHANGED <<topic, batch, waiting>>, NEW q \in Partitions, NEW n, HeldBy(q, n)'
      PROVE  HeldBy(q, n)
  BY <1>6 DEF HeldBy, Holds
<1>7. \/ \E p \in Partitions : \/ PushEvent(p) \/ StartBatch(p)
                               \/ WriteBatch(p) \/ DropBatch(p)
      \/ Restart
      \/ UNCHANGED <<topic, batch, waiting>>
  BY DEF Next, FetchMessage, CommitMessages, DBWorker, Rebalance, vars, writerVars
<1> QED BY <1>1, <1>2, <1>3, <1>4, <1>5, <1>6, <1>7

\* No event is in two partitions.
LEMMA SeparateStep ==
  ASSUME TypeOK, Separate, [Next]_vars
  PROVE  Separate'
<1> SUFFICES ASSUME NEW p \in Partitions, NEW q \in Partitions, NEW n,
                    HeldBy(p, n)', HeldBy(q, n)'
             PROVE  p = q
  BY DEF Separate
<1>1. ASSUME NEW r \in Partitions, HeldBy(r, n) PROVE n # Len(accepted) + 1
  <2>1. ASSUME NEW s \in Seq(DOMAIN accepted), Holds(s, n)
        PROVE  n \in Nat /\ n < Len(accepted) + 1
    <3>1. PICK i \in DOMAIN s : s[i] = n
      BY <2>1 DEF Holds
    <3>2. s \in Seq(Nat) /\ s[i] < Len(accepted) + 1
      BY Positions
    <3> QED BY <3>1, <3>2
  <2>2. n \in Nat /\ n < Len(accepted) + 1 /\ Len(accepted) \in Nat
    BY <1>1, <2>1 DEF HeldBy, TypeOK
  <2> QED BY <2>2
<1>2. \/ HeldBy(p, n) /\ HeldBy(q, n)
      \/ \E r \in Partitions : /\ HeldBy(p, n) \/ (p = r /\ n = Len(accepted) + 1)
                               /\ HeldBy(q, n) \/ (q = r /\ n = Len(accepted) + 1)
  BY HeldStep
<1> QED BY <1>1, <1>2 DEF Separate

-----------------------------------------------------------------------------
(* The records and the job in hand *)

\* What a record holds, and what comes before it in its partition, does not
\* change.
LEMMA RecordStays ==
  ASSUME TypeOK, [Next]_vars, NEW s, InTopic(s)
  PROVE  /\ Pushed(s)' = Pushed(s)
         /\ Record(s)' = Record(s)
         /\ FirstCopy(s)' = FirstCopy(s)
         /\ Pushed(s) \in DOMAIN accepted
<1> DEFINE p == s[1]
           o == s[2]
<1>1. p \in Partitions /\ o \in 1..Len(topic[p]) /\ Pushed(s) \in DOMAIN accepted
  BY RecordFields
<1>2. Len(topic[p]) \in Nat /\ topic[p] \in Seq(Nat) /\ batch[p] \in Seq(Nat)
  BY <1>1, TopicGrows, Positions DEF TypeOK
<1> HIDE DEF p, o
<1>3. \A i \in 1..o : topic'[p][i] = topic[p][i]
  <2>1. \A i \in 1..o : i \in 1..Len(topic[p])
    BY <1>1, <1>2
  <2>2. ASSUME NEW q \in Partitions, WriteBatch(q), NEW i \in 1..o
        PROVE topic'[p][i] = topic[p][i]
    <3>1. topic'[p] = topic[p] \/ topic'[p] = topic[p] \o batch[p]
      BY <1>1, <2>2 DEF WriteBatch, TypeOK
    <3>2. (topic[p] \o batch[p])[i] = topic[p][i]
      BY <1>2, <2>1, ConcatIndex
    <3> QED BY <3>1, <3>2
  <2>3. UNCHANGED topic \/ \E q \in Partitions : WriteBatch(q)
    BY DEF Next, PushEvent, StartBatch, DropBatch, FetchMessage, CommitMessages,
           DBWorker, Rebalance, Restart, vars
  <2> QED BY <2>2, <2>3
<1>4. o \in 1..o /\ \A i \in 1..(o - 1) : i \in 1..o
  BY <1>1, <1>2
<1>5. Pushed(s)' = Pushed(s)
  BY <1>3, <1>4 DEF Pushed, p, o
<1>6. FirstCopy(s)' = FirstCopy(s)
  <2>1. \A i \in 1..(o - 1) : topic'[p][i] = topic[p][i]
    BY <1>3, <1>4
  <2> QED BY <1>5, <2>1 DEF FirstCopy, p, o
<1>7. Record(s)' = Record(s)
  <2> DEFINE k == Pushed(s)
  <2>1. UNCHANGED accepted \/ \E e \in Events : accepted' = Append(accepted, e)
    BY DEF Next, PushEvent, StartBatch, WriteBatch, DropBatch, FetchMessage,
           CommitMessages, DBWorker, Rebalance, Restart, vars, writerVars
  <2>2. k \in DOMAIN accepted
    BY <1>1
  <2> HIDE DEF k
  <2>3. \A e \in Events : Append(accepted, e)[k] = accepted[k]
    BY <2>2 DEF TypeOK
  <2>4. accepted'[k] = accepted[k]
    <3>1. CASE UNCHANGED accepted
      BY <3>1
    <3>2. ASSUME NEW e \in Events, accepted' = Append(accepted, e)
          PROVE  accepted'[k] = accepted[k]
      BY <2>3, <3>2
    <3> QED BY <2>1, <3>1, <3>2
  <2> QED BY <1>5, <2>4 DEF Record, k
<1> QED BY <1>1, <1>5, <1>6, <1>7

\* A record that was handed over stays clean, or not.
LEMMA CleanStays ==
  ASSUME IInv, [Next]_vars, NEW s, Handled(s)
  PROVE  /\ InTopic(s)
         /\ Clean(s)' = Clean(s)
         /\ Pushed(s)' = Pushed(s)
<1> USE DEF IInv
<1>1. InTopic(s)
  BY DEF Placed
<1>2. s \in straddled' <=> s \in straddled
  <2>1. CASE Rebalance
    <3>1. straddled' = straddled \cup ({fetched} \ {None})
      BY <2>1 DEF Rebalance
    <3>2. ASSUME s = fetched, fetched # None, s \notin straddled PROVE FALSE
      <4>1. s[2] < s[2]
        BY <3>2 DEF AllSettled, Settled
      <4>2. s[1] \in Partitions /\ s[2] \in 1..Len(topic[s[1]])
        BY <1>1, RecordFields
      <4>3. Len(topic[s[1]]) \in Nat
        BY <4>2, TopicGrows
      <4> QED BY <4>1, <4>2, <4>3
    <3> QED BY <3>1, <3>2
  <2>2. CASE UNCHANGED straddled
    BY <2>2
  <2> QED
    BY <2>1, <2>2
       DEF Next, PushEvent, StartBatch, WriteBatch, DropBatch, FetchMessage,
           CommitMessages, DBWorker, Restart, vars, historyVars
<1>3. FirstCopy(s)' = FirstCopy(s) /\ Pushed(s)' = Pushed(s)
  BY <1>1, RecordStays
<1> QED BY <1>1, <1>2, <1>3 DEF Clean

\* The worker works on what its record says, and stores messages only.
LEMMA FaithfulStep ==
  ASSUME IInv, Faithful, [Next]_vars
  PROVE  Faithful'
<1> USE DEF IInv
<1>1. ASSUME worker' # "read" PROVE (job = Record(source))'
  <2>1. CASE worker # "read" /\ source' = source
    <3>1. job' = job
      BY <1>1, <2>1, InReaderStep
         DEF Next, PushEvent, StartBatch, WriteBatch, DropBatch, FetchMessage,
             CommitMessages, InReader, DBWorker, Work, CreateMessage,
             InsertFailed, UpdateConversationLastMessage, MarkMessageAsRead,
             NextRecord, Rebalance, Restart, vars, storeVars
    <3>2. InTopic(source) /\ job = Record(source)
      BY <2>1 DEF Placed, Handled, Faithful
    <3>3. Record(source)' = Record(source)
      <4>1. PICK s : s = source
        OBVIOUS
      <4>2. Record(s)' = Record(s)
        BY <3>2, <4>1, RecordStays
      <4> QED BY <2>1, <4>1, <4>2 DEF Record, Pushed
    <3> QED BY <3>1, <3>2, <3>3
  <2>2. CASE /\ source' = fetched /\ Take(Record(fetched), fetched)
             /\ UNCHANGED <<accepted, topic>>
    BY <2>2 DEF Take, Record, Pushed
  <2> QED BY <1>1, <2>1, <2>2, HandStep
<1>2. ASSUME NEW m \in messages' PROVE Record(m.source)'.kind = "message"
  <2>1. m \in messages \/ (worker = "insert" /\ m.source = source)
    BY StepIsStoreStep, RowsStep
  <2>2. InTopic(m.source)
    BY <2>1 DEF Placed, Handled, Written
  <2>3. Record(m.source).kind = "message"
    <3>1. CASE m \in messages
      BY <3>1 DEF Faithful
    <3>2. CASE worker = "insert" /\ m.source = source
      BY <3>2 DEF Faithful, StoreInv, InHand
    <3> QED BY <2>1, <3>1, <3>2
  <2> QED BY <2>2, <2>3, RecordStays
<1> QED BY <1>1, <1>2 DEF Faithful, Record, Pushed

-----------------------------------------------------------------------------
(* The rows as a log *)

\* A row above all others comes behind them and leaves their ranks alone.
LEMMA RankAdd ==
  ASSUME NEW rows, Numbered(rows), NEW row, row.id \in Nat,
         \A m \in rows : m.id \in Nat /\ m.id < row.id
  PROVE  LET more == rows \cup {row}
             k == Cardinality(rows)
         IN  /\ row \notin rows
             /\ k \in Nat
             /\ IsFiniteSet(more)
             /\ Cardinality(more) = k + 1
             /\ \A m \in rows : Rank(more, m) = Rank(rows, m)
             /\ Rank(more, row) = k + 1
<1> DEFINE more == rows \cup {row}
<1>1. row \notin rows
  OBVIOUS
<1>2. IsFiniteSet(rows) /\ Cardinality(rows) \in Nat
  BY FS_CardinalityType DEF Numbered
<1>3. IsFiniteSet(more) /\ Cardinality(more) = Cardinality(rows) + 1
  BY <1>1, <1>2, FS_AddElement
<1>4. ASSUME NEW m \in rows PROVE Rank(more, m) = Rank(rows, m)
  <2>1. {n \in more : n.id <= m.id} = {n \in rows : n.id <= m.id}
    OBVIOUS
  <2> QED BY <2>1 DEF Rank
<1>5. Rank(more, row) = Cardinality(rows) + 1
  <2>1. {n \in more : n.id <= row.id} = more
    OBVIOUS
  <2> QED BY <1>3, <2>1 DEF Rank
<1> QED BY <1>1, <1>2, <1>3, <1>4, <1>5

\* Rows stay numbered by rank when one above all of them is added.
LEMMA NumberedAdd ==
  ASSUME NEW rows, Numbered(rows), NEW row, row.id \in Nat,
         \A m \in rows : m.id \in Nat /\ m.id < row.id
  PROVE  Numbered(rows \cup {row})
<1> DEFINE more == rows \cup {row}
           k == Cardinality(rows)
<1>1. /\ k \in Nat /\ IsFiniteSet(more) /\ Cardinality(more) = k + 1
      /\ \A m \in rows : Rank(more, m) = Rank(rows, m)
      /\ Rank(more, row) = k + 1
  BY RankAdd
<1>2. /\ \A m \in rows : Rank(rows, m) \in 1..k
      /\ \A m, n \in rows : Rank(rows, m) = Rank(rows, n) => m = n
      /\ \A i \in 1..k : \E m \in rows : Rank(rows, m) = i
  BY DEF Numbered
<1> HIDE DEF k
<1>3. \A m \in more : Rank(more, m) \in 1..(k + 1)
  BY <1>1, <1>2
<1>4. \A m, n \in more : Rank(more, m) = Rank(more, n) => m = n
  <2> SUFFICES ASSUME NEW m \in more, NEW n \in more, Rank(more, m) = Rank(more, n)
               PROVE  m = n
    OBVIOUS
  <2>1. \A l \in rows : Rank(more, l) # k + 1
    BY <1>1, <1>2
  <2> QED BY <1>1, <1>2, <2>1
<1>5. \A i \in 1..(k + 1) : \E m \in more : Rank(more, m) = i
  <2> SUFFICES ASSUME NEW i \in 1..(k + 1) PROVE \E m \in more : Rank(more, m) = i
    OBVIOUS
  <2>1. CASE i = k + 1
    BY <1>1, <2>1
  <2>2. CASE i \in 1..k
    BY <1>1, <1>2, <2>2
  <2> QED BY <1>1, <2>1, <2>2
<1> QED BY <1>1, <1>3, <1>4, <1>5 DEF Numbered

\* What stands in the log of a numbered set of rows, by the rank of the rows.
LEMMA InOrderAt ==
  ASSUME NEW rows, Numbered(rows)
  PROVE  /\ DOMAIN InOrder(rows) = 1..Cardinality(rows)
         /\ \A m \in rows : InOrder(rows)[Rank(rows, m)] = Pushed(m.source)
<1>1. ASSUME NEW m \in rows PROVE Nth(rows, Rank(rows, m)) = m
  <2> DEFINE n == Nth(rows, Rank(rows, m))
  <2>1. n \in rows /\ Rank(rows, n) = Rank(rows, m)
    BY DEF Nth
  <2> QED BY <2>1 DEF Numbered
<1>2. ASSUME NEW m \in rows PROVE InOrder(rows)[Rank(rows, m)] = Pushed(m.source)
  <2>1. Rank(rows, m) \in 1..Cardinality(rows)
    BY DEF Numbered
  <2> QED BY <1>1, <2>1 DEF InOrder
<1> QED BY <1>2 DEF InOrder

\* A row above all others appends what was pushed to the log.
LEMMA InOrderAppend ==
  ASSUME NEW rows, Numbered(rows), NEW row, row.id \in Nat,
         \A m \in rows : m.id \in Nat /\ m.id < row.id,
         NEW S, \A m \in rows \cup {row} : Pushed(m.source) \in S
  PROVE  InOrder(rows \cup {row}) = Append(InOrder(rows), Pushed(row.source))
<1> DEFINE more == rows \cup {row}
           k == Cardinality(rows)
           n == Pushed(row.source)
           s == InOrder(rows)
           t == InOrder(more)
           u == Append(s, n)
<1>1. /\ k \in Nat /\ Cardinality(more) = k + 1
      /\ \A m \in rows : Rank(more, m) = Rank(rows, m)
      /\ Rank(more, row) = k + 1
  BY RankAdd
<1>2. Numbered(more)
  BY NumberedAdd
<1>3. DOMAIN s = 1..k /\ \A m \in rows : s[Rank(rows, m)] = Pushed(m.source)
  BY InOrderAt
<1>4. DOMAIN t = 1..(k + 1) /\ \A m \in more : t[Rank(more, m)] = Pushed(m.source)
  BY <1>1, <1>2, InOrderAt
<1>5. \A i \in 1..k : \E m \in rows : Rank(rows, m) = i
  BY DEF Numbered
<1>6. s = [i \in 1..k |-> s[i]]
  BY <1>3 DEF InOrder
<1>7. t = [i \in 1..(k + 1) |-> t[i]]
  BY <1>1, <1>4 DEF InOrder
<1>8. n \in S
  OBVIOUS
<1> HIDE DEF k, s, t, n, more
<1>9. ASSUME NEW i \in 1..k PROVE s[i] \in S /\ t[i] = s[i]
  <2>1. PICK m \in rows : Rank(rows, m) = i
    BY <1>5
  <2> QED BY <1>1, <1>3, <1>4, <2>1 DEF more
<1>10. t[k + 1] = n
  BY <1>1, <1>4 DEF n, more
<1>11. s \in Seq(S) /\ Len(s) = k
  BY <1>1, <1>3, <1>6, <1>9
<1>12. t \in Seq(S) /\ Len(t) = k + 1
  <2>1. ASSUME NEW i \in 1..(k + 1) PROVE t[i] \in S
    <3>1. i \in 1..k \/ i = k + 1
      BY <1>1
    <3> QED BY <1>8, <1>9, <1>10, <3>1
  <2>2. k + 1 \in Nat
    BY <1>1
  <2> QED BY <1>4, <1>7, <2>1, <2>2
<1>13. /\ u \in Seq(S) /\ Len(u) = k + 1
       /\ \A i \in 1..k : u[i] = s[i]
       /\ u[k + 1] = n
  BY <1>8, <1>11, AppendProperties
<1> HIDE DEF u
<1>14. ASSUME NEW i \in 1..(k + 1) PROVE t[i] = u[i]
  <2>1. i \in 1..k \/ i = k + 1
    BY <1>1
  <2> QED BY <1>9, <1>10, <1>13, <2>1
<1>15. t = u
  BY <1>12, <1>13, <1>14, SeqEqual
<1> QED BY <1>15 DEF t, u, s, n, more

\* The row that a step adds: that of the record in hand, above all others.
LEMMA AddedRow ==
  ASSUME IInv, [Next]_vars, messages' # messages
  PROVE  \E row : /\ messages' = messages \cup {row}
                  /\ row.id \in Nat
                  /\ row.source = source
                  /\ worker = "insert"
                  /\ \A m \in messages : m.id \in Nat /\ m.id < row.id
<1> DEFINE row == [id |-> messageSeq + 1, conv |-> job.conv,
                   sender |-> job.from, source |-> source]
<1>1. /\ worker = "insert"
      /\ messages' = messages \cup {row}
      /\ \A m \in messages : m.id \in Nat /\ m.id < row.id
  BY StepIsStoreStep, RowsStep DEF IInv
<1>2. row.id \in Nat /\ row.source = source
  BY DEF IInv, StoreInv, StoreTypeOK
<1> HIDE DEF row
<1> QED BY <1>1, <1>2

\* The clean rows of a partition are those there were, and the one added if
\* its record is of the partition and clean.
LEMMA CleanRowsStep ==
  ASSUME IInv, [Next]_vars, NEW p \in Partitions
  PROVE  /\ messages' = messages => CleanRows(p)' = CleanRows(p)
         /\ \A row :
              messages' = messages \cup {row} /\ row.source = source /\ worker = "insert"
                => CleanRows(p)' = CleanRows(p) \cup
                     (IF source[1] = p /\ Clean(source) THEN {row} ELSE {})
<1>1. ASSUME NEW m \in messages PROVE Clean(m.source)' = Clean(m.source)
  BY CleanStays DEF Handled, Written
<1>2. ASSUME worker = "insert", NEW s, s = source PROVE Clean(s)' = Clean(s)
  BY <1>2, CleanStays DEF Handled
<1> HIDE DEF Clean
<1>3. ASSUME messages' = messages PROVE CleanRows(p)' = CleanRows(p)
  BY <1>1, <1>3 DEF CleanRows
<1>4. ASSUME NEW row, messages' = messages \cup {row}, row.source = source, worker = "insert"
      PROVE  CleanRows(p)' = CleanRows(p) \cup
               (IF source[1] = p /\ Clean(source) THEN {row} ELSE {})
  <2>1. Clean(row.source)' = Clean(row.source)
    BY <1>2, <1>4
  <2>2. \A m \in messages' : Clean(m.source)' = Clean(m.source)
    BY <1>1, <1>4, <2>1
  <2>3. \A m : m \in CleanRows(p)' <=>
          (m \in messages \/ m = row) /\ m.source[1] = p /\ Clean(m.source)
    BY <1>4, <2>2 DEF CleanRows
  <2>4. \A m : m \in CleanRows(p) <=>
          m \in messages /\ m.source[1] = p /\ Clean(m.source)
    BY DEF CleanRows
  <2>5. Clean(row.source) = Clean(source)
    BY <1>4
  <2> QED BY <1>4, <2>3, <2>4, <2>5
<1> QED BY <1>3, <1>4

\* The clean rows can be numbered after a step if they could before.
LEMMA RankedStep ==
  ASSUME IInv, Ranked, [Next]_vars
  PROVE  Ranked'
<1> SUFFICES ASSUME NEW p \in Partitions PROVE Numbered(CleanRows(p))'
  BY DEF Ranked
<1>0. Numbered(CleanRows(p))
  BY DEF Ranked
<1> SUFFICES ASSUME NEW rows, rows = CleanRows(p)' PROVE Numbered(rows)
  BY DEF Numbered, Rank
<1>1. CASE messages' = messages
  BY <1>0, <1>1, CleanRowsStep
<1>2. CASE messages' # messages
  <2>1. PICK row : /\ messages' = messages \cup {row}
                   /\ row.id \in Nat
                   /\ row.source = source
                   /\ worker = "insert"
                   /\ \A m \in messages : m.id \in Nat /\ m.id < row.id
    BY <1>2, AddedRow
  <2>2. rows = CleanRows(p) \cup
                 (IF source[1] = p /\ Clean(source) THEN {row} ELSE {})
    BY <2>1, CleanRowsStep
  <2>3. \A m \in CleanRows(p) : m.id \in Nat /\ m.id < row.id
    BY <2>1 DEF CleanRows
  <2>4. Numbered(CleanRows(p) \cup {row})
    BY <1>0, <2>1, <2>3, NumberedAdd
  <2>5. rows = CleanRows(p) \/ rows = CleanRows(p) \cup {row}
    BY <2>2
  <2> QED BY <1>0, <2>4, <2>5
<1> QED BY <1>1, <1>2

\* The log of a set of rows is the same after a step.
LEMMA LogStays ==
  ASSUME NEW rows, Numbered(rows),
         \A m \in rows : Pushed(m.source)' = Pushed(m.source)
  PROVE  InOrder(rows)' = InOrder(rows)
<1>1. \A i \in 1..Cardinality(rows) : Nth(rows, i) \in rows
  BY DEF Numbered, Nth
<1>2. \A i \in 1..Cardinality(rows) :
        Pushed(Nth(rows, i).source)' = Pushed(Nth(rows, i).source)
  BY <1>1
<1> QED BY <1>2 DEF InOrder, Pushed

\* What the rows were pushed as does not change.
LEMMA RowPushed ==
  ASSUME IInv, [Next]_vars, NEW m \in messages
  PROVE  /\ Pushed(m.source)' = Pushed(m.source)
         /\ Pushed(m.source) \in DOMAIN accepted
<1>1. InTopic(m.source)
  BY DEF IInv, Placed, Handled, Written
<1> QED BY <1>1, RecordStays DEF IInv

\* A step that adds no clean row to a partition leaves its log as it is.
LEMMA StoredStays ==
  ASSUME IInv, Ranked, [Next]_vars, NEW p \in Partitions,
         CleanRows(p)' = CleanRows(p)
  PROVE  Stored'[p] = Stored[p]
<1>1. PICK rows : rows = CleanRows(p)
  OBVIOUS
<1>2. Numbered(rows) /\ \A m \in rows : Pushed(m.source)' = Pushed(m.source)
  BY <1>1, RowPushed DEF Ranked, CleanRows
<1>3. InOrder(rows)' = InOrder(rows)
  BY <1>2, LogStays
<1>4. Stored'[p] = InOrder(rows)'
  BY <1>1 DEF Stored, InOrder, Pushed
<1>5. Stored[p] = InOrder(rows)
  BY <1>1 DEF Stored
<1> QED BY <1>3, <1>4, <1>5

\* A clean record in hand was pushed after every clean record of its partition
\* that is written.
LEMMA PushedLater ==
  ASSUME IInv, Queued, worker \in {"insert", "mark"}, Clean(source),
         NEW s, Written(s), s \notin straddled, s[1] = source[1]
  PROVE  Pushed(s) < Pushed(source)
<1> USE DEF IInv
<1> DEFINE p == source[1]
           o == source[2]
           t == topic[p]
<1>1. InTopic(source) /\ InTopic(s)
  BY DEF Placed, Handled
<1>2. p \in Partitions /\ o \in 1..Len(t) /\ s[2] \in 1..Len(t)
  <2>1. p \in Partitions /\ o \in 1..Len(t)
    BY <1>1, RecordFields
  <2>2. s[2] \in 1..Len(topic[s[1]])
    BY <1>1, RecordFields
  <2> QED BY <2>1, <2>2
<1>3. s[2] < o
  BY DEF Ahead
<1>4. \A i \in 1..(o - 1) : t[i] # t[o]
  BY DEF Clean, FirstCopy, Pushed
<1>5. NewestYet(t) /\ t \in Seq(Nat)
  BY <1>2, Positions DEF Queued, TypeOK
<1>6. Pushed(s) = t[s[2]] /\ Pushed(source) = t[o]
  BY DEF Pushed
<1> HIDE DEF t, o, p
<1>7. o \in DOMAIN t /\ s[2] \in 1..(o - 1)
  BY <1>2, <1>3, <1>5
<1> QED BY <1>4, <1>5, <1>6, <1>7 DEF NewestYet

\* Inserting the row of a clean record stores the position of the record at
\* the end of its partition's log.
LEMMA StoreRow ==
  ASSUME OrderInv, [Next]_vars, messages' # messages, Clean(source)
  PROVE  \E p \in Partitions : \E n \in DOMAIN accepted : Log!Store(p, n)
<1> USE DEF OrderInv
<1>p. PICK p : p = source[1]
  OBVIOUS
<1>n. PICK n : n = Pushed(source)
  OBVIOUS
<1>1. PICK row : /\ messages' = messages \cup {row}
                 /\ row.id \in Nat
                 /\ row.source = source
                 /\ worker = "insert"
                 /\ \A m \in messages : m.id \in Nat /\ m.id < row.id
  BY AddedRow
<1>2. InTopic(source)
  BY <1>1 DEF IInv, Placed, Handled
<1>3. p \in Partitions /\ n \in DOMAIN accepted
  BY <1>2, <1>p, <1>n, RecordFields DEF IInv
<1>4. DBWorker /\ UNCHANGED accepted
  BY DEF Next, PushEvent, StartBatch, WriteBatch, DropBatch, FetchMessage,
         CommitMessages, Returned, Take, DBWorker, Rebalance, Restart, vars,
         storeVars, tables, writerVars
<1>5. accepted[n].kind = "message"
  <2>1. job = Record(source) /\ job.kind = "message"
    BY <1>1 DEF Faithful, IInv, StoreInv, InHand
  <2> QED BY <1>n, <2>1 DEF Record
<1>6. ASSUME NEW q \in Partitions, NEW i \in DOMAIN Stored[q]
      PROVE  \E m \in CleanRows(q) : Stored[q][i] = Pushed(m.source)
  <2>1. Numbered(CleanRows(q))
    BY DEF Ranked
  <2>2. Stored[q] = InOrder(CleanRows(q))
    BY DEF Stored
  <2>3. /\ DOMAIN Stored[q] = 1..Cardinality(CleanRows(q))
        /\ \A m \in CleanRows(q) : Stored[q][Rank(CleanRows(q), m)] = Pushed(m.source)
    BY <2>1, <2>2, InOrderAt
  <2>4. PICK m \in CleanRows(q) : Rank(CleanRows(q), m) = i
    BY <2>1, <2>3 DEF Numbered
  <2> QED BY <2>3, <2>4
<1>7. ASSUME NEW i \in DOMAIN Stored[p] PROVE Stored[p][i] < n
  <2>1. PICK m \in CleanRows(p) : Stored[p][i] = Pushed(m.source)
    BY <1>3, <1>6
  <2>2. Written(m.source) /\ m.source \notin straddled /\ m.source[1] = source[1]
    BY <1>p, <2>1 DEF CleanRows, Clean, Written
  <2> QED BY <1>1, <1>n, <2>1, <2>2, PushedLater
<1>8. ASSUME NEW q \in Partitions, NEW i \in DOMAIN Stored[q] PROVE Stored[q][i] # n
  <2>1. CASE q = p
    <3>1. n \in Nat
      BY <1>3 DEF IInv, TypeOK
    <3> QED BY <1>7, <1>8, <2>1, <3>1
  <2>2. CASE q # p
    <3>1. PICK m \in CleanRows(q) : Stored[q][i] = Pushed(m.source)
      BY <1>6
    <3>2. InTopic(m.source) /\ m.source[1] = q
      BY <3>1 DEF CleanRows, IInv, Placed, Handled, Written
    <3>3. ASSUME NEW s, InTopic(s) PROVE HeldBy(s[1], Pushed(s))
      <4>1. s[1] \in Partitions /\ s[2] \in 1..Len(topic[s[1]])
        BY <3>3, RecordFields DEF IInv
      <4>2. topic[s[1]] \in Seq(Nat)
        BY <4>1, Positions DEF IInv, TypeOK
      <4>3. s[2] \in DOMAIN topic[s[1]]
        BY <4>1, <4>2
      <4> QED BY <4>3 DEF HeldBy, Holds, Pushed
    <3>4. HeldBy(q, Pushed(m.source)) /\ HeldBy(p, n)
      BY <1>2, <1>p, <1>n, <3>2, <3>3
    <3> QED BY <1>3, <2>2, <3>1, <3>4 DEF Separate
  <2> QED BY <2>1, <2>2
<1>r. ASSUME NEW q \in Partitions
      PROVE  CleanRows(q)' = CleanRows(q) \cup
               (IF source[1] = q /\ Clean(source) THEN {row} ELSE {})
  BY <1>1, CleanRowsStep
<1>9. ASSUME NEW q \in Partitions, q # p PROVE Stored'[q] = Stored[q]
  <2>1. CleanRows(q)' = CleanRows(q)
    BY <1>p, <1>9, <1>r
  <2> QED BY <2>1, StoredStays
<1>10. Stored'[p] = Append(Stored[p], n)
  <2>1. PICK rows : rows = CleanRows(p)
    OBVIOUS
  <2>2. CleanRows(p)' = rows \cup {row}
    BY <1>p, <1>3, <1>r, <2>1
  <2>3. Numbered(rows) /\ \A m \in rows : m \in messages
    BY <1>3, <2>1 DEF Ranked, CleanRows
  <2>4. \A m \in rows \cup {row} : Pushed(m.source) \in DOMAIN accepted
    BY <1>1, <1>n, <1>3, <2>3, RowPushed
  <2>5. InOrder(rows \cup {row}) = Append(InOrder(rows), n)
    BY <1>1, <1>n, <2>3, <2>4, InOrderAppend
  <2>6. InOrder(rows \cup {row})' = InOrder(rows \cup {row})
    <3>1. ASSUME NEW m \in rows \cup {row} PROVE Pushed(m.source)' = Pushed(m.source)
      <4>1. Handled(m.source)
        BY <1>1, <2>3 DEF Handled, Written
      <4> QED BY <4>1, CleanStays
    <3>2. Numbered(rows \cup {row})
      BY <1>1, <2>3, NumberedAdd
    <3> QED BY <3>1, <3>2, LogStays
  <2>7. Stored'[p] = InOrder(rows \cup {row})'
    <3>1. Stored'[p] = InOrder(CleanRows(p))'
      BY <1>3 DEF Stored
    <3> QED BY <2>2, <3>1 DEF InOrder, Pushed
  <2> QED BY <1>3, <2>1, <2>5, <2>6, <2>7 DEF Stored
<1>11. Stored' = [Stored EXCEPT ![p] = Append(@, n)]
  <2>1. DOMAIN Stored = Partitions /\ Stored' = [q \in Partitions |-> Stored'[q]]
        /\ Stored = [q \in Partitions |-> Stored[q]]
    BY DEF Stored
  <2> QED BY <1>3, <1>9, <1>10, <2>1
<1> QED BY <1>3, <1>4, <1>5, <1>7, <1>8, <1>11 DEF Log!Store, Log!StoredIn

-----------------------------------------------------------------------------
(* The theorems *)

LEMMA OrderInit ==
  Init => OrderInv /\ Stored = [p \in Partitions |-> <<>>]
<1> SUFFICES ASSUME Init PROVE OrderInv /\ Stored = [p \in Partitions |-> <<>>]
  OBVIOUS
<1>1. IInv
  BY InitInv
<1>2. Queued
  BY DEF Init, Queued, Increasing, Before, NewestYet
<1>3. Separate
  BY DEF Init, Separate, HeldBy, Holds
<1>4. Faithful
  BY DEF Init, StoreInit, Faithful
<1>5. ASSUME NEW p \in Partitions
      PROVE  CleanRows(p) = {} /\ Cardinality(CleanRows(p)) = 0 /\ IsFiniteSet(CleanRows(p))
  <2>1. CleanRows(p) = {}
    BY DEF Init, StoreInit, CleanRows
  <2> QED BY <2>1, FS_EmptySet
<1>6. Ranked
  BY <1>5 DEF Ranked, Numbered
<1>7. Stored = [p \in Partitions |-> <<>>]
  <2>1. \A p \in Partitions : InOrder(CleanRows(p)) = <<>>
    BY <1>5 DEF InOrder
  <2> QED BY <2>1 DEF Stored
<1> QED BY <1>1, <1>2, <1>3, <1>4, <1>6, <1>7 DEF OrderInv

\* The order of records, rows and marks is kept by every step.
THEOREM OrderInductive == Spec => []OrderInv
<1>1. Init => OrderInv
  BY OrderInit
<1>2. ASSUME OrderInv, [Next]_vars PROVE OrderInv'
  <2>1. IInv'
    BY <1>2, InvStep DEF OrderInv
  <2>2. Queued'
    BY <1>2, QueuedStep DEF OrderInv, IInv
  <2>3. Separate'
    BY <1>2, SeparateStep DEF OrderInv, IInv
  <2>4. Faithful'
    BY <1>2, FaithfulStep DEF OrderInv
  <2>5. Ranked'
    BY <1>2, RankedStep DEF OrderInv
  <2> QED BY <2>1, <2>2, <2>3, <2>4, <2>5 DEF OrderInv
<1> QED BY <1>1, <1>2, PTL DEF Spec

\* A step that adds no clean row leaves all logs as they are.
LEMMA AllStay ==
  ASSUME OrderInv, [Next]_vars, messages' = messages \/ ~ Clean(source)
  PROVE  Stored' = Stored
<1>1. ASSUME NEW p \in Partitions PROVE Stored'[p] = Stored[p]
  <2>1. CASE messages' = messages
    <3>1. CleanRows(p)' = CleanRows(p)
      BY <2>1, CleanRowsStep DEF OrderInv
    <3> QED BY <3>1, StoredStays DEF OrderInv
  <2>2. CASE messages' # messages
    <3>1. PICK row : messages' = messages \cup {row} /\ row.source = source /\ worker = "insert"
      BY <2>2, AddedRow DEF OrderInv
    <3>2. CleanRows(p)' = CleanRows(p) \cup
            (IF source[1] = p /\ Clean(source) THEN {row} ELSE {})
      BY <3>1, CleanRowsStep DEF OrderInv
    <3>3. CleanRows(p)' = CleanRows(p)
      BY <2>2, <3>2
    <3> QED BY <3>3, StoredStays DEF OrderInv
  <2> QED BY <2>1, <2>2
<1>2. /\ Stored' = [p \in Partitions |-> Stored'[p]]
      /\ Stored = [p \in Partitions |-> Stored[p]]
  BY DEF Stored
<1> QED BY <1>1, <1>2

\* Every step is a push, a row stored, or nothing to the logs.
LEMMA LogStep ==
  ASSUME OrderInv, [Next]_vars
  PROVE  [Log!Next]_(Log!vars)
<1>1. ASSUME NEW p \in Partitions, PushEvent(p) PROVE Log!Next
  <2>1. PICK e \in Events : accepted' = Append(accepted, e)
    BY <1>1 DEF PushEvent
  <2>2. messages' = messages
    BY <1>1 DEF PushEvent, storeVars, tables
  <2>3. Stored' = Stored
    BY <2>2, AllStay
  <2> QED BY <2>1, <2>3 DEF Log!Next, Log!Push
<1>2. CASE messages' # messages /\ Clean(source)
  <2>1. \E p \in Partitions : \E n \in DOMAIN accepted : Log!Store(p, n)
    BY <1>2, StoreRow
  <2> QED BY <2>1 DEF Log!Next
<1>3. CASE (messages' = messages \/ ~ Clean(source)) /\ UNCHANGED accepted
  <2>1. Stored' = Stored
    BY <1>3, AllStay
  <2> QED BY <1>3, <2>1 DEF Log!vars
<1>4. UNCHANGED accepted \/ \E p \in Partitions : PushEvent(p)
  BY DEF Next, StartBatch, WriteBatch, DropBatch, FetchMessage, CommitMessages,
         DBWorker, Rebalance, Restart, vars, writerVars
<1> QED BY <1>1, <1>2, <1>3, <1>4

\* For each partition the rows of clean records are a log of what the hub
\* pushed to it, in its order and without repetition (hub.go:88-89,
\* dbworker.go:28-75).
THEOREM MessagesAreLog == Spec => ImplementsLog
<1>1. Init => Log!Init
  BY OrderInit DEF Init, Log!Init
<1>2. OrderInv /\ [Next]_vars => [Log!Next]_(Log!vars)
  BY LogStep
<1> QED BY <1>1, <1>2, OrderInductive, PTL DEF Spec, ImplementsLog, Log!Spec

\* Of two clean marks of a partition the later pushed sets the pointer, so an
\* older one never overrides it (dbworker.go:41-46).
THEOREM LaterMarkWinsAlways == Spec => LaterMarkWins
<1> DEFINE Wins ==
      \A r \in ParticipantRows :
        /\ lastRead'[r] # lastRead[r]
        /\ setBy[r] # None
        /\ setBy[r][1] = source[1]
        /\ Clean(setBy[r]) /\ Clean(source)
        => Pushed(setBy[r]) < Pushed(source)
<1>1. ASSUME OrderInv, [Next]_vars PROVE Wins
  <2> SUFFICES ASSUME NEW r \in ParticipantRows,
                      lastRead'[r] # lastRead[r], setBy[r] # None,
                      setBy[r][1] = source[1], Clean(setBy[r]), Clean(source)
               PROVE  Pushed(setBy[r]) < Pushed(source)
    OBVIOUS
  <2>1. worker = "mark"
    BY <1>1, PointerSet DEF OrderInv, IInv
  <2>2. Written(setBy[r]) /\ setBy[r] \notin straddled
    BY DEF Written, Clean
  <2> QED BY <1>1, <2>1, <2>2, PushedLater DEF OrderInv
<1> QED BY <1>1, OrderInductive, PTL DEF Spec, LaterMarkWins
=============================================================================
