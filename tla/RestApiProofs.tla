----------------------------- MODULE RestApiProofs -----------------------------
(***************************************************************************)
(* Proofs about one REST request, for any people, conversations and page.  *)
(*                                                                         *)
(* That a request reads the map only when no goroutine writes to it rests  *)
(* on the counter: the WaitGroup counts the goroutines that have not ended *)
(* (Counting), and there are none before the first is started and after    *)
(* the wait.  From then on the map stays as it is, so what the answer says *)
(* is what the map says (Answering), and the map has a name for everyone   *)
(* of whom a goroutine got one (Named).                                    *)
(***************************************************************************)
EXTENDS RestApi, FiniteSetTheorems, SequenceTheorems, TLAPS

\* The goroutines that still have to call Done.
Running == {g \in DOMAIN fetches : fetches[g].pc # "ended"}

Counting ==
  /\ wg = Cardinality(Running)
  /\ rpc \notin {"spawn", "wait"} => Running = {}
  /\ rpc \in {"auth", "rejected", "query"} => fetches = <<>>
  /\ rpc \in {"wait", "build"} \/ answer # <<>> => Len(fetches) = Len(ids)

\* A goroutine is between Lock and Unlock while it holds the mutex.
Exclusion ==
  \A g \in DOMAIN fetches : fetches[g].pc \in {"write", "unlock"} <=> mu = g

Named ==
  \A g \in DOMAIN fetches :
    /\ fetches[g].pc = "get" => fetches[g].info = NoName
    /\ fetches[g].pc \in {"lock", "write"} => fetches[g].info # NoName
    /\ fetches[g].pc \in {"unlock", "done", "ended"} /\ fetches[g].info # NoName
         => userMap[ids[g]] # NoName

Answering ==
  /\ rpc \notin {"build", "done", "failed"} => answer = <<>>
  /\ \A i \in DOMAIN answer : /\ i \in DOMAIN mentions
                              /\ answer[i].person = mentions[i]
                              /\ answer[i].name = NameOf(answer[i].person)

\* A list asks for everyone it mentions.
Asked ==
  kind = "list" =>
    \A i \in DOMAIN mentions :
      mentions[i] # Nobody => \E g \in DOMAIN ids : ids[g] = mentions[i]

IInv == TypeOK /\ Counting /\ Exclusion /\ Named /\ Answering /\ Asked

-----------------------------------------------------------------------------
(* The ids to fetch and the people mentioned *)

Person == Users \cup {Nobody}

\* A finite set put in some order: each element is there, and nothing else.
LEMMA Listing ==
  ASSUME NEW S, IsFiniteSet(S)
  PROVE  /\ SetToSeq(S) \in Seq(S)
         /\ DOMAIN SetToSeq(S) = 1..Cardinality(S)
         /\ \A i \in DOMAIN SetToSeq(S) : SetToSeq(S)[i] \in S
         /\ \A x \in S : \E i \in DOMAIN SetToSeq(S) : SetToSeq(S)[i] = x
<1> DEFINE n == Cardinality(S)
           f == SetToSeq(S)
<1>1. n \in Nat /\ ExistsBijection(1..n, S)
  BY FS_CardinalityType
<1>2. \E g \in [1..n -> S] : IsInjective(g)
  BY <1>1 DEF ExistsBijection, Bijection, Injection
<1>3. f \in [1..n -> S] /\ IsInjective(f)
  BY <1>2 DEF SetToSeq
<1> HIDE DEF f
<1>4. f \in Injection(1..n, S)
  BY <1>3 DEF Injection
<1>5. Cardinality(1..n) = n
  BY <1>1, FS_Interval
<1>6. f \in Surjection(1..n, S)
  BY <1>4, <1>5, FS_Injection
<1> HIDE DEF n
<1>7. f \in Seq(S)
  BY <1>1, <1>3
<1>8. \A x \in S : \E i \in 1..n : f[i] = x
  BY <1>6 DEF Surjection
<1>9. DOMAIN f = 1..n
  BY <1>3
<1>10. \A i \in DOMAIN f : f[i] \in S
  BY <1>3
<1> QED BY <1>7, <1>8, <1>9, <1>10 DEF f, n

\* Two sequences of people joined: whoever is in one of them, and nobody else.
LEMMA Joined ==
  ASSUME NEW s \in Seq(Person), NEW t \in Seq(Person)
  PROVE  /\ s \o t \in Seq(Person)
         /\ \A i \in DOMAIN s : \E j \in DOMAIN (s \o t) : (s \o t)[j] = s[i]
         /\ \A i \in DOMAIN t : \E j \in DOMAIN (s \o t) : (s \o t)[j] = t[i]
         /\ \A j \in DOMAIN (s \o t) : \/ \E i \in DOMAIN s : (s \o t)[j] = s[i]
                                      \/ \E i \in DOMAIN t : (s \o t)[j] = t[i]
<1> DEFINE u == s \o t
<1>1. /\ Len(s) \in Nat /\ Len(t) \in Nat
      /\ DOMAIN s = 1..Len(s) /\ DOMAIN t = 1..Len(t)
  BY LenProperties
<1>2. /\ u \in Seq(Person) /\ Len(u) = Len(s) + Len(t)
      /\ \A i \in 1..(Len(s) + Len(t)) :
           u[i] = IF i <= Len(s) THEN s[i] ELSE t[i - Len(s)]
  BY ConcatProperties
<1>3. DOMAIN u = 1..(Len(s) + Len(t))
  BY <1>2, LenProperties
<1> HIDE DEF u
<1>4. ASSUME NEW i \in DOMAIN s PROVE i \in DOMAIN u /\ u[i] = s[i]
  BY <1>1, <1>2, <1>3
<1>5. ASSUME NEW i \in DOMAIN t
      PROVE  i + Len(s) \in DOMAIN u /\ u[i + Len(s)] = t[i]
  <2>1. i + Len(s) \in 1..(Len(s) + Len(t)) /\ ~ (i + Len(s) <= Len(s))
        /\ (i + Len(s)) - Len(s) = i
    BY <1>1
  <2> QED BY <1>2, <1>3, <2>1
<1>6. ASSUME NEW j \in DOMAIN u
      PROVE  \/ j \in DOMAIN s /\ u[j] = s[j]
             \/ j - Len(s) \in DOMAIN t /\ u[j] = t[j - Len(s)]
  <2>1. CASE j <= Len(s)
    BY <1>1, <1>2, <1>3, <2>1
  <2>2. CASE j > Len(s)
    <3>1. j - Len(s) \in 1..Len(t)
      BY <1>1, <1>3, <2>2
    <3> QED BY <1>1, <1>2, <1>3, <2>2, <3>1
  <2> QED BY <1>1, <1>3, <2>1, <2>2
<1> QED BY <1>2, <1>4, <1>5, <1>6 DEF u

\* A list of conversations asks for everyone it mentions.
LEMMA ListAsks ==
  ASSUME NEW page \in SUBSET Conversations
  PROVE  /\ ListIds(page) \in Seq(Users)
         /\ ListMentions(page) \in Seq(Person)
         /\ \A i \in DOMAIN ListMentions(page) :
              ListMentions(page)[i] # Nobody
                => \E g \in DOMAIN ListIds(page) :
                     ListIds(page)[g] = ListMentions(page)[i]
<1> DEFINE Told == {c \in page : c.sender # Nobody}
           Pairs == {c \in page : ~c.group}
           People == UNION {Partners(c) : c \in page}
           ps == SetToSeq(People)
           ss == SendersOf(Told)
           mp == PartnersIn(Pairs)
           ms == SendersOf(page)
<1>1. IsFiniteSet(page) /\ IsFiniteSet(Told) /\ IsFiniteSet(Pairs)
  BY TableAssumption, FS_Subset
<1>2. \A c \in page : /\ c.sender \in Person
                      /\ c.members \subseteq Users
  BY ConversationAssumption DEF Person
<1>3. People \subseteq Users /\ IsFiniteSet(People)
  <2>1. People \subseteq Users
    BY <1>2 DEF Partners
  <2> QED BY <2>1, TableAssumption, FS_Subset
<1>4. /\ ps \in Seq(Users)
      /\ \A p \in People : \E i \in DOMAIN ps : ps[i] = p
  <2>1. ps \in Seq(People) /\ \A p \in People : \E i \in DOMAIN ps : ps[i] = p
    <3> HIDE DEF People
    <3> QED BY <1>3, Listing
  <2> HIDE DEF ps, People
  <2> QED BY <1>3, <2>1
<1>5. /\ ss \in Seq(Users)
      /\ \A c \in Told : \E i \in DOMAIN ss : ss[i] = c.sender
  <2> DEFINE rows == SetToSeq(Told)
  <2>1. /\ DOMAIN rows = 1..Cardinality(Told)
        /\ Cardinality(Told) \in Nat
        /\ \A i \in DOMAIN rows : rows[i] \in Told
        /\ \A c \in Told : \E i \in DOMAIN rows : rows[i] = c
    BY <1>1, Listing, FS_CardinalityType
  <2>2. ss = [i \in DOMAIN rows |-> rows[i].sender]
    BY DEF SendersOf
  <2>3. \A c \in Told : c.sender \in Users
    BY <1>2 DEF Person
  <2> HIDE DEF rows, Told, ss
  <2>4. ss \in Seq(Users)
    BY <2>1, <2>2, <2>3
  <2> QED BY <2>1, <2>2, <2>4
<1>6. /\ ms \in Seq(Person)
      /\ \A i \in DOMAIN ms : \E c \in page : ms[i] = c.sender
  <2> DEFINE rows == SetToSeq(page)
  <2>1. /\ DOMAIN rows = 1..Cardinality(page)
        /\ Cardinality(page) \in Nat
        /\ \A i \in DOMAIN rows : rows[i] \in page
    BY <1>1, Listing, FS_CardinalityType
  <2>2. ms = [i \in DOMAIN rows |-> rows[i].sender]
    BY DEF SendersOf
  <2> HIDE DEF rows, ms
  <2> QED BY <1>2, <2>1, <2>2
<1>7. ASSUME NEW c \in Pairs
      PROVE  Partner(c) \in Person /\ (Partner(c) # Nobody => Partner(c) \in People)
  <2>1. Partner(c) = Nobody \/ Partner(c) \in Partners(c)
    BY DEF Partner
  <2>2. Partners(c) \subseteq People
    OBVIOUS
  <2> QED BY <1>3, <2>1, <2>2 DEF Person
<1>8. /\ mp \in Seq(Person)
      /\ \A i \in DOMAIN mp : \E c \in Pairs : mp[i] = Partner(c)
  <2> DEFINE rows == SetToSeq(Pairs)
  <2>1. /\ DOMAIN rows = 1..Cardinality(Pairs)
        /\ Cardinality(Pairs) \in Nat
        /\ \A i \in DOMAIN rows : rows[i] \in Pairs
    BY <1>1, Listing, FS_CardinalityType
  <2>2. mp = [i \in DOMAIN rows |-> Partner(rows[i])]
    BY DEF PartnersIn
  <2>3. \A c \in Pairs : Partner(c) \in Person
    BY <1>7
  <2> HIDE DEF rows, mp, Pairs
  <2> QED BY <2>1, <2>2, <2>3
<1>9. ListIds(page) = ps \o ss /\ ListMentions(page) = mp \o ms
  BY DEF ListIds, ListMentions
<1>10. ps \in Seq(Person) /\ ss \in Seq(Person)
  BY <1>4, <1>5 DEF Person
<1> HIDE DEF ps, ss, mp, ms, People
<1>11. ps \o ss \in Seq(Users)
  BY <1>4, <1>5
<1>12. mp \o ms \in Seq(Person)
  BY <1>6, <1>8, Joined
<1>13. ASSUME NEW i \in DOMAIN (mp \o ms), (mp \o ms)[i] # Nobody
       PROVE  \E g \in DOMAIN (ps \o ss) : (ps \o ss)[g] = (mp \o ms)[i]
  <2>1. CASE \E j \in DOMAIN mp : (mp \o ms)[i] = mp[j]
    <3>1. PICK c \in Pairs : (mp \o ms)[i] = Partner(c)
      BY <1>8, <2>1
    <3>2. Partner(c) \in People
      BY <1>7, <1>13, <3>1
    <3>3. PICK j \in DOMAIN ps : ps[j] = Partner(c)
      BY <1>4, <3>2
    <3>4. \E g \in DOMAIN (ps \o ss) : (ps \o ss)[g] = ps[j]
      BY <1>10, Joined
    <3> QED BY <3>1, <3>3, <3>4
  <2>2. CASE \E j \in DOMAIN ms : (mp \o ms)[i] = ms[j]
    <3>1. PICK c \in page : (mp \o ms)[i] = c.sender
      BY <1>6, <2>2
    <3>2. c \in Told
      BY <1>13, <3>1
    <3>3. PICK j \in DOMAIN ss : ss[j] = c.sender
      BY <1>5, <3>2
    <3>4. \E g \in DOMAIN (ps \o ss) : (ps \o ss)[g] = ss[j]
      BY <1>10, Joined
    <3> QED BY <3>1, <3>3, <3>4
  <2> QED BY <1>6, <1>8, <2>1, <2>2, Joined
<1> QED BY <1>9, <1>11, <1>12, <1>13

\* The detail of a conversation fetches and mentions people.
LEMMA DetailAsks ==
  ASSUME NEW c \in Conversations
  PROVE  SetToSeq(c.members) \in Seq(Users) /\ DetailMentions(c) \in Seq(Person)
<1>1. /\ c.sender \in Person /\ c.members \subseteq Users
      /\ IsFiniteSet(c.members)
  <2>1. c.sender \in Person /\ c.members \subseteq Users
    BY ConversationAssumption DEF Person
  <2> QED BY <2>1, TableAssumption, FS_Subset
<1> DEFINE m == SetToSeq(c.members)
           p == IF c.group \/ user = Nobody THEN <<>> ELSE <<Partner(c)>>
<1>2. m \in Seq(Users)
  BY <1>1, Listing
<1>3. Partner(c) \in Person
  BY <1>1 DEF Partner, Partners, Person
<1>4. p \in Seq(Person) /\ <<c.sender>> \in Seq(Person)
  BY <1>1, <1>3
<1>5. m \in Seq(Person)
  BY <1>2 DEF Person
<1> HIDE DEF m, p
<1>6. (m \o p) \o <<c.sender>> \in Seq(Person)
  BY <1>4, <1>5
<1> QED BY <1>2, <1>6 DEF DetailMentions, m, p

-----------------------------------------------------------------------------
(* The goroutines *)

Fetching == [pc: {"get", "lock", "write", "unlock", "done", "ended"},
             info: Names \cup {NoName}]

\* There are no more running goroutines than were started.
LEMMA RunningSize ==
  ASSUME TypeOK
  PROVE  /\ IsFiniteSet(Running)
         /\ Cardinality(Running) \in Nat
         /\ Cardinality(Running) <= Len(fetches)
         /\ Len(fetches) \in Nat /\ Len(ids) \in Nat
         /\ DOMAIN fetches = 1..Len(fetches)
<1>1. Len(fetches) \in Nat /\ DOMAIN fetches = 1..Len(fetches) /\ Len(ids) \in Nat
  BY LenProperties DEF TypeOK
<1> DEFINE n == Len(fetches)
<1>2. n \in Nat /\ Running \in SUBSET (1..n)
  BY <1>1 DEF Running
<1> HIDE DEF n
<1>3. IsFiniteSet(1..n) /\ Cardinality(1..n) = n
  BY <1>2, FS_Interval
<1>4. IsFiniteSet(Running) /\ Cardinality(Running) <= n
  BY <1>2, <1>3, FS_Subset
<1>5. Cardinality(Running) \in Nat
  BY <1>4, FS_CardinalityType
<1> QED BY <1>1, <1>4, <1>5 DEF n

\* A goroutine goes on: it alone changes, and its id can be looked up.
LEMMA FetchEffect ==
  ASSUME TypeOK, NEW g \in DOMAIN fetches, NEW f \in Fetching,
         fetches' = [fetches EXCEPT ![g] = f]
  PROVE  /\ fetches' \in Seq(Fetching)
         /\ Len(fetches') = Len(fetches) /\ DOMAIN fetches' = DOMAIN fetches
         /\ fetches'[g] = f
         /\ \A h \in DOMAIN fetches : h # g => fetches'[h] = fetches[h]
         /\ g \in DOMAIN ids /\ ids[g] \in Users
<1>1. fetches \in Seq(Fetching) /\ Len(fetches) <= Len(ids) /\ ids \in Seq(Users)
  BY DEF TypeOK, Fetching
<1>2. g \in 1..Len(fetches) /\ Len(fetches) \in Nat /\ Len(ids) \in Nat
      /\ DOMAIN ids = 1..Len(ids)
  BY <1>1
<1>3. g \in DOMAIN ids
  BY <1>1, <1>2
<1> QED BY <1>1, <1>2, <1>3

\* The same for a step that only moves the goroutine on.
LEMMA GotoEffect ==
  ASSUME TypeOK, NEW g \in DOMAIN fetches,
         NEW pc \in {"get", "lock", "write", "unlock", "done", "ended"}, Goto(g, pc)
  PROVE  \E f \in Fetching : /\ fetches' = [fetches EXCEPT ![g] = f]
                             /\ f.pc = pc /\ f.info = fetches[g].info
<1>1. fetches[g] \in Fetching
  <2>1. fetches \in Seq(Fetching)
    BY DEF TypeOK, Fetching
  <2> QED BY <2>1
<1>2. [fetches[g] EXCEPT !.pc = pc] \in Fetching
  BY <1>1 DEF Fetching
<1>3. fetches' = [fetches EXCEPT ![g] = [fetches[g] EXCEPT !.pc = pc]]
  BY DEF Goto
<1>4. /\ [fetches[g] EXCEPT !.pc = pc].pc = pc
      /\ [fetches[g] EXCEPT !.pc = pc].info = fetches[g].info
  BY <1>1 DEF Fetching
<1> QED BY <1>2, <1>3, <1>4

\* What a step makes of goroutine g: f, and what it changes besides.
Becomes(g, f) ==
  /\ fetches' = [fetches EXCEPT ![g] = f]
  /\ UNCHANGED <<input, rpc, query, answer, profile>>
  /\ \/ /\ fetches[g].pc = "get" /\ f.pc \in {"lock", "done"}
        /\ f.info = IF f.pc = "lock" THEN profile[ids[g]] ELSE fetches[g].info
        /\ UNCHANGED <<wg, mu, userMap>>
     \/ /\ fetches[g].pc = "lock" /\ f.pc = "write"
        /\ f.info = fetches[g].info
        /\ mu = Unlocked /\ mu' = g
        /\ UNCHANGED <<wg, userMap>>
     \/ /\ fetches[g].pc = "write" /\ f.pc = "unlock"
        /\ f.info = fetches[g].info
        /\ userMap' = [userMap EXCEPT ![ids[g]] = fetches[g].info]
        /\ UNCHANGED <<wg, mu>>
     \/ /\ fetches[g].pc = "unlock" /\ f.pc = "done"
        /\ f.info = fetches[g].info
        /\ mu' = Unlocked
        /\ UNCHANGED <<wg, userMap>>
     \/ /\ fetches[g].pc = "done" /\ f.pc = "ended"
        /\ f.info = fetches[g].info
        /\ wg' = wg - 1
        /\ UNCHANGED <<mu, userMap>>

\* The steps of a goroutine are of these five kinds.
LEMMA FetchStep ==
  ASSUME TypeOK, NEW g \in DOMAIN fetches, Fetch(g)
  PROVE  \E f \in Fetching : Becomes(g, f)
<1> USE DEF Becomes
<1>1. CASE GetSingleUser(g)
  <2>1. CASE Goto(g, "done")
    <3>1. PICK f \in Fetching : /\ fetches' = [fetches EXCEPT ![g] = f]
                               /\ f.pc = "done" /\ f.info = fetches[g].info
      BY <2>1, GotoEffect
    <3> QED BY <1>1, <3>1 DEF GetSingleUser, At
  <2>2. CASE fetches' = [fetches EXCEPT ![g] = [pc |-> "lock", info |-> profile[ids[g]]]]
    <3>1. g \in DOMAIN ids /\ ids[g] \in Users
      <4>1. Len(fetches) <= Len(ids) /\ ids \in Seq(Users) /\ Len(fetches) \in Nat
            /\ Len(ids) \in Nat /\ g \in 1..Len(fetches)
        BY DEF TypeOK
      <4> QED BY <4>1
    <3>2. [pc |-> "lock", info |-> profile[ids[g]]] \in Fetching
      BY <3>1 DEF TypeOK, Fetching
    <3> QED BY <1>1, <2>2, <3>2 DEF GetSingleUser, At
  <2> QED BY <1>1, <2>1, <2>2 DEF GetSingleUser, AfterFailure
<1>2. CASE Lock(g)
  <2>1. PICK f \in Fetching : /\ fetches' = [fetches EXCEPT ![g] = f]
                             /\ f.pc = "write" /\ f.info = fetches[g].info
    BY <1>2, GotoEffect DEF Lock
  <2> QED BY <1>2, <2>1 DEF Lock, At, MutexFree
<1>3. CASE Write(g)
  <2>1. PICK f \in Fetching : /\ fetches' = [fetches EXCEPT ![g] = f]
                             /\ f.pc = "unlock" /\ f.info = fetches[g].info
    BY <1>3, GotoEffect DEF Write
  <2> QED BY <1>3, <2>1 DEF Write, At
<1>4. CASE Unlock(g)
  <2>1. PICK f \in Fetching : /\ fetches' = [fetches EXCEPT ![g] = f]
                             /\ f.pc = "done" /\ f.info = fetches[g].info
    BY <1>4, GotoEffect DEF Unlock
  <2> QED BY <1>4, <2>1 DEF Unlock, At
<1>5. CASE Done(g)
  <2>1. PICK f \in Fetching : /\ fetches' = [fetches EXCEPT ![g] = f]
                             /\ f.pc = "ended" /\ f.info = fetches[g].info
    BY <1>5, GotoEffect DEF Done
  <2> QED BY <1>5, <2>1 DEF Done, At
<1> QED BY <1>1, <1>2, <1>3, <1>4, <1>5 DEF Fetch

\* A goroutine's step counts, excludes and fetches as promised.
LEMMA FetchInv ==
  ASSUME IInv, NEW g \in DOMAIN fetches, Fetch(g)
  PROVE  IInv'
<1> USE DEF IInv
<1> USE DEF Becomes
<1>1. PICK f \in Fetching : Becomes(g, f)
  BY FetchStep
<1>2. /\ fetches' \in Seq(Fetching)
      /\ Len(fetches') = Len(fetches) /\ DOMAIN fetches' = DOMAIN fetches
      /\ fetches'[g] = f
      /\ \A h \in DOMAIN fetches : h # g => fetches'[h] = fetches[h]
      /\ g \in DOMAIN ids /\ ids[g] \in Users
  BY <1>1, FetchEffect
<1>3. UNCHANGED <<token, kind, rpc, user, ids, mentions, answer, profile>>
  BY <1>1 DEF input, query
<1>4. fetches[g] \in Fetching /\ fetches[g].info \in Names \cup {NoName}
  <2>1. fetches \in Seq(Fetching)
    BY DEF TypeOK, Fetching
  <2>2. fetches[g] \in Fetching
    BY <2>1
  <2>3. \A r \in Fetching : r.info \in Names \cup {NoName}
    BY DEF Fetching
  <2> QED BY <2>2, <2>3
<1>5. /\ IsFiniteSet(Running) /\ Cardinality(Running) \in Nat
      /\ Len(fetches) \in Nat /\ Len(ids) \in Nat /\ Cardinality(Running) <= Len(fetches)
      /\ DOMAIN fetches = 1..Len(fetches)
  BY RunningSize
<1>6. g \in Running /\ rpc \in {"spawn", "wait"} /\ answer = <<>>
  BY <1>1 DEF Running, Counting, Answering
<1>7. Counting'
  <2>1. CASE f.pc # "ended"
    <3>1. Running' = Running
      BY <1>1, <1>2, <1>6, <2>1 DEF Running
    <3> QED BY <1>1, <1>2, <1>3, <2>1, <3>1 DEF Counting
  <2>2. CASE f.pc = "ended"
    <3>1. Running' = Running \ {g}
      BY <1>2, <2>2 DEF Running
    <3>2. Cardinality(Running \ {g}) = Cardinality(Running) - 1
      BY <1>5, <1>6, FS_RemoveElement
    <3>3. wg' = Cardinality(Running') /\ fetches # <<>>
      BY <1>1, <1>5, <2>2, <3>1, <3>2 DEF Counting
    <3> QED BY <1>2, <1>3, <1>6, <3>3 DEF Counting
  <2> QED BY <2>1, <2>2
<1>8. TypeOK'
  <2>1. wg' \in 0..Len(ids)
    <3>1. Running' \subseteq Running
      BY <1>2, <1>6 DEF Running
    <3>2. Cardinality(Running') <= Cardinality(Running) /\ Cardinality(Running') \in Nat
      BY <1>5, <3>1, FS_Subset, FS_CardinalityType
    <3>3. Len(fetches) <= Len(ids) /\ wg' = Cardinality(Running')
      BY <1>7 DEF TypeOK, Counting
    <3> QED BY <1>5, <3>2, <3>3
  <2>2. mu' \in Unlocked..Len(fetches)
    BY <1>1, <1>5 DEF TypeOK, Unlocked
  <2>3. userMap' \in [Users -> Names \cup {NoName}]
    BY <1>1, <1>4 DEF TypeOK
  <2> QED BY <1>2, <1>3, <2>1, <2>2, <2>3 DEF TypeOK, Fetching
<1>9. Exclusion'
  <2> SUFFICES ASSUME NEW h \in DOMAIN fetches
               PROVE  fetches'[h].pc \in {"write", "unlock"} <=> mu' = h
    BY <1>2 DEF Exclusion
  <2>1. h # Unlocked /\ g # Unlocked
    BY <1>5 DEF Unlocked
  <2>2. fetches[h].pc \in {"write", "unlock"} <=> mu = h
    BY DEF Exclusion
  <2>3. fetches[g].pc \in {"write", "unlock"} <=> mu = g
    BY DEF Exclusion
  <2>4. CASE h = g
    BY <1>1, <1>2, <2>1, <2>3, <2>4
  <2>5. CASE h # g
    BY <1>1, <1>2, <2>1, <2>2, <2>3, <2>5
  <2> QED BY <2>4, <2>5
<1>10. Named'
  <2>1. profile[ids[g]] # NoName
    <3>1. profile[ids[g]] \in Names /\ Names \subseteq Nat
      BY <1>2, TableAssumption DEF TypeOK, Names
    <3> QED BY <3>1, NoNameAssumption
  <2>2. \A h \in DOMAIN fetches :
          userMap[ids[h]] # NoName => userMap'[ids[h]] # NoName
    BY <1>1, <1>2 DEF Named, TypeOK
  <2> SUFFICES ASSUME NEW h \in DOMAIN fetches
               PROVE  /\ fetches'[h].pc = "get" => fetches'[h].info = NoName
                      /\ fetches'[h].pc \in {"lock", "write"} => fetches'[h].info # NoName
                      /\ fetches'[h].pc \in {"unlock", "done", "ended"}
                           /\ fetches'[h].info # NoName => userMap'[ids[h]] # NoName
    BY <1>2, <1>3 DEF Named
  <2>3. CASE h # g
    BY <1>2, <2>2, <2>3 DEF Named
  <2>4. CASE h = g
    <3>1. CASE fetches[g].pc = "write"
      <4>1. userMap'[ids[g]] # NoName
        BY <1>1, <1>2, <3>1 DEF Named, TypeOK
      <4> QED BY <1>1, <1>2, <2>4, <3>1, <4>1
    <3>2. CASE fetches[g].pc # "write"
      BY <1>1, <1>2, <2>1, <2>2, <2>4, <3>2 DEF Named
    <3> QED BY <3>1, <3>2
  <2> QED BY <2>3, <2>4
<1>11. Answering'
  BY <1>3, <1>6 DEF Answering
<1>12. Asked'
  BY <1>3 DEF Asked
<1> QED BY <1>7, <1>8, <1>9, <1>10, <1>11, <1>12

-----------------------------------------------------------------------------
(* The request *)

\* Starting a goroutine adds one to the counter, and one that will call Done.
LEMMA SpawnInv ==
  ASSUME IInv, Spawn
  PROVE  IInv'
<1> USE DEF IInv
<1>0. /\ IsFiniteSet(Running) /\ Cardinality(Running) \in Nat
      /\ Cardinality(Running) <= Len(fetches)
      /\ Len(fetches) \in Nat /\ Len(ids) \in Nat
      /\ DOMAIN fetches = 1..Len(fetches)
  BY RunningSize
<1>1. /\ UNCHANGED <<token, kind, user, ids, mentions, answer, mu, userMap, profile>>
      /\ rpc = "spawn" /\ answer = <<>>
  BY DEF Spawn, input, query, Answering
<1>2. CASE Len(fetches) < Len(ids)
  <2> DEFINE n == Len(fetches)
             f == [pc |-> "get", info |-> NoName]
  <2>1. fetches' = Append(fetches, f) /\ wg' = wg + 1 /\ rpc' = rpc
    BY <1>2 DEF Spawn, Added
  <2>2. fetches \in Seq(Fetching) /\ f \in Fetching
    BY DEF TypeOK, Fetching
  <2>3. /\ fetches' \in Seq(Fetching)
        /\ Len(fetches') = n + 1
        /\ \A h \in 1..n : fetches'[h] = fetches[h]
        /\ fetches'[n + 1] = f
    BY <2>1, <2>2, AppendProperties
  <2>4. DOMAIN fetches' = 1..(n + 1)
    BY <2>3, LenProperties
  <2>5. n \in Nat /\ n + 1 <= Len(ids) /\ DOMAIN fetches = 1..n
    BY <1>0, <1>2
  <2>6. f.pc = "get" /\ f.info = NoName
    OBVIOUS
  <2> HIDE DEF n, f
  <2>7. Running' = Running \cup {n + 1} /\ n + 1 \notin Running
    BY <2>3, <2>4, <2>5, <2>6 DEF Running
  <2>8. Cardinality(Running') = Cardinality(Running) + 1
    BY <1>0, <2>7, FS_AddElement
  <2>9. Counting'
    BY <1>1, <2>1, <2>8 DEF Counting
  <2>10. wg' \in 0..Len(ids)
    <3>1. wg = Cardinality(Running) /\ Cardinality(Running) <= n
      BY <1>0 DEF Counting, n
    <3> QED BY <1>0, <2>1, <2>5, <3>1
  <2>11. mu \in Unlocked..n
    BY DEF TypeOK, n
  <2>12. TypeOK'
    <3>1. mu' \in Unlocked..(n + 1)
      BY <1>1, <2>5, <2>11 DEF Unlocked
    <3> QED BY <1>1, <2>1, <2>3, <2>5, <2>10, <3>1 DEF TypeOK, Fetching
  <2>13. Exclusion'
    <3> SUFFICES ASSUME NEW h \in 1..(n + 1)
                 PROVE  fetches'[h].pc \in {"write", "unlock"} <=> mu = h
      BY <1>1, <2>4 DEF Exclusion
    <3>1. CASE h = n + 1
      BY <2>3, <2>5, <2>6, <2>11, <3>1 DEF Unlocked
    <3>2. CASE h \in 1..n
      BY <2>3, <2>5, <3>2 DEF Exclusion
    <3> QED BY <2>5, <3>1, <3>2
  <2>14. Named'
    <3>1. \A h \in 1..(n + 1) : h \in 1..n \/ h = n + 1
      BY <2>5
    <3>2. \A h \in 1..n : h \in DOMAIN fetches /\ fetches'[h] = fetches[h]
      BY <2>3, <2>5
    <3>3. UNCHANGED <<userMap, ids>>
      BY <1>1
    <3> QED BY <2>3, <2>4, <2>6, <3>1, <3>2, <3>3 DEF Named
  <2> QED BY <1>1, <2>9, <2>12, <2>13, <2>14 DEF Answering, Asked
<1>3. CASE ~ (Len(fetches) < Len(ids))
  <2>1. rpc' = "wait" /\ UNCHANGED <<wg, fetches>>
    BY <1>3 DEF Spawn
  <2>2. Len(fetches) = Len(ids)
    BY <1>0, <1>3 DEF TypeOK
  <2>3. TypeOK'
    BY <1>1, <2>1 DEF TypeOK
  <2>4. Counting'
    BY <1>1, <2>1, <2>2 DEF Counting, Running
  <2> QED BY <1>1, <2>1, <2>3, <2>4 DEF Exclusion, Named, Answering, Asked
<1> QED BY <1>2, <1>3

\* Before the fan-out there is nothing to count.
LEMMA QueryInv ==
  ASSUME IInv, WithAuth \/ ListConversations \/ GetConversation
  PROVE  IInv'
<1> USE DEF IInv
<1>1. /\ UNCHANGED <<token, kind, answer, wg, fetches, mu, userMap, profile>>
      /\ fetches = <<>> /\ answer = <<>> /\ wg = 0
      /\ rpc \in {"auth", "query"}
  <2>1. rpc \in {"auth", "query"}
    BY DEF WithAuth, ListConversations, GetConversation
  <2>2. Running = {} /\ fetches = <<>> /\ answer = <<>>
    BY <2>1 DEF Counting, Answering
  <2>3. wg = 0
    BY <2>2, FS_EmptySet DEF Counting
  <2> QED
    BY <2>1, <2>2, <2>3
       DEF WithAuth, ListConversations, GetConversation, input, fanOut
<1> DEFINE Typed == /\ user' \in Users \cup {Nobody}
                    /\ rpc' \in {"rejected", "query", "spawn", "failed"}
                    /\ ids' \in Seq(Users) /\ mentions' \in Seq(Person)
<1>2. Typed /\ Asked'
  <2>1. CASE WithAuth
    <3>1. token.id \in Users \cup {Nobody}
      BY TokenAssumption DEF TypeOK
    <3> QED BY <2>1, <3>1 DEF WithAuth, TypeOK, Asked, Person, input
  <2>2. CASE UNCHANGED <<ids, mentions>> /\ rpc' = "failed" /\ UNCHANGED user
    BY <1>1, <2>2 DEF TypeOK, Asked, Person
  <2>3. ASSUME NEW page \in SUBSET Conversations,
               ids' = ListIds(page), mentions' = ListMentions(page),
               rpc' = "spawn", UNCHANGED user
        PROVE  Typed /\ Asked'
    <3>1. ListIds(page) \in Seq(Users) /\ ListMentions(page) \in Seq(Person)
      BY ListAsks
    <3>2. \A i \in DOMAIN ListMentions(page) :
            ListMentions(page)[i] # Nobody
              => \E g \in DOMAIN ListIds(page) :
                   ListIds(page)[g] = ListMentions(page)[i]
      BY ListAsks
    <3> QED BY <2>3, <3>1, <3>2 DEF Asked, TypeOK
  <2>4. ASSUME NEW c \in Conversations,
               ids' = SetToSeq(c.members), mentions' = DetailMentions(c),
               rpc' = "spawn", UNCHANGED user, kind = "detail"
        PROVE  Typed /\ Asked'
    BY <1>1, <2>4, DetailAsks DEF Asked, TypeOK
  <2>5. CASE ListConversations
    BY <2>2, <2>3, <2>5 DEF ListConversations
  <2>6. CASE GetConversation
    BY <2>2, <2>4, <2>6 DEF GetConversation
  <2> QED BY <2>1, <2>5, <2>6
<1>3. Len(ids') \in Nat
  BY <1>2
<1>4. TypeOK'
  BY <1>1, <1>2, <1>3 DEF TypeOK, Person, Unlocked
<1>5. Counting'
  BY <1>1, <1>2 DEF Counting, Running
<1> QED BY <1>1, <1>2, <1>4, <1>5 DEF Exclusion, Named, Answering

\* When the counter is zero no goroutine is left.
LEMMA WaitInv ==
  ASSUME IInv, Wait
  PROVE  IInv'
<1> USE DEF IInv
<1>1. /\ UNCHANGED <<token, kind, user, ids, mentions, answer, wg, fetches, mu,
                     userMap, profile>>
      /\ rpc = "wait" /\ rpc' = "build" /\ wg = 0
  BY DEF Wait, input, query, fanOut, AllDone
<1>2. Running = {}
  BY <1>1, RunningSize, FS_EmptySet DEF Counting
<1>3. TypeOK'
  BY <1>1 DEF TypeOK
<1>4. Counting'
  BY <1>1, <1>2 DEF Counting, Running
<1> QED BY <1>1, <1>3, <1>4 DEF Exclusion, Named, Answering, Asked

\* The answer gets a name from a map nobody writes to any more.
LEMMA BuildInv ==
  ASSUME IInv, Build
  PROVE  IInv'
<1> USE DEF IInv
<1>1. /\ UNCHANGED <<token, kind, user, ids, mentions, wg, fetches, mu, userMap,
                     profile>>
      /\ rpc = "build" /\ rpc' \in {"build", "done", "failed"}
      /\ Running = {} /\ Len(fetches) = Len(ids)
  BY DEF Build, input, query, fanOut, Counting
<1>2. Counting'
  BY <1>1 DEF Counting, Running
<1>3. TypeOK' /\ Answering'
  <2>1. CASE UNCHANGED answer
    BY <1>1, <2>1 DEF TypeOK, Answering, NameOf
  <2>2. CASE Len(answer) < Len(mentions) /\ answer' # answer
    <3> DEFINE n == Len(answer)
               p == mentions[n + 1]
               a == [person |-> p, name |-> NameOf(p)]
    <3>1. answer' = Append(answer, a)
      BY <2>2 DEF Build
    <3>2. n \in Nat /\ n + 1 \in DOMAIN mentions /\ DOMAIN answer = 1..n
          /\ p \in Users \cup {Nobody}
      BY <2>2 DEF TypeOK
    <3>3. a \in [person: Users \cup {Nobody}, name: Names \cup {NoName}]
      BY <3>2 DEF NameOf, TypeOK
    <3>4. a.person = mentions[n + 1] /\ a.name = NameOf(a.person)
      OBVIOUS
    <3> HIDE DEF a
    <3>5. /\ answer' \in Seq([person: Users \cup {Nobody}, name: Names \cup {NoName}])
          /\ Len(answer') = n + 1
          /\ \A i \in 1..n : answer'[i] = answer[i]
          /\ answer'[n + 1] = a
      BY <3>1, <3>3, AppendProperties DEF TypeOK
    <3>6. DOMAIN answer' = 1..(n + 1)
      BY <3>5, LenProperties
    <3>7. TypeOK'
      BY <1>1, <3>5 DEF TypeOK
    <3> HIDE DEF n
    <3>8. ASSUME NEW i \in 1..(n + 1)
          PROVE  /\ i \in DOMAIN mentions
                 /\ answer'[i].person = mentions[i]
                 /\ answer'[i].name = NameOf(answer'[i].person)
      <4>1. CASE i \in 1..n
        BY <3>2, <3>5, <4>1 DEF Answering
      <4>2. CASE i = n + 1
        BY <3>2, <3>4, <3>5, <4>2
      <4> QED BY <3>2, <4>1, <4>2
    <3> QED BY <1>1, <3>6, <3>7, <3>8 DEF Answering, NameOf
  <2> QED BY <2>1, <2>2 DEF Build
<1> QED BY <1>1, <1>2, <1>3 DEF Exclusion, Named, Asked

\* Whatever a user is called from now on concerns fetches to come.
LEMMA RenameInv ==
  ASSUME IInv, NEW u \in Users, Rename(u)
  PROVE  IInv'
<1> USE DEF IInv
<1>1. /\ UNCHANGED <<token, kind, rpc, user, ids, mentions, answer, wg, fetches,
                     mu, userMap>>
      /\ profile' \in [Users -> Names]
  BY TableAssumption DEF Rename, input, query, fanOut, TypeOK, Names
<1>2. TypeOK'
  BY <1>1 DEF TypeOK
<1> QED
  BY <1>1, <1>2
     DEF Counting, Running, Exclusion, Named, Answering, NameOf, Asked

LEMMA InitInv == Init => IInv
<1> SUFFICES ASSUME Init PROVE IInv
  OBVIOUS
<1>1. Running = {} /\ Cardinality({}) = 0
  BY FS_EmptySet DEF Init, Running
<1>2. TypeOK
  BY TableAssumption DEF Init, TypeOK, Names, Unlocked
<1> QED
  BY <1>1, <1>2 DEF Init, IInv, Counting, Exclusion, Named, Answering, Asked

-----------------------------------------------------------------------------
(* The theorems *)

\* The invariant the others follow from.
THEOREM Inductive == Spec => []IInv
<1>1. ASSUME IInv, [Next]_vars PROVE IInv'
  <2>1. CASE UNCHANGED vars
    BY <1>1, <2>1
       DEF vars, input, query, fanOut, IInv, TypeOK, Counting, Running,
           Exclusion, Named, Answering, NameOf, Asked
  <2> QED
    BY <1>1, <2>1, FetchInv, SpawnInv, QueryInv, WaitInv, BuildInv, RenameInv
       DEF Next, Request
<1> QED BY InitInv, <1>1, PTL DEF Spec

\* Every variable stays in its set: above all the counter of the WaitGroup
\* never goes below zero, on which Go would end the process.
THEOREM TypeCorrect == Spec => []TypeOK
<1>1. IInv => TypeOK
  BY DEF IInv
<1> QED BY Inductive, <1>1, PTL

\* The map of names is never written by two at a time, nor read while it is
\* written (user.go:79-98).
THEOREM NoMapRaceAlways == Spec => []NoMapRace
<1>1. IInv => NoMapRace
  BY DEF IInv, Exclusion, Counting, Running, NoMapRace, At
<1> QED BY Inductive, <1>1, PTL

\* An answer gives a person one name wherever it mentions the person
\* (service.go:164-196, 272-331).
THEOREM OnePersonOneNameAlways == Spec => []OnePersonOneName
<1>1. IInv => OnePersonOneName
  BY DEF IInv, Answering, OnePersonOneName
<1> QED BY Inductive, <1>1, PTL

\* A name is left out only when every fetch for the person failed, and a list
\* asks for everyone it mentions (service.go:139-168, user.go:83-98).
THEOREM NamedWhenFetchedAlways == Spec => []NamedWhenFetched
<1>1. ASSUME IInv, NEW i \in DOMAIN answer,
             answer[i].person # Nobody, answer[i].name = NoName
      PROVE  /\ \A g \in FetchesOf(answer[i].person) : fetches[g].info = NoName
             /\ kind = "list" => FetchesOf(answer[i].person) # {}
  <2> USE <1>1 DEF IInv
  <2> DEFINE p == answer[i].person
  <2>1. /\ answer # <<>> /\ i \in DOMAIN mentions /\ p = mentions[i]
        /\ userMap[p] = NoName
    BY DEF Answering, NameOf
  <2>2. Running = {} /\ Len(fetches) = Len(ids)
    BY <2>1 DEF Answering, Counting
  <2>3. ASSUME NEW g \in FetchesOf(p) PROVE fetches[g].info = NoName
    <3>1. g \in DOMAIN fetches /\ fetches[g].pc = "ended" /\ ids[g] = p
      BY <2>2 DEF Running, FetchesOf
    <3> QED BY <2>1, <3>1 DEF Named
  <2>4. ASSUME kind = "list" PROVE FetchesOf(p) # {}
    <3>1. PICK g \in DOMAIN ids : ids[g] = p
      BY <2>1, <2>4 DEF Asked
    <3>2. g \in DOMAIN fetches
      BY <2>2 DEF TypeOK
    <3> QED BY <3>1, <3>2 DEF FetchesOf
  <2> QED BY <2>3, <2>4
<1>2. IInv => NamedWhenFetched
  BY <1>1 DEF NamedWhenFetched
<1> QED BY Inductive, <1>2, PTL
=============================================================================
