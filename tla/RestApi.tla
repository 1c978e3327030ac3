------------------------------- MODULE RestApi --------------------------------
(***************************************************************************)
(* One REST request that reads conversations: the WithAuth middleware,     *)
(* ChatService.ListConversations or GetConversation, and the fan-out of    *)
(* UserClient.EnrichUsers that puts names to the people of the answer.     *)
(*                                                                         *)
(* EnrichUsers starts one goroutine for each id, ids that occur twice      *)
(* included, which all write to one map under a mutex; the request waits   *)
(* for a WaitGroup and then looks the names up.  The user service is       *)
(* outside the program: it fails, times out, or answers with the name a    *)
(* user has at that moment, and users change their names.                  *)
(*                                                                         *)
(* A name is its version number.  Nobody stands for an empty id.           *)
(***************************************************************************)
EXTENDS Naturals, SequencesExt

CONSTANTS
  Users,
  Tokens,         \* whether valid, the claims _id and user_id
  Conversations,  \* rows: whether a group, the members, the last sender
  PageSize,       \* conversations in one answer
  MaxRenames,     \* bounds how often a user's name changes
  Nobody, NoName

ASSUME ConversationAssumption ==
  Conversations \subseteq
    [group: BOOLEAN, members: SUBSET Users, sender: Users \cup {Nobody}]
ASSUME TokenAssumption ==
  Tokens \subseteq [valid: BOOLEAN, id: Users \cup {Nobody}, user_id: Users \cup {Nobody}]
ASSUME TableAssumption ==
  IsFiniteSet(Users) /\ IsFiniteSet(Conversations) /\ MaxRenames \in Nat
ASSUME NobodyAssumption == Nobody \notin Users
ASSUME NoNameAssumption == NoName \notin Nat

VARIABLES
  token,     \* the token of the request
  kind,      \* GET /conversations or GET /conversations/detail
  rpc,       \* where the request is
  user,      \* user_id in its context
  ids,       \* the ids to fetch
  mentions,  \* the people the answer names, in order
  wg,        \* counter of the WaitGroup
  fetches,   \* the goroutines, in the order they were started
  mu,        \* the goroutine that holds the mutex
  userMap,   \* the names fetched
  answer,    \* the people and names put into the answer so far
  profile    \* the name each user has at the user service

input == <<token, kind>>
query == <<user, ids, mentions>>
fanOut == <<wg, fetches, mu, userMap>>
vars == <<input, rpc, query, answer, fanOut, profile>>

Names == 0..MaxRenames

\* No goroutine has number 0.
Unlocked == 0

TypeOK ==
  /\ token \in Tokens
  /\ kind \in {"list", "detail"}
  /\ rpc \in {"auth", "rejected", "query", "spawn", "wait", "build", "done", "failed"}
  /\ user \in Users \cup {Nobody}
  /\ ids \in Seq(Users)
  /\ mentions \in Seq(Users \cup {Nobody})
  /\ wg \in 0..Len(ids)
  /\ fetches \in Seq([pc: {"get", "lock", "write", "unlock", "done", "ended"},
                      info: Names \cup {NoName}])
  /\ Len(fetches) <= Len(ids)
  /\ mu \in Unlocked..Len(fetches)
  /\ userMap \in [Users -> Names \cup {NoName}]
  /\ answer \in Seq([person: Users \cup {Nobody}, name: Names \cup {NoName}])
  /\ profile \in [Users -> Names]

Init ==
  /\ token \in Tokens
  /\ kind \in {"list", "detail"}
  /\ rpc = "auth"
  /\ user = Nobody
  /\ ids = <<>> /\ mentions = <<>>
  /\ wg = 0
  /\ fetches = <<>>
  /\ mu = Unlocked
  /\ userMap = [u \in Users |-> NoName]
  /\ answer = <<>>
  /\ profile = [u \in Users |-> 0]

-----------------------------------------------------------------------------
(* WithAuth *)

\* A token that is missing, malformed, signed otherwise or expired is not
\* valid.  In one without a string _id, which is accepted too, token.id is
\* Nobody.
WithAuth ==
  /\ rpc = "auth"
  /\ IF token.valid
     THEN rpc' = "query" /\ user' = token.id
     ELSE rpc' = "rejected" /\ UNCHANGED user
  /\ UNCHANGED <<input, ids, mentions, answer, fanOut, profile>>

-----------------------------------------------------------------------------
(* The queries.  In what order rows come and Go's map of ids is walked makes *)
(* no difference here.                                                       *)

Partners(c) == IF c.group THEN {} ELSE c.members \ {user}
Partner(c) == IF Partners(c) = {} THEN Nobody ELSE CHOOSE p \in Partners(c) : TRUE

\* For each conversation of a page, who sent its last message, and with whom
\* the user has it.
SendersOf(page) ==
  LET rows == SetToSeq(page) IN [i \in DOMAIN rows |-> rows[i].sender]
PartnersIn(page) ==
  LET rows == SetToSeq(page) IN [i \in DOMAIN rows |-> Partner(rows[i])]

\* Mutant: the last senders are not fetched.
PartnersOnly(page) == SetToSeq(UNION {Partners(c) : c \in page})
ListIds(page) ==
  SetToSeq(UNION {Partners(c) : c \in page})
    \o SendersOf({c \in page : c.sender # Nobody})

ListMentions(page) ==
  PartnersIn({c \in page : ~c.group}) \o SendersOf(page)

DetailMentions(c) ==
  SetToSeq(c.members)
    \o (IF c.group \/ user = Nobody THEN <<>> ELSE <<Partner(c)>>)
    \o <<c.sender>>

ListConversations ==
  /\ rpc = "query" /\ kind = "list"
  /\ \/ \E page \in SUBSET {c \in Conversations : user \in c.members} :
          /\ Cardinality(page) <= PageSize
          /\ ids' = ListIds(page)
          /\ mentions' = ListMentions(page)
          /\ rpc' = "spawn"
     \/ rpc' = "failed" /\ UNCHANGED <<ids, mentions>>
  /\ UNCHANGED <<input, user, answer, fanOut, profile>>

GetConversation ==
  /\ rpc = "query" /\ kind = "detail"
  /\ \/ \E c \in Conversations :
          /\ ids' = SetToSeq(c.members)
          /\ mentions' = DetailMentions(c)
          /\ rpc' = "spawn"
     \/ rpc' = "failed" /\ UNCHANGED <<ids, mentions>>
  /\ UNCHANGED <<input, user, answer, fanOut, profile>>

-----------------------------------------------------------------------------
(* EnrichUsers *)

\* Mutant: Add is left out.
NotAdded == wg
Added == wg + 1

Spawn ==
  /\ rpc = "spawn"
  /\ IF Len(fetches) < Len(ids)
     THEN /\ wg' = Added
          /\ fetches' = Append(fetches, [pc |-> "get", info |-> NoName])
          /\ UNCHANGED rpc
     ELSE rpc' = "wait" /\ UNCHANGED <<wg, fetches>>
  /\ UNCHANGED <<input, query, answer, mu, userMap, profile>>

\* Mutant: the request does not wait.
WaitDropped == TRUE
AllDone == wg = 0

Wait ==
  /\ rpc = "wait"
  /\ AllDone
  /\ rpc' = "build"
  /\ UNCHANGED <<input, query, answer, fanOut, profile>>

At(g, pc) == g \in DOMAIN fetches /\ fetches[g].pc = pc
Goto(g, pc) == fetches' = [fetches EXCEPT ![g].pc = pc]

\* Mutant: a goroutine that got no answer returns without Done.
AfterError == "ended"
AfterFailure == "done"

\* The client's timeout of five seconds is one of the ways to fail.
GetSingleUser(g) ==
  /\ At(g, "get")
  /\ \/ fetches' = [fetches EXCEPT ![g] = [pc |-> "lock", info |-> profile[ids[g]]]]
     \/ Goto(g, AfterFailure)
  /\ UNCHANGED <<input, rpc, query, answer, wg, mu, userMap, profile>>

\* Mutant: no mutex.
NoMutex == TRUE
MutexFree == mu = Unlocked

Lock(g) ==
  /\ At(g, "lock")
  /\ MutexFree
  /\ mu' = g
  /\ Goto(g, "write")
  /\ UNCHANGED <<input, rpc, query, answer, wg, userMap, profile>>

\* A goroutine at "write" is in the assignment to the map, which ends here.
Write(g) ==
  /\ At(g, "write")
  /\ userMap' = [userMap EXCEPT ![ids[g]] = fetches[g].info]
  /\ Goto(g, "unlock")
  /\ UNCHANGED <<input, rpc, query, answer, wg, mu, profile>>

Unlock(g) ==
  /\ At(g, "unlock")
  /\ mu' = Unlocked
  /\ Goto(g, "done")
  /\ UNCHANGED <<input, rpc, query, answer, wg, userMap, profile>>

Done(g) ==
  /\ At(g, "done")
  /\ wg' = wg - 1
  /\ Goto(g, "ended")
  /\ UNCHANGED <<input, rpc, query, answer, mu, userMap, profile>>

-----------------------------------------------------------------------------
(* The answer *)

NameOf(p) == IF p = Nobody THEN NoName ELSE userMap[p]

\* GetConversation reads the messages in between, which may fail.
Build ==
  /\ rpc = "build"
  /\ \/ /\ Len(answer) < Len(mentions)
        /\ LET p == mentions[Len(answer) + 1]
           IN  answer' = Append(answer, [person |-> p, name |-> NameOf(p)])
        /\ UNCHANGED rpc
     \/ Len(answer) = Len(mentions) /\ rpc' = "done" /\ UNCHANGED answer
     \/ kind = "detail" /\ rpc' = "failed" /\ UNCHANGED answer
  /\ UNCHANGED <<input, query, fanOut, profile>>

\* A user takes another name.
Rename(u) ==
  /\ profile[u] < MaxRenames
  /\ profile' = [profile EXCEPT ![u] = @ + 1]
  /\ UNCHANGED <<input, rpc, query, answer, fanOut>>

-----------------------------------------------------------------------------

Request == WithAuth \/ ListConversations \/ GetConversation \/ Spawn \/ Wait \/ Build
Fetch(g) == GetSingleUser(g) \/ Lock(g) \/ Write(g) \/ Unlock(g) \/ Done(g)

Next ==
  \/ Request
  \/ \E g \in DOMAIN fetches : Fetch(g)
  \/ \E u \in Users : Rename(u)

Spec == Init /\ [][Next]_vars

\* The Go scheduler runs every goroutine that can run, and a call to the user
\* service ends after five seconds at the latest.  At most two goroutines are
\* started for each conversation listed, one for each member of one shown.
MaxFetches == 2 * PageSize + Cardinality(Users)
Fairness == WF_vars(Request) /\ \A g \in 1..MaxFetches : WF_vars(Fetch(g))
FairSpec == Spec /\ Fairness

-----------------------------------------------------------------------------
(* Properties *)

\* No two goroutines are in the map at the same time, and the request reads it
\* only when none is: Go ends the process on a concurrent map write
\* (user.go:79-98).
NoMapRace ==
  /\ \A g, h \in DOMAIN fetches : At(g, "write") /\ At(h, "write") => g = h
  /\ rpc = "build" => \A g \in DOMAIN fetches : ~At(g, "write")

\* One answer gives a person one name wherever it mentions the person, also
\* when the same id was fetched twice around a change of name
\* (service.go:164-196, 272-331).
OnePersonOneName ==
  \A i, j \in DOMAIN answer :
    answer[i].person = answer[j].person => answer[i].name = answer[j].name

\* An answer leaves out a name only when every fetch for that person failed,
\* and a list asks for everyone it mentions (service.go:139-168, user.go:83-98).
FetchesOf(p) == {g \in DOMAIN fetches : ids[g] = p}
NamedWhenFetched ==
  \A i \in DOMAIN answer :
    answer[i].person # Nobody /\ answer[i].name = NoName
      => /\ \A g \in FetchesOf(answer[i].person) : fetches[g].info = NoName
         /\ kind = "list" => FetchesOf(answer[i].person) # {}

\* Every request is answered, whatever fetches fail: the counter comes back to
\* zero on every path of every goroutine (user.go:86-98).
Returns == <>(rpc \in {"rejected", "done", "failed"})

\* withAuth_test.go:54 and :87: a valid token whose claims name the user in
\* user_id makes that user the user_id of the request.
TestedClaim ==
  rpc \notin {"auth", "rejected"} /\ token.id = Nobody /\ token.user_id \in Users
    => user = token.user_id
=============================================================================
