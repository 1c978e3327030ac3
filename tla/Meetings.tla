------------------------------- MODULE Meetings -------------------------------
(***************************************************************************)
(* Meetings: concurrent CreateMeeting, JoinMeeting and EndMeeting calls of *)
(* internal/meeting on the meetings and meeting_invites tables, and the    *)
(* LiveKit room behind a meeting.                                          *)
(*                                                                         *)
(* A call is one request.  Each statement outside a transaction is atomic  *)
(* and sees what is committed; the statements of CreateMeeting belong to   *)
(* one transaction.  PostgreSQL rejects every statement of a transaction   *)
(* after the first that failed, until it is rolled back.  An INSERT whose  *)
(* meeting_key another open transaction holds waits for it to end.         *)
(*                                                                         *)
(* A meeting is named by the call that created it, which stands for its id *)
(* and its random room_name.  Its meeting_key is drawn from Keys.          *)
(***************************************************************************)
EXTENDS Naturals, FiniteSets

CONSTANTS
  Users,
  Keys,
  Creates, Joins, Ends,  \* calls
  UserOf,                \* the authenticated user of each call
  InvitedBy,             \* the users each create call invites
  None

ASSUME CallAssumption ==
  /\ UserOf \in [Creates \cup Joins \cup Ends -> Users]
  /\ InvitedBy \in [Creates -> SUBSET Users]
ASSUME NoneAssumption == None \notin Creates \cup Keys \cup Users

VARIABLES
  meetings,  \* committed meetings
  invites,   \* committed rows of meeting_invites: <<meeting, user>>
  key,       \* meeting_key of each committed or open meeting
  active,    \* meetings with is_active set
  ended,     \* meetings with an end_time
  started,   \* meetings whose start_time has passed
  cpc,       \* where each create call is
  tries,     \* how many keys it has drawn
  aborted,   \* its transaction rejects statements
  pending,   \* the invites it has inserted
  jpc,       \* where each join call is
  seen,      \* the row it read: the meeting and its is_active
  token,     \* the meeting it was given a token for
  epc,       \* where each end call is
  target,    \* the meeting it has ended
  closed     \* meetings whose LiveKit room was deleted

tables == <<meetings, invites, active, ended>>
createVars == <<key, cpc, tries, aborted, pending>>
joinVars == <<jpc, seen, token>>
endVars == <<epc, target, closed>>
vars == <<tables, started, createVars, joinVars, endVars>>

MaxTries == 5

TypeOK ==
  /\ meetings \in SUBSET Creates
  /\ invites \in SUBSET (meetings \X Users)
  /\ key \in [Creates -> Keys \cup {None}]
  /\ active \in SUBSET meetings
  /\ ended \in SUBSET meetings
  /\ started \in SUBSET Creates
  /\ cpc \in [Creates -> {"insert", "invite", "commit", "done", "failed"}]
  /\ tries \in [Creates -> 0..MaxTries]
  /\ aborted \in [Creates -> BOOLEAN]
  /\ pending \in [Creates -> SUBSET Users]
  /\ jpc \in [Joins -> {"find", "permission", "check", "activate", "token",
                        "done", "failed"}]
  /\ seen \in [Joins -> [meeting: Creates \cup {None}, active: BOOLEAN]]
  /\ token \in [Joins -> Creates \cup {None}]
  /\ epc \in [Ends -> {"update", "delete", "done", "failed"}]
  /\ target \in [Ends -> Creates \cup {None}]
  /\ closed \in SUBSET Creates

Init ==
  /\ meetings = {} /\ invites = {} /\ active = {} /\ ended = {}
  /\ key = [m \in Creates |-> None]
  /\ started \in SUBSET Creates
  /\ cpc = [m \in Creates |-> "insert"]
  /\ tries = [m \in Creates |-> 0]
  /\ aborted = [m \in Creates |-> FALSE]
  /\ pending = [m \in Creates |-> {}]
  /\ jpc = [j \in Joins |-> "find"]
  /\ seen = [j \in Joins |-> [meeting |-> None, active |-> FALSE]]
  /\ token = [j \in Joins |-> None]
  /\ epc = [e \in Ends |-> "update"]
  /\ target = [e \in Ends |-> None]
  /\ closed = {}

\* The host_id of a meeting is the user of the call that created it.
Host(m) == UserOf[m]

\* The start_time of a meeting passes.
Start(m) ==
  /\ m \notin started
  /\ started' = started \cup {m}
  /\ UNCHANGED <<tables, createVars, joinVars, endVars>>

-----------------------------------------------------------------------------
(* CreateMeeting: m is the call and the meeting it creates. *)

\* meeting_key is unique among all rows, those of ended meetings included; an
\* open transaction may hold a key that is not committed.
Committed(k) == \E n \in meetings : key[n] = k

HeldByOther(m, k) == \E n \in Creates \ (meetings \cup {m}) : key[n] = k

\* The INSERT succeeds, with a key that nobody has.
InsertRow(m) ==
  \E k \in Keys : /\ ~Committed(k) /\ ~HeldByOther(m, k)
                  /\ key' = [key EXCEPT ![m] = k]

\* One round of the loop.
InsertMeeting(m) ==
  /\ cpc[m] = "insert"
  /\ tries[m] < MaxTries
  /\ tries' = [tries EXCEPT ![m] = @ + 1]
  /\ \/ /\ ~aborted[m]
        /\ InsertRow(m)
        /\ cpc' = [cpc EXCEPT ![m] = "invite"]
        /\ UNCHANGED aborted
     \/ /\ aborted[m] \/ \E k \in Keys : Committed(k)
        /\ aborted' = [aborted EXCEPT ![m] = TRUE]
        /\ UNCHANGED <<key, cpc>>
  /\ UNCHANGED <<tables, started, pending, joinVars, endVars>>

\* All rounds failed, or a later step did: the deferred Rollback runs.  An
\* INSERT that fails for another reason than its key fails in every round
\* left, which is one step here.
RollbackMeeting(m) ==
  /\ cpc[m] \in {"insert", "invite", "commit"}
  /\ cpc' = [cpc EXCEPT ![m] = "failed"]
  /\ key' = [key EXCEPT ![m] = None]
  /\ pending' = [pending EXCEPT ![m] = {}]
  /\ UNCHANGED <<tables, started, tries, aborted, joinVars, endVars>>

\* Mutant: an invite that cannot be added is skipped.
AnyInvited(m) == TRUE
AllInvited(m) == pending[m] = InvitedBy[m]

AddMeetingInvite(m) ==
  /\ cpc[m] = "invite"
  /\ \/ /\ \E u \in InvitedBy[m] \ pending[m] :
             pending' = [pending EXCEPT ![m] = @ \cup {u}]
        /\ UNCHANGED cpc
     \/ /\ AllInvited(m)
        /\ cpc' = [cpc EXCEPT ![m] = "commit"]
        /\ UNCHANGED pending
  /\ UNCHANGED <<tables, started, key, tries, aborted, joinVars, endVars>>

\* The answer to the commit may be lost: the call fails, the meeting exists.
CommitMeeting(m) ==
  /\ cpc[m] = "commit"
  /\ meetings' = meetings \cup {m}
  /\ invites' = invites \cup ({m} \X pending[m])
  /\ \E to \in {"done", "failed"} : cpc' = [cpc EXCEPT ![m] = to]
  /\ UNCHANGED <<active, ended, started, key, tries, aborted, pending,
                 joinVars, endVars>>

-----------------------------------------------------------------------------
(* JoinMeeting *)

\* Mutants: ended meetings are found; meetings are found before their
\* transaction commits.
JoinableEver == meetings
JoinableDirty == {m \in Creates : cpc[m] \in {"invite", "commit"}}

\* What the queries by meeting_key and by room_name find.
Joinable == meetings \ ended

Goto(j, to) == jpc' = [jpc EXCEPT ![j] = to]

\* By meeting_key, or by room_name with a permission check to follow.
FindMeeting(j) ==
  /\ jpc[j] = "find"
  /\ \/ \E m \in Joinable :
          /\ seen' = [seen EXCEPT ![j] = [meeting |-> m, active |-> m \in active]]
          /\ Goto(j, "check") \/ Goto(j, "permission")
     \/ Goto(j, "failed") /\ UNCHANGED seen
  /\ UNCHANGED <<tables, started, createVars, token, endVars>>

HasPermission(m, u) ==
  m \in meetings \ ended /\ (u = Host(m) \/ <<m, u>> \in invites)

\* The query itself may fail.
CheckJoinPermission(j) ==
  /\ jpc[j] = "permission"
  /\ \/ HasPermission(seen[j].meeting, UserOf[j]) /\ Goto(j, "check")
     \/ Goto(j, "failed")
  /\ UNCHANGED <<tables, started, createVars, seen, token, endVars>>

\* Mutant: the start time is not checked.
NeverEarly(j) == FALSE
TooEarly(j) == seen[j].meeting \notin started /\ ~seen[j].active

\* Before the start time only the host gets in, unless the meeting is active;
\* is_active is what the first query returned.
CheckStart(j) ==
  /\ jpc[j] = "check"
  /\ IF UserOf[j] = Host(seen[j].meeting)
     THEN Goto(j, IF seen[j].active THEN "token" ELSE "activate")
     ELSE Goto(j, IF TooEarly(j) THEN "failed" ELSE "token")
  /\ UNCHANGED <<tables, started, createVars, seen, token, endVars>>

\* UpdateMeetingStatus goes by id alone; its failure is only logged.
ActivateMeeting(j) ==
  /\ jpc[j] = "activate"
  /\ active' \in {active, active \cup {seen[j].meeting}}
  /\ Goto(j, "token")
  /\ UNCHANGED <<meetings, invites, ended, started, createVars, seen, token,
                 endVars>>

GenerateToken(j) ==
  /\ jpc[j] = "token"
  /\ \/ token' = [token EXCEPT ![j] = seen[j].meeting] /\ Goto(j, "done")
     \/ UNCHANGED token /\ Goto(j, "failed")
  /\ UNCHANGED <<tables, started, createVars, seen, endVars>>

-----------------------------------------------------------------------------
(* ListMyMeetings, for user u *)

\* Mutant: an INNER JOIN, as in ListMeetingsForUser.
InvitedRows == invites

\* meetings LEFT JOIN meeting_invites: a meeting without invites has one row,
\* with NULL for the user.
MeetingRows ==
  invites \cup {<<m, None>> : m \in {n \in meetings : \A u \in Users : <<n, u>> \notin invites}}

ListMyMeetings(u) ==
  {row[1] : row \in {r \in MeetingRows : /\ Host(r[1]) = u \/ r[2] = u
                                        /\ r[1] \notin ended}}

-----------------------------------------------------------------------------
(* EndMeeting *)

\* Mutant: the update does not want end_time to be NULL.
EndableAgain(e) == {m \in meetings : Host(m) = UserOf[e]}
Endable(e) == {m \in meetings \ ended : Host(m) = UserOf[e]}

\* When the answer to the update is lost the call fails and the room stays.
EndUpdate(e) ==
  /\ epc[e] = "update"
  /\ \/ \E m \in Endable(e) :
          /\ ended' = ended \cup {m}
          /\ active' = active \ {m}
          /\ target' = [target EXCEPT ![e] = m]
          /\ \E to \in {"delete", "failed"} : epc' = [epc EXCEPT ![e] = to]
     \/ epc' = [epc EXCEPT ![e] = "failed"] /\ UNCHANGED <<ended, active, target>>
  /\ UNCHANGED <<meetings, invites, started, createVars, joinVars, closed>>

\* The failure of DeleteRoom is only logged.
DeleteRoom(e) ==
  /\ epc[e] = "delete"
  /\ closed' \in {closed, closed \cup {target[e]}}
  /\ epc' = [epc EXCEPT ![e] = "done"]
  /\ UNCHANGED <<tables, started, createVars, joinVars, target>>

-----------------------------------------------------------------------------

CreateMeeting(m) ==
  InsertMeeting(m) \/ AddMeetingInvite(m) \/ CommitMeeting(m) \/ RollbackMeeting(m)
JoinMeeting(j) ==
  \/ FindMeeting(j) \/ CheckJoinPermission(j) \/ CheckStart(j)
  \/ ActivateMeeting(j) \/ GenerateToken(j)
EndMeeting(e) == EndUpdate(e) \/ DeleteRoom(e)

Next ==
  \/ \E m \in Creates : CreateMeeting(m) \/ Start(m)
  \/ \E j \in Joins : JoinMeeting(j)
  \/ \E e \in Ends : EndMeeting(e)

Spec == Init /\ [][Next]_vars

-----------------------------------------------------------------------------
(* Properties *)

\* A meeting that can be joined has all its invites: they are committed with
\* it (meeting.service.go:67-79).
InvitesComplete ==
  \A m \in meetings : \A u \in InvitedBy[m] : <<m, u>> \in invites

\* A participant gets a token before the start time only when the host has
\* come in and the meeting was activated on the host's behalf, in another
\* call (meeting.service.go:112-129).
HostFirst ==
  [][\A j \in Joins :
       token'[j] # token[j]
         => \/ token'[j] \in started
            \/ UserOf[j] = Host(token'[j])
            \/ \E i \in Joins : /\ UserOf[i] = Host(token'[j])
                                /\ seen[i].meeting = token'[j]
                                /\ jpc[i] \in {"token", "done", "failed"}]_vars

\* The end of a meeting is final: once it is inactive and no join of its host
\* is between reading the row as inactive and writing it, nothing makes it
\* active again.  A join that straddles the end still does, because it goes by
\* what it read (meeting.service.go:89-129).
Straddling(m) ==
  {j \in Joins : /\ UserOf[j] = Host(m)
                 /\ seen[j] = [meeting |-> m, active |-> FALSE]
                 /\ jpc[j] \in {"permission", "check", "activate"}}
Settled(m) == m \in ended \ active /\ Straddling(m) = {}
EndIsFinal == [][\A m \in Creates : Settled(m) => Settled(m)']_vars

\* A user is shown the meetings whose room_name the user may join by, and no
\* others: two queries, over a join and over a nested EXISTS, agree on hosts,
\* invites, meetings without invites and meetings that ended
\* (meeting.sql.go:29-46, 266-273).
ListedIsJoinable ==
  \A u \in Users : ListMyMeetings(u) = {m \in meetings : HasPermission(m, u)}

\* Of several end calls for a meeting one succeeds, and its room is deleted at
\* most on behalf of that one (meeting.sql.go:101-103).
EndedOnce ==
  /\ \A d, e \in Ends : target[d] = target[e] /\ target[e] # None => d = e
  /\ closed \subseteq ended

\* meeting.service.go:64 reports a failure "after retries": another key is
\* drawn when one is taken, so with a key to spare an attempt that follows a
\* failed one can succeed.
RetriesHelp ==
  \A m \in Creates :
    cpc[m] = "insert" /\ tries[m] \in 1..(MaxTries - 1)
      /\ (\E k \in Keys : ~Committed(k) /\ ~HeldByOther(m, k))
        => ~aborted[m]
=============================================================================
