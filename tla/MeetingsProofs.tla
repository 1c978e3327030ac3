---------------------------- MODULE MeetingsProofs ----------------------------
(***************************************************************************)
(* Proofs about Meetings, for any calls, users and keys.                   *)
(*                                                                         *)
(* None of the properties is inductive.  A meeting has all its invites     *)
(* because a call commits only when it has inserted them, and commits once *)
(* (Open).  The properties of joins and ends follow from what a call must  *)
(* have done to be where it is: the row it read is a meeting, only the     *)
(* host goes to "activate" and only after reading the meeting as inactive, *)
(* and whoever holds a target has set its end_time.                        *)
(***************************************************************************)
EXTENDS Meetings, TLAPS

\* A call is done with a committed meeting, and commits only all invites.
Open ==
  /\ \A m \in meetings : cpc[m] \in {"done", "failed"}
  /\ \A m \in Creates : cpc[m] = "commit" => pending[m] = InvitedBy[m]

Ending ==
  /\ \A e \in Ends : target[e] # None => target[e] \in ended
  /\ \A e \in Ends : epc[e] = "delete" => target[e] # None

\* A join of the host has read m, and has been let in or has given up since.
HostCame(m) ==
  \E i \in Joins : /\ UserOf[i] = Host(m)
                   /\ seen[i].meeting = m
                   /\ jpc[i] \in {"token", "done", "failed"}

Joining ==
  \A j \in Joins :
    LET m == seen[j].meeting
    IN  /\ jpc[j] \notin {"find", "failed"} => m \in meetings
        /\ jpc[j] = "activate" => UserOf[j] = Host(m) /\ ~seen[j].active
        /\ jpc[j] = "token" => \/ m \in started
                               \/ UserOf[j] = Host(m)
                               \/ seen[j].active

\* A meeting is active, or was read as active, only when its host came.
ActiveByHost ==
  /\ \A m \in active : HostCame(m)
  /\ \A j \in Joins : seen[j].active => HostCame(seen[j].meeting)

IInv ==
  /\ TypeOK
  /\ Open /\ InvitesComplete
  /\ Ending /\ EndedOnce
  /\ Joining /\ ActiveByHost

-----------------------------------------------------------------------------
(* The steps keep the invariant *)

LEMMA InitInv == Init => IInv
BY DEF Init, IInv, TypeOK, Open, InvitesComplete, Ending, EndedOnce, Joining,
       ActiveByHost, MaxTries

LEMMA TypeStep == TypeOK /\ Joining /\ Ending /\ [Next]_vars => TypeOK'
<1> SUFFICES ASSUME TypeOK, Joining, Ending, [Next]_vars PROVE TypeOK'
  OBVIOUS
<1> USE DEF TypeOK
<1>1. ASSUME NEW m \in Creates, InsertMeeting(m) PROVE TypeOK'
  <2>1. \/ UNCHANGED key
        \/ \E k \in Keys : key' = [key EXCEPT ![m] = k]
    BY <1>1 DEF InsertMeeting, InsertRow
  <2>2. key' \in [Creates -> Keys \cup {None}]
    BY <2>1
  <2>3. tries' \in [Creates -> 0..MaxTries]
    BY <1>1 DEF InsertMeeting, MaxTries
  <2> QED
    BY <1>1, <2>2, <2>3
       DEF InsertMeeting, tables, joinVars, endVars
<1>2. ASSUME NEW m \in Creates, AddMeetingInvite(m) PROVE TypeOK'
  <2>1. pending' \in [Creates -> SUBSET Users]
    BY <1>2, CallAssumption DEF AddMeetingInvite
  <2> QED
    BY <1>2, <2>1 DEF AddMeetingInvite, tables, joinVars, endVars
<1>3. ASSUME NEW m \in Creates, CommitMeeting(m) PROVE TypeOK'
  <2>1. meetings' \in SUBSET Creates /\ meetings \subseteq meetings'
        /\ invites' \in SUBSET (meetings' \X Users)
    BY <1>3 DEF CommitMeeting
  <2> QED
    BY <1>3, <2>1 DEF CommitMeeting, joinVars, endVars
<1>4. ASSUME NEW m \in Creates, RollbackMeeting(m) PROVE TypeOK'
  BY <1>4 DEF RollbackMeeting, tables, joinVars, endVars
<1>5. ASSUME NEW m \in Creates, Start(m) PROVE TypeOK'
  BY <1>5 DEF Start, tables, createVars, joinVars, endVars
<1>6. ASSUME NEW j \in Joins, FindMeeting(j) PROVE TypeOK'
  <2>1. seen' \in [Joins -> [meeting: Creates \cup {None}, active: BOOLEAN]]
    <3>1. ASSUME NEW m \in Joinable
          PROVE  [meeting |-> m, active |-> m \in active]
                   \in [meeting: Creates \cup {None}, active: BOOLEAN]
      <4>1. (m \in active) \in BOOLEAN
        OBVIOUS
      <4>2. m \in Creates \cup {None}
        BY DEF Joinable
      <4> QED BY <4>1, <4>2
    <3>2. \/ UNCHANGED seen
          \/ \E m \in Joinable :
               seen' = [seen EXCEPT ![j] = [meeting |-> m, active |-> m \in active]]
      BY <1>6 DEF FindMeeting
    <3>3. \A r \in [meeting: Creates \cup {None}, active: BOOLEAN] :
            [seen EXCEPT ![j] = r]
              \in [Joins -> [meeting: Creates \cup {None}, active: BOOLEAN]]
      OBVIOUS
    <3> QED BY <3>1, <3>2, <3>3
  <2> QED
    BY <1>6, <2>1 DEF FindMeeting, Goto, tables, createVars, endVars
<1>7. ASSUME NEW j \in Joins, CheckJoinPermission(j) PROVE TypeOK'
  BY <1>7 DEF CheckJoinPermission, Goto, tables, createVars, endVars
<1>8. ASSUME NEW j \in Joins, CheckStart(j) PROVE TypeOK'
  BY <1>8 DEF CheckStart, Goto, tables, createVars, endVars
<1>9. ASSUME NEW j \in Joins, ActivateMeeting(j) PROVE TypeOK'
  <2>1. active' \in SUBSET meetings
    BY <1>9 DEF ActivateMeeting, Joining
  <2> QED
    BY <1>9, <2>1 DEF ActivateMeeting, Goto, createVars, endVars
<1>10. ASSUME NEW j \in Joins, GenerateToken(j) PROVE TypeOK'
  <2>1. token' \in [Joins -> Creates \cup {None}]
    BY <1>10 DEF GenerateToken
  <2> QED
    BY <1>10, <2>1 DEF GenerateToken, Goto, tables, createVars, endVars
<1>11. ASSUME NEW e \in Ends, EndUpdate(e) PROVE TypeOK'
  BY <1>11 DEF EndUpdate, Endable, createVars, joinVars
<1>12. ASSUME NEW e \in Ends, DeleteRoom(e) PROVE TypeOK'
  BY <1>12 DEF DeleteRoom, Ending, tables, createVars, joinVars
<1>13. CASE UNCHANGED vars
  BY <1>13 DEF vars, tables, createVars, joinVars, endVars
<1> QED
  BY <1>1, <1>2, <1>3, <1>4, <1>5, <1>6, <1>7, <1>8, <1>9, <1>10, <1>11,
     <1>12, <1>13 DEF Next, CreateMeeting, JoinMeeting, EndMeeting

\* What the calls that do not create leave alone.
LEMMA NotCreating ==
  ASSUME [Next]_vars, ~ \E m \in Creates : CreateMeeting(m)
  PROVE  UNCHANGED <<meetings, invites, createVars>>
BY DEF Next, Start, JoinMeeting, FindMeeting, CheckJoinPermission, CheckStart,
       ActivateMeeting, GenerateToken, EndMeeting, EndUpdate, DeleteRoom,
       vars, tables

\* What a call inserts is counted against what it was asked to invite; only
\* its commit makes a meeting, and nothing takes an invite away.
LEMMA CreateStep ==
  ASSUME TypeOK, Open, InvitesComplete, [Next]_vars
  PROVE  Open' /\ InvitesComplete'
<1> USE DEF TypeOK
<1>1. ASSUME NEW m \in Creates, InsertMeeting(m)
      PROVE  Open' /\ InvitesComplete'
  <2>1. UNCHANGED <<meetings, invites, pending>>
    BY <1>1 DEF InsertMeeting, tables
  <2>2. m \notin meetings
    BY <1>1 DEF InsertMeeting, Open
  <2>3. Open'
    BY <1>1, <2>1, <2>2 DEF InsertMeeting, Open
  <2> QED BY <2>1, <2>3 DEF InvitesComplete
<1>2. ASSUME NEW m \in Creates, AddMeetingInvite(m)
      PROVE  Open' /\ InvitesComplete'
  <2>1. UNCHANGED <<meetings, invites>>
    BY <1>2 DEF AddMeetingInvite, tables
  <2>2. m \notin meetings
    BY <1>2 DEF AddMeetingInvite, Open
  <2>3. Open'
    BY <1>2, <2>1, <2>2 DEF AddMeetingInvite, AllInvited, Open
  <2> QED BY <2>1, <2>3 DEF InvitesComplete
<1>3. ASSUME NEW m \in Creates, CommitMeeting(m)
      PROVE  Open' /\ InvitesComplete'
  <2>1. pending[m] = InvitedBy[m]
    BY <1>3 DEF CommitMeeting, Open
  <2>2. /\ meetings' = meetings \cup {m}
        /\ invites' = invites \cup ({m} \X pending[m])
        /\ UNCHANGED pending
    BY <1>3 DEF CommitMeeting
  <2>3. Open'
    BY <1>3, <2>1, <2>2 DEF CommitMeeting, Open
  <2>4. InvitesComplete'
    BY <2>1, <2>2 DEF InvitesComplete
  <2> QED BY <2>3, <2>4
<1>4. ASSUME NEW m \in Creates, RollbackMeeting(m)
      PROVE  Open' /\ InvitesComplete'
  <2>1. m \notin meetings
    BY <1>4 DEF RollbackMeeting, Open
  <2>2. UNCHANGED <<meetings, invites>>
    BY <1>4 DEF RollbackMeeting, tables
  <2>3. Open'
    BY <1>4, <2>1, <2>2 DEF RollbackMeeting, Open
  <2> QED BY <2>2, <2>3 DEF InvitesComplete
<1>5. CASE UNCHANGED <<meetings, invites, createVars>>
  BY <1>5 DEF Open, InvitesComplete, createVars
<1> QED
  BY <1>1, <1>2, <1>3, <1>4, <1>5, NotCreating DEF CreateMeeting

\* An update sets the end_time of a meeting that had none, for one call.
LEMMA EndStep ==
  ASSUME TypeOK, Ending, EndedOnce, [Next]_vars
  PROVE  Ending' /\ EndedOnce'
<1> USE DEF TypeOK
<1>1. ASSUME NEW e \in Ends, EndUpdate(e) PROVE Ending' /\ EndedOnce'
  <2>1. UNCHANGED closed
    BY <1>1 DEF EndUpdate
  <2>2. CASE UNCHANGED <<ended, target>> /\ epc' = [epc EXCEPT ![e] = "failed"]
    BY <2>1, <2>2 DEF Ending, EndedOnce
  <2>3. ASSUME NEW m \in Endable(e),
               ended' = ended \cup {m},
               target' = [target EXCEPT ![e] = m],
               \E to \in {"delete", "failed"} : epc' = [epc EXCEPT ![e] = to]
        PROVE  Ending' /\ EndedOnce'
    <3>1. m \in Creates /\ m \notin ended /\ m # None
      BY NoneAssumption DEF Endable
    <3>2. Ending'
      BY <2>3, <3>1 DEF Ending
    <3>3. \A d \in Ends : target[d] # m
      BY <3>1 DEF Ending
    <3>4. EndedOnce'
      BY <2>1, <2>3, <3>3 DEF EndedOnce
    <3> QED BY <3>2, <3>4
  <2> QED BY <1>1, <2>2, <2>3 DEF EndUpdate
<1>2. ASSUME NEW e \in Ends, DeleteRoom(e) PROVE Ending' /\ EndedOnce'
  <2>1. target[e] \in ended
    BY <1>2 DEF DeleteRoom, Ending
  <2>2. UNCHANGED <<ended, target>>
    BY <1>2 DEF DeleteRoom, tables
  <2>3. Ending'
    BY <1>2, <2>2 DEF DeleteRoom, Ending
  <2>4. EndedOnce'
    BY <1>2, <2>1, <2>2 DEF DeleteRoom, EndedOnce
  <2> QED BY <2>3, <2>4
<1>3. CASE UNCHANGED <<ended, endVars>>
  BY <1>3 DEF Ending, EndedOnce, endVars
<1> QED
  BY <1>1, <1>2, <1>3
     DEF Next, CreateMeeting, InsertMeeting, AddMeetingInvite, CommitMeeting,
         RollbackMeeting, Start, JoinMeeting, FindMeeting, CheckJoinPermission,
         CheckStart, ActivateMeeting, GenerateToken, EndMeeting, vars, tables

\* What is there stays: meetings, started meetings, and the way a join has
\* come, once it has read its row.
LEMMA Grows ==
  ASSUME TypeOK, [Next]_vars
  PROVE  /\ meetings \subseteq meetings' /\ started \subseteq started'
         /\ ended \subseteq ended'
         /\ \A j \in Joins : \/ seen'[j] = seen[j]
                            \/ FindMeeting(j)
BY DEF Next, CreateMeeting, InsertMeeting, AddMeetingInvite, CommitMeeting,
       RollbackMeeting, Start, JoinMeeting, FindMeeting, CheckJoinPermission,
       CheckStart, ActivateMeeting, GenerateToken, EndMeeting, EndUpdate,
       DeleteRoom, vars, tables, joinVars, TypeOK

\* A host who came has come.
LEMMA HostStays ==
  ASSUME TypeOK, [Next]_vars, NEW m, HostCame(m)
  PROVE  HostCame(m)'
<1>1. PICK i \in Joins : /\ UserOf[i] = Host(m)
                        /\ seen[i].meeting = m
                        /\ jpc[i] \in {"token", "done", "failed"}
  BY DEF HostCame
<1>2. seen'[i] = seen[i]
  BY <1>1, Grows DEF FindMeeting
<1>3. jpc'[i] \in {"token", "done", "failed"}
  BY <1>1
     DEF Next, CreateMeeting, InsertMeeting, AddMeetingInvite, CommitMeeting,
         RollbackMeeting, Start, JoinMeeting, FindMeeting, CheckJoinPermission,
         CheckStart, ActivateMeeting, GenerateToken, Goto, EndMeeting,
         EndUpdate, DeleteRoom, vars, joinVars, TypeOK
<1> QED BY <1>1, <1>2, <1>3 DEF HostCame, Host

\* A join goes through the checks in order, on the row it has read.
LEMMA JoiningStep ==
  ASSUME TypeOK, Joining, [Next]_vars
  PROVE  Joining'
<1> USE DEF TypeOK
<1>0. meetings \subseteq meetings' /\ started \subseteq started'
  BY Grows
<1>1. CASE UNCHANGED <<jpc, seen>>
  BY <1>0, <1>1 DEF Joining, Host
<1>2. ASSUME NEW j \in Joins, FindMeeting(j) PROVE Joining'
  <2>1. CASE UNCHANGED seen /\ Goto(j, "failed")
    BY <1>0, <2>1 DEF Joining, Goto, Host
  <2>2. ASSUME NEW m \in Joinable,
               seen' = [seen EXCEPT ![j] = [meeting |-> m, active |-> m \in active]],
               Goto(j, "check") \/ Goto(j, "permission")
        PROVE  Joining'
    <3>1. m \in meetings'
      BY <1>0 DEF Joinable
    <3>2. seen'[j].meeting = m /\ jpc'[j] \in {"check", "permission"}
      BY <2>2 DEF Goto
    <3>3. \A i \in Joins \ {j} : seen'[i] = seen[i] /\ jpc'[i] = jpc[i]
      BY <2>2 DEF Goto
    <3> QED BY <1>0, <3>1, <3>2, <3>3 DEF Joining, Host
  <2> QED BY <1>2, <2>1, <2>2 DEF FindMeeting
<1>3. ASSUME NEW j \in Joins, CheckJoinPermission(j) PROVE Joining'
  BY <1>0, <1>3 DEF CheckJoinPermission, Goto, Joining, Host
<1>4. ASSUME NEW j \in Joins, CheckStart(j) PROVE Joining'
  <2>1. /\ UNCHANGED seen
        /\ \A i \in Joins \ {j} : jpc'[i] = jpc[i]
        /\ jpc[j] = "check"
        /\ jpc'[j] = IF UserOf[j] = Host(seen[j].meeting)
                     THEN IF seen[j].active THEN "token" ELSE "activate"
                     ELSE IF TooEarly(j) THEN "failed" ELSE "token"
    BY <1>4 DEF CheckStart, Goto
  <2> QED BY <1>0, <2>1 DEF Joining, TooEarly, Host
<1>5. ASSUME NEW j \in Joins, ActivateMeeting(j) PROVE Joining'
  BY <1>0, <1>5 DEF ActivateMeeting, Goto, Joining, Host
<1>6. ASSUME NEW j \in Joins, GenerateToken(j) PROVE Joining'
  BY <1>0, <1>6 DEF GenerateToken, Goto, Joining, Host
<1> QED
  BY <1>1, <1>2, <1>3, <1>4, <1>5, <1>6
     DEF Next, CreateMeeting, InsertMeeting, AddMeetingInvite, CommitMeeting,
         RollbackMeeting, Start, JoinMeeting, EndMeeting, EndUpdate, DeleteRoom,
         vars, joinVars

\* Only the join of a host makes a meeting active.
LEMMA ActiveStep ==
  ASSUME TypeOK, Joining, ActiveByHost, [Next]_vars
  PROVE  ActiveByHost'
<1>1. ASSUME NEW m \in active' PROVE HostCame(m)'
  <2>1. CASE m \in active
    BY <2>1, HostStays DEF ActiveByHost
  <2>2. CASE m \notin active
    <3>1. PICK j \in Joins : ActivateMeeting(j) /\ m = seen[j].meeting
      BY <1>1, <2>2
         DEF Next, CreateMeeting, InsertMeeting, AddMeetingInvite, CommitMeeting,
             RollbackMeeting, Start, JoinMeeting, FindMeeting,
             CheckJoinPermission, CheckStart, ActivateMeeting, GenerateToken,
             EndMeeting, EndUpdate, DeleteRoom, vars, tables
    <3>2. /\ UserOf[j] = Host(m) /\ seen'[j].meeting = m
          /\ jpc'[j] = "token"
      BY <3>1 DEF ActivateMeeting, Goto, Joining, TypeOK
    <3> QED BY <3>2 DEF HostCame, Host
  <2> QED BY <2>1, <2>2
<1>2. ASSUME NEW j \in Joins, seen'[j].active PROVE HostCame(seen[j].meeting)'
  <2>1. CASE seen'[j] = seen[j]
    BY <1>2, <2>1, HostStays DEF ActiveByHost
  <2>2. CASE FindMeeting(j) /\ seen'[j] # seen[j]
    <3>1. PICK m \in Joinable :
            seen' = [seen EXCEPT ![j] = [meeting |-> m, active |-> m \in active]]
      BY <2>2 DEF FindMeeting
    <3>2. seen'[j].meeting = m /\ m \in active
      BY <1>2, <3>1 DEF TypeOK
    <3>3. HostCame(m)'
      BY <3>2, HostStays DEF ActiveByHost
    <3> QED BY <3>2, <3>3 DEF HostCame, Host
  <2> QED BY <2>1, <2>2, Grows
<1> QED BY <1>1, <1>2 DEF ActiveByHost

-----------------------------------------------------------------------------
(* The theorems *)

\* The invariant the others follow from.
THEOREM Inductive == Spec => []IInv
<1>1. IInv /\ [Next]_vars => IInv'
  BY TypeStep, CreateStep, EndStep, JoiningStep, ActiveStep DEF IInv
<1> QED BY InitInv, <1>1, PTL DEF Spec

\* Every variable stays in its set: above all invites and end times belong to
\* committed meetings, and only such meetings are made active.
THEOREM TypeCorrect == Spec => []TypeOK
<1>1. IInv => TypeOK
  BY DEF IInv
<1> QED BY Inductive, <1>1, PTL

\* A meeting that can be joined has all its invites (meeting.service.go:67-79).
THEOREM InvitesCompleteAlways == Spec => []InvitesComplete
<1>1. IInv => InvitesComplete
  BY DEF IInv
<1> QED BY Inductive, <1>1, PTL

\* One end call succeeds for a meeting, and its room is deleted only then
\* (meeting.sql.go:101-103).
THEOREM EndedOnceAlways == Spec => []EndedOnce
<1>1. IInv => EndedOnce
  BY DEF IInv
<1> QED BY Inductive, <1>1, PTL

\* A user is shown the meetings the user may join by room_name, and no others
\* (meeting.sql.go:29-46, 266-273).
THEOREM ListedIsJoinableAlways == Spec => []ListedIsJoinable
<1>1. ASSUME TypeOK PROVE ListedIsJoinable
  <2> SUFFICES ASSUME NEW u \in Users
               PROVE  ListMyMeetings(u) = {m \in meetings : HasPermission(m, u)}
    BY DEF ListedIsJoinable
  <2>1. u # None
    BY NoneAssumption
  <2>2. ASSUME NEW m \in ListMyMeetings(u)
        PROVE  m \in meetings /\ HasPermission(m, u)
    <3>1. PICK row \in MeetingRows : /\ Host(row[1]) = u \/ row[2] = u
                                    /\ row[1] \notin ended
                                    /\ m = row[1]
      BY DEF ListMyMeetings
    <3>2. row \in invites \/ (\E n \in meetings : row = <<n, None>>)
      BY DEF MeetingRows
    <3>3. m \in meetings /\ (row[2] = u => <<m, u>> \in invites)
      BY <1>1, <2>1, <3>1, <3>2 DEF TypeOK
    <3> QED BY <3>1, <3>3 DEF HasPermission
  <2>3. ASSUME NEW m \in meetings, HasPermission(m, u)
        PROVE  m \in ListMyMeetings(u)
    <3>1. CASE <<m, u>> \in invites
      BY <2>3, <3>1 DEF HasPermission, ListMyMeetings, MeetingRows
    <3>2. CASE u = Host(m)
      <4>1. PICK v \in Users \cup {None} : <<m, v>> \in MeetingRows
        BY DEF MeetingRows
      <4> QED BY <2>3, <3>2, <4>1 DEF HasPermission, ListMyMeetings
    <3> QED BY <2>3, <3>1, <3>2 DEF HasPermission
  <2> QED BY <2>2, <2>3
<1>2. IInv => ListedIsJoinable
  BY <1>1 DEF IInv
<1> QED BY Inductive, <1>2, PTL

\* The end of a meeting is final once no join of its host straddles it
\* (meeting.service.go:89-129).
THEOREM EndIsFinalAlways == Spec => EndIsFinal
<1>1. ASSUME IInv, [Next]_vars, NEW m \in Creates, Settled(m)
      PROVE  Settled(m)'
  <2> USE DEF IInv
  <2>1. m \in ended /\ m \notin active /\ Straddling(m) = {}
    BY <1>1 DEF Settled
  <2>2. m \in ended'
    BY <1>1, <2>1, Grows
  <2>3. m \notin active'
    <3> SUFFICES ASSUME m \in active' PROVE FALSE
      OBVIOUS
    <3>1. PICK j \in Joins : ActivateMeeting(j) /\ m = seen[j].meeting
      BY <1>1, <2>1
         DEF Next, CreateMeeting, InsertMeeting, AddMeetingInvite, CommitMeeting,
             RollbackMeeting, Start, JoinMeeting, FindMeeting,
             CheckJoinPermission, CheckStart, ActivateMeeting, GenerateToken,
             EndMeeting, EndUpdate, DeleteRoom, vars, tables
    <3>2. UserOf[j] = Host(m) /\ ~seen[j].active /\ jpc[j] = "activate"
      BY <1>1, <3>1 DEF ActivateMeeting, Joining
    <3>3. seen[j] \in [meeting: Creates \cup {None}, active: BOOLEAN]
      BY <1>1 DEF TypeOK
    <3>4. seen[j] = [meeting |-> m, active |-> FALSE]
      BY <3>1, <3>2, <3>3
    <3> QED BY <2>1, <3>2, <3>4 DEF Straddling
  <2>4. ASSUME NEW j \in Straddling(m)' PROVE FALSE
    <3>1. /\ j \in Joins /\ UserOf[j] = Host(m)
          /\ seen'[j] = [meeting |-> m, active |-> FALSE]
          /\ jpc'[j] \in {"permission", "check", "activate"}
      BY <2>4 DEF Straddling, Host
    <3>2. ~ FindMeeting(j)
      <4> SUFFICES ASSUME FindMeeting(j) PROVE FALSE
        OBVIOUS
      <4>1. jpc'[j] # "failed"
        BY <3>1
      <4>2. PICK n \in Joinable :
              seen' = [seen EXCEPT ![j] = [meeting |-> n, active |-> n \in active]]
        BY <1>1, <3>1, <4>1 DEF FindMeeting, Goto, TypeOK
      <4>3. n = m
        BY <1>1, <3>1, <4>2 DEF TypeOK
      <4> QED BY <2>1, <4>3 DEF Joinable
    <3>3. seen[j] = [meeting |-> m, active |-> FALSE]
      BY <1>1, <3>1, <3>2, Grows
    <3>4. jpc[j] \in {"permission", "check", "activate"}
      BY <1>1, <3>1, <3>2
         DEF Next, CreateMeeting, InsertMeeting, AddMeetingInvite, CommitMeeting,
             RollbackMeeting, Start, JoinMeeting, FindMeeting,
             CheckJoinPermission, CheckStart, ActivateMeeting, GenerateToken,
             Goto, EndMeeting, EndUpdate, DeleteRoom, vars, joinVars, TypeOK
    <3> QED BY <2>1, <3>1, <3>3, <3>4 DEF Straddling
  <2> QED BY <2>2, <2>3, <2>4 DEF Settled
<1>2. IInv /\ [Next]_vars => [\A m \in Creates : Settled(m) => Settled(m)']_vars
  BY <1>1
<1> QED BY Inductive, <1>2, PTL DEF Spec, EndIsFinal

\* Before the start time nobody gets a token but the host, and those who come
\* after the host (meeting.service.go:112-129).
THEOREM HostFirstAlways == Spec => HostFirst
<1>1. ASSUME IInv, [Next]_vars, NEW j \in Joins, token'[j] # token[j]
      PROVE  \/ token'[j] \in started
             \/ UserOf[j] = Host(token'[j])
             \/ \E i \in Joins : /\ UserOf[i] = Host(token'[j])
                                 /\ seen[i].meeting = token'[j]
                                 /\ jpc[i] \in {"token", "done", "failed"}
  <2>1. GenerateToken(j)
    BY <1>1
       DEF Next, CreateMeeting, InsertMeeting, AddMeetingInvite, CommitMeeting,
           RollbackMeeting, Start, JoinMeeting, FindMeeting,
           CheckJoinPermission, CheckStart, ActivateMeeting, GenerateToken,
           EndMeeting, EndUpdate, DeleteRoom, vars, joinVars, IInv, TypeOK
  <2>2. jpc[j] = "token" /\ token'[j] = seen[j].meeting
    BY <1>1, <2>1 DEF GenerateToken, IInv, TypeOK
  <2>3. \/ seen[j].meeting \in started
        \/ UserOf[j] = Host(seen[j].meeting)
        \/ seen[j].active
    BY <1>1, <2>2 DEF IInv, Joining
  <2>4. seen[j].active => HostCame(seen[j].meeting)
    BY <1>1 DEF IInv, ActiveByHost
  <2> QED BY <2>2, <2>3, <2>4 DEF HostCame
<1>2. IInv /\ [Next]_vars
        => [\A j \in Joins :
              token'[j] # token[j]
                => \/ token'[j] \in started
                   \/ UserOf[j] = Host(token'[j])
                   \/ \E i \in Joins : /\ UserOf[i] = Host(token'[j])
                                       /\ seen[i].meeting = token'[j]
                                       /\ jpc[i] \in {"token", "done", "failed"}]_vars
  BY <1>1
<1> QED BY Inductive, <1>2, PTL DEF Spec, HostFirst
=============================================================================
