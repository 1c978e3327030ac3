------------------------------ MODULE HubProofs ------------------------------
(***************************************************************************)
(* Proofs about the hub, for any number of connections, users and          *)
(* conversations, any queue capacity and any number of frames.             *)
(*                                                                         *)
(* The inductive invariant IInv adds to TypeOK that a connection waiting   *)
(* on broadcast holds a frame, that there is a current frame while it is   *)
(* delivered, and where a connection is when it is in the table and when   *)
(* its Send is closed.  DeliveryInv adds who has been served the current   *)
(* frame while the delivery loop runs: the refinement rests on it, and so  *)
(* does AllOrNobody.                                                       *)
(***************************************************************************)
EXTENDS Hub, SequenceTheorems, TLAPS

\* The loop has a current frame whenever it is not in the select.
HasFrame == hub # "select" => Position > 0

\* A connection in the table belongs to the user it is found under; it has
\* registered and has not unregistered.
Registered ==
  \A u \in Users : clients[u] # None =>
    /\ UserOf[clients[u]] = u
    /\ pc[clients[u]] \in {"registered", "reading", "sending", "leaving"}

\* Only the unregistering of a connection closes its Send.
ClosedLeft == \A c \in Clients : closed[c] => pc[c] \in {"closing", "done"}

\* A connection that waits on the broadcast channel holds a frame.
Offers == \A c \in Clients : pc[c] = "sending" => frame[c] # None

IInv == TypeOK /\ HasFrame /\ Offers /\ Registered /\ ClosedLeft

\* Nothing but the frames taken so far is queued or pushed.
Past ==
  /\ \A c \in Clients : \A i \in DOMAIN queued[c] : queued[c][i] <= Position
  /\ \A p \in pushed : p[1] <= Position

\* Nobody has the current frame before the loop starts, and the participants
\* still to be visited do not have it.
Unserved ==
  /\ hub \in {"persist", "resolve"} =>
       \A u \in Users : ~Delivery!Reached(u, Position)
  /\ hub = "deliver" =>
       /\ todo \subseteq Participants[Current.conv]
       /\ \A u \in todo : ~Delivery!Reached(u, Position)

DeliveryInv == IInv /\ Past /\ Unserved

-----------------------------------------------------------------------------

\* The inductive invariant holds when the server starts.
LEMMA InitInv == Init => IInv
<1> SUFFICES ASSUME Init PROVE IInv
  OBVIOUS
<1>1. TypeOK
  BY DEF Init, TypeOK, Waiting
<1>2. HasFrame /\ Offers /\ Registered /\ ClosedLeft
  BY DEF Init, HasFrame, Offers, Registered, ClosedLeft
<1> QED
  BY <1>1, <1>2 DEF IInv

\* The newest frame is one that a peer can send.
LEMMA CurrentFrame ==
  ASSUME log \in Seq(Frames), Position > 0
  PROVE  /\ Position \in Nat
         /\ Current \in Frames
         /\ Current.conv \in Convs
         /\ Participants[Current.conv] \in SUBSET Users
<1>1. Position \in Nat /\ Position \in 1..Len(log)
  BY DEF Position
<1>2. Current \in Frames
  BY <1>1 DEF Current, Position
<1>3. Current.conv \in Convs
  BY <1>2, FramesAssumption DEF Frame
<1> QED
  BY <1>1, <1>2, <1>3, ParticipantsAssumption

\* Every step keeps the types of the variables.
LEMMA StepType == IInv /\ [Next]_vars => TypeOK'
<1> SUFFICES ASSUME IInv, [Next]_vars PROVE TypeOK'
  OBVIOUS
<1> USE UserOfAssumption, NoneAssumption, FramesAssumption DEF IInv, TypeOK, Waiting
<1>1. ASSUME NEW c \in Clients, ServeWS(c) PROVE TypeOK'
  BY <1>1 DEF ServeWS, Upgrade, StartPumps, hubVars, readerVars, writerVars,
         chanVars
<1>2. ASSUME NEW c \in Clients, ReadPump(c) PROVE TypeOK'
  <2>1. CASE ReadFrame(c)
    BY <2>1 DEF ReadFrame, hubVars, writerVars, chanVars
  <2>2. CASE ReadError(c)
    BY <2>2 DEF ReadError, hubVars, writerVars, chanVars
  <2>3. CASE CloseConn(c)
    BY <2>3 DEF CloseConn, hubVars, writerVars, chanVars
  <2> QED
    BY <1>2, <2>1, <2>2, <2>3 DEF ReadPump
<1>3. ASSUME NEW c \in Clients, WritePump(c) PROVE TypeOK'
  <2>1. CASE WriteFrame(c)
    BY <2>1 DEF WriteFrame, hubVars, readerVars, chanVars
  <2>2. CASE WriteError(c)
    BY <2>2 DEF WriteError, StopWriter, hubVars, readerVars, chanVars
  <2>3. CASE WriteClose(c)
    BY <2>3 DEF WriteClose, StopWriter, hubVars, readerVars, chanVars
  <2> QED
    BY <1>3, <2>1, <2>2, <2>3 DEF WritePump
<1>4. ASSUME NEW c \in Clients, Rendezvous(c) PROVE TypeOK'
  <2>1. CASE HubRegister(c)
    BY <2>1 DEF HubRegister, Enter, writerVars, chanVars
  <2>2. CASE HubUnregister(c)
    BY <2>2 DEF HubUnregister, CloseSend, writerVars
  <2>3. CASE HubReceive(c)
    <3>1. frame[c] # Malformed => Append(log, frame[c]) \in Seq(Frames)
      BY <2>3 DEF HubReceive, Rejected, Offers
    <3> QED
      BY <2>3, <3>1 DEF HubReceive, Rejected, writerVars, chanVars
  <2> QED
    BY <1>4, <2>1, <2>2, <2>3 DEF Rendezvous
<1>5. ASSUME HubWork PROVE TypeOK'
  <2>1. CASE HubPersist
    <3>1. Position \in Nat
      BY DEF Position
    <3> QED
      BY <2>1, <3>1 DEF HubPersist, readerVars, writerVars, chanVars
  <2>2. CASE HubResolve
    <3>1. todo' \in SUBSET Users
      BY <2>2, CurrentFrame DEF HubResolve, HasFrame
    <3> QED
      BY <2>2, <3>1 DEF HubResolve, readerVars, writerVars, chanVars
  <2>3. ASSUME NEW u \in Users, Deliver(u) PROVE TypeOK'
    <3>1. Position \in Nat
      BY DEF Position
    <3>2. CASE DeliverOnline(u)
      <4>1. clients[u] \in Clients /\ Append(queued[clients[u]], Position) \in Seq(Nat)
        BY <3>1, <3>2 DEF DeliverOnline, Visited
      <4> QED
        BY <3>2, <4>1 DEF DeliverOnline, Visited, readerVars, writerVars
    <3>3. CASE DeliverOffline(u)
      BY <3>1, <3>3 DEF DeliverOffline, Visited, Notifying, readerVars,
             writerVars, chanVars
    <3>4. CASE DeliverFull(u)
      BY <3>4 DEF DeliverFull, readerVars, writerVars, chanVars
    <3> QED
      BY <2>3, <3>2, <3>3, <3>4 DEF Deliver
  <2>4. CASE DeliverDone
    BY <2>4 DEF DeliverDone, readerVars, writerVars, chanVars
  <2> QED
    BY <1>5, <2>1, <2>2, <2>3, <2>4 DEF HubWork
<1>6. CASE UNCHANGED vars
  BY <1>6 DEF vars, hubVars, readerVars, writerVars, chanVars
<1> QED
  BY <1>1, <1>2, <1>3, <1>4, <1>5, <1>6 DEF Next

\* Every step keeps a current frame under delivery (hub.go:80-146) and a frame
\* in the hands of each reader that waits on broadcast (client.go:52).
LEMMA StepFrame == IInv /\ [Next]_vars => HasFrame' /\ Offers'
<1> SUFFICES ASSUME IInv, [Next]_vars PROVE HasFrame' /\ Offers'
  OBVIOUS
<1> USE NoneAssumption, FramesAssumption DEF IInv, TypeOK, HasFrame, Offers, Position
<1>1. ASSUME NEW c \in Clients, ServeWS(c) PROVE HasFrame' /\ Offers'
  BY <1>1 DEF ServeWS, Upgrade, StartPumps, hubVars
<1>2. ASSUME NEW c \in Clients, ReadPump(c) PROVE HasFrame' /\ Offers'
  <2>1. CASE ReadFrame(c)
    <3>1. PICK f \in Frames \cup {Malformed} : frame' = [frame EXCEPT ![c] = f]
      BY <2>1 DEF ReadFrame
    <3>2. f # None
      BY <3>1
    <3> QED
      BY <2>1, <3>1, <3>2 DEF ReadFrame, hubVars
  <2>2. CASE ReadError(c)
    BY <2>2 DEF ReadError, hubVars
  <2>3. CASE CloseConn(c)
    BY <2>3 DEF CloseConn, hubVars
  <2> QED
    BY <1>2, <2>1, <2>2, <2>3 DEF ReadPump
<1>3. ASSUME NEW c \in Clients, WritePump(c) PROVE HasFrame' /\ Offers'
  BY <1>3 DEF WritePump, WriteFrame, WriteError, StopWriter, WriteClose,
         hubVars, readerVars
<1>4. ASSUME NEW c \in Clients, Rendezvous(c) PROVE HasFrame' /\ Offers'
  <2>1. CASE HubRegister(c)
    BY <2>1 DEF HubRegister, Enter
  <2>2. CASE HubUnregister(c)
    BY <2>2 DEF HubUnregister, CloseSend
  <2>3. CASE HubReceive(c)
    <3>1. frame[c] # Malformed => Len(Append(log, frame[c])) > 0
      BY <2>3 DEF HubReceive, Rejected
    <3> QED
      BY <2>3, <3>1 DEF HubReceive, Rejected
  <2> QED
    BY <1>4, <2>1, <2>2, <2>3 DEF Rendezvous
<1>5. ASSUME HubWork PROVE HasFrame' /\ Offers'
  <2>1. ASSUME NEW u \in Users, Deliver(u) PROVE HasFrame' /\ Offers'
    BY <2>1 DEF Deliver, DeliverOnline, Visited, DeliverOffline, Notifying,
           DeliverFull, readerVars
  <2> QED
    BY <1>5, <2>1 DEF HubWork, HubPersist, HubResolve, DeliverDone, readerVars
<1>6. CASE UNCHANGED vars
  BY <1>6 DEF vars, hubVars, readerVars
<1> QED
  BY <1>1, <1>2, <1>3, <1>4, <1>5, <1>6 DEF Next

\* Every step keeps the table to registered connections of the right user, and
\* Send open until its connection has unregistered (hub.go:59-72).
LEMMA StepTable == IInv /\ [Next]_vars => Registered' /\ ClosedLeft'
<1> SUFFICES ASSUME IInv, [Next]_vars PROVE Registered' /\ ClosedLeft'
  OBVIOUS
<1> USE UserOfAssumption, NoneAssumption DEF IInv, TypeOK, Registered, ClosedLeft
<1>1. ASSUME NEW c \in Clients, ServeWS(c) PROVE Registered' /\ ClosedLeft'
  <2>1. CASE Upgrade(c)
    <3>1. pc' = [pc EXCEPT ![c] = "registering"] /\ pc[c] = "new"
      BY <2>1 DEF Upgrade
    <3> QED
      BY <2>1, <3>1 DEF Upgrade, hubVars, chanVars
  <2>2. CASE StartPumps(c)
    BY <2>2 DEF StartPumps, hubVars, chanVars
  <2> QED
    BY <1>1, <2>1, <2>2 DEF ServeWS
<1>2. ASSUME NEW c \in Clients, ReadPump(c) PROVE Registered' /\ ClosedLeft'
  <2>1. CASE ReadFrame(c)
    BY <2>1 DEF ReadFrame, hubVars, chanVars
  <2>2. CASE ReadError(c)
    BY <2>2 DEF ReadError, hubVars, chanVars
  <2>3. CASE CloseConn(c)
    BY <2>3 DEF CloseConn, hubVars, chanVars
  <2> QED
    BY <1>2, <2>1, <2>2, <2>3 DEF ReadPump
<1>3. ASSUME NEW c \in Clients, WritePump(c) PROVE Registered' /\ ClosedLeft'
  BY <1>3 DEF WritePump, WriteFrame, WriteError, StopWriter, WriteClose,
         hubVars, readerVars, chanVars
<1>4. ASSUME NEW c \in Clients, Rendezvous(c) PROVE Registered' /\ ClosedLeft'
  <2>1. CASE HubRegister(c)
    BY <2>1 DEF HubRegister, Enter, chanVars
  <2>2. CASE HubUnregister(c)
    <3>1. clients'[UserOf[c]] = None
          /\ \A u \in Users : u # UserOf[c] => clients'[u] = clients[u]
      BY <2>2 DEF HubUnregister, CloseSend
    <3>2. pc' = [pc EXCEPT ![c] = "closing"]
          /\ \A d \in Clients : d # c => closed'[d] = closed[d]
      BY <2>2 DEF HubUnregister, CloseSend
    <3>3. ASSUME NEW u \in Users, clients'[u] # None
          PROVE  /\ UserOf[clients'[u]] = u
                 /\ pc'[clients'[u]] \in {"registered", "reading", "sending", "leaving"}
      <4>1. u # UserOf[c] /\ clients'[u] = clients[u] /\ clients[u] \in Clients
        BY <3>1, <3>3
      <4>2. clients[u] # c
        BY <3>3, <4>1
      <4> QED
        BY <3>2, <3>3, <4>1, <4>2
    <3>4. ClosedLeft'
      BY <3>2
    <3> QED
      BY <3>3, <3>4
  <2>3. CASE HubReceive(c)
    BY <2>3 DEF HubReceive, Rejected, chanVars
  <2> QED
    BY <1>4, <2>1, <2>2, <2>3 DEF Rendezvous
<1>5. ASSUME HubWork PROVE Registered' /\ ClosedLeft'
  <2>1. ASSUME NEW u \in Users, Deliver(u) PROVE Registered' /\ ClosedLeft'
    BY <2>1 DEF Deliver, DeliverOnline, Visited, DeliverOffline, Notifying,
           DeliverFull, readerVars, chanVars
  <2> QED
    BY <1>5, <2>1 DEF HubWork, HubPersist, HubResolve, DeliverDone, readerVars,
           chanVars
<1>6. CASE UNCHANGED vars
  BY <1>6 DEF vars, hubVars, readerVars, chanVars
<1> QED
  BY <1>1, <1>2, <1>3, <1>4, <1>5, <1>6 DEF Next

\* The invariant holds in every reachable state.
LEMMA Invariance == Spec => []IInv
<1>1. IInv /\ [Next]_vars => IInv'
  BY StepType, StepFrame, StepTable DEF IInv
<1> QED
  BY InitInv, <1>1, PTL DEF Spec

-----------------------------------------------------------------------------

\* Every variable of the hub and of its connections keeps its type, whatever
\* the interleaving of the goroutines.
THEOREM TypeCorrect == Spec => []TypeOK
<1>1. IInv => TypeOK
  BY DEF IInv
<1> QED
  BY Invariance, <1>1, PTL

\* The hub goroutine neither sends on a closed Send channel nor closes one
\* twice (hub.go:69 and 132), although it looks the connection up by user and
\* closes the Send of another one.
THEOREM NoPanic == Spec => []NoChannelPanic
<1>1. IInv => NoChannelPanic
  <2> SUFFICES ASSUME IInv PROVE NoChannelPanic
    OBVIOUS
  <2>1. ASSUME NEW u \in Users, clients[u] # None PROVE ~closed[clients[u]]
    <3>1. clients[u] \in Clients
      BY <2>1 DEF IInv, TypeOK
    <3>2. pc[clients[u]] \notin {"closing", "done"}
      BY <2>1 DEF IInv, Registered
    <3> QED
      BY <3>1, <3>2 DEF IInv, ClosedLeft
  <2>2. ASSUME NEW c \in Clients, pc[c] = "leaving" PROVE ~closed[c]
    BY <2>2 DEF IInv, ClosedLeft
  <2> QED
    BY <2>1, <2>2 DEF NoChannelPanic
<1> QED
  BY Invariance, <1>1, PTL

\* A connection that was replaced in the table or has unregistered never comes
\* back into it (hub.go:61 and 68).
THEOREM Replaced == Spec => NeverReinstated
<1> DEFINE Stays ==
      \A c \in Clients :
        pc[c] \notin {"new", "registering"} /\ clients[UserOf[c]] # c
          => clients'[UserOf[c]] # c
<1>1. IInv /\ [Next]_vars => Stays
  <2> SUFFICES ASSUME IInv, [Next]_vars,
                      NEW d \in Clients,
                      pc[d] \notin {"new", "registering"},
                      clients[UserOf[d]] # d
               PROVE  clients'[UserOf[d]] # d
    OBVIOUS
  <2> USE UserOfAssumption, NoneAssumption DEF IInv, TypeOK
  <2>1. ASSUME NEW c \in Clients, Rendezvous(c) PROVE clients'[UserOf[d]] # d
    BY <2>1 DEF Rendezvous, HubRegister, Enter, HubUnregister, CloseSend,
           HubReceive
  <2>2. CASE UNCHANGED clients
    BY <2>2
  <2>3. ASSUME NEW c \in Clients, ServeWS(c) \/ ReadPump(c) \/ WritePump(c)
        PROVE  UNCHANGED clients
    BY <2>3 DEF ServeWS, Upgrade, StartPumps, ReadPump, ReadFrame, ReadError,
                CloseConn, WritePump, WriteFrame, WriteError, StopWriter, WriteClose, hubVars
  <2>4. HubWork => UNCHANGED clients
    BY DEF HubWork, HubPersist, HubResolve, Deliver, DeliverOnline, Visited,
           DeliverOffline, Visited, Notifying, DeliverFull, DeliverDone
  <2> QED
    BY <2>1, <2>2, <2>3, <2>4 DEF Next, vars, hubVars
<1> QED
  BY Invariance, <1>1, PTL DEF Spec, NeverReinstated

-----------------------------------------------------------------------------
(* The refinement of OrderedDelivery. *)

\* A step that leaves the frames, the queues, the pushes and the loop alone
\* preserves what the refinement needs, and is a stutter.
LEMMA QuietStep ==
  ASSUME Past, Unserved, UNCHANGED <<log, queued, pushed, hub, todo>>
  PROVE  Past' /\ Unserved' /\ UNCHANGED Delivery!vars
<1>1. Past'
  BY DEF Past, Position
<1>2. Unserved'
  BY DEF Unserved, Position, Current, Delivery!Reached, Delivery!Holds
<1> QED
  BY <1>1, <1>2 DEF Delivery!vars

\* When nothing queued or pushed lies beyond position n, nobody has been
\* reached by a later one.
LEMMA NobodyReached ==
  ASSUME TypeOK, Past, NEW n \in Nat, n > Position
  PROVE  \A u \in Users : ~Delivery!Reached(u, n)
<1> SUFFICES ASSUME NEW u \in Users, Delivery!Reached(u, n) PROVE FALSE
  OBVIOUS
<1>1. Position \in Nat
  BY DEF TypeOK, Position
<1>2. CASE \E c \in Clients : UserOf[c] = u /\ Delivery!Holds(c, n)
  <2>1. PICK c \in Clients : Delivery!Holds(c, n)
    BY <1>2
  <2>2. PICK i \in DOMAIN queued[c] : queued[c][i] = n
    BY <2>1 DEF Delivery!Holds
  <2>3. n <= Position
    BY <2>2 DEF Past
  <2> QED
    BY <1>1, <2>3
<1>3. CASE <<n, u>> \in pushed
  <2>1. <<n, u>>[1] <= Position
    BY <1>3 DEF Past
  <2> QED
    BY <1>1, <2>1
<1> QED
  BY <1>2, <1>3 DEF Delivery!Reached

\* Taking a valid frame from broadcast (hub.go:74-86) appends it to the global
\* order; nobody has it yet.
LEMMA ReceiveStep ==
  ASSUME DeliveryInv, NEW c \in Clients, HubReceive(c)
  PROVE  Past' /\ Unserved' /\ [Delivery!Next]_(Delivery!vars)
<1> USE DEF DeliveryInv, IInv, HubReceive, Rejected
<1>1. CASE frame[c] = Malformed
  BY <1>1, QuietStep DEF chanVars
<1>2. CASE frame[c] # Malformed
  <2>1. frame[c] \in Frames
    BY <1>2 DEF TypeOK, Offers
  <2>2. /\ log' = Append(log, frame[c])
        /\ hub' = "persist"
        /\ UNCHANGED <<queued, pushed>>
    BY <1>2 DEF chanVars
  <2>3. Position' = Position + 1 /\ Position \in Nat
    BY <2>1, <2>2 DEF Position, TypeOK
  <2>4. Past'
    <3>1. ASSUME NEW d \in Clients, NEW i \in DOMAIN queued[d]
          PROVE  queued[d][i] <= Position + 1
      <4>1. queued[d][i] \in Nat /\ queued[d][i] <= Position
        BY DEF TypeOK, Past
      <4> QED
        BY <2>3, <4>1
    <3>2. ASSUME NEW p \in pushed PROVE p[1] <= Position + 1
      <4>1. p[1] \in Nat /\ p[1] <= Position
        BY DEF TypeOK, Past
      <4> QED
        BY <2>3, <4>1
    <3> QED
      BY <2>2, <2>3, <3>1, <3>2 DEF Past
  <2>5. Unserved'
    <3>1. \A u \in Users : ~Delivery!Reached(u, Position + 1)
      BY <2>3, NobodyReached
    <3> QED
      BY <2>2, <2>3, <3>1 DEF Unserved, Delivery!Reached, Delivery!Holds
  <2>6. Delivery!Next
    <3>1. frame[c] \in Delivery!Frame
      BY <2>1, FramesAssumption DEF Frame, Delivery!Frame
    <3>2. Delivery!Broadcast(frame[c])
      BY <2>2 DEF Delivery!Broadcast
    <3> QED
      BY <3>1, <3>2 DEF Delivery!Next
  <2> QED
    BY <2>4, <2>5, <2>6
<1> QED
  BY <1>1, <1>2

\* Putting the frame into the Send of an online participant (hub.go:130-133)
\* hands it to somebody the frame had not reached.
LEMMA OnlineStep ==
  ASSUME DeliveryInv, NEW u \in Users, DeliverOnline(u)
  PROVE  Past' /\ Unserved' /\ Delivery!Next
<1> USE DEF DeliveryInv, IInv
<1> DEFINE d == clients[u]
<1>1. d \in Clients /\ UserOf[d] = u
  BY DEF DeliverOnline, Visited, TypeOK, Registered
<1>2. Position \in Nat /\ queued[d] \in Seq(Nat)
  BY <1>1 DEF Position, TypeOK
<1>3. /\ hub = "deliver" /\ hub' = "deliver"
      /\ u \in todo /\ todo' = todo \ {u}
      /\ queued' = [queued EXCEPT ![d] = Append(@, Position)]
      /\ UNCHANGED <<log, pushed>>
  BY DEF DeliverOnline, Visited
<1>4. Position' = Position /\ Current' = Current
  BY <1>3 DEF Position, Current
<1>5. ASSUME NEW c \in Clients, NEW i \in DOMAIN queued'[c]
      PROVE  \/ i \in DOMAIN queued[c] /\ queued'[c][i] = queued[c][i]
             \/ c = d /\ queued'[c][i] = Position
  <2>1. CASE c # d
    BY <1>3, <2>1 DEF TypeOK
  <2>2. CASE c = d
    <3>1. queued'[c] = Append(queued[d], Position)
      BY <1>1, <1>3, <2>2 DEF TypeOK
    <3> QED
      BY <1>2, <2>2, <3>1
  <2> QED
    BY <2>1, <2>2
<1>6. Past'
  <2>1. ASSUME NEW c \in Clients, NEW i \in DOMAIN queued'[c]
        PROVE  queued'[c][i] <= Position
    BY <1>2, <1>5 DEF Past
  <2> QED
    BY <1>3, <1>4, <2>1 DEF Past
<1>7. Unserved'
  <2>1. ASSUME NEW v \in todo, v # u PROVE ~Delivery!Reached(v, Position)'
    <3>1. ~Delivery!Reached(v, Position)
      BY <1>3 DEF Unserved
    <3>2. ASSUME NEW c \in Clients, UserOf[c] = v,
                 NEW i \in DOMAIN queued'[c], queued'[c][i] = Position
          PROVE  FALSE
      <4>1. i \in DOMAIN queued[c] /\ queued[c][i] = Position
        BY <1>1, <1>5, <2>1, <3>2
      <4> QED
        BY <3>1, <3>2, <4>1 DEF Delivery!Reached, Delivery!Holds
    <3> QED
      BY <1>3, <1>4, <3>1, <3>2 DEF Delivery!Reached, Delivery!Holds
  <2> QED
    BY <1>3, <1>4, <2>1 DEF Unserved
<1>8. Delivery!HandTo(d)
  <2>1. Delivery!MayReach(UserOf[d])
    BY <1>1, <1>3 DEF Delivery!MayReach, Delivery!Newest, Unserved, HasFrame,
           Position, Current
  <2> QED
    BY <1>3, <2>1 DEF Delivery!HandTo, Delivery!Newest, Position
<1> QED
  BY <1>1, <1>6, <1>7, <1>8 DEF Delivery!Next

\* Passing an offline participant (hub.go:140-144) notifies somebody the frame
\* had not reached, or nobody when it is the author.
LEMMA OfflineStep ==
  ASSUME DeliveryInv, NEW u \in Users, DeliverOffline(u)
  PROVE  Past' /\ Unserved' /\ [Delivery!Next]_(Delivery!vars)
<1> USE DEF DeliveryInv, IInv
<1>1. /\ hub = "deliver" /\ hub' = "deliver"
      /\ u \in todo /\ todo' = todo \ {u}
      /\ UNCHANGED <<log, queued>>
  BY DEF DeliverOffline, Visited, Notifying, chanVars
<1>2. Position' = Position /\ Current' = Current /\ Position \in Nat
  BY <1>1 DEF Position, Current, TypeOK
<1>3. pushed' = pushed \/ pushed' = pushed \cup {<<Position, u>>}
  BY DEF DeliverOffline, Visited, Notifying
<1>4. Past'
  <2>1. ASSUME NEW p \in pushed' PROVE p[1] <= Position
    BY <1>2, <1>3 DEF Past
  <2> QED
    BY <1>1, <1>2, <2>1 DEF Past
<1>5. Unserved'
  <2>1. ASSUME NEW v \in todo, v # u PROVE ~Delivery!Reached(v, Position)'
    <3>1. ~Delivery!Reached(v, Position)
      BY <1>1 DEF Unserved
    <3>2. <<Position, v>> # <<Position, u>>
      BY <2>1
    <3> QED
      BY <1>1, <1>2, <1>3, <3>1, <3>2 DEF Delivery!Reached, Delivery!Holds
  <2> QED
    BY <1>1, <1>2, <2>1 DEF Unserved
<1>6. CASE u = Current.from
  BY <1>1, <1>4, <1>5, <1>6 DEF DeliverOffline, Visited, Notifying,
         Delivery!vars
<1>7. CASE u # Current.from
  <2>1. Delivery!MayReach(u)
    BY <1>1 DEF Delivery!MayReach, Delivery!Newest, Unserved, HasFrame,
           Position, Current
  <2>2. Delivery!Notify(u)
    BY <1>1, <1>7, <2>1 DEF DeliverOffline, Visited, Notifying,
           Delivery!Notify, Delivery!Newest, Position, Current
  <2> QED
    BY <1>4, <1>5, <2>2 DEF Delivery!Next
<1> QED
  BY <1>6, <1>7

\* Every step of the hub and its connections is a step of ordered delivery or
\* a stutter, and keeps what that rests on.
LEMMA StepDelivery ==
  ASSUME DeliveryInv, [Next]_vars
  PROVE  Past' /\ Unserved' /\ [Delivery!Next]_(Delivery!vars)
<1> DEFINE Goal == Past' /\ Unserved' /\ [Delivery!Next]_(Delivery!vars)
<1> USE DEF DeliveryInv
<1>1. ASSUME NEW c \in Clients, ServeWS(c) \/ ReadPump(c) \/ WritePump(c)
      PROVE  Goal
  <2>1. UNCHANGED <<log, queued, pushed, hub, todo>>
    BY <1>1 DEF ServeWS, Upgrade, StartPumps, ReadPump, ReadFrame, ReadError,
                CloseConn, WritePump, WriteFrame, WriteError, StopWriter, WriteClose,
                hubVars, chanVars
  <2> QED
    BY <2>1, QuietStep
<1>2. ASSUME NEW c \in Clients, Rendezvous(c) PROVE Goal
  <2>1. HubRegister(c) \/ HubUnregister(c)
          => UNCHANGED <<log, queued, pushed, hub, todo>>
    BY DEF HubRegister, Enter, HubUnregister, CloseSend, chanVars
  <2> QED
    BY <1>2, <2>1, QuietStep, ReceiveStep DEF Rendezvous
<1>3. ASSUME HubWork PROVE Goal
  <2>1. CASE HubPersist
    <3>1. /\ hub = "persist" /\ hub' = "resolve"
          /\ UNCHANGED <<log, queued, pushed, todo>>
      BY <2>1 DEF HubPersist, chanVars
    <3>2. Past'
      BY <3>1 DEF Past, Position
    <3> QED
      BY <3>1, <3>2 DEF Unserved, Position, Delivery!Reached, Delivery!Holds,
             Delivery!vars
  <2>2. CASE HubResolve
    <3>1. /\ hub = "resolve" /\ hub' = "deliver"
          /\ UNCHANGED <<log, queued, pushed>>
          /\ todo' \subseteq Participants[Current.conv]
      BY <2>2 DEF HubResolve, chanVars
    <3>2. Past'
      BY <3>1 DEF Past, Position
    <3>3. \A u \in todo' : u \in Users
      BY <2>2, <3>1, CurrentFrame DEF IInv, HasFrame, TypeOK
    <3> QED
      BY <3>1, <3>2, <3>3
      DEF Unserved, Position, Current, Delivery!Reached, Delivery!Holds, Delivery!vars
  <2>3. ASSUME NEW u \in Users, DeliverFull(u) PROVE Goal
    <3>1. hub' = "blocked" /\ UNCHANGED <<log, queued, pushed>>
      BY <2>3 DEF DeliverFull, chanVars
    <3> QED
      BY <3>1 DEF Past, Unserved, Position, Delivery!vars
  <2>4. CASE DeliverDone
    <3>1. hub' = "select" /\ UNCHANGED <<log, queued, pushed>>
      BY <2>4 DEF DeliverDone, chanVars
    <3> QED
      BY <3>1 DEF Past, Unserved, Position, Delivery!vars
  <2> QED
    BY <1>3, <2>1, <2>2, <2>3, <2>4, OnlineStep, OfflineStep DEF HubWork,
           Deliver
<1>4. CASE UNCHANGED vars
  BY <1>4, QuietStep DEF vars, hubVars, chanVars
<1> QED
  BY <1>1, <1>2, <1>3, <1>4 DEF Next

\* The hub implements ordered delivery: every frame it takes gets one place in
\* a global order, a connection is handed frames in that order, and a
\* participant is served a frame at most once (hub.go:80-146).
THEOREM Implementation == Spec => ImplementsDelivery
<1>1. Init => DeliveryInv
  BY InitInv DEF DeliveryInv, Init, Past, Unserved
<1>2. DeliveryInv /\ [Next]_vars => DeliveryInv'
  BY StepType, StepFrame, StepTable, StepDelivery DEF DeliveryInv, IInv
<1>3. Init => Delivery!Init
  BY DEF Init, Delivery!Init
<1>4. DeliveryInv /\ [Next]_vars => [Delivery!Next]_(Delivery!vars)
  BY StepDelivery
<1> QED
  BY <1>1, <1>2, <1>3, <1>4, PTL DEF Spec, ImplementsDelivery, Delivery!Spec

-----------------------------------------------------------------------------
(* Nobody is left out. *)

\* Who has been served a frame stays served: queues and pushes only grow.
LEMMA ReachedStays ==
  ASSUME IInv, [Next]_vars, NEW u \in Users, NEW n \in Nat,
         Delivery!Reached(u, n)
  PROVE  Delivery!Reached(u, n)'
<1> USE DEF IInv
<1>1. CASE <<n, u>> \in pushed
  <2>1. pushed \subseteq pushed'
    BY DEF Next, ServeWS, Upgrade, StartPumps, ReadPump, ReadFrame, ReadError,
           CloseConn, WritePump, WriteFrame, WriteError, WriteClose, Rendezvous,
           HubRegister, HubUnregister, HubReceive, Rejected, HubWork, HubPersist,
           HubResolve, Deliver, DeliverOnline, DeliverOffline, Notifying,
           DeliverFull, DeliverDone, vars, hubVars
  <2> QED
    BY <1>1, <2>1 DEF Delivery!Reached
<1>2. CASE \E c \in Clients : UserOf[c] = u /\ Delivery!Holds(c, n)
  <2>1. PICK c \in Clients : UserOf[c] = u /\ Delivery!Holds(c, n)
    BY <1>2
  <2>2. PICK i \in DOMAIN queued[c] : queued[c][i] = n
    BY <2>1 DEF Delivery!Holds
  <2>3. ASSUME NEW v \in Users, DeliverOnline(v)
        PROVE  i \in DOMAIN queued'[c] /\ queued'[c][i] = n
    <3>1. queued[c] \in Seq(Nat) /\ Position \in Nat
      BY DEF TypeOK, Position
    <3>2. queued'[c] = queued[c] \/ queued'[c] = Append(queued[c], Position)
      BY <2>3 DEF DeliverOnline, TypeOK
    <3>3. /\ i \in DOMAIN Append(queued[c], Position)
          /\ Append(queued[c], Position)[i] = queued[c][i]
      BY <2>2, <3>1
    <3> QED
      BY <2>2, <3>2, <3>3
  <2>4. UNCHANGED queued \/ \E v \in Users : DeliverOnline(v)
    BY DEF Next, ServeWS, Upgrade, StartPumps, ReadPump, ReadFrame, ReadError,
           CloseConn, WritePump, WriteFrame, WriteError, WriteClose, Rendezvous,
           HubRegister, HubUnregister, HubReceive, Rejected, HubWork, HubPersist,
           HubResolve, Deliver, DeliverOffline, DeliverFull, DeliverDone, vars,
           chanVars
  <2>5. i \in DOMAIN queued'[c] /\ queued'[c][i] = n
    BY <2>2, <2>3, <2>4
  <2> QED
    BY <2>1, <2>5 DEF Delivery!Reached, Delivery!Holds
<1> QED
  BY <1>1, <1>2 DEF Delivery!Reached

\* A participant the loop has passed is the author or has the frame: it was
\* put into the Send of the connection found, or pushed.
LEMMA PassedServed ==
  ASSUME DeliveryInv, NEW u \in Users, DeliverOnline(u) \/ DeliverOffline(u)
  PROVE  u = Current.from \/ Delivery!Reached(u, Position)'
<1> USE DEF DeliveryInv, IInv
<1>1. CASE DeliverOnline(u)
  <2> DEFINE d == clients[u]
  <2>1. d \in Clients /\ UserOf[d] = u /\ queued[d] \in Seq(Nat)
    BY <1>1 DEF DeliverOnline, TypeOK, Registered
  <2>2. queued'[d] = Append(queued[d], Position) /\ Position \in Nat
        /\ Position' = Position
    BY <1>1, <2>1 DEF DeliverOnline, TypeOK, Position
  <2>3. LET i == Len(queued[d]) + 1
        IN  i \in DOMAIN queued'[d] /\ queued'[d][i] = Position
    BY <2>1, <2>2
  <2> QED
    BY <2>1, <2>2, <2>3 DEF Delivery!Reached, Delivery!Holds
<1>2. CASE DeliverOffline(u)
  BY <1>2 DEF DeliverOffline, Notifying, Delivery!Reached, Position
<1> QED
  BY <1>1, <1>2

\* Every step keeps the claim about those who still are to be served.
LEMMA StepAll == DeliveryInv /\ AllOrNobody /\ [Next]_vars => AllOrNobody'
<1> SUFFICES ASSUME DeliveryInv, AllOrNobody, [Next]_vars PROVE AllOrNobody'
  OBVIOUS
<1> USE DEF DeliveryInv
<1>1. Position \in Nat
  BY DEF IInv, TypeOK, Position
<1>2. CASE UNCHANGED <<log, queued, pushed, hub, todo>>
  BY <1>2 DEF AllOrNobody, Position, Current, Delivery!Reached, Delivery!Holds
<1>3. ASSUME NEW c \in Clients, HubReceive(c) PROVE AllOrNobody'
  BY <1>3 DEF HubReceive, Rejected, AllOrNobody
<1>4. CASE HubPersist
  BY <1>4 DEF HubPersist, AllOrNobody
<1>5. CASE HubResolve
  <2>1. /\ hub = "resolve"
        /\ UNCHANGED <<log, queued, pushed>>
        /\ todo' \in {Participants[Current.conv], {}}
    BY <1>5 DEF HubResolve, chanVars
  <2>2. \A u \in Users : ~Delivery!Reached(u, Position)'
    BY <2>1 DEF Unserved, Position, Delivery!Reached, Delivery!Holds
  <2> QED
    BY <2>1, <2>2 DEF AllOrNobody, Position, Current
<1>6. ASSUME NEW v \in Users, DeliverOnline(v) \/ DeliverOffline(v)
      PROVE  AllOrNobody'
  <2>1. /\ hub = "deliver" /\ v \in todo /\ todo' = todo \ {v}
        /\ Position' = Position /\ Current' = Current
    BY <1>6 DEF DeliverOnline, DeliverOffline, Visited, Position, Current
  <2>2. ASSUME NEW u \in Participants[Current.conv]
        PROVE  u \in todo' \/ u = Current.from \/ Delivery!Reached(u, Position)'
    <3>1. u \in Users
      BY CurrentFrame, <2>1 DEF IInv, TypeOK, HasFrame
    <3>2. u \in todo \/ u = Current.from \/ Delivery!Reached(u, Position)
      BY <2>1 DEF AllOrNobody
    <3>3. CASE u = v
      BY <1>6, <3>3, PassedServed
    <3>4. CASE u # v /\ Delivery!Reached(u, Position)
      BY <1>1, <2>1, <3>1, <3>4, ReachedStays
    <3> QED
      BY <2>1, <3>2, <3>3, <3>4
  <2> QED
    BY <2>1, <2>2 DEF AllOrNobody
<1>7. ASSUME NEW v \in Users, DeliverFull(v) PROVE AllOrNobody'
  <2>1. hub = "deliver" /\ UNCHANGED <<log, queued, pushed, todo>>
    BY <1>7 DEF DeliverFull, chanVars
  <2> QED
    BY <2>1 DEF AllOrNobody, Position, Current, Delivery!Reached, Delivery!Holds
<1>8. CASE DeliverDone
  BY <1>8 DEF DeliverDone, AllOrNobody
<1>9. ASSUME NEW c \in Clients,
             ServeWS(c) \/ ReadPump(c) \/ WritePump(c) \/ HubRegister(c) \/ HubUnregister(c)
      PROVE  UNCHANGED <<log, queued, pushed, hub, todo>>
  BY <1>9 DEF ServeWS, Upgrade, StartPumps, ReadPump, ReadFrame, ReadError,
              CloseConn, WritePump, WriteFrame, WriteError, WriteClose,
              HubRegister, HubUnregister, hubVars, chanVars
<1> QED
  BY <1>2, <1>3, <1>4, <1>5, <1>6, <1>7, <1>8, <1>9
     DEF Next, Rendezvous, HubWork, Deliver, vars, hubVars, chanVars

\* A frame is delivered to all participants or, when the lookup gives nobody,
\* to none; who connects, leaves or is replaced while the loop runs is served
\* by one branch or the other (hub.go:114-145).
THEOREM NobodyLeftOut == Spec => []AllOrNobody
<1>1. Init => DeliveryInv /\ AllOrNobody
  BY InitInv DEF DeliveryInv, Init, Past, Unserved, AllOrNobody
<1>2. DeliveryInv /\ AllOrNobody /\ [Next]_vars => (DeliveryInv /\ AllOrNobody)'
  BY StepType, StepFrame, StepTable, StepDelivery, StepAll DEF DeliveryInv, IInv
<1> QED
  BY <1>1, <1>2, PTL DEF Spec
=============================================================================
