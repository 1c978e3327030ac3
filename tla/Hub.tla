--------------------------------- MODULE Hub ---------------------------------
(***************************************************************************)
(* The WebSocket hub of internal/chat: the Hub.Run goroutine, and for each *)
(* connection the ServeWS handler that registers it and its ReadPump and   *)
(* WritePump goroutines.                                                   *)
(*                                                                         *)
(* register, unregister and broadcast are unbuffered Go channels: the      *)
(* sender waits in its program counter (pc[c]) until the hub, sitting in   *)
(* its select, takes the value, so each rendezvous is one action here.     *)
(* Client.Send is a channel of capacity Cap (256 in the code).  It is kept *)
(* as the sequence of everything ever put into it (queued[c]) with the     *)
(* number taken out so far (popped[c]); a queue entry is the position of   *)
(* the frame in log, the order in which the hub took frames.               *)
(*                                                                         *)
(* Abstractions.  A frame is the sender and the conversation it names, or  *)
(* Malformed when it is not valid JSON; the sender is what the frame says, *)
(* whatever connection it came in on.  The type of a frame only changes    *)
(* log lines and adds the signed URL to a file frame, so it is left out.   *)
(* The participants lookup (Redis, then PostgreSQL) yields the             *)
(* participants of the conversation or nothing, when both fail or the      *)
(* conversation has none.                                                  *)
(***************************************************************************)
EXTENDS Naturals, Sequences, FiniteSets

CONSTANTS
  Clients,       \* connections; a Client struct serves one connection
  Users,
  Convs,         \* conversation ids
  UserOf,        \* Client.UserID, taken from the token in ServeWS
  Participants,  \* the participants rows of each conversation
  Frames,        \* the frames peers send
  Cap,           \* capacity of Client.Send
  MaxFrames,     \* bound: valid frames read from all connections
  Malformed,     \* a frame json.Unmarshal rejects
  None           \* no client in the table, no frame in the reader

Frame == [from: Users, conv: Convs]

ASSUME NoneAssumption == None \notin Clients /\ None # Malformed
ASSUME FramesAssumption ==
  Frames \subseteq Frame /\ Malformed \notin Frames /\ None \notin Frames
ASSUME UserOfAssumption == UserOf \in [Clients -> Users]
ASSUME ParticipantsAssumption == Participants \in [Convs -> SUBSET Users]
ASSUME CapAssumption == Cap \in Nat \ {0}
ASSUME MaxFramesAssumption == MaxFrames \in Nat

VARIABLES
  clients,  \* Hub.clients: the connection registered for each user
  hub,      \* where the Hub.Run goroutine is
  todo,     \* participants the delivery loop has not visited yet
  log,      \* frames taken from broadcast, in order; the last is current
  produced, \* positions in log the Kafka writer accepted
  pushed,   \* <<n, u>>: log[n] was sent to the notification topic for u
  pc,       \* where ServeWS, then ReadPump, of each connection is
  frame,    \* the frame ReadPump is handing to the hub
  writer,   \* where WritePump of each connection is
  queued,   \* everything put into Client.Send
  popped,   \* how much of it WritePump took out
  written,  \* how much of it the peer was sent
  closed,   \* Client.Send was closed
  open      \* Client.Conn is open

hubVars    == <<clients, hub, todo, log, produced, pushed>>
readerVars == <<pc, frame>>
writerVars == <<writer, popped, written>>
chanVars   == <<queued, closed>>
vars == <<hubVars, readerVars, writerVars, chanVars, open>>

\* Where a connection waits for the hub to take its channel send.
Waiting == {"registering", "sending", "leaving"}

Position == Len(log)
Current == log[Position]
Backlog(c) == Len(queued[c]) - popped[c]

TypeOK ==
  /\ clients \in [Users -> Clients \cup {None}]
  /\ hub \in {"select", "persist", "resolve", "deliver", "blocked"}
  /\ todo \in SUBSET Users
  /\ log \in Seq(Frames)
  /\ produced \in SUBSET Nat
  /\ pushed \in SUBSET (Nat \X Users)
  /\ pc \in [Clients -> Waiting \cup {"new", "registered", "reading",
                                       "closing", "done"}]
  /\ frame \in [Clients -> Frames \cup {Malformed, None}]
  /\ writer \in [Clients -> {"off", "running", "done"}]
  /\ queued \in [Clients -> Seq(Nat)]
  /\ popped \in [Clients -> Nat]
  /\ written \in [Clients -> Nat]
  /\ closed \in [Clients -> BOOLEAN]
  /\ open \in [Clients -> BOOLEAN]

Init ==
  /\ clients = [u \in Users |-> None]
  /\ hub = "select"
  /\ todo = {}
  /\ log = <<>>
  /\ produced = {}
  /\ pushed = {}
  /\ pc = [c \in Clients |-> "new"]
  /\ frame = [c \in Clients |-> None]
  /\ writer = [c \in Clients |-> "off"]
  /\ queued = [c \in Clients |-> <<>>]
  /\ popped = [c \in Clients |-> 0]
  /\ written = [c \in Clients |-> 0]
  /\ closed = [c \in Clients |-> FALSE]
  /\ open = [c \in Clients |-> FALSE]

-----------------------------------------------------------------------------
(* ServeWS: upgrade, hand the client to the hub, then start the pumps. *)

Upgrade(c) ==
  /\ pc[c] = "new"
  /\ pc' = [pc EXCEPT ![c] = "registering"]
  /\ open' = [open EXCEPT ![c] = TRUE]
  /\ UNCHANGED <<hubVars, frame, writerVars, chanVars>>

\* Mutant: the client is entered again when its pumps start.
StartPumpsEntering(c) ==
  /\ pc[c] = "registered"
  /\ pc' = [pc EXCEPT ![c] = "reading"]
  /\ writer' = [writer EXCEPT ![c] = "running"]
  /\ clients' = [clients EXCEPT ![UserOf[c]] = c]
  /\ UNCHANGED <<hub, todo, log, produced, pushed, frame, popped, written,
                 chanVars, open>>

StartPumps(c) ==
  /\ pc[c] = "registered"
  /\ pc' = [pc EXCEPT ![c] = "reading"]
  /\ writer' = [writer EXCEPT ![c] = "running"]
  /\ UNCHANGED <<hubVars, frame, popped, written, chanVars, open>>

-----------------------------------------------------------------------------
(* ReadPump *)

\* A frame arrives, or was in the read buffer when the connection was closed.
\* MaxFrames bounds the valid frames of a behaviour.
ReadFrame(c) ==
  /\ pc[c] = "reading"
  /\ Position + Cardinality({d \in Clients : pc[d] = "sending"}) < MaxFrames
  /\ \E f \in Frames \cup {Malformed} : frame' = [frame EXCEPT ![c] = f]
  /\ pc' = [pc EXCEPT ![c] = "sending"]
  /\ UNCHANGED <<hubVars, writerVars, chanVars, open>>

\* The peer went away, the pong deadline passed, the frame was too long or
\* WritePump closed the connection: the deferred function runs.
ReadError(c) ==
  /\ pc[c] = "reading"
  /\ pc' = [pc EXCEPT ![c] = "leaving"]
  /\ UNCHANGED <<hubVars, frame, writerVars, chanVars, open>>

\* The deferred Conn.Close, after the send on unregister has completed.
CloseConn(c) ==
  /\ pc[c] = "closing"
  /\ pc' = [pc EXCEPT ![c] = "done"]
  /\ open' = [open EXCEPT ![c] = FALSE]
  /\ UNCHANGED <<hubVars, frame, writerVars, chanVars>>

-----------------------------------------------------------------------------
(* WritePump *)

\* A message is taken from Send and written to the peer.
WriteFrame(c) ==
  /\ writer[c] = "running"
  /\ open[c]
  /\ Backlog(c) > 0
  /\ popped' = [popped EXCEPT ![c] = @ + 1]
  /\ written' = [written EXCEPT ![c] = @ + 1]
  /\ UNCHANGED <<hubVars, readerVars, writer, chanVars, open>>

\* Mutant: the deferred Conn.Close is missing.
StopWithoutClose(c) ==
  writer' = [writer EXCEPT ![c] = "done"] /\ UNCHANGED open

\* WritePump returns; its deferred function closes the connection.
StopWriter(c) ==
  /\ writer' = [writer EXCEPT ![c] = "done"]
  /\ open' = [open EXCEPT ![c] = FALSE]

\* Mutant: after a write error the pump goes on with the next message.
WriteErrorIgnored(c) ==
  /\ writer[c] = "running"
  /\ Backlog(c) > 0 /\ popped' = [popped EXCEPT ![c] = @ + 1]
  /\ UNCHANGED <<hubVars, readerVars, writer, written, chanVars, open>>

\* Writing a message (already taken from Send) or a ping fails: the peer is
\* gone, the write deadline passed or the connection is closed.
WriteError(c) ==
  /\ writer[c] = "running"
  /\ \/ UNCHANGED popped
     \/ Backlog(c) > 0 /\ popped' = [popped EXCEPT ![c] = @ + 1]
  /\ StopWriter(c)
  /\ UNCHANGED <<hubVars, readerVars, written, chanVars>>

\* Send is closed and drained: the close frame is sent and the pump returns.
WriteClose(c) ==
  /\ writer[c] = "running"
  /\ closed[c]
  /\ Backlog(c) = 0
  /\ StopWriter(c)
  /\ UNCHANGED <<hubVars, readerVars, popped, written, chanVars>>

-----------------------------------------------------------------------------
(* Hub.Run: the three cases of the select *)

Enter(c) == clients' = [clients EXCEPT ![UserOf[c]] = c]

\* The newest connection of a user replaces an older one in the table.
HubRegister(c) ==
  /\ hub = "select"
  /\ pc[c] = "registering"
  /\ Enter(c)
  /\ pc' = [pc EXCEPT ![c] = "registered"]
  /\ UNCHANGED <<hub, todo, log, produced, pushed, frame, writerVars,
                 chanVars, open>>

\* Mutant: the Send of the connection found in the table is closed.
CloseFound(c) == closed' = [closed EXCEPT ![clients[UserOf[c]]] = TRUE]

CloseSend(c) == closed' = [closed EXCEPT ![c] = TRUE]

\* The table is searched by user, whatever connection is found there: the
\* entry is deleted and the Send of the leaving connection is closed.
HubUnregister(c) ==
  /\ hub = "select"
  /\ pc[c] = "leaving"
  /\ \/ /\ clients[UserOf[c]] # None
        /\ clients' = [clients EXCEPT ![UserOf[c]] = None]
        /\ CloseSend(c)
     \/ /\ clients[UserOf[c]] = None
        /\ UNCHANGED <<clients, closed>>
  /\ pc' = [pc EXCEPT ![c] = "closing"]
  /\ UNCHANGED <<hub, todo, log, produced, pushed, frame, writerVars,
                 queued, open>>

\* Mutant: the error of json.Unmarshal is logged, the return is missing.
RejectedNever(f) == FALSE

Rejected(f) == f = Malformed

HubReceive(c) ==
  /\ hub = "select"
  /\ pc[c] = "sending"
  /\ \/ /\ Rejected(frame[c])
        /\ UNCHANGED <<hub, log>>
     \/ /\ ~Rejected(frame[c])
        /\ hub' = "persist"
        /\ log' = Append(log, frame[c])
  /\ frame' = [frame EXCEPT ![c] = None]
  /\ pc' = [pc EXCEPT ![c] = "reading"]
  /\ UNCHANGED <<clients, todo, produced, pushed, writerVars, chanVars, open>>

-----------------------------------------------------------------------------
(* handleMessageDelivery *)

\* The frame goes to the asynchronous Kafka writer, which accepts it or
\* fails to; delivery goes on in both cases.
HubPersist ==
  /\ hub = "persist"
  /\ hub' = "resolve"
  /\ \/ produced' = produced \cup {Position}
     \/ UNCHANGED produced
  /\ UNCHANGED <<clients, todo, log, pushed, readerVars, writerVars,
                 chanVars, open>>

HubResolve ==
  /\ hub = "resolve"
  /\ hub' = "deliver"
  /\ todo' \in {Participants[Current.conv], {}}
  /\ UNCHANGED <<clients, log, produced, pushed, readerVars, writerVars,
                 chanVars, open>>

\* Mutant: the loop is left when it comes to the author.
VisitedLeaving(u) == IF u = Current.from THEN {} ELSE todo \ {u}

\* What the loop has left after u.
Visited(u) == todo \ {u}

\* Mutant: the author is notified too.
NotifyingAll(u) == pushed \cup {<<Position, u>>}

\* Everybody but the author is notified.
Notifying(u) ==
  IF u = Current.from THEN pushed ELSE pushed \cup {<<Position, u>>}

\* The participant is online and its Send has room.
DeliverOnline(u) ==
  /\ hub = "deliver"
  /\ u \in todo
  /\ clients[u] # None
  /\ Backlog(clients[u]) < Cap
  /\ todo' = Visited(u)
  /\ queued' = [queued EXCEPT ![clients[u]] = Append(@, Position)]
  /\ UNCHANGED <<clients, hub, log, produced, pushed, readerVars,
                 writerVars, closed, open>>

\* The participant is offline.
DeliverOffline(u) ==
  /\ hub = "deliver"
  /\ u \in todo
  /\ clients[u] = None
  /\ todo' = Visited(u)
  /\ pushed' = Notifying(u)
  /\ UNCHANGED <<clients, hub, log, produced, readerVars, writerVars,
                 chanVars, open>>

\* Send is full.  The hub sends on its own unregister channel, which only
\* the hub receives from: it never returns to the select.
DeliverFull(u) ==
  /\ hub = "deliver"
  /\ u \in todo
  /\ clients[u] # None
  /\ Backlog(clients[u]) >= Cap
  /\ hub' = "blocked"
  /\ UNCHANGED <<clients, todo, log, produced, pushed, readerVars,
                 writerVars, chanVars, open>>

DeliverDone ==
  /\ hub = "deliver"
  /\ todo = {}
  /\ hub' = "select"
  /\ UNCHANGED <<clients, todo, log, produced, pushed, readerVars,
                 writerVars, chanVars, open>>

-----------------------------------------------------------------------------

\* Mutant: the loop waits at an author it does not serve.
DeliverOthers(u) ==
  /\ DeliverOnline(u) \/ DeliverOffline(u) \/ DeliverFull(u)
  /\ u # Current.from

Deliver(u) == DeliverOnline(u) \/ DeliverOffline(u) \/ DeliverFull(u)

HubWork ==
  \/ HubPersist
  \/ HubResolve
  \/ \E u \in Users : Deliver(u)
  \/ DeliverDone

ServeWS(c) == Upgrade(c) \/ StartPumps(c)
ReadPump(c) == ReadFrame(c) \/ ReadError(c) \/ CloseConn(c)
WritePump(c) == WriteFrame(c) \/ WriteError(c) \/ WriteClose(c)
Rendezvous(c) == HubRegister(c) \/ HubUnregister(c) \/ HubReceive(c)

Next ==
  \/ \E c \in Clients : ServeWS(c) \/ ReadPump(c) \/ WritePump(c)
                          \/ Rendezvous(c)
  \/ HubWork

Spec == Init /\ [][Next]_vars

(* The goroutines are scheduled.  A connection waiting for the hub is not   *)
(* passed over forever: the senders of a Go channel queue up in order and   *)
(* select chooses among its ready cases at random.  A write ends within     *)
(* writeWait.  On a closed connection the next ping fails, and so does the  *)
(* read that finds the read buffer empty.                                   *)
(* No peer has to send anything, and none has to stay or to leave.          *)
Fairness ==
  /\ WF_vars(HubWork)
  /\ \A c \in Clients :
       /\ SF_vars(Rendezvous(c))
       /\ WF_vars(StartPumps(c))
       /\ WF_vars(CloseConn(c))
       /\ WF_vars(WriteFrame(c))
       /\ WF_vars(WriteClose(c))
       /\ SF_vars(~open[c] /\ ReadError(c))
       /\ WF_vars(~open[c] /\ WriteError(c))

FairSpec == Spec /\ Fairness

-----------------------------------------------------------------------------
(* Properties *)

\* No panic in the hub goroutine, which would take the process down: a frame
\* is never sent on a closed Send channel, and a connection waiting to
\* unregister has a Send that nobody closed, so closing it is not a second
\* close (hub.go:69 and hub.go:132).
NoChannelPanic ==
  /\ \A u \in Users : clients[u] # None => ~closed[clients[u]]
  /\ \A c \in Clients : pc[c] = "leaving" => ~closed[c]

\* A connection that registered and is not (or no longer) the entry of its
\* user never comes back into the table: frames are not routed to a socket
\* that a newer one replaced or that has unregistered (hub.go:61 and 68).
NeverReinstated ==
  [][\A c \in Clients :
       pc[c] \notin {"new", "registering"} /\ clients[UserOf[c]] # c
         => clients'[UserOf[c]] # c]_vars

\* The refinement mapping: the log is the order, what was put into Send is
\* what a connection was handed, the notification topic holds the pushes.
Delivery == INSTANCE OrderedDelivery
              WITH order <- log, inbox <- queued, notified <- pushed

\* The hub implements ordered delivery: one global order of frames, every
\* connection sees a subsequence of it, every participant is served a frame
\* at most once, on one connection or by one notification (hub.go:125-145).
ImplementsDelivery == Delivery!Spec

\* While a frame is delivered, every participant of its conversation has been
\* served or still will be, unless it is the author; or the lookup gave nobody
\* and nobody is served.  Connections that come, go or are replaced during the
\* loop make nobody fall between the two branches (hub.go:114-145).
AllOrNobody ==
  hub \in {"deliver", "blocked"} =>
    \/ \A u \in Participants[Current.conv] :
         u \in todo \/ u = Current.from \/ Delivery!Reached(u, Position)
    \/ todo = {} /\ \A u \in Users : ~Delivery!Reached(u, Position)

\* What was put into Send is written to the peer, or lost with a pump that has
\* ended: no frame stays in the queue of a connection that goes on, not even
\* of one the hub has forgotten (client.go:64-83).
QueueDrains ==
  \A c \in Clients : \A k \in 1..MaxFrames :
    Len(queued[c]) >= k ~> written[c] >= k \/ writer[c] = "done"

\* Whoever waits on one of the hub's channels is served, unless the hub has
\* blocked on its own unregister channel (hub.go:58-76 and 135).
HubServes ==
  \A c \in Clients : \A s \in Waiting :
    pc[c] = s ~> pc[c] # s \/ hub = "blocked"

\* When one pump of a connection ends, the other ends too and the connection
\* is unregistered, although the pumps share nothing but the connection and
\* Send may never be closed: no goroutine leaks while the hub serves
\* (client.go:30-33 and 59-62).
PumpsEndTogether ==
  \A c \in Clients :
    writer[c] = "done" \/ pc[c] = "closing"
      ~> (writer[c] = "done" /\ pc[c] = "done") \/ hub = "blocked"

\* client.go:13: pongWait is the longest a connection waits for a pong.  A
\* connection whose reads have ended is therefore closed.
PongWaitEnds ==
  \A c \in Clients : pc[c] = "leaving" ~> ~open[c]

\* hub.go:70: the hub reports that a user disconnected when it deletes the
\* user's entry: then no registered connection of that user is still open.
DisconnectedIsOffline ==
  [][\A u \in Users :
       clients[u] # None /\ clients'[u] = None
         => \A c \in Clients :
              UserOf[c] = u => pc'[c] \notin {"registered", "reading", "sending"}]_vars
=============================================================================
