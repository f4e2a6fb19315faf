-------------------------------- MODULE Hub --------------------------------
(***************************************************************************)
(* The websocket hub: backend/websocket.go.  Each socket has a handler (the *)
(* read loop), a writer and a bounded channel between them; the hub knows   *)
(* the channels of a conversation and sends every event to each of them.    *)
(*                                                                         *)
(* All sockets belong to one conversation: the hub keeps a set for each.    *)
(* Channels are counted, not filled: which event is in one does not matter. *)
(***************************************************************************)
EXTENDS Naturals

CONSTANTS
    Socket,     \* upgraded connections
    Queue       \* capacity of a client's channel

ASSUME QueueAssumption == Queue \in Nat \ {0}

Client == [pc: {"register", "ready", "read", "gone"}, conn: BOOLEAN, writer: BOOLEAN,
           queue: 0..Queue, closed: BOOLEAN]
Unused == [pc |-> "unused"]

VARIABLES
    socket,     \* handler, connection, writer and channel of each socket
    clients     \* the hub's set

hubVars == <<socket, clients>>

HubInit == socket = [k \in Socket |-> Unused] /\ clients = {}

Handling(k) == socket[k].pc \in {"register", "ready", "read"}
Open(k)     == Handling(k) /\ socket[k].conn

\* serveWebSocket after the upgrade.
Upgrade(k) ==
    /\ socket[k] = Unused
    /\ socket' = [socket EXCEPT ![k] = [pc |-> "register", conn |-> TRUE, writer |-> FALSE,
                                        queue |-> 0, closed |-> FALSE]]
    /\ UNCHANGED clients

Register(k) ==
    /\ socket[k].pc = "register"
    /\ socket' = [socket EXCEPT ![k].pc = "ready", ![k].writer = TRUE]
    /\ clients' = clients \cup {k}

\* The handler waits for room in the channel before it begins to read.
SendReady(k) ==
    /\ socket[k].pc = "ready" /\ socket[k].queue < Queue
    /\ socket' = [socket EXCEPT ![k].pc = "read", ![k].queue = @ + 1]
    /\ UNCHANGED clients

\* broadcast holds the lock against register and unregister; a client whose
\* channel is full misses the event.
Broadcast ==
    /\ clients # {}
    /\ socket' = [k \in Socket |-> IF k \in clients /\ socket[k].queue < Queue
                                   THEN [socket[k] EXCEPT !.queue = @ + 1] ELSE socket[k]]
    /\ UNCHANGED clients

\* A read fails: the connection is closed, or what came is not a command.
Leave(k) ==
    /\ socket[k].pc = "read"
    /\ socket' = [socket EXCEPT ![k].pc = "gone", ![k].conn = FALSE, ![k].closed = TRUE]
    /\ clients' = clients \ {k}

Write(k) ==
    /\ Open(k) /\ socket[k].writer /\ socket[k].queue > 0
    /\ socket' = [socket EXCEPT ![k].queue = @ - 1]
    /\ UNCHANGED clients

\* What the writer does when it ends: it closes the connection.
EndWriterVariant(k) ==
    /\ socket' = [socket EXCEPT ![k].writer = FALSE, ![k].conn = FALSE, ![k].closed = TRUE]
    /\ UNCHANGED clients
EndWriter(k) ==
    /\ socket' = [socket EXCEPT ![k].writer = FALSE, ![k].conn = FALSE]
    /\ UNCHANGED clients

\* A write or a ping to a closed connection fails; a closed channel is drained.
WriterEnds(k) ==
    /\ socket[k] # Unused /\ socket[k].writer
    /\ ~socket[k].conn \/ (socket[k].closed /\ socket[k].queue = 0)
    /\ EndWriter(k)

CloseConn(k) ==
    /\ Open(k)
    /\ socket' = [socket EXCEPT ![k].conn = FALSE]
    /\ UNCHANGED clients

\* Both goroutines have ended and the record is used for another socket.
Forget(k) ==
    /\ socket[k].pc = "gone" /\ ~socket[k].writer
    /\ socket' = [socket EXCEPT ![k] = Unused]
    /\ UNCHANGED clients

\* What the goroutines of a socket do sooner or later; a read from a closed
\* connection fails.
Serve(k) == Register(k) \/ SendReady(k) \/ WriterEnds(k) \/ (~Open(k) /\ Leave(k))

HubStep(k) == Serve(k) \/ Leave(k) \/ Write(k) \/ CloseConn(k) \/ Forget(k)

----------------------------------------------------------------------------
(* Properties *)

HubTypeOK == socket \in [Socket -> Client \cup {Unused}] /\ clients \subseteq Socket

\* Nobody sends on a closed channel, which would end the process: the hub
\* knows only clients whose channel is open, and a handler that is about to
\* announce itself still has one.
NoSendOnClosed ==
    \A k \in Socket : (k \in clients \/ socket[k].pc = "ready") => ~socket[k].closed

\* A handler that cannot get its first event into the channel: others filled
\* it before, and the writer has ended.
Blocked(k) == socket[k].pc = "ready" /\ socket[k].queue = Queue /\ ~socket[k].writer

=============================================================================
