----------------------------- MODULE Connection -----------------------------
(***************************************************************************)
(* The connections of src/src/connection.cpp with the port that accepts    *)
(* them (server.cpp) and the output buffers in front of them (protocol.cpp *)
(* and outputmessage.cpp).                                                 *)
(*                                                                         *)
(* The dispatcher thread writes, flushes the buffers and closes; the       *)
(* network threads run the completions of reads, writes and timers.  One   *)
(* action is one section under connectionLock, or one piece of a handler   *)
(* between two locks.  A completion or an expiry is queued before its      *)
(* handler runs, so that a cancel or a close may come too late for it.     *)
(* A message is the sequence of the numbers of the writes it holds; the    *)
(* peer may read, stall or drop the line at any time.                      *)
(***************************************************************************)
EXTENDS Naturals, Sequences, FiniteSets

CONSTANTS
    Conn,           \* Connection objects
    Talker,         \* the ones whose peer sends anything
    Ip,             \* addresses of peers
    NoIp,           \* trackedIp = 0
    MaxConnections, \* maxConnections of the configuration
    MaxPerIp,       \* maxConnectionsPerIP
    MaxBody,        \* writes that fit into one output buffer
    MaxWrites       \* bound: writes per connection

ASSUME LimitAssumption ==
    /\ NoIp \notin Ip /\ Talker \subseteq Conn /\ IsFiniteSet(Conn)
    /\ {"accept", "retry", "ended"} \cap Conn = {}
    /\ {MaxConnections, MaxPerIp, MaxBody} \subseteq Nat \ {0}
    /\ MaxWrites \in Nat

VARIABLES
    conn,          \* the state of every Connection and of its Protocol
    connections,   \* ConnectionManager::connections
    ipCount,       \* ConnectionManager::ipConnectionCount
    port,          \* the accept loop: "accept", "retry", "ended" or a connection
    service,       \* "run", "stopped" (ports closed), "released", "dead"
    sendScheduled, \* OutputMessagePool::sendScheduled
    sendEvent      \* the scheduler holds a sendAll

managerVars == <<connections, ipCount>>
poolVars    == <<sendScheduled, sendEvent>>
vars == <<conn, managerVars, port, service, poolVars>>

Timers == {"read", "write"}
Goodbye == <<0>>       \* the message of disconnectClient

Fresh ==
    [socket   |-> "none",  \* "none", "new", "open" or "shut"
     closed   |-> FALSE,
     protocol |-> FALSE,   \* the connection has a protocol
     trackedIp |-> NoIp,
     messageQueue |-> <<>>,
     write    |-> "none",  \* "none", "posted", "writing" or "written"
     read     |-> "none",  \* "none", "header" or "body"
     armed    |-> {},      \* timers that run
     due      |-> {},      \* timers whose handler is queued
     release  |-> 0,       \* release tasks posted to the dispatcher
     written  |-> 0,       \* writes of the dispatcher
     outputBuffer |-> <<>>,
     inAutosend   |-> FALSE,
     wire     |-> <<>>]    \* the writes that reached the peer

Record ==
    [socket       : {"none", "new", "open", "shut"},
     closed       : BOOLEAN,
     protocol     : BOOLEAN,
     trackedIp    : Ip \cup {NoIp},
     messageQueue : Seq(Seq(Nat)),
     write        : {"none", "posted", "writing", "written"},
     read         : {"none", "header", "body"},
     armed        : SUBSET Timers,
     due          : SUBSET Timers,
     release      : {0, 1},
     written      : 0 .. MaxWrites,
     outputBuffer : Seq(Nat),
     inAutosend   : BOOLEAN,
     wire         : Seq(Nat)]

TypeOK ==
    /\ conn \in [Conn -> Record]
    /\ connections \subseteq Conn
    /\ ipCount \in [Ip -> 0 .. Cardinality(Conn)]
    /\ port \in {"accept", "retry", "ended"} \cup Conn
    /\ service \in {"run", "stopped", "released", "dead"}
    /\ {sendScheduled, sendEvent} \subseteq BOOLEAN

Init ==
    /\ conn = [c \in Conn |-> Fresh]
    /\ connections = {}
    /\ ipCount = [a \in Ip |-> 0]
    /\ port = "accept"
    /\ service = "run"
    /\ sendScheduled = FALSE /\ sendEvent = FALSE

-----------------------------------------------------------------------------
\* Connection::closeSocket
CloseSocket(k) ==
    IF k.socket # "open" THEN k
    ELSE [k EXCEPT !.socket = "shut", !.armed = {}]

\* Connection::closeLocked, as far as the connection is concerned
\* slip: a second close is not noticed
SlipCloseLocked(k, force) ==
    LET r == [k EXCEPT !.closed = TRUE, !.release = IF k.protocol THEN @ + 1 ELSE @]
    IN  IF k.messageQueue = <<>> \/ force THEN CloseSocket(r) ELSE r

CloseLocked(k, force) ==
    IF k.closed THEN k
    ELSE LET r == [k EXCEPT !.closed = TRUE,
                            !.release = IF k.protocol THEN @ + 1 ELSE @]
         IN  IF k.messageQueue = <<>> \/ force THEN CloseSocket(r) ELSE r

\* ConnectionManager::releaseConnection
\* slip: the address keeps its place
SlipReleaseConnection(c) ==
    /\ connections' = connections \ {c}
    /\ UNCHANGED ipCount

ReleaseConnection(c) ==
    LET ip == conn[c].trackedIp
    IN  /\ connections' = connections \ {c}
        /\ ipCount' = IF c \in connections /\ ip # NoIp /\ ipCount[ip] > 0
                      THEN [ipCount EXCEPT ![ip] = @ - 1] ELSE ipCount

\* The whole of closeLocked on k, the connection as it stands in the handler.
Closing(c, k, force) ==
    /\ conn' = [conn EXCEPT ![c] = CloseLocked(k, force)]
    /\ IF k.closed THEN UNCHANGED managerVars ELSE ReleaseConnection(c)

Update(c, k) == conn' = [conn EXCEPT ![c] = k] /\ UNCHANGED managerVars

Arm(k, t) == [k EXCEPT !.armed = @ \cup {t}]
Cancel(k, t) == [k EXCEPT !.armed = @ \ {t}]

Running == service # "dead"

-----------------------------------------------------------------------------
(***************************************************************************)
(* ServicePort: accept creates the next connection, unless there are too   *)
(* many; onAccept hands it over or closes it, and accepts again.           *)
(***************************************************************************)
Accept ==
    /\ port = "accept" /\ Running
    /\ IF service # "run" THEN port' = "ended" /\ UNCHANGED <<conn, managerVars>>
       ELSE IF Cardinality(connections) >= MaxConnections
       THEN port' = "retry" /\ UNCHANGED <<conn, managerVars>>
       ELSE \E c \in Conn :
              /\ conn[c].socket = "none"
              /\ port' = c
              /\ connections' = connections \cup {c}
              /\ conn' = [conn EXCEPT ![c].socket = "new"]
              /\ UNCHANGED ipCount
    /\ UNCHANGED <<service, poolVars>>

\* The retry timer; a stopped port cancels it.
Retry ==
    /\ port = "retry" /\ Running
    /\ port' = IF service = "run" THEN "accept" ELSE "ended"
    /\ UNCHANGED <<conn, managerVars, service, poolVars>>

\* async_accept reports an error: closed, and tried again later.
AcceptFails(c) ==
    /\ port = c /\ Running
    /\ Closing(c, conn[c], TRUE)
    /\ port' = "retry"
    /\ UNCHANGED <<service, poolVars>>

\* ConnectionManager::trackIPConnection
MayTrack(c, ip) == c \in connections /\ ipCount[ip] < MaxPerIp

\* The peer's address is refused by the rate limiter or for its number of
\* connections; single: the service talks first, so the protocol exists already.
OnAccept(c, ip, single, allowed) ==
    /\ port = c /\ service = "run" /\ (single => c \in Talker)
    /\ IF allowed /\ MayTrack(c, ip)
       THEN /\ ipCount' = [ipCount EXCEPT ![ip] = @ + 1]
            /\ conn' = [conn EXCEPT ![c] = Arm([@ EXCEPT !.socket = "open", !.trackedIp = ip,
                                            !.protocol = single, !.read = "header"], "read")]
            /\ UNCHANGED connections
       ELSE Closing(c, [conn[c] EXCEPT !.socket = "open"], TRUE)
    /\ port' = "accept"
    /\ UNCHANGED <<service, poolVars>>

-----------------------------------------------------------------------------
(***************************************************************************)
(* Reading: a header, then a body.                                         *)
(***************************************************************************)
\* The handler of a failed read.
ReadFails(c) ==
    /\ conn[c].read # "none" /\ Running
    /\ Closing(c, Cancel([conn[c] EXCEPT !.read = "none"], "read"), TRUE)
    /\ UNCHANGED <<port, service, poolVars>>

\* The handler of a read that ended before or while the connection was closed.
ReadAfterClose(c) ==
    /\ conn[c].read # "none" /\ conn[c].closed /\ Running
    /\ Update(c, Cancel([conn[c] EXCEPT !.read = "none"], "read"))
    /\ UNCHANGED <<port, service, poolVars>>

\* parseHeader: too many packets close gently, a bad size at once.
ParseHeader(c) ==
    LET k == Cancel([conn[c] EXCEPT !.read = "none"], "read")
    IN  /\ conn[c].read = "header" /\ conn[c].socket = "open" /\ ~conn[c].closed /\ Running
        /\ c \in Talker
        /\ \/ \E force \in BOOLEAN : Closing(c, k, force)
           \/ Update(c, Arm([k EXCEPT !.read = "body"], "read"))
        /\ UNCHANGED <<port, service, poolVars>>

\* Connection::send, as far as the connection is concerned
Sent(k, m) ==
    IF k.closed THEN k
    ELSE [k EXCEPT !.messageQueue = Append(@, m),
                   !.write = IF k.messageQueue = <<>> THEN "posted" ELSE @]

\* disconnectClient: a last message, if there is one, before a gentle close
Said(k, m) == IF m = <<>> THEN k ELSE Sent(k, m)
LastWords == {<<>>, Goodbye}

\* parsePacket: the first message names the protocol; an unknown one closes.
\* The protocol may refuse the client there, and the next read is started all
\* the same.
ParsePacket(c) ==
    LET k == Cancel([conn[c] EXCEPT !.read = "none"], "read")
        on(r) == Arm([r EXCEPT !.read = "header"], "read")
        p == [k EXCEPT !.protocol = TRUE]
    IN  /\ conn[c].read = "body" /\ conn[c].socket = "open" /\ ~conn[c].closed /\ Running
        /\ \/ ~k.protocol /\ Closing(c, k, TRUE)
           \/ Update(c, on(p))
           \/ \E m \in LastWords :
                 /\ conn' = [conn EXCEPT ![c] = on(CloseLocked(Said(p, m), FALSE))]
                 /\ ReleaseConnection(c)
        /\ UNCHANGED <<port, service, poolVars>>

-----------------------------------------------------------------------------
(***************************************************************************)
(* Writing: one asynchronous write at a time, the head of the queue.       *)
(***************************************************************************)
\* internalSend, posted by send; it holds no lock and needs the protocol.
InternalSend(c) ==
    /\ conn[c].write = "posted" /\ conn[c].protocol /\ Running
    /\ Update(c, Arm([conn[c] EXCEPT !.write = "writing"], "write"))
    /\ UNCHANGED <<port, service, poolVars>>

InternalSendFails(c) ==
    /\ conn[c].write = "posted" /\ conn[c].protocol /\ Running
    /\ Closing(c, [conn[c] EXCEPT !.write = "none"], TRUE)
    /\ UNCHANGED <<port, service, poolVars>>

\* The peer takes the message; the handler is queued.
PeerReads(c) ==
    /\ conn[c].write = "writing" /\ conn[c].socket = "open" /\ Running
    /\ Update(c, [conn[c] EXCEPT !.write = "written", !.wire = @ \o Head(conn[c].messageQueue)])
    /\ UNCHANGED <<port, service, poolVars>>

\* onWriteOperation
OnWriteOperation(c) ==
    LET k == Cancel([conn[c] EXCEPT !.messageQueue = Tail(@)], "write")
    IN  /\ conn[c].write = "written" /\ Running
        /\ k.messageQueue # <<>> => k.protocol
        /\ Update(c, IF k.messageQueue # <<>> THEN Arm([k EXCEPT !.write = "writing"], "write")
                     ELSE IF k.closed THEN CloseSocket([k EXCEPT !.write = "none"])
                     ELSE [k EXCEPT !.write = "none"])
        /\ UNCHANGED <<port, service, poolVars>>

WriteFails(c) ==
    /\ conn[c].write = "writing" /\ Running
    /\ Closing(c, Cancel([conn[c] EXCEPT !.write = "none", !.messageQueue = <<>>], "write"), TRUE)
    /\ UNCHANGED <<port, service, poolVars>>

-----------------------------------------------------------------------------
(***************************************************************************)
(* Timers, and the end of the object: no handler holds it any more.        *)
(***************************************************************************)
Expire(c, t) ==
    /\ t \in conn[c].armed /\ Running
    /\ Update(c, [conn[c] EXCEPT !.armed = @ \ {t}, !.due = @ \cup {t}])
    /\ UNCHANGED <<port, service, poolVars>>

HandleTimeout(c, t) ==
    /\ t \in conn[c].due /\ Running
    /\ Closing(c, [conn[c] EXCEPT !.due = @ \ {t}], TRUE)
    /\ UNCHANGED <<port, service, poolVars>>

\* slip: the destructor leaves the socket alone
SlipDestroy(c) == conn[c].closed /\ UNCHANGED vars

Destroy(c) ==
    /\ conn[c].socket = "open" /\ conn[c].closed /\ c \notin connections
    /\ conn[c].read = "none" /\ conn[c].write = "none" /\ Running
    /\ Update(c, CloseSocket(conn[c]))
    /\ UNCHANGED <<port, service, poolVars>>

-----------------------------------------------------------------------------
(***************************************************************************)
(* The dispatcher thread: writes through Protocol::getOutputBuffer, the    *)
(* timer of OutputMessagePool, disconnectClient and the release task.      *)
(***************************************************************************)
\* addProtocolToAutosend
Autosend == sendScheduled' = TRUE /\ sendEvent' = (sendEvent \/ ~sendScheduled)

\* slip: a full buffer is replaced but not sent
SlipBuffered(k, n) ==
    IF Len(k.outputBuffer) < MaxBody THEN [k EXCEPT !.outputBuffer = Append(@, n)]
    ELSE [k EXCEPT !.outputBuffer = <<n>>]

Buffered(k, n) ==
    IF Len(k.outputBuffer) < MaxBody THEN [k EXCEPT !.outputBuffer = Append(@, n)]
    ELSE [Sent(k, k.outputBuffer) EXCEPT !.outputBuffer = <<n>>]

WriteToOutputBuffer(c) ==
    LET k == conn[c]
        n == k.written + 1
        adds == ~k.inAutosend /\ (k.outputBuffer = <<>> \/ Len(k.outputBuffer) >= MaxBody)
    IN  /\ k.protocol /\ n <= MaxWrites /\ service = "run"
        /\ Update(c, [Buffered(k, n) EXCEPT !.written = n, !.inAutosend = @ \/ adds])
        /\ IF adds THEN Autosend ELSE UNCHANGED poolVars
        /\ UNCHANGED <<port, service>>

\* slip: sendScheduled is left set
SlipSendAll ==
    /\ sendEvent /\ service = "run"
    /\ sendEvent' = FALSE
    /\ conn' = [c \in Conn |->
          IF ~conn[c].inAutosend THEN conn[c]
          ELSE LET k == [conn[c] EXCEPT !.inAutosend = FALSE]
               IN  IF k.outputBuffer = <<>> THEN k
                   ELSE [Sent(k, k.outputBuffer) EXCEPT !.outputBuffer = <<>>]]
    /\ UNCHANGED <<managerVars, port, service, sendScheduled>>

SendAll ==
    /\ sendEvent /\ service = "run"
    /\ sendEvent' = FALSE /\ sendScheduled' = FALSE
    /\ conn' = [c \in Conn |->
          IF ~conn[c].inAutosend THEN conn[c]
          ELSE LET k == [conn[c] EXCEPT !.inAutosend = FALSE]
               IN  IF k.outputBuffer = <<>> THEN k
                   ELSE [Sent(k, k.outputBuffer) EXCEPT !.outputBuffer = <<>>]]
    /\ UNCHANGED <<managerVars, port, service>>

\* ProtocolGame::disconnectClient, or disconnect alone
DisconnectClient(c) ==
    /\ conn[c].protocol /\ ~conn[c].closed /\ service = "run"
    /\ \E m \in LastWords : Closing(c, Said(conn[c], m), FALSE)
    /\ UNCHANGED <<port, service, poolVars>>

\* ProtocolGame::release, on the dispatcher
Release(c) ==
    /\ conn[c].release = 1 /\ conn[c].inAutosend /\ service = "run"
    /\ Update(c, [conn[c] EXCEPT !.inAutosend = FALSE])
    /\ UNCHANGED <<port, service, poolVars>>

-----------------------------------------------------------------------------
(***************************************************************************)
(* ServiceManager::stop, when the dispatcher is gone already, and die.     *)
(* Between releaseAllProtocols and the end of the network threads a        *)
(* handler that needs its protocol finds none; what it does then is        *)
(* undefined, and here it stops.                                           *)
(***************************************************************************)
StopServices ==
    /\ service = "run"
    /\ service' = "stopped"
    /\ UNCHANGED <<conn, managerVars, port, poolVars>>

ReleaseAllProtocols ==
    /\ service = "stopped"
    /\ service' = "released"
    /\ conn' = [c \in Conn |->
          IF c \in connections THEN [conn[c] EXCEPT !.protocol = FALSE] ELSE conn[c]]
    /\ UNCHANGED <<managerVars, port, poolVars>>

CloseAll ==
    /\ service = "released"
    /\ service' = "dead"
    /\ conn' = [c \in Conn |->
          IF c \in connections /\ conn[c].socket = "open"
          THEN [conn[c] EXCEPT !.socket = "shut"] ELSE conn[c]]
    /\ connections' = {}
    /\ ipCount' = [a \in Ip |-> 0]
    /\ UNCHANGED <<port, poolVars>>

Ended == service = "dead" /\ UNCHANGED vars

Handler(c) ==
    \/ ReadFails(c) \/ ReadAfterClose(c) \/ ParseHeader(c) \/ ParsePacket(c)
    \/ InternalSend(c) \/ InternalSendFails(c) \/ PeerReads(c)
    \/ OnWriteOperation(c) \/ WriteFails(c) \/ Destroy(c)
    \/ \E t \in Timers : Expire(c, t) \/ HandleTimeout(c, t)

Next ==
    \/ Accept \/ Retry
    \/ \E c \in Conn : AcceptFails(c)
                       \/ \E ip \in Ip, single, allowed \in BOOLEAN : OnAccept(c, ip, single, allowed)
    \/ \E c \in Conn : Handler(c)
    \/ \E c \in Conn : WriteToOutputBuffer(c) \/ DisconnectClient(c) \/ Release(c)
    \/ SendAll
    \/ StopServices \/ ReleaseAllProtocols \/ CloseAll \/ Ended

(***************************************************************************)
(* Queued handlers run and the scheduler runs sendAll; timers expire.  The *)
(* peer owes nothing: Spec asks of it that it reads what it is sent or     *)
(* goes away, and that it sends a last packet to a connection that was     *)
(* closed.                                                                 *)
(***************************************************************************)
HandlerFairness ==
    /\ WF_vars(SendAll)
    /\ \A c \in Talker :
          /\ WF_vars(Destroy(c)) /\ WF_vars(InternalSend(c)) /\ WF_vars(OnWriteOperation(c))
          /\ WF_vars(conn[c].socket = "shut" /\ (ReadFails(c) \/ WriteFails(c)))

PeerFairness ==
    \A c \in Talker : /\ WF_vars(PeerReads(c) \/ WriteFails(c))
                      /\ WF_vars(ReadAfterClose(c))

Spec == Init /\ [][Next]_vars /\ HandlerFairness /\ PeerFairness

-----------------------------------------------------------------------------
(***************************************************************************)
(* What reaches the peer is what the dispatcher wrote, in order and        *)
(* without a gap, the goodbye last if there is one: a close may cut the    *)
(* tail off, nothing else.                                                 *)
(***************************************************************************)
WireInOrder ==
    \A c \in Conn :
        LET got == conn[c].wire
        IN  \A n \in DOMAIN got : got[n] = n \/ (got[n] = 0 /\ n = Len(got))

(***************************************************************************)
(* The count of an address is the number of its connections that are       *)
(* open, and no limit is exceeded, however a connection ends.              *)
(***************************************************************************)
IpCountExact ==
    /\ \A a \in Ip :
          /\ ipCount[a] = Cardinality({c \in connections : conn[c].trackedIp = a})
          /\ ipCount[a] <= MaxPerIp
    /\ Cardinality(connections) <= MaxConnections

(***************************************************************************)
(* While the dispatcher runs, a protocol is released exactly when its      *)
(* connection is closed, and a closed connection is forgotten by the       *)
(* manager: otherwise the player behind it stays attached for ever.        *)
(***************************************************************************)
ReleasedOnce ==
    \A c \in Conn :
        /\ conn[c].release = 1 => conn[c].closed
        /\ conn[c].closed /\ conn[c].protocol => conn[c].release = 1
        /\ conn[c].closed => c \notin connections

(***************************************************************************)
(* Together: however a connection ends, and on whichever thread first, it  *)
(* is counted off its address once, its protocol is released once, and the *)
(* manager forgets it.                                                     *)
(***************************************************************************)
ClosedOnce == IpCountExact /\ ReleasedOnce

(***************************************************************************)
(* What is buffered leaves within a sendAll, or its connection is closed,  *)
(* or the server stops.                                                    *)
(***************************************************************************)
BufferedGoesOut ==
    \A c \in Talker : conn[c].outputBuffer # <<>> ~>
        conn[c].outputBuffer = <<>> \/ conn[c].closed \/ service # "run"

(***************************************************************************)
(* The socket of a closed connection is closed in the end, after what was  *)
(* queued has been sent: closeLocked leaves it to onWriteOperation or to   *)
(* the destructor.                                                         *)
(***************************************************************************)
CloseEnds ==
    \A c \in Talker : conn[c].closed ~> conn[c].socket # "open" \/ service # "run"
=============================================================================
