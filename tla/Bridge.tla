------------------------------- MODULE Bridge -------------------------------
(***************************************************************************)
(* The WebSocket bridge (pkg/wsbridge/bridge.go) and the presence events   *)
(* it carries: the node's peer list (addPeer and removePeer of             *)
(* pkg/mesh/mesh.go), which follows the connection notifications of        *)
(* libp2p, and the apps' view of it, kept up by the frames they receive.   *)
(*                                                                         *)
(* A client has a buffered channel, a goroutine that reads its requests    *)
(* and one that writes the channel to the socket.  The client map is       *)
(* guarded by a lock; the channel is not, and a send on a closed channel,  *)
(* or closing one twice, panics.                                           *)
(***************************************************************************)
EXTENDS Naturals, Sequences

CONSTANTS
    Peer,           \* remote peers
    Conn,           \* connections there may be to one peer at a time (bound)
    Client,         \* WebSocket connections of apps
    BufSize,        \* sendBufSize
    MaxStop         \* bound: calls of Stop

ASSUME BridgeAssumption == BufSize \in Nat \ {0} /\ MaxStop \in Nat

VARIABLES
    conn,           \* conn[p][k]: a connection and its pending notification
    peers,          \* Node.peers
    heard,          \* history: peers heard of since they were last taken off
    crowded,        \* history: peers with a connection opened beside another one
    clients,        \* Bridge.clients
    queue, closed,  \* the send channel of a client: its frames; it is closed
    ws,             \* the socket: "none", "open", "broken" or "closed"
    reader, writer, \* the goroutines of a client
    view,           \* view[c][p]: what the app shows of p
    skipped,        \* history: clients for which a frame was skipped
    stop, stops,    \* progress of Stop, and how often it was called
    panic           \* what ended the process: a broadcast, a reply, ...; or "none"

meshVars   == <<conn, peers, heard, crowded>>
clientVars == <<clients, queue, closed, ws, reader, writer, view, skipped>>
stopVars   == <<stop, stops>>
vars       == <<meshVars, clientVars, stopVars, panic>>

Event(kind, p) == [type |-> kind, peer |-> p]
Plain(kind)    == [type |-> kind]
Frame == [type : {"identity", "reply", "message"}]
           \cup [type : {"peer_join", "peer_leave"}, peer : Peer]

-----------------------------------------------------------------------------
(***************************************************************************)
(* Sending to clients.  A client whose buffer is full is skipped.          *)
(***************************************************************************)
Full(c) == Len(queue[c]) >= BufSize

\* broadcast, under the read lock of the client map.  A channel of the map
\* that is closed ends the process, full or not.
Broadcast(frame) ==
    /\ panic' = IF \E c \in clients : closed[c] THEN "broadcast" ELSE panic
    /\ queue' = [c \in Client |-> IF c \in clients /\ ~Full(c) THEN Append(queue[c], frame)
                                  ELSE queue[c]]
    /\ skipped' = skipped \cup {c \in clients : Full(c)}

\* A frame for one client, without the lock: sendIdentity, sendError,
\* sendPong and the reply to a seed export.
SendTo(c, frame) ==
    /\ panic' = IF closed[c] THEN "reply" ELSE panic
    /\ queue' = IF closed[c] \/ Full(c) THEN queue ELSE [queue EXCEPT ![c] = Append(@, frame)]
    /\ skipped' = IF Full(c) THEN skipped \cup {c} ELSE skipped

\* handleMeshMessage and the other notifications that reach every client.
HandleMeshMessage ==
    /\ panic = "none" /\ Broadcast(Plain("message"))
    /\ UNCHANGED <<meshVars, clients, closed, ws, reader, writer, view, stopVars>>

-----------------------------------------------------------------------------
(***************************************************************************)
(* The peer list.  OnPeerJoin and OnPeerLeave run under its lock.          *)
(***************************************************************************)
AddPeer(p) ==
    /\ peers' = peers \cup {p}
    /\ IF p \in peers THEN UNCHANGED <<queue, skipped, panic>>
       ELSE Broadcast(Event("peer_join", p))

\* Mutant of RemovePeer: a leave is only reported for a peer not listed.
RemovePeerQuiet(p) ==
    /\ peers' = peers \ {p} /\ heard' = heard \ {p}
    /\ IF p \in peers THEN UNCHANGED <<queue, skipped, panic>>
       ELSE Broadcast(Event("peer_leave", p))

RemovePeer(p) ==
    /\ peers' = peers \ {p} /\ heard' = heard \ {p}
    /\ Broadcast(Event("peer_leave", p))

\* libp2p opens and closes connections and notifies the node afterwards, in
\* the order of one connection but not of two.
OpenConn(p, k) ==
    /\ panic = "none" /\ conn[p][k] = "none"
    /\ conn' = [conn EXCEPT ![p][k] = "opening"]
    /\ crowded' = IF \E j \in Conn : conn[p][j] # "none" THEN crowded \cup {p} ELSE crowded
    /\ UNCHANGED <<peers, heard, clientVars, stopVars, panic>>

CloseConn(p, k) ==
    /\ panic = "none" /\ conn[p][k] = "open"
    /\ conn' = [conn EXCEPT ![p][k] = "closing"]
    /\ UNCHANGED <<peers, heard, crowded, clientVars, stopVars, panic>>

Connected(p, k) ==
    /\ panic = "none" /\ conn[p][k] = "opening"
    /\ conn' = [conn EXCEPT ![p][k] = "open"]
    /\ AddPeer(p)
    /\ UNCHANGED <<heard, crowded, clients, closed, ws, reader, writer, view, stopVars>>

\* Mutant of Disconnected: the notification only takes off a peer heard of.
DisconnectedHeard(p, k) ==
    /\ panic = "none" /\ conn[p][k] = "closing"
    /\ conn' = [conn EXCEPT ![p][k] = "none"]
    /\ IF p \in heard THEN RemovePeer(p) ELSE UNCHANGED <<peers, heard, queue, skipped, panic>>
    /\ crowded' = IF \A j \in Conn \ {k} : conn[p][j] = "none" THEN crowded \ {p} ELSE crowded
    /\ UNCHANGED <<clients, closed, ws, reader, writer, view, stopVars>>

Disconnected(p, k) ==
    /\ panic = "none" /\ conn[p][k] = "closing"
    /\ conn' = [conn EXCEPT ![p][k] = "none"]
    /\ RemovePeer(p)
    /\ crowded' = IF \A j \in Conn \ {k} : conn[p][j] = "none" THEN crowded \ {p} ELSE crowded
    /\ UNCHANGED <<clients, closed, ws, reader, writer, view, stopVars>>

\* HandlePeerFound lists a peer before it dials it; deliverMessage lists the
\* original sender of a message that came over any number of hops.
HearOf(p) ==
    /\ panic = "none" /\ AddPeer(p)
    /\ heard' = heard \cup {p}
    /\ UNCHANGED <<conn, crowded, clients, closed, ws, reader, writer, view, stopVars>>

-----------------------------------------------------------------------------
(***************************************************************************)
(* The life of a client.                                                   *)
(***************************************************************************)
\* handleWS up to the registration; the server accepts until its shutdown.
HandleWS(c) ==
    /\ panic = "none" /\ ws[c] = "none" /\ stop # "shutdown"
    /\ ws' = [ws EXCEPT ![c] = "open"]
    /\ clients' = clients \cup {c}
    /\ reader' = [reader EXCEPT ![c] = "identity"]
    /\ UNCHANGED <<meshVars, queue, closed, writer, view, skipped, stopVars, panic>>

\* handleWS after it: the identity, then the two goroutines.
SendIdentity(c) ==
    /\ panic = "none" /\ reader[c] = "identity" /\ ~closed[c]
    /\ SendTo(c, Plain("identity"))
    /\ reader' = [reader EXCEPT ![c] = "read"]
    /\ writer' = [writer EXCEPT ![c] = "run"]
    /\ UNCHANGED <<meshVars, clients, closed, ws, view, stopVars>>

\* Stop has closed the channel: net/http recovers the panic of its handler.
HandleWSPanics(c) ==
    /\ panic = "none" /\ reader[c] = "identity" /\ closed[c]
    /\ reader' = [reader EXCEPT ![c] = "done"]
    /\ UNCHANGED <<meshVars, clients, queue, closed, ws, writer, view, skipped, stopVars, panic>>

\* readPump: a request that is answered (ping, seed_export, or one that ends
\* in an error frame), and its answer, after as long as the handler takes.
ReadRequest(c) ==
    /\ panic = "none" /\ reader[c] = "read" /\ ws[c] = "open"
    /\ reader' = [reader EXCEPT ![c] = "handle"]
    /\ UNCHANGED <<meshVars, clients, queue, closed, ws, writer, view, skipped, stopVars, panic>>

Reply(c) ==
    /\ panic = "none" /\ reader[c] = "handle"
    /\ SendTo(c, Plain("reply"))
    /\ reader' = [reader EXCEPT ![c] = "read"]
    /\ UNCHANGED <<meshVars, clients, closed, ws, writer, view, stopVars>>

\* The socket is closed, or nothing came within pongWait.
ReadFails(c) ==
    /\ panic = "none" /\ reader[c] = "read" /\ ws[c] \in {"broken", "closed"}
    /\ reader' = [reader EXCEPT ![c] = "exit"]
    /\ UNCHANGED <<meshVars, clients, queue, closed, ws, writer, view, skipped, stopVars, panic>>

\* Mutant of UnregisterClient: readPump only closes the socket.
UnregisterForgotten(c) ==
    /\ panic = "none" /\ reader[c] = "exit"
    /\ reader' = [reader EXCEPT ![c] = "done"]
    /\ ws' = [ws EXCEPT ![c] = "closed"]
    /\ UNCHANGED <<meshVars, clients, queue, closed, writer, view, skipped, stopVars, panic>>

\* unregisterClient: only who removes the client closes the channel.
UnregisterClient(c) ==
    /\ panic = "none" /\ reader[c] = "exit"
    /\ clients' = clients \ {c}
    /\ closed' = [closed EXCEPT ![c] = c \in clients \/ @]
    /\ panic' = IF c \in clients /\ closed[c] THEN "close" ELSE panic
    /\ reader' = [reader EXCEPT ![c] = "done"]
    /\ ws' = [ws EXCEPT ![c] = "closed"]
    /\ UNCHANGED <<meshVars, queue, writer, view, skipped, stopVars>>

\* The app applies a presence event (_upsertPeer).
Apply(shown, frame) ==
    CASE frame.type = "peer_join"  -> [shown EXCEPT ![frame.peer] = "online"]
      [] frame.type = "peer_leave" -> [shown EXCEPT ![frame.peer] = "offline"]
      [] OTHER                     -> shown

\* writePump: a frame gets to the app, or is lost in a broken socket.
WriteFrame(c) ==
    /\ panic = "none" /\ writer[c] = "run" /\ ws[c] \in {"open", "broken"} /\ queue[c] # << >>
    /\ queue' = [queue EXCEPT ![c] = Tail(@)]
    /\ view' = IF ws[c] = "open" THEN [view EXCEPT ![c] = Apply(@, Head(queue[c]))] ELSE view
    /\ UNCHANGED <<meshVars, clients, closed, ws, reader, writer, skipped, stopVars, panic>>

EndWriter(c) ==
    /\ writer' = [writer EXCEPT ![c] = "done"]
    /\ ws' = [ws EXCEPT ![c] = "closed"]

\* Mutant of WriteFails: the writer closes the channel of its client.
WriteFailsCloses(c) ==
    /\ panic = "none" /\ writer[c] = "run" /\ ws[c] \in {"broken", "closed"}
    /\ EndWriter(c)
    /\ closed' = [closed EXCEPT ![c] = TRUE]
    /\ panic' = IF closed[c] THEN "close" ELSE panic
    /\ UNCHANGED <<meshVars, clients, queue, reader, view, skipped, stopVars>>

\* A write or a ping fails: the socket is closed, the reader does the rest.
WriteFails(c) ==
    /\ panic = "none" /\ writer[c] = "run" /\ ws[c] \in {"broken", "closed"}
    /\ EndWriter(c)
    /\ UNCHANGED <<meshVars, clients, queue, closed, reader, view, skipped, stopVars, panic>>

\* Mutant of WriterStops: closeCh is not watched.
WriterStopsLate(c) ==
    /\ panic = "none" /\ writer[c] = "run" /\ closed[c] /\ queue[c] = << >>
    /\ EndWriter(c)
    /\ UNCHANGED <<meshVars, clients, queue, closed, reader, view, skipped, stopVars, panic>>

\* The channel is closed and drained, or the bridge is shutting down.
WriterStops(c) ==
    /\ panic = "none" /\ writer[c] = "run"
    /\ (closed[c] /\ queue[c] = << >>) \/ stop # "no"
    /\ EndWriter(c)
    /\ UNCHANGED <<meshVars, clients, queue, closed, reader, view, skipped, stopVars, panic>>

\* The app, or the way to it, disappears.
Vanish(c) ==
    /\ panic = "none" /\ ws[c] = "open"
    /\ ws' = [ws EXCEPT ![c] = "broken"]
    /\ UNCHANGED <<meshVars, clients, queue, closed, reader, writer, view, skipped, stopVars, panic>>

-----------------------------------------------------------------------------
(***************************************************************************)
(* Stop: closeCh, then all clients under the lock, then the HTTP server.   *)
(* A second call closes closeCh again.                                     *)
(***************************************************************************)
Stop ==
    /\ panic = "none" /\ stops < MaxStop
    /\ stops' = stops + 1
    /\ panic' = IF stop # "no" THEN "stop" ELSE panic
    /\ stop' = "closing"
    /\ UNCHANGED <<meshVars, clientVars>>

CloseClients ==
    /\ panic = "none" /\ stop = "closing"
    /\ stop' = "closed"
    /\ clients' = {}
    /\ closed' = [c \in Client |-> c \in clients \/ closed[c]]
    /\ ws' = [c \in Client |-> IF c \in clients THEN "closed" ELSE ws[c]]
    /\ UNCHANGED <<meshVars, queue, reader, writer, view, skipped, stops, panic>>

Shutdown ==
    /\ panic = "none" /\ stop = "closed"
    /\ stop' = "shutdown"
    /\ UNCHANGED <<meshVars, clientVars, stops, panic>>

-----------------------------------------------------------------------------
Init ==
    /\ conn = [p \in Peer |-> [k \in Conn |-> "none"]]
    /\ peers = {} /\ heard = {} /\ crowded = {}
    /\ clients = {}
    /\ queue = [c \in Client |-> << >>] /\ closed = [c \in Client |-> FALSE]
    /\ ws = [c \in Client |-> "none"]
    /\ reader = [c \in Client |-> "none"] /\ writer = [c \in Client |-> "none"]
    /\ view = [c \in Client |-> [p \in Peer |-> "unknown"]]
    /\ skipped = {}
    /\ stop = "no" /\ stops = 0
    /\ panic = "none"

ReaderStep(c) ==
    SendIdentity(c) \/ HandleWSPanics(c) \/ Reply(c) \/ ReadFails(c) \/ UnregisterClient(c)
WriterStep(c) == WriteFrame(c) \/ WriteFails(c) \/ WriterStops(c)
StopStep      == CloseClients \/ Shutdown

Presence(p) ==
    \/ HearOf(p)
    \/ \E k \in Conn : OpenConn(p, k) \/ CloseConn(p, k) \/ Connected(p, k) \/ Disconnected(p, k)

Next ==
    \/ HandleMeshMessage
    \/ \E p \in Peer : Presence(p)
    \/ \E c \in Client : HandleWS(c) \/ ReadRequest(c) \/ Vanish(c)
                           \/ ReaderStep(c) \/ WriterStep(c)
    \/ Stop \/ StopStep

Spec == Init /\ [][Next]_vars

\* The goroutines of a client and Stop run on; requests, messages and
\* presence events are never owed.  The select of writePump chooses among its
\* ready cases at random, so it does not pass over the shutdown for ever.
FairSpec ==
    /\ Spec
    /\ \A c \in Client : /\ WF_vars(ReaderStep(c)) /\ WF_vars(WriterStep(c))
                          /\ WF_vars(WriterStops(c))
    /\ WF_vars(StopStep)

-----------------------------------------------------------------------------
\* Type invariant: no client's channel ever holds more than its buffer.
TypeOK ==
    /\ conn \in [Peer -> [Conn -> {"none", "opening", "open", "closing"}]]
    /\ peers \subseteq Peer /\ heard \subseteq Peer /\ crowded \subseteq Peer
    /\ clients \subseteq Client /\ skipped \subseteq Client
    /\ queue \in [Client -> Seq(Frame)] /\ \A c \in Client : Len(queue[c]) <= BufSize
    /\ closed \in [Client -> BOOLEAN]
    /\ ws \in [Client -> {"none", "open", "broken", "closed"}]
    /\ reader \in [Client -> {"none", "identity", "read", "handle", "exit", "done"}]
    /\ writer \in [Client -> {"none", "run", "done"}]
    /\ view \in [Client -> [Peer -> {"unknown", "online", "offline"}]]
    /\ stop \in {"no", "closing", "closed", "shutdown"} /\ stops \in 0..MaxStop
    /\ panic \in {"none", "broadcast", "reply", "close", "stop"}

(***************************************************************************)
(* Who may end the process.  A broadcast never meets a closed channel and  *)
(* unregisterClient never closes one a second time, also while Stop closes *)
(* them all: who closes a channel takes its client off the map under the   *)
(* same lock.  A reply, sent without the lock, panics only after Stop, and *)
(* Stop itself only when it is called again.                               *)
(***************************************************************************)
NoPanic ==
    /\ panic \in {"none", "reply", "stop"}
    /\ panic = "reply" => stops > 0
    /\ panic = "stop" => stops > 1

\* The frames in the channel of c that are about p.
About(c, p) ==
    {i \in DOMAIN queue[c] :
        queue[c][i].type \in {"peer_join", "peer_leave"} /\ queue[c][i].peer = p}

\* What c will show of p once it has received all that is in its channel: what
\* the last frame about p says or, when there is none, what it shows now.
WillShow(c, p, status) ==
    \/ About(c, p) = {} /\ view[c][p] = status
    \/ \E i \in About(c, p) : /\ \A j \in About(c, p) : j <= i
                              /\ Apply(view[c], queue[c][i])[p] = status

(***************************************************************************)
(* Presence: an app that was spared no frame shows, once it has caught up, *)
(* every peer it has heard of as the node lists it, however notifications, *)
(* discoveries and messages interleave.                                    *)
(***************************************************************************)
ViewFollows ==
    \A c \in clients \ skipped : ws[c] = "open" =>
        \A p \in Peer : /\ WillShow(c, p, "online") => p \in peers
                        /\ WillShow(c, p, "offline") => p \notin peers

(***************************************************************************)
(* No client is leaked: when the socket is gone, also half open, the       *)
(* client leaves the map, while the process lives.                         *)
(***************************************************************************)
GoneClientsLeave ==
    \A c \in Client : ws[c] \in {"broken", "closed"} ~> c \notin clients \/ panic # "none"

(***************************************************************************)
(* Stop gets rid of every client, the one included that was accepted after *)
(* the clients were closed.                                                *)
(***************************************************************************)
StopDrains == stops > 0 ~> panic # "none" \/ (stop = "shutdown" /\ clients = {})

(***************************************************************************)
(* The peer list is what the connections and the discoveries make it.  A   *)
(* listed peer is connected or was heard of after it was last taken off:   *)
(* nothing stays listed behind its last connection.  And a connected peer  *)
(* is listed as long as its connections come one after the other; once two *)
(* overlap, DisconnectedF of the one takes the peer off although the other *)
(* is open, and routingCandidates passes it over.                          *)
(***************************************************************************)
PeersFollow ==
    \A p \in Peer :
        /\ p \in peers => p \in heard \/ \E k \in Conn : conn[p][k] \in {"open", "closing"}
        /\ p \notin crowded /\ (\E k \in Conn : conn[p][k] = "open") => p \in peers
=============================================================================
