---------------------------- MODULE BridgeProofs ----------------------------
(***************************************************************************)
(* Proofs about Bridge, for any number of peers, connections and clients   *)
(* and any buffer: only a reply after Stop, and a second Stop, can panic;  *)
(* the peer list follows the connections, and the apps' view follows it.   *)
(***************************************************************************)
EXTENDS Bridge, TLAPS

USE DEF meshVars, clientVars, stopVars

-----------------------------------------------------------------------------
(***************************************************************************)
(* Types.  The operators that put a frame into channels first.             *)
(***************************************************************************)
LEMMA BroadcastType ==
    ASSUME TypeOK, NEW frame \in Frame, Broadcast(frame)
    PROVE  /\ queue' \in [Client -> Seq(Frame)] /\ \A c \in Client : Len(queue'[c]) <= BufSize
           /\ skipped' \subseteq Client
           /\ panic' \in {"none", "broadcast", "reply", "close", "stop"}
<1>1. ASSUME NEW c \in Client
      PROVE  /\ queue'[c] = IF c \in clients /\ ~Full(c) THEN Append(queue[c], frame) ELSE queue[c]
             /\ queue'[c] \in Seq(Frame) /\ Len(queue'[c]) <= BufSize
    <2>1. queue[c] \in Seq(Frame) /\ Len(queue[c]) <= BufSize /\ BufSize \in Nat
        BY BridgeAssumption DEF TypeOK
    <2>2. queue'[c] = IF c \in clients /\ ~Full(c) THEN Append(queue[c], frame) ELSE queue[c]
        BY DEF Broadcast
    <2>3. CASE c \in clients /\ ~Full(c)
        BY <2>1, <2>2, <2>3 DEF Full
    <2> QED BY <2>1, <2>2, <2>3
<1>2. queue' \in [Client -> Seq(Frame)]
    BY <1>1 DEF Broadcast
<1> QED BY <1>1, <1>2 DEF Broadcast, TypeOK

\* A frame queued for a client, or skipped, keeps the buffer within BufSize.
LEMMA SendToType ==
    ASSUME TypeOK, NEW c \in Client, NEW frame \in Frame, SendTo(c, frame)
    PROVE  /\ queue' \in [Client -> Seq(Frame)] /\ \A d \in Client : Len(queue'[d]) <= BufSize
           /\ skipped' \subseteq Client
           /\ panic' \in {"none", "broadcast", "reply", "close", "stop"}
<1>1. queue \in [Client -> Seq(Frame)] /\ (\A d \in Client : Len(queue[d]) <= BufSize)
          /\ BufSize \in Nat
    BY BridgeAssumption DEF TypeOK
<1>2. CASE closed[c] \/ Full(c)
    BY <1>1, <1>2 DEF SendTo, TypeOK
<1>3. CASE ~(closed[c] \/ Full(c))
    <2>1. queue' = [queue EXCEPT ![c] = Append(queue[c], frame)]
        BY <1>3 DEF SendTo
    <2>2. Append(queue[c], frame) \in Seq(Frame) /\ Len(Append(queue[c], frame)) <= BufSize
        BY <1>1, <1>3 DEF Full
    <2>3. queue' \in [Client -> Seq(Frame)] /\ \A d \in Client : Len(queue'[d]) <= BufSize
        BY <1>1, <2>1, <2>2
    <2> QED BY <2>3 DEF SendTo, TypeOK
<1> QED BY <1>2, <1>3

\* The frames the bridge makes are frames.
LEMMA FrameTypes ==
    /\ \A p \in Peer : Event("peer_join", p) \in Frame /\ Event("peer_leave", p) \in Frame
    /\ Plain("message") \in Frame /\ Plain("identity") \in Frame /\ Plain("reply") \in Frame
BY DEF Event, Plain, Frame

\* The view an app makes of a frame is a view.
LEMMA ApplyType ==
    ASSUME NEW frame \in Frame, NEW shown \in [Peer -> {"unknown", "online", "offline"}]
    PROVE  Apply(shown, frame) \in [Peer -> {"unknown", "online", "offline"}]
<1>1. CASE frame.type = "peer_join"
    BY <1>1 DEF Apply, Frame
<1>2. CASE frame.type = "peer_leave"
    BY <1>2 DEF Apply, Frame
<1>3. CASE frame.type \notin {"peer_join", "peer_leave"}
    BY <1>3 DEF Apply
<1> QED BY <1>1, <1>2, <1>3

\* Reporting a new peer to all clients keeps the types.
LEMMA AddPeerType ==
    ASSUME TypeOK, NEW p \in Peer, AddPeer(p)
    PROVE  /\ queue' \in [Client -> Seq(Frame)] /\ \A c \in Client : Len(queue'[c]) <= BufSize
           /\ skipped' \subseteq Client /\ peers' \subseteq Peer
           /\ panic' \in {"none", "broadcast", "reply", "close", "stop"}
<1>1. peers' \subseteq Peer
    BY DEF AddPeer, TypeOK
<1>2. CASE p \in peers
    BY <1>1, <1>2 DEF AddPeer, TypeOK
<1>3. CASE p \notin peers
    BY <1>1, <1>3, BroadcastType, FrameTypes DEF AddPeer
<1> QED BY <1>2, <1>3

(***************************************************************************)
(* The type invariant holds; with it, no channel exceeds its buffer.       *)
(***************************************************************************)
LEMMA TypeInit == Init => TypeOK
<1> SUFFICES ASSUME Init
             PROVE  TypeOK
    OBVIOUS
<1>1. << >> \in Seq(Frame) /\ Len(<< >>) = 0
    OBVIOUS
<1>2. queue \in [Client -> Seq(Frame)] /\ \A c \in Client : Len(queue[c]) <= BufSize
    BY <1>1, BridgeAssumption DEF Init
<1>3. stops \in 0..MaxStop
    BY BridgeAssumption DEF Init
<1>4. closed \in [Client -> BOOLEAN]
    BY DEF Init
<1> QED BY <1>2, <1>3, <1>4 DEF Init, TypeOK

\* Connections coming and going keep the types.
LEMMA TypePresence ==
    ASSUME TypeOK, NEW p \in Peer, Presence(p)
    PROVE  TypeOK'
<1>1. CASE HearOf(p)
    BY <1>1, AddPeerType DEF HearOf, TypeOK
<1>2. ASSUME NEW k \in Conn, OpenConn(p, k) \/ CloseConn(p, k)
      PROVE  TypeOK'
    <2>1. conn' \in [Peer -> [Conn -> {"none", "opening", "open", "closing"}]]
              /\ crowded' \subseteq Peer
        <3>1. CASE OpenConn(p, k)
            BY <3>1 DEF OpenConn, TypeOK
        <3>2. CASE CloseConn(p, k)
            BY <3>2 DEF CloseConn, TypeOK
        <3> QED BY <1>2, <3>1, <3>2
    <2> QED BY <1>2, <2>1 DEF OpenConn, CloseConn, TypeOK
<1>3. ASSUME NEW k \in Conn, Connected(p, k)
      PROVE  TypeOK'
    <2>1. conn' \in [Peer -> [Conn -> {"none", "opening", "open", "closing"}]]
        BY <1>3 DEF Connected, TypeOK
    <2> QED BY <1>3, <2>1, AddPeerType DEF Connected, TypeOK
<1>4. ASSUME NEW k \in Conn, Disconnected(p, k)
      PROVE  TypeOK'
    <2>1. conn' \in [Peer -> [Conn -> {"none", "opening", "open", "closing"}]]
        BY <1>4 DEF Disconnected, TypeOK
    <2>2. /\ queue' \in [Client -> Seq(Frame)] /\ \A c \in Client : Len(queue'[c]) <= BufSize
          /\ skipped' \subseteq Client
          /\ panic' \in {"none", "broadcast", "reply", "close", "stop"}
        BY <1>4, BroadcastType, FrameTypes DEF Disconnected, RemovePeer
    <2>3. peers' \subseteq Peer /\ heard' \subseteq Peer /\ crowded' \subseteq Peer
        BY <1>4 DEF Disconnected, RemovePeer, TypeOK
    <2> QED BY <1>4, <2>1, <2>2, <2>3 DEF Disconnected, TypeOK
<1> QED BY <1>1, <1>2, <1>3, <1>4 DEF Presence

\* The steps of a client and of its two pumps keep the types.
LEMMA TypeClient ==
    ASSUME TypeOK, NEW c \in Client,
           HandleWS(c) \/ ReadRequest(c) \/ Vanish(c) \/ ReaderStep(c) \/ WriterStep(c)
    PROVE  TypeOK'
<1>1. CASE HandleWS(c)
    BY <1>1 DEF HandleWS, TypeOK
<1>2. CASE ReadRequest(c) \/ Vanish(c)
    BY <1>2 DEF ReadRequest, Vanish, TypeOK
<1>3. CASE SendIdentity(c)
    <2>1. reader' \in [Client -> {"none", "identity", "read", "handle", "exit", "done"}]
          /\ writer' \in [Client -> {"none", "run", "done"}]
        BY <1>3 DEF SendIdentity, TypeOK
    <2> QED BY <1>3, <2>1, SendToType, FrameTypes DEF SendIdentity, TypeOK
<1>4. CASE Reply(c)
    <2>1. reader' \in [Client -> {"none", "identity", "read", "handle", "exit", "done"}]
        BY <1>4 DEF Reply, TypeOK
    <2> QED BY <1>4, <2>1, SendToType, FrameTypes DEF Reply, TypeOK
<1>5. CASE HandleWSPanics(c) \/ ReadFails(c)
    BY <1>5 DEF HandleWSPanics, ReadFails, TypeOK
<1>6. CASE UnregisterClient(c)
    <2>1. closed' \in [Client -> BOOLEAN]
        BY <1>6 DEF UnregisterClient, TypeOK
    <2> QED BY <1>6, <2>1 DEF UnregisterClient, TypeOK
<1>7. CASE WriteFrame(c)
    <2>1. queue[c] \in Seq(Frame) /\ Len(queue[c]) <= BufSize /\ queue[c] # << >>
              /\ BufSize \in Nat
        BY <1>7, BridgeAssumption DEF WriteFrame, TypeOK
    <2>2. Tail(queue[c]) \in Seq(Frame) /\ Len(Tail(queue[c])) <= BufSize
              /\ Head(queue[c]) \in Frame
        BY <2>1
    <2>3. queue' \in [Client -> Seq(Frame)] /\ \A d \in Client : Len(queue'[d]) <= BufSize
        BY <1>7, <2>2 DEF WriteFrame, TypeOK
    <2>4. view' \in [Client -> [Peer -> {"unknown", "online", "offline"}]]
        <3>1. Apply(view[c], Head(queue[c])) \in [Peer -> {"unknown", "online", "offline"}]
            BY <2>2, ApplyType DEF TypeOK
        <3> QED BY <1>7, <3>1 DEF WriteFrame, TypeOK
    <2> QED BY <1>7, <2>3, <2>4 DEF WriteFrame, TypeOK
<1>8. CASE WriteFails(c) \/ WriterStops(c)
    BY <1>8 DEF WriteFails, WriterStops, EndWriter, TypeOK
<1> QED BY <1>1, <1>2, <1>3, <1>4, <1>5, <1>6, <1>7, <1>8 DEF ReaderStep, WriterStep

\* Every step keeps the types.
LEMMA TypeNext == TypeOK /\ [Next]_vars => TypeOK'
<1> SUFFICES ASSUME TypeOK, [Next]_vars
             PROVE  TypeOK'
    OBVIOUS
<1>1. CASE HandleMeshMessage
    BY <1>1, BroadcastType, FrameTypes DEF HandleMeshMessage, TypeOK
<1>2. CASE Stop
    <2>1. stops' \in 0..MaxStop /\ panic' \in {"none", "broadcast", "reply", "close", "stop"}
        BY <1>2, BridgeAssumption DEF Stop, TypeOK
    <2> QED BY <1>2, <2>1 DEF Stop, TypeOK
<1>3. CASE StopStep
    <2>1. CASE CloseClients
        <3>1. closed' \in [Client -> BOOLEAN]
              /\ ws' \in [Client -> {"none", "open", "broken", "closed"}]
            BY <2>1 DEF CloseClients, TypeOK
        <3> QED BY <2>1, <3>1 DEF CloseClients, TypeOK
    <2>2. CASE Shutdown
        BY <2>2 DEF Shutdown, TypeOK
    <2> QED BY <1>3, <2>1, <2>2 DEF StopStep
<1>4. CASE UNCHANGED vars
    BY <1>4 DEF vars, TypeOK
<1> QED BY <1>1, <1>2, <1>3, <1>4, TypePresence, TypeClient DEF Next

\* Bridge keeps its types: in particular no send buffer, whoever sends into it
\* (broadcast, replies, the identity frame), ever holds more than BufSize frames.
THEOREM BridgeTypeCorrect == Spec => []TypeOK
BY TypeInit, TypeNext, PTL DEF Spec

-----------------------------------------------------------------------------
(***************************************************************************)
(* A client before its connection: nobody has touched it.                  *)
(***************************************************************************)
Untouched(c) ==
    /\ c \notin clients /\ ~closed[c]
    /\ reader[c] = "none" /\ writer[c] = "none"
    /\ queue[c] = << >> /\ view[c] = [p \in Peer |-> "unknown"]

LifeInv == \A c \in Client : ws[c] = "none" => Untouched(c)

\* A broadcast reaches registered clients only.
LEMMA BroadcastOthers ==
    ASSUME NEW frame, Broadcast(frame), NEW c \in Client, c \notin clients
    PROVE  queue'[c] = queue[c]
BY DEF Broadcast

\* A client that has not connected is left alone by every step.
LEMMA LifeNext == TypeOK /\ LifeInv /\ [Next]_vars => LifeInv'
<1> SUFFICES ASSUME TypeOK, LifeInv, [Next]_vars
             PROVE  LifeInv'
    OBVIOUS
<1>2. CASE HandleMeshMessage
    BY <1>2, BroadcastOthers DEF HandleMeshMessage, LifeInv, Untouched
<1>3. ASSUME NEW p \in Peer, Presence(p)
      PROVE  LifeInv'
    <2>1. UNCHANGED <<clients, closed, ws, reader, writer, view>>
        BY <1>3 DEF Presence, HearOf, OpenConn, CloseConn, Connected, Disconnected
    <2>2. \A c \in Client \ clients : queue'[c] = queue[c]
        BY <1>3, BroadcastOthers DEF Presence, HearOf, OpenConn, CloseConn, Connected,
                                     Disconnected, AddPeer, RemovePeer
    <2> QED BY <2>1, <2>2 DEF LifeInv, Untouched
<1>4. ASSUME NEW d \in Client,
             HandleWS(d) \/ ReadRequest(d) \/ Vanish(d) \/ ReaderStep(d) \/ WriterStep(d)
      PROVE  LifeInv'
    <2>1. ws'[d] # "none"
        <3>1. ws[d] = "none" => reader[d] = "none" /\ writer[d] = "none"
            BY DEF LifeInv, Untouched
        <3> QED BY <1>4, <3>1
                DEF HandleWS, ReadRequest, Vanish, ReaderStep, SendIdentity, HandleWSPanics, Reply,
                    ReadFails, UnregisterClient, WriterStep, WriteFrame, WriteFails, WriterStops,
                    EndWriter, TypeOK
    <2>2. ASSUME NEW c \in Client, c # d
          PROVE  /\ ws'[c] = ws[c] /\ (c \in clients' <=> c \in clients)
                 /\ closed'[c] = closed[c] /\ queue'[c] = queue[c] /\ view'[c] = view[c]
                 /\ reader'[c] = reader[c] /\ writer'[c] = writer[c]
        BY <1>4, <2>2
           DEF HandleWS, ReadRequest, Vanish, ReaderStep, SendIdentity, HandleWSPanics, Reply,
               ReadFails, UnregisterClient, WriterStep, WriteFrame, WriteFails, WriterStops,
               EndWriter, SendTo, TypeOK
    <2> QED BY <2>1, <2>2 DEF LifeInv, Untouched
<1>5. CASE Stop \/ Shutdown
    BY <1>5 DEF Stop, Shutdown, LifeInv, Untouched
<1>6. CASE CloseClients
    BY <1>6 DEF CloseClients, LifeInv, Untouched, TypeOK
<1>7. CASE UNCHANGED vars
    BY <1>7 DEF vars, LifeInv, Untouched
<1> QED BY <1>2, <1>3, <1>4, <1>5, <1>6, <1>7 DEF Next, StopStep

\* At the start nobody has connected.
LEMMA LifeInit == Init => LifeInv
BY DEF Init, LifeInv, Untouched

-----------------------------------------------------------------------------
(***************************************************************************)
(* A channel is closed by who takes its client off the map, so that none   *)
(* of the map is closed, with Stop or without.  Before Stop this is the    *)
(* reader of the client, which sends nothing afterwards.                   *)
(***************************************************************************)
PanicInv ==
    /\ NoPanic
    /\ \A c \in clients : ~closed[c]
    /\ stops = 0 => stop = "no" /\ \A c \in Client : closed[c] => reader[c] = "done"

\* A broadcast finds every channel of the map open.
LEMMA BroadcastLives ==
    ASSUME PanicInv, NEW frame, Broadcast(frame)
    PROVE  panic' = panic
BY DEF PanicInv, Broadcast

\* A step that leaves the channels, the readers and Stop alone.
LEMMA PanicKept ==
    ASSUME PanicInv, UNCHANGED <<clients, closed, reader, stopVars, panic>>
    PROVE  PanicInv'
BY DEF PanicInv, NoPanic

\* The steps of a client: none but a reply after Stop meets a closed channel.
LEMMA PanicClient ==
    ASSUME TypeOK, LifeInv, PanicInv, NEW c \in Client,
           HandleWS(c) \/ ReadRequest(c) \/ Vanish(c) \/ ReaderStep(c) \/ WriterStep(c)
    PROVE  PanicInv'
<1>1. CASE HandleWS(c)
    <2>1. ~closed[c] /\ UNCHANGED <<closed, stopVars, panic>> /\ clients' = clients \cup {c}
              /\ reader' = [reader EXCEPT ![c] = "identity"]
        BY <1>1 DEF HandleWS, LifeInv, Untouched
    <2> QED BY <2>1 DEF PanicInv, NoPanic, TypeOK
<1>2. CASE ReadRequest(c) \/ ReadFails(c)
    <2>1. reader[c] # "done" /\ UNCHANGED <<clients, closed, stopVars, panic>>
              /\ \A d \in Client \ {c} : reader'[d] = reader[d]
        BY <1>2 DEF ReadRequest, ReadFails, TypeOK
    <2> QED BY <2>1 DEF PanicInv, NoPanic
<1>3. CASE HandleWSPanics(c)
    <2>1. closed[c] /\ reader[c] # "done" /\ UNCHANGED <<clients, closed, stopVars, panic>>
        BY <1>3 DEF HandleWSPanics
    <2> QED BY <2>1 DEF PanicInv, NoPanic
<1>4. CASE SendIdentity(c) \/ Reply(c)
    <2>1. /\ panic = "none" /\ reader[c] # "done" /\ UNCHANGED <<clients, closed, stopVars>>
          /\ panic' = IF closed[c] THEN "reply" ELSE panic
          /\ \A d \in Client \ {c} : reader'[d] = reader[d]
        BY <1>4 DEF SendIdentity, Reply, SendTo, TypeOK
    <2>2. stops = 0 => ~closed[c]
        BY <2>1 DEF PanicInv
    <2>3. NoPanic'
        BY <2>1, <2>2 DEF NoPanic, TypeOK
    <2> QED BY <2>1, <2>2, <2>3 DEF PanicInv
<1>5. CASE UnregisterClient(c)
    <2>1. /\ panic = "none" /\ UNCHANGED stopVars /\ clients' = clients \ {c}
          /\ panic' = IF c \in clients /\ closed[c] THEN "close" ELSE panic
          /\ reader'[c] = "done"
          /\ \A d \in Client \ {c} : reader'[d] = reader[d] /\ closed'[d] = closed[d]
        BY <1>5 DEF UnregisterClient, TypeOK
    <2>2. panic' = panic
        BY <2>1 DEF PanicInv
    <2> QED BY <2>1, <2>2 DEF PanicInv, NoPanic, TypeOK
<1>6. CASE Vanish(c) \/ WriterStep(c)
    BY <1>6, PanicKept DEF Vanish, WriterStep, WriteFrame, WriteFails, WriterStops
<1> QED BY <1>1, <1>2, <1>3, <1>4, <1>5, <1>6 DEF ReaderStep

\* Every step keeps PanicInv; Stop closes the channels of the clients it takes off.
LEMMA PanicNext == TypeOK /\ LifeInv /\ PanicInv /\ [Next]_vars => PanicInv'
<1> SUFFICES ASSUME TypeOK, LifeInv, PanicInv, [Next]_vars
             PROVE  PanicInv'
    OBVIOUS
<1>1. CASE HandleMeshMessage
    BY <1>1, BroadcastLives, PanicKept DEF HandleMeshMessage
<1>2. ASSUME NEW p \in Peer, Presence(p)
      PROVE  PanicInv'
    <2>1. UNCHANGED <<clients, closed, reader, stopVars>>
        BY <1>2 DEF Presence, HearOf, OpenConn, CloseConn, Connected, Disconnected
    <2>2. panic' = panic
        BY <1>2, BroadcastLives DEF Presence, HearOf, OpenConn, CloseConn, Connected,
                                    Disconnected, AddPeer, RemovePeer
    <2> QED BY <2>1, <2>2, PanicKept
<1>3. CASE Stop
    <2>1. /\ panic = "none" /\ stops' = stops + 1 /\ stops \in Nat
          /\ panic' = IF stop # "no" THEN "stop" ELSE panic
          /\ UNCHANGED <<clients, closed>>
        BY <1>3 DEF Stop, TypeOK
    <2>2. stop # "no" => stops # 0
        BY DEF PanicInv
    <2>3. NoPanic' /\ stops' # 0
        BY <2>1, <2>2 DEF NoPanic
    <2> QED BY <2>1, <2>3 DEF PanicInv
<1>4. CASE StopStep
    <2>1. stop # "no" /\ stops # 0 /\ UNCHANGED <<stops, panic>>
        BY <1>4 DEF StopStep, CloseClients, Shutdown, PanicInv
    <2>2. \A c \in clients' : ~closed'[c]
        BY <1>4 DEF StopStep, CloseClients, Shutdown, PanicInv
    <2> QED BY <2>1, <2>2 DEF PanicInv, NoPanic
<1>5. CASE UNCHANGED vars
    BY <1>5, PanicKept DEF vars
<1> QED BY <1>1, <1>2, <1>3, <1>4, <1>5, PanicClient DEF Next

(***************************************************************************)
(* For any number of clients, and while Stop runs too: no broadcast sends  *)
(* on a closed channel and no channel is closed twice; a reply panics only *)
(* after Stop, and Stop only when it is called again.                      *)
(***************************************************************************)
THEOREM BridgeNoPanic == Spec => []NoPanic
<1>1. Init => PanicInv
    BY DEF Init, PanicInv, NoPanic
<1>2. PanicInv => NoPanic
    BY DEF PanicInv
<1> QED BY <1>1, <1>2, TypeInit, TypeNext, LifeInit, LifeNext, PanicNext, PTL DEF Spec

-----------------------------------------------------------------------------
(***************************************************************************)
(* The peer list.  That an uncrowded peer is listed while it is connected  *)
(* needs to know that it has no second connection, in any state: then the  *)
(* notification that takes it off is about its only one.                   *)
(***************************************************************************)
PeersInv ==
    /\ PeersFollow
    /\ \A p \in Peer \ crowded : \A j, k \in Conn :
           conn[p][j] # "none" /\ conn[p][k] # "none" => j = k

\* Listing a peer, whoever asks for it, and leaving its connections alone.
LEMMA HearPeers ==
    ASSUME TypeOK, PeersInv, NEW p \in Peer, HearOf(p)
    PROVE  PeersInv'
<1>1. UNCHANGED <<conn, crowded>> /\ peers' = peers \cup {p} /\ heard' = heard \cup {p}
    BY DEF HearOf, AddPeer
<1> QED BY <1>1 DEF PeersInv, PeersFollow

\* A connection that comes up while another one is there makes its peer crowded.
LEMMA OpenPeers ==
    ASSUME TypeOK, PeersInv, NEW p \in Peer, NEW k \in Conn, OpenConn(p, k)
    PROVE  PeersInv'
<1>1. /\ UNCHANGED <<peers, heard>> /\ conn[p][k] = "none" /\ conn'[p][k] = "opening"
      /\ \A j \in Conn \ {k} : conn'[p][j] = conn[p][j]
      /\ \A q \in Peer \ {p} : conn'[q] = conn[q]
      /\ crowded' = IF \E j \in Conn : conn[p][j] # "none" THEN crowded \cup {p} ELSE crowded
    BY DEF OpenConn, TypeOK
<1>2. PeersFollow'
    BY <1>1 DEF PeersInv, PeersFollow
<1>3. ASSUME NEW q \in Peer \ crowded', NEW i \in Conn, NEW j \in Conn,
             conn'[q][i] # "none", conn'[q][j] # "none"
      PROVE  i = j
    <2>1. CASE q = p
        BY <1>1, <1>3, <2>1
    <2>2. CASE q # p
        BY <1>1, <1>3, <2>2 DEF PeersInv
    <2> QED BY <2>1, <2>2
<1> QED BY <1>2, <1>3 DEF PeersInv

\* A connection that gets open, or starts to close, stays in its slot.
LEMMA SlotPeers ==
    ASSUME TypeOK, PeersInv, NEW p \in Peer, NEW k \in Conn, Connected(p, k) \/ CloseConn(p, k)
    PROVE  PeersInv'
<1>1. /\ UNCHANGED <<heard, crowded>> /\ conn[p][k] # "none"
      /\ \A j \in Conn \ {k} : conn'[p][j] = conn[p][j]
      /\ \A q \in Peer \ {p} : conn'[q] = conn[q] /\ (q \in peers' <=> q \in peers)
      /\ \/ conn'[p][k] = "open" /\ p \in peers'
         \/ conn[p][k] = "open" /\ conn'[p][k] = "closing" /\ (p \in peers' <=> p \in peers)
    BY DEF Connected, CloseConn, AddPeer, TypeOK
<1>2. ASSUME NEW q \in Peer
      PROVE  /\ q \in peers' => q \in heard' \/ \E j \in Conn : conn'[q][j] \in {"open", "closing"}
             /\ q \notin crowded' /\ (\E j \in Conn : conn'[q][j] = "open") => q \in peers'
    <2>1. CASE q = p
        BY <1>1, <2>1 DEF PeersInv, PeersFollow
    <2>2. CASE q # p
        BY <1>1, <2>2 DEF PeersInv, PeersFollow
    <2> QED BY <2>1, <2>2
<1>3. \A q \in Peer, j \in Conn : conn'[q][j] # "none" => conn[q][j] # "none"
    BY <1>1
<1>4. \A q \in Peer \ crowded' : \A i, j \in Conn :
          conn'[q][i] # "none" /\ conn'[q][j] # "none" => i = j
    BY <1>1, <1>3 DEF PeersInv
<1> QED BY <1>2, <1>4 DEF PeersInv, PeersFollow

\* The notification of a closed connection takes its peer off the list.
LEMMA DisconnectedPeers ==
    ASSUME TypeOK, PeersInv, NEW p \in Peer, NEW k \in Conn, Disconnected(p, k)
    PROVE  PeersInv'
<1>1. /\ peers' = peers \ {p} /\ heard' = heard \ {p}
      /\ conn[p][k] = "closing" /\ conn'[p][k] = "none"
      /\ \A j \in Conn \ {k} : conn'[p][j] = conn[p][j]
      /\ \A q \in Peer \ {p} : conn'[q] = conn[q]
      /\ crowded' = IF \A j \in Conn \ {k} : conn[p][j] = "none" THEN crowded \ {p} ELSE crowded
    BY DEF Disconnected, RemovePeer, TypeOK
<1>2. ASSUME p \notin crowded'
      PROVE  \A j \in Conn : conn'[p][j] = "none"
    <2>1. CASE p \in crowded
        BY <1>1, <1>2, <2>1
    <2>2. CASE p \notin crowded
        BY <1>1, <2>2 DEF PeersInv
    <2> QED BY <2>1, <2>2
<1>3. ASSUME NEW q \in Peer
      PROVE  /\ q \in peers' => q \in heard' \/ \E j \in Conn : conn'[q][j] \in {"open", "closing"}
             /\ q \notin crowded' /\ (\E j \in Conn : conn'[q][j] = "open") => q \in peers'
             /\ q \notin crowded' => \A i, j \in Conn :
                    conn'[q][i] # "none" /\ conn'[q][j] # "none" => i = j
    <2>1. CASE q = p
        BY <1>1, <1>2, <2>1
    <2>2. CASE q # p
        BY <1>1, <2>2 DEF PeersInv, PeersFollow
    <2> QED BY <2>1, <2>2
<1> QED BY <1>3 DEF PeersInv, PeersFollow

\* Every step keeps the list in step with the connections.
LEMMA PeersNext == TypeOK /\ PeersInv /\ [Next]_vars => PeersInv'
<1> SUFFICES ASSUME TypeOK, PeersInv, [Next]_vars
             PROVE  PeersInv'
    OBVIOUS
<1>1. ASSUME UNCHANGED meshVars
      PROVE  PeersInv'
    BY <1>1 DEF PeersInv, PeersFollow
<1>2. ASSUME NEW p \in Peer, Presence(p)
      PROVE  PeersInv'
    BY <1>2, HearPeers, OpenPeers, SlotPeers, DisconnectedPeers DEF Presence
<1>3. CASE HandleMeshMessage \/ Stop \/ StopStep \/ UNCHANGED vars
    BY <1>1, <1>3 DEF HandleMeshMessage, Stop, StopStep, CloseClients, Shutdown, vars
<1>4. ASSUME NEW c \in Client,
             HandleWS(c) \/ ReadRequest(c) \/ Vanish(c) \/ ReaderStep(c) \/ WriterStep(c)
      PROVE  PeersInv'
    BY <1>1, <1>4
       DEF HandleWS, ReadRequest, Vanish, ReaderStep, SendIdentity, HandleWSPanics, Reply,
           ReadFails, UnregisterClient, WriterStep, WriteFrame, WriteFails, WriterStops
<1> QED BY <1>2, <1>3, <1>4 DEF Next

(***************************************************************************)
(* For any number of peers and connections, in whatever order libp2p       *)
(* notifies the node: no peer stays listed behind its last connection      *)
(* unless it was heard of again, and a peer whose connections do not       *)
(* overlap is listed while it is connected.                                *)
(***************************************************************************)
THEOREM BridgePeersFollow == Spec => []PeersFollow
<1>1. Init => PeersInv
    BY DEF Init, PeersInv, PeersFollow
<1>2. PeersInv => PeersFollow
    BY DEF PeersInv
<1> QED BY <1>1, <1>2, TypeInit, TypeNext, PeersNext, PTL DEF Spec

-----------------------------------------------------------------------------
(***************************************************************************)
(* The apps' view.  ViewFollows is inductive too: every change of the list *)
(* puts the frame that reports it behind all others, and delivering the    *)
(* first frame does not change what the app will show in the end.          *)
(***************************************************************************)
IsAbout(frame, p) == frame.type \in {"peer_join", "peer_leave"} /\ frame.peer = p

\* A frame changes the view of the peer it is about, and of no other.
LEMMA ApplyAbout ==
    ASSUME NEW frame \in Frame, NEW p \in Peer,
           NEW shown \in [Peer -> {"unknown", "online", "offline"}]
    PROVE  /\ IsAbout(frame, p) =>
                Apply(shown, frame)[p] = IF frame.type = "peer_join" THEN "online" ELSE "offline"
           /\ ~IsAbout(frame, p) => Apply(shown, frame)[p] = shown[p]
<1>1. CASE frame.type = "peer_join"
    BY <1>1 DEF Apply, Frame, IsAbout
<1>2. CASE frame.type = "peer_leave"
    BY <1>2 DEF Apply, Frame, IsAbout
<1>3. CASE frame.type \notin {"peer_join", "peer_leave"}
    BY <1>3 DEF Apply, IsAbout
<1> QED BY <1>1, <1>2, <1>3

\* Same queue and same view: the app will show the same.
LEMMA SameShow ==
    ASSUME NEW c \in Client, NEW p \in Peer, NEW s,
           queue'[c] = queue[c], view'[c] = view[c], WillShow(c, p, s)'
    PROVE  WillShow(c, p, s)
BY DEF WillShow, About

\* A queued frame decides what will be shown of the peer it is about.
LEMMA AppendShow ==
    ASSUME TypeOK, NEW c \in Client, NEW p \in Peer, NEW s, NEW frame \in Frame,
           queue'[c] = Append(queue[c], frame), view'[c] = view[c], WillShow(c, p, s)'
    PROVE  IF IsAbout(frame, p) THEN s = (IF frame.type = "peer_join" THEN "online" ELSE "offline")
           ELSE WillShow(c, p, s)
<1> DEFINE n == Len(queue[c]) + 1
<1>1. queue[c] \in Seq(Frame) /\ view[c] \in [Peer -> {"unknown", "online", "offline"}]
    BY DEF TypeOK
<1>2. n \in Nat /\ DOMAIN queue[c] = 1..(n - 1) /\ DOMAIN queue'[c] = 1..n /\ queue'[c][n] = frame
          /\ \A i \in 1..(n - 1) : queue'[c][i] = queue[c][i]
    BY <1>1
<1>3. About(c, p) = {i \in 1..(n - 1) : IsAbout(queue[c][i], p)}
      /\ About(c, p)' = {i \in 1..n : IsAbout(queue'[c][i], p)}
    BY <1>2 DEF About, IsAbout
<1> HIDE DEF n
<1>4. CASE IsAbout(frame, p)
    <2>1. n \in About(c, p)' /\ \A i \in About(c, p)' : i <= n
        BY <1>2, <1>3, <1>4
    <2>2. PICK i \in About(c, p)' : /\ \A j \in About(c, p)' : j <= i
                                    /\ Apply(view'[c], queue'[c][i])[p] = s
        BY <2>1 DEF WillShow
    <2>3. i = n
        <3>1. i \in 1..n
            BY <1>3
        <3>2. n <= i /\ i <= n
            BY <2>1, <2>2
        <3> QED BY <1>2, <3>1, <3>2
    <2> QED BY <1>1, <1>2, <1>4, <2>2, <2>3, ApplyAbout
<1>5. CASE ~IsAbout(frame, p)
    <2>1. About(c, p)' = About(c, p)
        BY <1>2, <1>3, <1>5
    <2>2. \A i \in About(c, p) : queue'[c][i] = queue[c][i]
        BY <1>2, <1>3
    <2> QED BY <1>5, <2>1, <2>2 DEF WillShow
<1> QED BY <1>4, <1>5

\* Handing the first frame to the app does not change what it will show.
LEMMA TailShow ==
    ASSUME TypeOK, NEW c \in Client, NEW p \in Peer, NEW s, queue[c] # << >>,
           queue'[c] = Tail(queue[c]), view'[c] = Apply(view[c], Head(queue[c])),
           WillShow(c, p, s)'
    PROVE  WillShow(c, p, s)
<1> DEFINE n == Len(queue[c])
<1>1. queue[c] \in Seq(Frame) /\ view[c] \in [Peer -> {"unknown", "online", "offline"}]
    BY DEF TypeOK
<1>2. n \in Nat \ {0} /\ DOMAIN queue[c] = 1..n /\ DOMAIN queue'[c] = 1..(n - 1)
          /\ Head(queue[c]) = queue[c][1]
          /\ \A i \in 1..(n - 1) : queue'[c][i] = queue[c][i + 1]
    BY <1>1
<1>3. \A i \in 1..n : queue[c][i] \in Frame
    BY <1>1
<1>4. About(c, p) = {i \in 1..n : IsAbout(queue[c][i], p)}
      /\ About(c, p)' = {i \in 1..(n - 1) : IsAbout(queue[c][i + 1], p)}
    BY <1>2 DEF About, IsAbout
<1> HIDE DEF n
<1>5. \A i \in 1..(n - 1) : i + 1 \in About(c, p) <=> i \in About(c, p)'
    BY <1>2, <1>4
<1>6. view'[c] \in [Peer -> {"unknown", "online", "offline"}]
    BY <1>1, <1>2, <1>3, ApplyType
<1>7. CASE About(c, p)' = {}
    <2>1. view'[c][p] = s
        BY <1>7 DEF WillShow
    <2>2. \A i \in About(c, p) : i = 1
        <3> SUFFICES ASSUME NEW i \in About(c, p), i # 1
                     PROVE  FALSE
            OBVIOUS
        <3>1. i - 1 \in 1..(n - 1) /\ (i - 1) + 1 = i
            BY <1>2, <1>4
        <3> QED BY <1>5, <1>7, <3>1
    <2>3. CASE IsAbout(queue[c][1], p)
        <3>1. 1 \in About(c, p) /\ \A j \in About(c, p) : j <= 1
            BY <1>2, <1>4, <2>2, <2>3
        <3> QED BY <1>2, <2>1, <3>1 DEF WillShow
    <2>4. CASE ~IsAbout(queue[c][1], p)
        <3>1. About(c, p) = {}
            BY <1>4, <2>2, <2>4
        <3>2. view[c][p] = s
            BY <1>1, <1>2, <1>3, <2>1, <2>4, ApplyAbout
        <3> QED BY <3>1, <3>2 DEF WillShow
    <2> QED BY <2>3, <2>4
<1>8. CASE About(c, p)' # {}
    <2>1. PICK i \in About(c, p)' : /\ \A j \in About(c, p)' : j <= i
                                    /\ Apply(view'[c], queue'[c][i])[p] = s
        BY <1>8 DEF WillShow
    <2>2. i \in 1..(n - 1) /\ i + 1 \in About(c, p) /\ queue'[c][i] = queue[c][i + 1]
          /\ queue[c][i + 1] \in Frame /\ IsAbout(queue[c][i + 1], p)
        BY <1>2, <1>3, <1>4
    <2>3. \A j \in About(c, p) : j <= i + 1
        <3> SUFFICES ASSUME NEW j \in About(c, p), j # 1
                     PROVE  j <= i + 1
            BY <1>4, <2>2
        <3>1. j - 1 \in 1..(n - 1) /\ (j - 1) + 1 = j
            BY <1>2, <1>4
        <3>2. j - 1 <= i
            BY <1>5, <2>1, <3>1
        <3> QED BY <2>2, <3>1, <3>2
    <2>4. Apply(view[c], queue[c][i + 1])[p] = s
        <3> DEFINE f == queue[c][i + 1]
        <3>1. Apply(view'[c], f)[p] = (IF f.type = "peer_join" THEN "online" ELSE "offline")
            BY <1>6, <2>2, ApplyAbout
        <3>2. Apply(view[c], f)[p] = (IF f.type = "peer_join" THEN "online" ELSE "offline")
            BY <1>1, <2>2, ApplyAbout
        <3> QED BY <2>1, <2>2, <3>1, <3>2
    <2> QED BY <2>2, <2>3, <2>4 DEF WillShow
<1> QED BY <1>7, <1>8

\* A broadcast reaches every client that is not skipped.
LEMMA BroadcastShow ==
    ASSUME TypeOK, NEW frame \in Frame, Broadcast(frame), UNCHANGED view,
           NEW c \in clients \ skipped', NEW p \in Peer, NEW s, WillShow(c, p, s)'
    PROVE  IF IsAbout(frame, p) THEN s = (IF frame.type = "peer_join" THEN "online" ELSE "offline")
           ELSE WillShow(c, p, s)
<1>1. c \in Client /\ ~Full(c)
    BY DEF Broadcast, TypeOK
<1>2. queue'[c] = Append(queue[c], frame)
    BY <1>1 DEF Broadcast
<1> QED BY <1>1, <1>2, AppendShow

\* The two changes of the list keep the view of every app in step.
LEMMA AddPeerView ==
    ASSUME TypeOK, ViewFollows, NEW q \in Peer, AddPeer(q), UNCHANGED <<clients, ws, view>>
    PROVE  ViewFollows'
<1> SUFFICES ASSUME NEW c \in clients \ skipped', ws[c] = "open", NEW p \in Peer
             PROVE  /\ WillShow(c, p, "online")' => p \in peers'
                    /\ WillShow(c, p, "offline")' => p \notin peers'
    BY DEF ViewFollows
<1>1. c \in Client /\ c \notin skipped
    BY DEF AddPeer, Broadcast, TypeOK
<1>2. /\ WillShow(c, p, "online") => p \in peers
      /\ WillShow(c, p, "offline") => p \notin peers
    BY <1>1 DEF ViewFollows
<1>3. CASE q \in peers
    BY <1>1, <1>2, <1>3, SameShow DEF AddPeer
<1>4. CASE q \notin peers
    <2> DEFINE f == Event("peer_join", q)
    <2>1. f \in Frame /\ f.type = "peer_join" /\ (IsAbout(f, p) <=> p = q)
        BY FrameTypes DEF Event, IsAbout
    <2>2. Broadcast(f) /\ peers' = peers \cup {q}
        BY <1>4 DEF AddPeer
    <2> HIDE DEF f
    <2> QED BY <1>2, <2>1, <2>2, BroadcastShow
<1> QED BY <1>3, <1>4

\* The report of a lost peer keeps ViewFollows.
LEMMA RemovePeerView ==
    ASSUME TypeOK, ViewFollows, NEW q \in Peer, RemovePeer(q), UNCHANGED <<clients, ws, view>>
    PROVE  ViewFollows'
<1> SUFFICES ASSUME NEW c \in clients \ skipped', ws[c] = "open", NEW p \in Peer
             PROVE  /\ WillShow(c, p, "online")' => p \in peers'
                    /\ WillShow(c, p, "offline")' => p \notin peers'
    BY DEF ViewFollows
<1>1. c \in Client /\ c \notin skipped
    BY DEF RemovePeer, Broadcast, TypeOK
<1>2. /\ WillShow(c, p, "online") => p \in peers
      /\ WillShow(c, p, "offline") => p \notin peers
    BY <1>1 DEF ViewFollows
<1> DEFINE f == Event("peer_leave", q)
<1>3. f \in Frame /\ f.type = "peer_leave" /\ (IsAbout(f, p) <=> p = q)
    BY FrameTypes DEF Event, IsAbout
<1>4. Broadcast(f) /\ peers' = peers \ {q}
    BY DEF RemovePeer
<1> HIDE DEF f
<1> QED BY <1>2, <1>3, <1>4, BroadcastShow

\* Frames that are not about peers keep ViewFollows.
LEMMA SendToView ==
    ASSUME TypeOK, ViewFollows, NEW d \in Client, NEW f \in Frame,
           f.type \notin {"peer_join", "peer_leave"}, SendTo(d, f),
           UNCHANGED <<peers, clients, ws, view>>
    PROVE  ViewFollows'
<1> SUFFICES ASSUME NEW c \in clients \ skipped', ws[c] = "open", NEW p \in Peer, NEW s,
                    WillShow(c, p, s)'
             PROVE  c \notin skipped /\ WillShow(c, p, s)
    BY DEF ViewFollows
<1>1. c \in Client /\ c \notin skipped
    BY DEF SendTo, TypeOK
<1>2. CASE queue'[c] = queue[c]
    BY <1>1, <1>2, SameShow
<1>3. CASE queue'[c] # queue[c]
    <2>1. queue'[c] = Append(queue[c], f)
        BY <1>1, <1>3 DEF SendTo, TypeOK
    <2> QED BY <1>1, <2>1, AppendShow DEF IsAbout
<1> QED BY <1>2, <1>3

\* Every step keeps ViewFollows.
LEMMA ViewNext == TypeOK /\ LifeInv /\ ViewFollows /\ [Next]_vars => ViewFollows'
<1> SUFFICES ASSUME TypeOK, LifeInv, ViewFollows, [Next]_vars
             PROVE  ViewFollows'
    OBVIOUS
<1>1. ASSUME UNCHANGED <<queue, view, peers, skipped>>, clients' \subseteq clients,
             \A c \in clients' : ws'[c] = "open" => ws[c] = "open"
      PROVE  ViewFollows'
    <2> SUFFICES ASSUME NEW c \in clients' \ skipped, ws'[c] = "open", NEW p \in Peer
                 PROVE  /\ WillShow(c, p, "online")' => p \in peers
                        /\ WillShow(c, p, "offline")' => p \notin peers
        BY <1>1 DEF ViewFollows
    <2>1. c \in Client /\ c \in clients \ skipped /\ ws[c] = "open"
        BY <1>1 DEF TypeOK
    <2> QED BY <1>1, <2>1, SameShow DEF ViewFollows
<1>2. CASE HandleMeshMessage
    <2> SUFFICES ASSUME NEW c \in clients \ skipped', ws[c] = "open", NEW p \in Peer, NEW s,
                        WillShow(c, p, s)'
                 PROVE  c \notin skipped /\ WillShow(c, p, s)
        BY <1>2 DEF HandleMeshMessage, ViewFollows
    <2>1. Plain("message") \in Frame /\ ~IsAbout(Plain("message"), p)
        BY FrameTypes DEF Plain, IsAbout
    <2>2. Broadcast(Plain("message")) /\ UNCHANGED view
        BY <1>2 DEF HandleMeshMessage
    <2>3. WillShow(c, p, s)
        BY <2>1, <2>2, BroadcastShow
    <2> QED BY <2>2, <2>3 DEF Broadcast
<1>3. ASSUME NEW p \in Peer, Presence(p)
      PROVE  ViewFollows'
    <2>1. CASE HearOf(p)
        BY <2>1, AddPeerView DEF HearOf
    <2>2. ASSUME NEW k \in Conn, OpenConn(p, k) \/ CloseConn(p, k)
          PROVE  ViewFollows'
        BY <1>1, <2>2 DEF OpenConn, CloseConn
    <2>3. ASSUME NEW k \in Conn, Connected(p, k)
          PROVE  ViewFollows'
        BY <2>3, AddPeerView DEF Connected
    <2>4. ASSUME NEW k \in Conn, Disconnected(p, k)
          PROVE  ViewFollows'
        BY <2>4, RemovePeerView DEF Disconnected
    <2> QED BY <1>3, <2>1, <2>2, <2>3, <2>4 DEF Presence
<1>4. ASSUME NEW d \in Client, HandleWS(d)
      PROVE  ViewFollows'
    <2> SUFFICES ASSUME NEW c \in clients' \ skipped, ws'[c] = "open", NEW p \in Peer
                 PROVE  /\ WillShow(c, p, "online")' => p \in peers
                        /\ WillShow(c, p, "offline")' => p \notin peers
        BY <1>4 DEF HandleWS, ViewFollows
    <2>1. c \in Client /\ UNCHANGED <<queue, view>> /\ clients' = clients \cup {d}
        BY <1>4 DEF HandleWS, TypeOK
    <2>2. CASE c = d
        <3>1. queue'[d] = << >> /\ view'[d] = [q \in Peer |-> "unknown"]
            BY <1>4 DEF HandleWS, LifeInv, Untouched
        <3>2. About(d, p)' = {}
            BY <3>1 DEF About
        <3> QED BY <2>2, <3>1, <3>2 DEF WillShow
    <2>3. CASE c # d
        <3>1. c \in clients \ skipped /\ ws[c] = "open"
            BY <1>4, <2>1, <2>3 DEF HandleWS, TypeOK
        <3> QED BY <2>1, <3>1, SameShow DEF ViewFollows
    <2> QED BY <2>2, <2>3
<1>5. ASSUME NEW d \in Client, ReadRequest(d) \/ HandleWSPanics(d) \/ ReadFails(d)
      PROVE  ViewFollows'
    BY <1>1, <1>5 DEF ReadRequest, HandleWSPanics, ReadFails
<1>6. ASSUME NEW d \in Client, SendIdentity(d) \/ Reply(d)
      PROVE  ViewFollows'
    <2>1. Plain("identity").type = "identity" /\ Plain("reply").type = "reply"
        BY DEF Plain
    <2> QED BY <1>6, <2>1, SendToView, FrameTypes DEF SendIdentity, Reply
<1>7. ASSUME NEW d \in Client, Vanish(d) \/ UnregisterClient(d) \/ WriteFails(d) \/ WriterStops(d)
      PROVE  ViewFollows'
    <2>1. UNCHANGED <<queue, view, peers, skipped>> /\ clients' \subseteq clients
        BY <1>7 DEF Vanish, UnregisterClient, WriteFails, WriterStops
    <2>2. \A c \in clients' : ws'[c] = "open" => ws[c] = "open"
        BY <1>7 DEF Vanish, UnregisterClient, WriteFails, WriterStops, EndWriter, TypeOK
    <2> QED BY <1>1, <2>1, <2>2
<1>8. ASSUME NEW d \in Client, WriteFrame(d)
      PROVE  ViewFollows'
    <2> SUFFICES ASSUME NEW c \in clients \ skipped, ws[c] = "open", NEW p \in Peer, NEW s,
                        WillShow(c, p, s)'
                 PROVE  WillShow(c, p, s)
        BY <1>8 DEF WriteFrame, ViewFollows
    <2>1. c \in Client
        BY DEF TypeOK
    <2>2. CASE c = d
        BY <1>8, <2>1, <2>2, TailShow DEF WriteFrame, TypeOK
    <2>3. CASE c # d
        BY <1>8, <2>1, <2>3, SameShow DEF WriteFrame, TypeOK
    <2> QED BY <2>2, <2>3
<1>9. CASE Stop \/ Shutdown \/ UNCHANGED vars
    BY <1>1, <1>9 DEF Stop, Shutdown, vars
<1>10. CASE CloseClients
    BY <1>1, <1>10 DEF CloseClients
<1> QED BY <1>2, <1>3, <1>4, <1>5, <1>6, <1>7, <1>8, <1>9, <1>10
        DEF Next, ReaderStep, WriterStep, StopStep

(***************************************************************************)
(* An app that was spared no frame shows, once it has caught up, every     *)
(* peer it has heard of as the node lists it, for any number of apps and   *)
(* peers and however notifications, discoveries and messages interleave.   *)
(***************************************************************************)
THEOREM BridgeViewFollows == Spec => []ViewFollows
<1>1. Init => ViewFollows
    BY DEF Init, ViewFollows
<1> QED BY <1>1, TypeInit, TypeNext, LifeInit, LifeNext, ViewNext, PTL DEF Spec
=============================================================================
