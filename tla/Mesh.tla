-------------------------------- MODULE Mesh --------------------------------
(***************************************************************************)
(* The message layer of a Ripple mesh (pkg/mesh/mesh.go): every node sends *)
(* through SendMessage, receives over direct streams and over the          *)
(* GossipSub topic, deduplicates, relays, hands the message to the         *)
(* application and acknowledges what is addressed to it.                   *)
(*                                                                         *)
(* deliverMessage runs concurrently, once per incoming stream and once at  *)
(* a time for the topic subscription, so it is four steps here: Accept     *)
(* (the atomic check-and-set of `seen', up to addPeer), Relay, Deliver     *)
(* (the OnMessage callback) and Acknowledge.  Every other action is one    *)
(* critical section of the code.                                           *)
(***************************************************************************)
EXTENDS Routing

CONSTANTS
    Node,           \* peer identities
    NoNode,         \* the empty recipient: a broadcast
    Msg,            \* the messages the applications originate
    Origin,         \* Origin[m]: sender, recipient, type and initial TTL of m
    SprayBudget,    \* SprayBudget[n]: the budget L of n, 0 when n floods
    AckTTL,         \* TTL of an automatic acknowledgment
    InitLink,       \* the connections at the start
    Forgetful,      \* bound: the nodes that reset or restart
    MaxWindow,      \* bound: dedup resets and restarts of one node
    MaxChange       \* bound: connections made or lost

Type == {"chat", "file", "sos", "key_exchange"}

ASSUME NodeAssumption == Node \subseteq Nat /\ IsFiniteSet(Node) /\ NoNode \notin Node

ASSUME OriginAssumption ==
    Origin \in [Msg -> [sender : Node, recipient : Node \cup {NoNode},
                        type : Type, ttl : Nat]]

ASSUME BoundAssumption ==
    /\ SprayBudget \in [Node -> Nat]
    /\ AckTTL \in Nat /\ MaxWindow \in Nat /\ MaxChange \in Nat
    /\ InitLink \subseteq SUBSET Node /\ Forgetful \subseteq Node

VARIABLES
    link,           \* the open connections, as pairs of nodes
    peers,          \* Node.peers: whom a node lists as a peer
    seen,           \* Node.seen: message IDs of the current dedup window
    sprayed,        \* Node.sprayed: <<message ID, peer>> handed a copy
    encounters,     \* Node.encounters: peers with a predictability
    cleaning,       \* between the two resets of StartSeenCleanup
    streams,        \* copies in flight over direct streams
    gossip,         \* publications the GossipSub router is spreading
    handlers,       \* running deliverMessage calls
    outbox,         \* relays the forwardMessage goroutine has to publish
    sent,           \* messages the applications have handed to SendMessage
    window,         \* history: dedup windows a node has left
    appCount,       \* history: OnMessage calls per node and message ID
    change          \* connections made or lost so far

nodeVars == <<peers, seen, sprayed, encounters, cleaning>>
netVars  == <<streams, gossip>>
workVars == <<handlers, outbox>>
histVars == <<sent, window, appCount>>
linkVars == <<link, change>>
vars     == <<linkVars, nodeVars, netVars, workVars, histVars>>

-----------------------------------------------------------------------------
(***************************************************************************)
(* Messages.  An ID is <<m, 0>> for message m itself and <<m, w + 1>> for  *)
(* the acknowledgment its recipient made in its window w: newID draws a    *)
(* fresh ID for each.  Sender, recipient and type never change on the way, *)
(* so they are read off the ID and a copy carries only what does change.   *)
(***************************************************************************)
Id       == Msg \X (0 .. MaxWindow + 1)
IsAck(i) == i[2] > 0

Sender(i)    == IF IsAck(i) THEN Origin[i[1]].recipient ELSE Origin[i[1]].sender
Recipient(i) == IF IsAck(i) THEN Origin[i[1]].sender ELSE Origin[i[1]].recipient
InitTTL(i)   == IF IsAck(i) THEN AckTTL ELSE Origin[i[1]].ttl

\* Mutants of WantsAck: every node acknowledges; chats are not acknowledged.
WantsAckAnyone(n, i) ==
    Sender(i) # n /\ ~IsAck(i) /\ Origin[i[1]].type \in {"chat", "file", "sos"}
WantsAckNoChat(n, i) ==
    Recipient(i) = n /\ Sender(i) # n /\ ~IsAck(i) /\ Origin[i[1]].type \in {"file", "sos"}

\* deliverMessage acknowledges chat, file and sos messages addressed to us.
WantsAck(n, i) ==
    /\ Recipient(i) = n /\ Sender(i) # n
    /\ ~IsAck(i) /\ Origin[i[1]].type \in {"chat", "file", "sos"}

NewMessage(i) == [id |-> i, ttl |-> InitTTL(i), hop |-> 0, copies |-> 0]

Copy    == [id : Id, ttl : Nat, hop : Nat, copies : Nat]
Handler == [node : Node, msg : Copy, from : Node, kind : {"stream", "pubsub"},
            stage : {"relay", "deliver", "ack"}, win : 0 .. MaxWindow]

Linked(a, b) == a # b /\ {a, b} \in link

-----------------------------------------------------------------------------
(***************************************************************************)
(* The node's own steps towards the network.                               *)
(***************************************************************************)

\* Publish: hand the message to the GossipSub router (external), which
\* spreads it to the subscribers it can reach, this node included.
Publish(n, msg) ==
    gossip' = gossip \cup {[msg |-> msg, by |-> n, reached |-> {}, win |-> window[n]]}

\* routingCandidates: the listed peers, without ourselves and the peer the
\* message arrived from.
RoutingCandidates(n, from) == peers[n] \ {n, from}

\* The peers routeToPeers sprays a new copy to.
Targets(n, msg, from) ==
    SprayTargets(RoutingCandidates(n, from), Recipient(msg.id),
                 {p \in Node : <<msg.id, p>> \in sprayed[n]}, msg.copies, SprayBudget[n])

\* routeToPeers: every target and, if it is a candidate, the destination is
\* entered in the ledger and sent a copy; a copy only leaves over an open
\* connection, and the error of a failed send is ignored.
RouteToPeers(n, msg, from) ==
    LET fresh == Targets(n, msg, from)
        out   == fresh \cup ({Recipient(msg.id)} \cap RoutingCandidates(n, from))
    IN  /\ sprayed' = [sprayed EXCEPT ![n] = @ \cup {<<msg.id, p>> : p \in out}]
        /\ streams' = streams \cup
             {[from |-> n, to |-> p,
               msg |-> [msg EXCEPT !.copies = CopiesOnWire(p, @, fresh)]] :
                   p \in {q \in out : Linked(n, q)}}

\* SendMessage: route under a budget; otherwise a direct stream to the
\* recipient, falling back to the topic; broadcasts go to the topic.
SendMessage(n, msg) ==
    LET r == Recipient(msg.id)
    IN  \/ /\ r # NoNode /\ SprayBudget[n] > 0
           /\ RouteToPeers(n, [msg EXCEPT !.copies = IF @ < 1 THEN 1 ELSE @], NoNode)
           /\ UNCHANGED gossip
        \/ /\ r # NoNode /\ SprayBudget[n] = 0 /\ Linked(n, r)
           /\ streams' = streams \cup {[from |-> n, to |-> r, msg |-> msg]}
           /\ UNCHANGED <<gossip, sprayed>>
        \/ /\ r = NoNode \/ (SprayBudget[n] = 0 /\ ~Linked(n, r))
           /\ Publish(n, msg)
           /\ UNCHANGED <<streams, sprayed>>

\* The application originates m.
Send(m) ==
    /\ m \notin sent
    /\ sent' = sent \cup {m}
    /\ SendMessage(Origin[m].sender, NewMessage(<<m, 0>>))
    /\ UNCHANGED <<linkVars, peers, seen, encounters, cleaning, workVars, window, appCount>>

-----------------------------------------------------------------------------
\* Mutant of IsDuplicate: the check is lost.
NeverDuplicate(n, msg) == FALSE

\* The dedup check of deliverMessage.
IsDuplicate(n, msg) == msg.id \in seen[n]

(***************************************************************************)
(* deliverMessage, first part: dedup, recordEncounter, addPeer(sender).    *)
(* `known' is what the caller has already added to the peers of n.         *)
(***************************************************************************)
Accept(n, msg, from, kind, known) ==
    IF IsDuplicate(n, msg)
    THEN /\ peers' = [peers EXCEPT ![n] = @ \cup known]
         /\ UNCHANGED <<seen, encounters, handlers>>
    ELSE /\ seen' = [seen EXCEPT ![n] = @ \cup {msg.id}]
         /\ encounters' = [encounters EXCEPT ![n] = @ \cup {from}]
         /\ peers' = [peers EXCEPT ![n] = @ \cup known \cup ({Sender(msg.id)} \ {n})]
         /\ handlers' = handlers \cup
              {[node |-> n, msg |-> msg, from |-> from, kind |-> kind,
                stage |-> "relay", win |-> window[n]]}

\* handleStream: the remote end is a peer, whatever the stream carries.
HandleStream(s) ==
    /\ Linked(s.from, s.to)
    /\ streams' = streams \ {s}
    /\ Accept(s.to, s.msg, s.from, "stream", {s.from})
    /\ UNCHANGED <<linkVars, sprayed, cleaning, gossip, outbox, histVars>>

\* A stream whose connection is gone is lost: the read fails.
LoseStream(s) ==
    /\ ~Linked(s.from, s.to)
    /\ streams' = streams \ {s}
    /\ UNCHANGED <<linkVars, nodeVars, gossip, workVars, histVars>>

\* handlePubSub takes one message of the topic at a time; the router hands a
\* publication to every subscriber once, and to its publisher too.
HandlePubSub(g, n) ==
    /\ n \notin g.reached
    /\ \A h \in handlers : ~(h.node = n /\ h.kind = "pubsub")
    /\ \E via \in Node :
         /\ \/ via = n /\ n = g.by
            \/ n # g.by /\ via \in g.reached \cup {g.by} /\ Linked(via, n)
         /\ Accept(n, g.msg, via, "pubsub", {})
    /\ gossip' = (gossip \ {g}) \cup {[g EXCEPT !.reached = @ \cup {n}]}
    /\ UNCHANGED <<linkVars, sprayed, cleaning, streams, outbox, histVars>>

\* The router forgets a publication nobody is left to receive.
ForgetGossip(g) ==
    /\ g.by \in g.reached
    /\ \A v \in g.reached, n \in Node \ g.reached : ~Linked(v, n)
    /\ gossip' = gossip \ {g}
    /\ UNCHANGED <<linkVars, nodeVars, streams, workVars, histVars>>

\* Mutant of MayRelay: a message whose TTL is spent is relayed.
MayRelayForever(n, msg) == Sender(msg.id) # n

\* The condition under which deliverMessage relays.
MayRelay(n, msg) == msg.ttl > 0 /\ Sender(msg.id) # n

\* Second part: relay with one hop less while the TTL lasts, but never a
\* message of our own.  A flooding node leaves the publication to a goroutine.
Relay(h) ==
    LET n     == h.node
        hop   == DecrementTTL(h.msg)
        relay == MayRelay(n, h.msg)
        route == SprayBudget[n] > 0 /\ Recipient(h.msg.id) # NoNode
        Go(m) == handlers' = (handlers \ {h}) \cup
                               {[h EXCEPT !.stage = "deliver", !.msg = m]}
    IN  /\ h.stage = "relay"
        /\ \/ /\ relay /\ route
              /\ RouteToPeers(n, hop, h.from)
              /\ Go([hop EXCEPT !.copies = @ + Cardinality(Targets(n, hop, h.from))])
              /\ UNCHANGED outbox
           \/ /\ relay /\ ~route
              /\ outbox' = outbox \cup {[node |-> n, msg |-> hop, win |-> h.win]}
              /\ Go(hop)
              /\ UNCHANGED <<streams, sprayed>>
           \/ /\ ~relay
              /\ Go(h.msg)
              /\ UNCHANGED <<streams, sprayed, outbox>>
        /\ UNCHANGED <<linkVars, peers, seen, encounters, cleaning, gossip, histVars>>

\* The goroutine of forwardMessage.
PublishRelay(o) ==
    /\ outbox' = outbox \ {o}
    /\ Publish(o.node, o.msg)
    /\ UNCHANGED <<linkVars, nodeVars, streams, handlers, histVars>>

\* Third part: OnMessage.
Deliver(h) ==
    /\ h.stage = "deliver"
    /\ appCount' = [appCount EXCEPT ![h.node][h.msg.id] = @ + 1]
    /\ handlers' = (handlers \ {h}) \cup
         (IF WantsAck(h.node, h.msg.id) THEN {[h EXCEPT !.stage = "ack"]} ELSE {})
    /\ UNCHANGED <<linkVars, nodeVars, netVars, outbox, sent, window>>

\* Fourth part: the automatic acknowledgment to the original sender.
Acknowledge(h) ==
    /\ h.stage = "ack"
    /\ handlers' = handlers \ {h}
    /\ SendMessage(h.node, NewMessage(<<h.msg.id[1], h.win + 1>>))
    /\ UNCHANGED <<linkVars, peers, seen, encounters, cleaning, outbox, histVars>>

-----------------------------------------------------------------------------
(***************************************************************************)
(* StartSeenCleanup: the two maps are reset under their own locks, one     *)
(* after the other.                                                        *)
(***************************************************************************)
ResetSeen(n) ==
    /\ ~cleaning[n] /\ window[n] < MaxWindow
    /\ seen' = [seen EXCEPT ![n] = {}]
    /\ window' = [window EXCEPT ![n] = @ + 1]
    /\ cleaning' = [cleaning EXCEPT ![n] = TRUE]
    /\ UNCHANGED <<linkVars, peers, sprayed, encounters, netVars, workVars, sent, appCount>>

ResetSprayed(n) ==
    /\ cleaning[n]
    /\ sprayed' = [sprayed EXCEPT ![n] = {}]
    /\ cleaning' = [cleaning EXCEPT ![n] = FALSE]
    /\ UNCHANGED <<linkVars, peers, seen, encounters, netVars, workVars, histVars>>

(***************************************************************************)
(* Connections: the notifiee calls addPeer and removePeer at both ends.    *)
(***************************************************************************)
Connect(a, b) ==
    /\ a # b /\ ~Linked(a, b) /\ change < MaxChange
    /\ change' = change + 1
    /\ link' = link \cup {{a, b}}
    /\ peers' = [peers EXCEPT ![a] = @ \cup {b}, ![b] = @ \cup {a}]
    /\ UNCHANGED <<seen, sprayed, encounters, cleaning, netVars, workVars, histVars>>

Disconnect(a, b) ==
    /\ Linked(a, b) /\ change < MaxChange
    /\ change' = change + 1
    /\ link' = link \ {{a, b}}
    /\ peers' = [peers EXCEPT ![a] = @ \ {b}, ![b] = @ \ {a}]
    /\ UNCHANGED <<seen, sprayed, encounters, cleaning, netVars, workVars, histVars>>

\* mDNS: the discovered peer is listed first and dialled afterwards (Connect).
HandlePeerFound(n, p) ==
    /\ n # p /\ p \notin peers[n] /\ change < MaxChange
    /\ change' = change + 1
    /\ peers' = [peers EXCEPT ![n] = @ \cup {p}]
    /\ UNCHANGED <<link, seen, sprayed, encounters, cleaning, netVars, workVars, histVars>>

\* The daemon stops and starts again: NewNode has nothing of the old state.
Restart(n) ==
    /\ window[n] < MaxWindow
    /\ window' = [window EXCEPT ![n] = @ + 1]
    /\ link' = {l \in link : n \notin l}
    /\ peers' = [q \in Node |-> IF q = n THEN {}
                                ELSE IF Linked(n, q) THEN peers[q] \ {n} ELSE peers[q]]
    /\ seen' = [seen EXCEPT ![n] = {}]
    /\ sprayed' = [sprayed EXCEPT ![n] = {}]
    /\ encounters' = [encounters EXCEPT ![n] = {}]
    /\ cleaning' = [cleaning EXCEPT ![n] = FALSE]
    /\ handlers' = {h \in handlers : h.node # n}
    /\ outbox' = {o \in outbox : o.node # n}
    /\ gossip' = {IF g.by = n THEN [g EXCEPT !.reached = @ \cup {n}] ELSE g : g \in gossip}
    /\ UNCHANGED <<change, streams, sent, appCount>>

-----------------------------------------------------------------------------
Init ==
    /\ link = InitLink
    /\ peers = [n \in Node |-> {p \in Node : p # n /\ {n, p} \in InitLink}]
    /\ seen = [n \in Node |-> {}]
    /\ sprayed = [n \in Node |-> {}]
    /\ encounters = [n \in Node |-> {}]
    /\ cleaning = [n \in Node |-> FALSE]
    /\ streams = {} /\ gossip = {} /\ handlers = {} /\ outbox = {} /\ sent = {}
    /\ window = [n \in Node |-> 0]
    /\ appCount = [n \in Node |-> [i \in Id |-> 0]]
    /\ change = 0

\* What the daemons and libp2p do by themselves.
Progress ==
    \/ \E s \in streams : HandleStream(s) \/ LoseStream(s)
    \/ \E g \in gossip : ForgetGossip(g) \/ \E n \in Node : HandlePubSub(g, n)
    \/ \E h \in handlers : Relay(h) \/ Deliver(h) \/ Acknowledge(h)
    \/ \E o \in outbox : PublishRelay(o)

\* What users, timers and the radio do.
Environment ==
    \/ \E m \in Msg : Send(m)
    \/ \E n \in Forgetful : ResetSeen(n) \/ ResetSprayed(n) \/ Restart(n)
    \/ \E a, b \in Node : Connect(a, b) \/ Disconnect(a, b) \/ HandlePeerFound(a, b)

Next == Progress \/ Environment

Spec == Init /\ [][Next]_vars

\* Goroutines that can run do run, and libp2p moves what it holds.
FairSpec == Spec /\ WF_vars(Progress) /\ \A m \in Msg : WF_vars(Send(m))
-----------------------------------------------------------------------------
(***************************************************************************)
(* Properties.                                                             *)
(***************************************************************************)

\* Every copy of a message that is somewhere between its origination and the
\* end of its last deliverMessage call.
Copies == {s.msg : s \in streams} \cup {g.msg : g \in gossip}
            \cup {h.msg : h \in handlers} \cup {o.msg : o \in outbox}

\* Type invariant: a TTL is never negative, IDs, windows and peers stay in
\* their sets through every handler.
TypeOK ==
    /\ link \in SUBSET SUBSET Node /\ change \in Nat
    /\ peers \in [Node -> SUBSET Node]
    /\ seen \in [Node -> SUBSET Id]
    /\ sprayed \in [Node -> SUBSET (Id \X Node)]
    /\ encounters \in [Node -> SUBSET Node]
    /\ cleaning \in [Node -> BOOLEAN]
    /\ streams \subseteq [from : Node, to : Node, msg : Copy]
    /\ gossip \subseteq [msg : Copy, by : Node, reached : SUBSET Node, win : Nat]
    /\ handlers \subseteq Handler
    /\ outbox \subseteq [node : Node, msg : Copy, win : Nat]
    /\ sent \subseteq Msg
    /\ window \in [Node -> 0 .. MaxWindow]
    /\ appCount \in [Node -> [Id -> Nat]]

(***************************************************************************)
(* The TTL bounds the relays of a message: whatever way a copy took,       *)
(* through streams, the topic, duplicated and relayed after restarts, its  *)
(* TTL and its hop count add up to the TTL it was originated with.         *)
(***************************************************************************)
HopBudget == \A c \in Copies : c.ttl + c.hop = InitTTL(c.id)

(***************************************************************************)
(* Dedup: however many copies reach a node at the same time, over streams  *)
(* and over the topic, OnMessage runs at most once for a message per dedup *)
(* window (the windows end with the five-minute reset or with a restart).  *)
(***************************************************************************)
AtMostOncePerWindow ==
    \A n \in Node, i \in Id : appCount[n][i] <= window[n] + 1

(***************************************************************************)
(* A `received' acknowledgment is never ahead of the fact: while one       *)
(* exists anywhere, the recipient's application has been given the message *)
(* it acknowledges.                                                        *)
(***************************************************************************)
AckAfterDelivery ==
    \A c \in Copies : IsAck(c.id) => appCount[Sender(c.id)][<<c.id[1], 0>>] > 0

(***************************************************************************)
(* The copies of m handed out, the sender's own included and the delivery  *)
(* to the destination (a move) left out, read off the ledgers.             *)
(***************************************************************************)
SprayedCopies(m) ==
    1 + Cardinality({e \in Node \X Node :
            e[2] # Origin[m].recipient /\ <<<<m, 0>>, e[2]>> \in sprayed[e[1]]})

Routed(m) == Origin[m].recipient # NoNode /\ SprayBudget[Origin[m].sender] > 0

(***************************************************************************)
(* What the budget of routeToPeers guarantees inside one dedup window when *)
(* all nodes have the same L: the count a copy carries only rises along    *)
(* its own path, so a copy handed out with count c can multiply into       *)
(* 2^(L-c), and the destination, which relays its copy too, starts one     *)
(* more such tree.                                                         *)
(***************************************************************************)
TreeBudget ==
    \A m \in Msg : Routed(m) => SprayedCopies(m) < 2 ^ SprayBudget[Origin[m].sender]

(***************************************************************************)
(* Liveness: while the connections stay as they are, a routed message gets *)
(* through a chain of relays that is no longer than the budget,            *)
(***************************************************************************)
EventuallyDelivered ==
    [](change = 0) =>
        \A m \in Msg : m \in sent ~> appCount[Origin[m].recipient][<<m, 0>>] > 0

(***************************************************************************)
(* and the acknowledgment gets back to the application that sent it.       *)
(***************************************************************************)
EventuallyAcked ==
    [](change = 0) =>
        \A m \in Msg : m \in sent ~>
            \E w \in 1 .. MaxWindow + 1 : appCount[Origin[m].sender][<<m, w>>] > 0

-----------------------------------------------------------------------------
\* The mesh as the applications see it.
Addressee(m) == Origin[m].recipient
Applications == INSTANCE Delivery WITH handed <- appCount, To <- Addressee

(***************************************************************************)
(* The mesh implements Delivery: whatever the copies, relays, resets and   *)
(* restarts, OnMessage is only called for messages somebody sent, once per *)
(* window, and an application is shown an acknowledgment only after the    *)
(* recipient's application was given the message.                          *)
(***************************************************************************)
ImplementsDelivery == Applications!Spec
=============================================================================
