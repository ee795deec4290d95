----------------------------- MODULE MeshProofs -----------------------------
(***************************************************************************)
(* Proofs about Mesh, for every set of nodes and messages, every budget    *)
(* and every bound: type correctness, the conservation of TTL and hops,    *)
(* acknowledgments never ahead of the delivery, at most one delivery per   *)
(* dedup window, the refinement of Delivery, and the bound on the copies   *)
(* of a message that the spray budget gives within one window.             *)
(***************************************************************************)
EXTENDS Mesh, FiniteSetTheorems, TLAPS

-----------------------------------------------------------------------------
(***************************************************************************)
(* The inductive invariant.  The two properties of copies are not          *)
(* inductive alone: an acknowledgment is made by a handler that is past    *)
(* OnMessage, so the invariant also says what such a handler knows; and    *)
(* addPeer(sender) keeps the peers well-typed only because a copy always   *)
(* has a node for its sender.                                              *)
(***************************************************************************)
Good(c, count) ==
    /\ c \in Copy
    /\ Sender(c.id) \in Node
    /\ c.ttl + c.hop = InitTTL(c.id)
    /\ IsAck(c.id) => count[Sender(c.id)][<<c.id[1], 0>>] > 0

CopiesGood ==
    /\ \A s \in streams : Good(s.msg, appCount)
    /\ \A g \in gossip : Good(g.msg, appCount)
    /\ \A h \in handlers : Good(h.msg, appCount)
    /\ \A o \in outbox : Good(o.msg, appCount)

AckersDelivered ==
    \A h \in handlers : h.stage = "ack" =>
        WantsAck(h.node, h.msg.id) /\ appCount[h.node][h.msg.id] > 0

CopyInv == TypeOK /\ CopiesGood /\ AckersDelivered

-----------------------------------------------------------------------------
(***************************************************************************)
(* Facts about the operators of Routing.                                   *)
(***************************************************************************)

(***************************************************************************)
(* The count routeToPeers writes on a copy is a natural number.            *)
(***************************************************************************)
LEMMA CopiesOnWireType ==
    ASSUME NEW S \in SUBSET Node, NEW p \in Node, NEW k \in Nat
    PROVE  CopiesOnWire(p, k, S) \in Nat
<1>1. IsFiniteSet({q \in S : q <= p})
    BY NodeAssumption, FS_Subset
<1>2. Cardinality({q \in S : q <= p}) \in Nat
    BY <1>1, FS_CardinalityType
<1> QED BY <1>2 DEF CopiesOnWire, Rank

(***************************************************************************)
(* The targets of routeToPeers are peers of the node.                      *)
(***************************************************************************)
LEMMA TargetsType ==
    ASSUME TypeOK, NEW n \in Node, NEW msg, NEW from
    PROVE  Targets(n, msg, from) \subseteq Node
BY DEF Targets, SprayTargets, Fresh, RoutingCandidates, TypeOK

(***************************************************************************)
(* DecrementTTL of a message with hops left conserves TTL plus hops.       *)
(***************************************************************************)
LEMMA DecrementTTLGood ==
    ASSUME NEW c, NEW count, Good(c, count), c.ttl > 0
    PROVE  Good(DecrementTTL(c), count)
<1> DEFINE e == [c EXCEPT !.ttl = c.ttl - 1]
           d == [e EXCEPT !.hop = c.hop + 1]
<1>1. c \in Copy /\ c.ttl \in Nat /\ c.hop \in Nat
    BY DEF Good, Copy
<1>2. e \in Copy /\ e.id = c.id /\ e.ttl = c.ttl - 1
    BY <1>1 DEF Copy
<1> HIDE DEF e
<1>3. d \in Copy /\ d.id = c.id /\ d.ttl = c.ttl - 1 /\ d.hop = c.hop + 1
    BY <1>1, <1>2 DEF Copy
<1>4. InitTTL(c.id) = c.ttl + c.hop
    BY DEF Good
<1>5. DecrementTTL(c) = d
    BY <1>1 DEF DecrementTTL, Copy, e
<1> HIDE DEF d
<1> QED BY <1>1, <1>3, <1>4, <1>5 DEF Good

(***************************************************************************)
(* Goodness does not depend on the copy count, and deliveries only add.    *)
(***************************************************************************)
LEMMA RecountGood ==
    ASSUME NEW c, NEW count, Good(c, count), NEW k \in Nat
    PROVE  Good([c EXCEPT !.copies = k], count)
BY DEF Good, Copy, Sender, InitTTL, IsAck

\* A further delivery leaves good copies good.
LEMMA MoreDeliveriesGood ==
    ASSUME NEW c, TypeOK, Good(c, appCount),
           NEW n \in Node, NEW i \in Id
    PROVE  Good(c, [appCount EXCEPT ![n][i] = @ + 1])
<1>1. <<c.id[1], 0>> \in Id
    BY BoundAssumption DEF Good, Copy, Id
<1>2. appCount \in [Node -> [Id -> Nat]]
    BY DEF TypeOK
<1> QED BY <1>1, <1>2 DEF Good

(***************************************************************************)
(* A message the application originates is good, and so is the             *)
(* acknowledgment of a handler that is past OnMessage.                     *)
(***************************************************************************)
LEMMA OriginGood ==
    ASSUME TypeOK, NEW m \in Msg
    PROVE  Good(NewMessage(<<m, 0>>), appCount) /\ Origin[m].sender \in Node
BY OriginAssumption, BoundAssumption
   DEF Good, NewMessage, Copy, Id, Sender, InitTTL, IsAck

\* The acknowledgment a handler is about to send is a good copy.
LEMMA AckGood ==
    ASSUME CopyInv, NEW h \in handlers, h.stage = "ack"
    PROVE  /\ Good(NewMessage(<<h.msg.id[1], h.win + 1>>), appCount)
           /\ h.node \in Node
<1>1. h \in Handler /\ h.msg \in Copy /\ h.node \in Node /\ h.win \in 0 .. MaxWindow
    BY DEF CopyInv, TypeOK, Handler
<1>2. WantsAck(h.node, h.msg.id) /\ appCount[h.node][h.msg.id] > 0
    BY DEF CopyInv, AckersDelivered
<1> DEFINE m == h.msg.id[1]
           a == <<m, h.win + 1>>
<1>3. h.msg.id \in Id /\ m \in Msg /\ h.msg.id = <<m, 0>>
    BY <1>1, <1>2 DEF Copy, Id, WantsAck, IsAck
<1>4. a \in Id /\ IsAck(a) /\ a[1] = m
    BY <1>1, <1>3, BoundAssumption DEF Id, IsAck
<1>5. Sender(a) = h.node
    BY <1>2, <1>3, <1>4 DEF WantsAck, Sender, Recipient, IsAck
<1>6. InitTTL(a) \in Nat
    BY <1>4, BoundAssumption DEF InitTTL
<1> QED BY <1>1, <1>2, <1>3, <1>4, <1>5, <1>6 DEF Good, NewMessage, Copy

-----------------------------------------------------------------------------
(***************************************************************************)
(* What the sending operators do to the network: routeToPeers and          *)
(* SendMessage put only good copies of their message into it.              *)
(***************************************************************************)
StreamsOK(S, count) ==
    /\ S \subseteq [from : Node, to : Node, msg : Copy]
    /\ \A s \in S : Good(s.msg, count)

GossipOK(G, count) ==
    /\ G \subseteq [msg : Copy, by : Node, reached : SUBSET Node, win : Nat]
    /\ \A g \in G : Good(g.msg, count)

LedgerOK(L) == L \in [Node -> SUBSET (Id \X Node)]

(***************************************************************************)
(* routeToPeers of a good message keeps the streams and the ledger good.   *)
(***************************************************************************)
LEMMA RouteToPeersGood ==
    ASSUME TypeOK, CopiesGood, NEW n \in Node, NEW msg, Good(msg, appCount),
           NEW from, RouteToPeers(n, msg, from)
    PROVE  StreamsOK(streams', appCount) /\ LedgerOK(sprayed')
<1> DEFINE fresh == Targets(n, msg, from)
           out   == fresh \cup ({Recipient(msg.id)} \cap RoutingCandidates(n, from))
           new(p) == [from |-> n, to |-> p,
                      msg |-> [msg EXCEPT !.copies = CopiesOnWire(p, msg.copies, fresh)]]
<1>1. fresh \subseteq Node /\ out \subseteq Node
    BY TargetsType DEF RoutingCandidates, TypeOK
<1>2. msg \in Copy /\ msg.id \in Id /\ msg.copies \in Nat
    BY DEF Good, Copy
<1>3. LedgerOK(sprayed')
    BY <1>1, <1>2 DEF RouteToPeers, TypeOK, LedgerOK
<1>4. ASSUME NEW p \in out
      PROVE  new(p) \in [from : Node, to : Node, msg : Copy] /\ Good(new(p).msg, appCount)
    <2>1. CopiesOnWire(p, msg.copies, fresh) \in Nat
        BY <1>1, <1>2, CopiesOnWireType
    <2>2. Good([msg EXCEPT !.copies = CopiesOnWire(p, msg.copies, fresh)], appCount)
        BY <2>1, RecountGood
    <2> QED BY <1>1, <2>2 DEF Good
<1>5. streams' = streams \cup {new(p) : p \in {q \in out : Linked(n, q)}}
    BY Zenon DEF RouteToPeers
<1>6. streams \subseteq [from : Node, to : Node, msg : Copy]
      /\ \A s \in streams : Good(s.msg, appCount)
    BY DEF TypeOK, CopiesGood
<1> HIDE DEF fresh, out, new
<1>7. StreamsOK(streams', appCount)
    BY <1>4, <1>5, <1>6 DEF StreamsOK
<1> QED BY <1>3, <1>7

(***************************************************************************)
(* SendMessage of a good message keeps the streams, the publications and   *)
(* the ledger good.                                                        *)
(***************************************************************************)
LEMMA SendMessageGood ==
    ASSUME TypeOK, CopiesGood, NEW n \in Node, NEW msg, Good(msg, appCount),
           SendMessage(n, msg)
    PROVE  /\ StreamsOK(streams', appCount)
           /\ GossipOK(gossip', appCount)
           /\ LedgerOK(sprayed')
<1> DEFINE r == Recipient(msg.id)
<1>1. msg \in Copy /\ msg.copies \in Nat
    BY DEF Good, Copy
<1>2. StreamsOK(streams, appCount) /\ GossipOK(gossip, appCount) /\ LedgerOK(sprayed)
    BY DEF TypeOK, CopiesGood, StreamsOK, GossipOK, LedgerOK
<1>3. CASE /\ RouteToPeers(n, [msg EXCEPT !.copies = IF @ < 1 THEN 1 ELSE @], NoNode)
           /\ UNCHANGED gossip
    <2>1. (IF msg.copies < 1 THEN 1 ELSE msg.copies) \in Nat
        BY <1>1
    <2>2. Good([msg EXCEPT !.copies = IF msg.copies < 1 THEN 1 ELSE msg.copies], appCount)
        BY <2>1, RecountGood
    <2> QED BY <1>2, <1>3, <2>2, RouteToPeersGood
<1>4. CASE /\ r # NoNode /\ Linked(n, r)
           /\ streams' = streams \cup {[from |-> n, to |-> r, msg |-> msg]}
           /\ UNCHANGED <<gossip, sprayed>>
    <2>1. r \in Node
        BY <1>1, <1>4, OriginAssumption DEF Recipient, Copy, Id
    <2> QED BY <1>1, <1>2, <1>4, <2>1 DEF StreamsOK
<1>5. CASE Publish(n, msg) /\ UNCHANGED <<streams, sprayed>>
    <2>1. window[n] \in Nat
        BY BoundAssumption DEF TypeOK
    <2> QED BY <1>1, <1>2, <1>5, <2>1 DEF Publish, GossipOK
<1> QED BY <1>3, <1>4, <1>5 DEF SendMessage

-----------------------------------------------------------------------------
(***************************************************************************)
(* The invariant holds initially, and every action keeps it.               *)
(***************************************************************************)
LEMMA CopyInvInit == Init => CopyInv
BY BoundAssumption DEF Init, CopyInv, TypeOK, CopiesGood, AckersDelivered

USE DEF linkVars, nodeVars, netVars, workVars, histVars

(***************************************************************************)
(* The first part of deliverMessage keeps the node state and the handlers  *)
(* well-typed and makes handlers of good copies only.                      *)
(***************************************************************************)
LEMMA AcceptGood ==
    ASSUME TypeOK, CopiesGood, AckersDelivered, NEW n \in Node, NEW msg, Good(msg, appCount),
           NEW from \in Node, NEW kind \in {"stream", "pubsub"},
           NEW known \in SUBSET Node, Accept(n, msg, from, kind, known)
    PROVE  /\ peers' \in [Node -> SUBSET Node] /\ seen' \in [Node -> SUBSET Id]
           /\ encounters' \in [Node -> SUBSET Node]
           /\ handlers' \subseteq Handler
           /\ \A h \in handlers' : Good(h.msg, appCount)
           /\ \A h \in handlers' : h.stage = "ack" =>
                  WantsAck(h.node, h.msg.id) /\ appCount[h.node][h.msg.id] > 0
<1> DEFINE new == [node |-> n, msg |-> msg, from |-> from, kind |-> kind,
                   stage |-> "relay", win |-> window[n]]
<1>1. msg \in Copy /\ msg.id \in Id /\ Sender(msg.id) \in Node
    BY DEF Good, Copy
<1>2. window[n] \in 0 .. MaxWindow
    BY DEF TypeOK
<1>3. new \in Handler /\ new.msg = msg /\ new.stage = "relay"
    BY <1>1, <1>2 DEF Handler
<1> HIDE DEF new
<1>4. handlers' = handlers \/ handlers' = handlers \cup {new}
    BY DEF Accept, new
<1>5. \A h \in handlers' : h \in handlers \/ h = new
    BY <1>4
<1>6. /\ peers' \in [Node -> SUBSET Node] /\ seen' \in [Node -> SUBSET Id]
      /\ encounters' \in [Node -> SUBSET Node]
    <2>1. /\ peers \in [Node -> SUBSET Node] /\ seen \in [Node -> SUBSET Id]
          /\ encounters \in [Node -> SUBSET Node]
        BY DEF TypeOK
    <2>2. CASE IsDuplicate(n, msg)
        BY <2>1, <2>2 DEF Accept
    <2>3. CASE ~IsDuplicate(n, msg)
        <3>1. peers' = [peers EXCEPT ![n] = @ \cup known \cup ({Sender(msg.id)} \ {n})]
            BY <2>3 DEF Accept
        <3>2. peers' \in [Node -> SUBSET Node]
            BY <1>1, <2>1, <3>1
        <3> QED BY <1>1, <2>1, <2>3, <3>2 DEF Accept
    <2> QED BY <2>2, <2>3
<1>7. handlers' \subseteq Handler
    BY <1>3, <1>5 DEF TypeOK
<1>8. \A h \in handlers' : Good(h.msg, appCount)
    BY <1>3, <1>5 DEF CopiesGood
<1>9. \A h \in handlers' : h.stage = "ack" =>
          WantsAck(h.node, h.msg.id) /\ appCount[h.node][h.msg.id] > 0
    BY <1>3, <1>5 DEF AckersDelivered
<1> QED BY <1>6, <1>7, <1>8, <1>9

\* Every step keeps CopyInv.
LEMMA CopyInvNext == CopyInv /\ [Next]_vars => CopyInv'
<1> SUFFICES ASSUME CopyInv, [Next]_vars
             PROVE  CopyInv'
    OBVIOUS
<1>0. TypeOK /\ CopiesGood /\ AckersDelivered
    BY DEF CopyInv
<1>1. ASSUME NEW m \in Msg, Send(m)
      PROVE  CopyInv'
    <2>1. Good(NewMessage(<<m, 0>>), appCount) /\ Origin[m].sender \in Node
        BY <1>0, OriginGood
    <2>2. StreamsOK(streams', appCount) /\ GossipOK(gossip', appCount) /\ LedgerOK(sprayed')
        BY <1>0, <1>1, <2>1, SendMessageGood DEF Send
    <2>3. TypeOK'
        BY <1>0, <1>1, <2>2 DEF Send, TypeOK, StreamsOK, GossipOK, LedgerOK
    <2>4. CopiesGood' /\ AckersDelivered'
        BY <1>0, <1>1, <2>2 DEF Send, CopiesGood, AckersDelivered, StreamsOK, GossipOK
    <2> QED BY <2>3, <2>4 DEF CopyInv
<1>2. ASSUME NEW s \in streams, HandleStream(s)
      PROVE  CopyInv'
    <2>1. s.from \in Node /\ s.to \in Node /\ Good(s.msg, appCount)
        BY <1>0 DEF TypeOK, CopiesGood
    <2>2. Accept(s.to, s.msg, s.from, "stream", {s.from})
        BY <1>2 DEF HandleStream
    <2>3. /\ peers' \in [Node -> SUBSET Node] /\ seen' \in [Node -> SUBSET Id]
          /\ encounters' \in [Node -> SUBSET Node]
          /\ handlers' \subseteq Handler
          /\ \A h \in handlers' : Good(h.msg, appCount)
          /\ \A h \in handlers' : h.stage = "ack" =>
                 WantsAck(h.node, h.msg.id) /\ appCount[h.node][h.msg.id] > 0
        BY <1>0, <2>1, <2>2, AcceptGood
    <2>4. TypeOK'
        BY <1>0, <1>2, <2>3 DEF HandleStream, TypeOK
    <2>5. CopiesGood' /\ AckersDelivered'
        BY <1>0, <1>2, <2>3 DEF HandleStream, CopiesGood, AckersDelivered
    <2> QED BY <2>4, <2>5 DEF CopyInv
<1>3. ASSUME NEW s \in streams, LoseStream(s)
      PROVE  CopyInv'
    BY <1>0, <1>3 DEF LoseStream, CopyInv, TypeOK, CopiesGood, AckersDelivered
<1>4. ASSUME NEW g \in gossip, NEW n \in Node, HandlePubSub(g, n)
      PROVE  CopyInv'
    <2>1. g \in [msg : Copy, by : Node, reached : SUBSET Node, win : Nat]
          /\ Good(g.msg, appCount)
        BY <1>0 DEF TypeOK, CopiesGood
    <2>2. PICK via \in Node : Accept(n, g.msg, via, "pubsub", {})
        BY <1>4 DEF HandlePubSub
    <2>3. /\ peers' \in [Node -> SUBSET Node] /\ seen' \in [Node -> SUBSET Id]
          /\ encounters' \in [Node -> SUBSET Node]
          /\ handlers' \subseteq Handler
          /\ \A h \in handlers' : Good(h.msg, appCount)
          /\ \A h \in handlers' : h.stage = "ack" =>
                 WantsAck(h.node, h.msg.id) /\ appCount[h.node][h.msg.id] > 0
        BY <1>0, <2>1, <2>2, AcceptGood
    <2> DEFINE k == [g EXCEPT !.reached = @ \cup {n}]
    <2>4. k \in [msg : Copy, by : Node, reached : SUBSET Node, win : Nat] /\ k.msg = g.msg
        BY <2>1
    <2>5. gossip' = (gossip \ {g}) \cup {k}
        BY <1>4 DEF HandlePubSub
    <2> HIDE DEF k
    <2>6. TypeOK'
        BY <1>0, <1>4, <2>3, <2>4, <2>5 DEF HandlePubSub, TypeOK
    <2>7. CopiesGood' /\ AckersDelivered'
        BY <1>0, <1>4, <2>1, <2>3, <2>4, <2>5 DEF HandlePubSub, CopiesGood, AckersDelivered
    <2> QED BY <2>6, <2>7 DEF CopyInv
<1>5. ASSUME NEW g \in gossip, ForgetGossip(g)
      PROVE  CopyInv'
    BY <1>0, <1>5 DEF ForgetGossip, CopyInv, TypeOK, CopiesGood, AckersDelivered
<1>6. ASSUME NEW h \in handlers, Relay(h)
      PROVE  CopyInv'
    <2> DEFINE n   == h.node
               hop == DecrementTTL(h.msg)
               Moved(m) == [h EXCEPT !.stage = "deliver", !.msg = m]
    <2>1. h \in Handler /\ n \in Node /\ h.msg \in Copy /\ Good(h.msg, appCount)
        BY <1>0 DEF TypeOK, CopiesGood, Handler
    <2>2. ASSUME NEW m, Good(m, appCount), handlers' = (handlers \ {h}) \cup {Moved(m)}
          PROVE  /\ handlers' \subseteq Handler
                 /\ \A k \in handlers' : Good(k.msg, appCount)
                 /\ \A k \in handlers' : k.stage = "ack" =>
                        WantsAck(k.node, k.msg.id) /\ appCount[k.node][k.msg.id] > 0
        <3> DEFINE new == Moved(m)
        <3>1. m \in Copy
            BY <2>2 DEF Good
        <3>2. new \in Handler /\ new.msg = m /\ new.stage = "deliver"
            BY <2>1, <3>1 DEF Handler
        <3>3. \A k \in handlers' : k \in handlers \/ k = new
            BY <2>2
        <3> HIDE DEF new
        <3> QED BY <1>0, <2>2, <3>2, <3>3 DEF TypeOK, CopiesGood, AckersDelivered
    <2>3. CASE /\ MayRelay(n, h.msg) /\ RouteToPeers(n, hop, h.from)
               /\ handlers' = (handlers \ {h}) \cup
                    {Moved([hop EXCEPT !.copies = @ + Cardinality(Targets(n, hop, h.from))])}
               /\ UNCHANGED outbox
        <3>1. Good(hop, appCount)
            BY <2>1, <2>3, DecrementTTLGood DEF MayRelay
        <3>2. StreamsOK(streams', appCount) /\ LedgerOK(sprayed')
            BY <1>0, <2>1, <2>3, <3>1, RouteToPeersGood
        <3>3. Cardinality(Targets(n, hop, h.from)) \in Nat
            BY <1>0, <2>1, TargetsType, NodeAssumption, FS_Subset, FS_CardinalityType
        <3>4. hop.copies + Cardinality(Targets(n, hop, h.from)) \in Nat
            BY <3>1, <3>3 DEF Good, Copy
        <3>5. Good([hop EXCEPT !.copies = hop.copies + Cardinality(Targets(n, hop, h.from))],
                   appCount)
            BY <3>1, <3>4, RecountGood
        <3>6. /\ handlers' \subseteq Handler
              /\ \A k \in handlers' : Good(k.msg, appCount)
              /\ \A k \in handlers' : k.stage = "ack" =>
                     WantsAck(k.node, k.msg.id) /\ appCount[k.node][k.msg.id] > 0
            BY <2>2, <2>3, <3>5
        <3>7. TypeOK'
            BY <1>0, <1>6, <2>3, <3>2, <3>6 DEF Relay, TypeOK, StreamsOK, LedgerOK
        <3>8. CopiesGood' /\ AckersDelivered'
            BY <1>0, <1>6, <2>3, <3>2, <3>6 DEF Relay, CopiesGood, AckersDelivered, StreamsOK
        <3> QED BY <3>7, <3>8 DEF CopyInv
    <2>4. CASE /\ MayRelay(n, h.msg)
               /\ outbox' = outbox \cup {[node |-> n, msg |-> hop, win |-> h.win]}
               /\ handlers' = (handlers \ {h}) \cup {Moved(hop)}
               /\ UNCHANGED <<streams, sprayed>>
        <3>1. Good(hop, appCount) /\ hop \in Copy
            BY <2>1, <2>4, DecrementTTLGood DEF MayRelay, Good
        <3>2. /\ handlers' \subseteq Handler
              /\ \A k \in handlers' : Good(k.msg, appCount)
              /\ \A k \in handlers' : k.stage = "ack" =>
                     WantsAck(k.node, k.msg.id) /\ appCount[k.node][k.msg.id] > 0
            BY <2>2, <2>4, <3>1
        <3>3. h.win \in Nat
            BY <2>1, BoundAssumption DEF Handler
        <3> HIDE DEF hop
        <3>4. TypeOK'
            BY <1>0, <1>6, <2>1, <2>4, <3>1, <3>2, <3>3 DEF Relay, TypeOK
        <3>5. CopiesGood' /\ AckersDelivered'
            BY <1>0, <1>6, <2>4, <3>1, <3>2 DEF Relay, CopiesGood, AckersDelivered
        <3> QED BY <3>4, <3>5 DEF CopyInv
    <2>5. CASE /\ handlers' = (handlers \ {h}) \cup {Moved(h.msg)}
               /\ UNCHANGED <<streams, sprayed, outbox>>
        <3>1. /\ handlers' \subseteq Handler
              /\ \A k \in handlers' : Good(k.msg, appCount)
              /\ \A k \in handlers' : k.stage = "ack" =>
                     WantsAck(k.node, k.msg.id) /\ appCount[k.node][k.msg.id] > 0
            BY <2>1, <2>2, <2>5
        <3>2. TypeOK'
            BY <1>0, <1>6, <2>5, <3>1 DEF Relay, TypeOK
        <3>3. CopiesGood' /\ AckersDelivered'
            BY <1>0, <1>6, <2>5, <3>1 DEF Relay, CopiesGood, AckersDelivered
        <3> QED BY <3>2, <3>3 DEF CopyInv
    <2> QED BY <1>6, <2>3, <2>4, <2>5, Zenon DEF Relay
<1>7. ASSUME NEW o \in outbox, PublishRelay(o)
      PROVE  CopyInv'
    <2> DEFINE k == [msg |-> o.msg, by |-> o.node, reached |-> {}, win |-> window[o.node]]
    <2>1. o.node \in Node /\ o.msg \in Copy /\ Good(o.msg, appCount)
        BY <1>0 DEF TypeOK, CopiesGood
    <2>2. window[o.node] \in Nat
        BY <1>0, <2>1, BoundAssumption DEF TypeOK
    <2>3. k \in [msg : Copy, by : Node, reached : SUBSET Node, win : Nat] /\ k.msg = o.msg
        BY <2>1, <2>2
    <2>4. gossip' = gossip \cup {k}
        BY <1>7 DEF PublishRelay, Publish
    <2> HIDE DEF k
    <2>5. TypeOK'
        BY <1>0, <1>7, <2>3, <2>4 DEF PublishRelay, TypeOK
    <2>6. CopiesGood' /\ AckersDelivered'
        BY <1>0, <1>7, <2>1, <2>3, <2>4 DEF PublishRelay, CopiesGood, AckersDelivered
    <2> QED BY <2>5, <2>6 DEF CopyInv
<1>8. ASSUME NEW h \in handlers, Deliver(h)
      PROVE  CopyInv'
    <2> DEFINE count == [appCount EXCEPT ![h.node][h.msg.id] = @ + 1]
               new   == [h EXCEPT !.stage = "ack"]
    <2>1. h \in Handler /\ h.node \in Node /\ h.msg.id \in Id /\ Good(h.msg, appCount)
        BY <1>0 DEF TypeOK, CopiesGood, Handler, Copy
    <2>2. new \in Handler /\ new.msg = h.msg /\ new.node = h.node
        BY <2>1 DEF Handler
    <2>3. /\ appCount' = count
          /\ \A k \in handlers' : k \in handlers \/ (k = new /\ WantsAck(h.node, h.msg.id))
        BY <1>8 DEF Deliver
    <2>4. /\ count \in [Node -> [Id -> Nat]]
          /\ count[h.node][h.msg.id] > 0
          /\ \A n \in Node, i \in Id : appCount[n][i] > 0 => count[n][i] > 0
        BY <1>0, <2>1 DEF TypeOK
    <2>5. \A c : Good(c, appCount) => Good(c, count)
        BY <1>0, <2>1, MoreDeliveriesGood
    <2> HIDE DEF count, new
    <2>6. TypeOK'
        BY <1>0, <1>8, <2>2, <2>3, <2>4 DEF Deliver, TypeOK
    <2>7. CopiesGood'
        BY <1>0, <1>8, <2>1, <2>2, <2>3, <2>5 DEF Deliver, CopiesGood
    <2>8. \A k \in handlers : k.node \in Node /\ k.msg.id \in Id
        BY <1>0 DEF TypeOK, Handler, Copy
    <2>9. AckersDelivered'
        BY <1>0, <2>2, <2>3, <2>4, <2>8 DEF AckersDelivered
    <2> QED BY <2>6, <2>7, <2>9 DEF CopyInv
<1>9. ASSUME NEW h \in handlers, Acknowledge(h)
      PROVE  CopyInv'
    <2>1. Good(NewMessage(<<h.msg.id[1], h.win + 1>>), appCount) /\ h.node \in Node
        BY <1>9, AckGood DEF Acknowledge
    <2>2. StreamsOK(streams', appCount) /\ GossipOK(gossip', appCount) /\ LedgerOK(sprayed')
        BY <1>0, <1>9, <2>1, SendMessageGood DEF Acknowledge
    <2>3. TypeOK'
        BY <1>0, <1>9, <2>2 DEF Acknowledge, TypeOK, StreamsOK, GossipOK, LedgerOK
    <2>4. CopiesGood' /\ AckersDelivered'
        BY <1>0, <1>9, <2>2 DEF Acknowledge, CopiesGood, AckersDelivered, StreamsOK, GossipOK
    <2> QED BY <2>3, <2>4 DEF CopyInv
<1>10. ASSUME NEW n \in Forgetful, ResetSeen(n) \/ ResetSprayed(n)
      PROVE  CopyInv'
    <2>1. TypeOK'
        <3>1. CASE ResetSeen(n)
            <4>1. window' \in [Node -> 0 .. MaxWindow]
                BY <1>0, <3>1, BoundAssumption DEF ResetSeen, TypeOK
            <4> QED BY <1>0, <3>1, <4>1 DEF ResetSeen, TypeOK
        <3>2. CASE ResetSprayed(n)
            BY <1>0, <3>2 DEF ResetSprayed, TypeOK
        <3> QED BY <1>10, <3>1, <3>2
    <2>2. CopiesGood' /\ AckersDelivered'
        BY <1>0, <1>10 DEF ResetSeen, ResetSprayed, CopiesGood, AckersDelivered
    <2> QED BY <2>1, <2>2 DEF CopyInv
<1>11. ASSUME NEW a \in Node, NEW b \in Node,
              Connect(a, b) \/ Disconnect(a, b) \/ HandlePeerFound(a, b)
      PROVE  CopyInv'
    <2>1. TypeOK'
        <3>1. CASE Connect(a, b)
            <4>1. peers' \in [Node -> SUBSET Node]
                <5>1. peers \in [Node -> SUBSET Node]
                    BY <1>0 DEF TypeOK
                <5> DEFINE mid == [peers EXCEPT ![a] = peers[a] \cup {b}]
                <5>2. mid \in [Node -> SUBSET Node]
                    BY <5>1
                <5>3. peers' = [mid EXCEPT ![b] = mid[b] \cup {a}]
                    BY <3>1, Zenon DEF Connect
                <5> HIDE DEF mid
                <5>4. mid[b] \cup {a} \in SUBSET Node
                    BY <5>2
                <5> QED BY <5>2, <5>3, <5>4
            <4>2. link' \in SUBSET SUBSET Node /\ change' \in Nat
                <5>1. link' = link \cup {{a, b}} /\ change' = change + 1
                    BY <3>1 DEF Connect
                <5>2. link \in SUBSET SUBSET Node /\ change \in Nat /\ {a, b} \in SUBSET Node
                    BY <1>0 DEF TypeOK
                <5> QED BY <5>1, <5>2
            <4>3. UNCHANGED <<seen, sprayed, encounters, cleaning, netVars, workVars, histVars>>
                BY <3>1 DEF Connect
            <4> QED BY <1>0, <4>1, <4>2, <4>3 DEF TypeOK
        <3>2. CASE Disconnect(a, b)
            <4>1. peers' \in [Node -> SUBSET Node]
                <5>1. peers \in [Node -> SUBSET Node]
                    BY <1>0 DEF TypeOK
                <5> DEFINE mid == [peers EXCEPT ![a] = peers[a] \ {b}]
                <5>2. mid \in [Node -> SUBSET Node]
                    BY <5>1
                <5>3. peers' = [mid EXCEPT ![b] = mid[b] \ {a}]
                    BY <3>2, Zenon DEF Disconnect
                <5> HIDE DEF mid
                <5>4. mid[b] \ {a} \in SUBSET Node
                    BY <5>2
                <5> QED BY <5>2, <5>3, <5>4
            <4>2. link' \in SUBSET SUBSET Node /\ change' \in Nat
                <5>1. link' = link \ {{a, b}} /\ change' = change + 1
                    BY <3>2 DEF Disconnect
                <5>2. link \in SUBSET SUBSET Node /\ change \in Nat /\ {a, b} \in SUBSET Node
                    BY <1>0 DEF TypeOK
                <5> QED BY <5>1, <5>2
            <4>3. UNCHANGED <<seen, sprayed, encounters, cleaning, netVars, workVars, histVars>>
                BY <3>2 DEF Disconnect
            <4> QED BY <1>0, <4>1, <4>2, <4>3 DEF TypeOK
        <3>3. CASE HandlePeerFound(a, b)
            BY <1>0, <3>3 DEF HandlePeerFound, TypeOK
        <3> QED BY <1>11, <3>1, <3>2, <3>3
    <2>2. CopiesGood' /\ AckersDelivered'
        BY <1>0, <1>11 DEF Connect, Disconnect, HandlePeerFound, CopiesGood, AckersDelivered
    <2> QED BY <2>1, <2>2 DEF CopyInv
<1>12. ASSUME NEW n \in Forgetful, Restart(n)
       PROVE  CopyInv'
    <2> DEFINE Kept(g) == IF g.by = n THEN [g EXCEPT !.reached = @ \cup {n}] ELSE g
    <2>1. n \in Node
        BY BoundAssumption
    <2>2. gossip' = {Kept(g) : g \in gossip}
        BY <1>12, Zenon DEF Restart
    <2>3. ASSUME NEW g \in gossip
          PROVE  /\ Kept(g) \in [msg : Copy, by : Node, reached : SUBSET Node, win : Nat]
                 /\ Kept(g).msg = g.msg
        <3>1. g \in [msg : Copy, by : Node, reached : SUBSET Node, win : Nat]
            BY <1>0 DEF TypeOK
        <3>2. [g EXCEPT !.reached = @ \cup {n}]
                = [msg |-> g.msg, by |-> g.by, reached |-> g.reached \cup {n}, win |-> g.win]
            BY <3>1
        <3> QED BY <2>1, <3>1, <3>2
    <2> HIDE DEF Kept
    <2>4. /\ gossip' \subseteq [msg : Copy, by : Node, reached : SUBSET Node, win : Nat]
          /\ \A g \in gossip' : Good(g.msg, appCount)
        BY <1>0, <2>2, <2>3 DEF CopiesGood
    <2>5. peers' \in [Node -> SUBSET Node]
        BY <1>0, <1>12 DEF Restart, TypeOK
    <2>6. /\ seen' \in [Node -> SUBSET Id] /\ sprayed' \in [Node -> SUBSET (Id \X Node)]
          /\ encounters' \in [Node -> SUBSET Node] /\ cleaning' \in [Node -> BOOLEAN]
          /\ window' \in [Node -> 0 .. MaxWindow]
        BY <1>0, <1>12, <2>1, BoundAssumption DEF Restart, TypeOK
    <2>7. TypeOK'
        BY <1>0, <1>12, <2>4, <2>5, <2>6 DEF Restart, TypeOK
    <2>8. CopiesGood' /\ AckersDelivered'
        BY <1>0, <1>12, <2>4 DEF Restart, CopiesGood, AckersDelivered
    <2> QED BY <2>7, <2>8 DEF CopyInv
<1>13. CASE UNCHANGED vars
    BY <1>0, <1>13 DEF vars, CopyInv, TypeOK, CopiesGood, AckersDelivered
<1> QED BY <1>1, <1>2, <1>3, <1>4, <1>5, <1>6, <1>7, <1>8, <1>9, <1>10, <1>11, <1>12, <1>13
           DEF Next, Progress, Environment

(***************************************************************************)
(* Type correctness of the message layer.                                  *)
(***************************************************************************)
THEOREM TypeCorrect == Spec => []TypeOK
<1>1. CopyInv => TypeOK
    BY DEF CopyInv
<1> QED BY <1>1, CopyInvInit, CopyInvNext, PTL DEF Spec

(***************************************************************************)
(* The TTL bounds the relays: TTL and hop count of every copy, in flight,  *)
(* in a handler or waiting to be published, add up to the initial TTL.     *)
(***************************************************************************)
THEOREM HopsBounded == Spec => []HopBudget
<1>1. CopyInv => HopBudget
    BY DEF CopyInv, CopiesGood, HopBudget, Copies, Good
<1> QED BY <1>1, CopyInvInit, CopyInvNext, PTL DEF Spec

(***************************************************************************)
(* No acknowledgment is ahead of OnMessage at the recipient.               *)
(***************************************************************************)
THEOREM AcksFollowDelivery == Spec => []AckAfterDelivery
<1>1. CopyInv => AckAfterDelivery
    BY DEF CopyInv, CopiesGood, AckAfterDelivery, Copies, Good
<1> QED BY <1>1, CopyInvInit, CopyInvNext, PTL DEF Spec

-----------------------------------------------------------------------------
(***************************************************************************)
(* At most one delivery per dedup window.  The property is not inductive:  *)
(* a handler that has passed the dedup check will deliver, even after the  *)
(* window in which it was accepted is over.  So the handlers that have     *)
(* still to call OnMessage are counted with the calls, against the windows *)
(* that are over plus the current one if the message is in `seen'.         *)
(***************************************************************************)
ActiveIn(H, n, i) == {h \in H : h.node = n /\ h.msg.id = i /\ h.stage # "ack"}

Spent(S, i) == IF i \in S THEN 1 ELSE 0

DedupInv ==
    /\ IsFiniteSet(handlers)
    /\ \A n \in Node, i \in Id :
           appCount[n][i] + Cardinality(ActiveIn(handlers, n, i))
               <= window[n] + Spent(seen[n], i)

(***************************************************************************)
(* How the number of active handlers changes when a handler is added,      *)
(* moved on or finished.                                                   *)
(***************************************************************************)
LEMMA ActiveCount ==
    ASSUME NEW H, IsFiniteSet(H), NEW n, NEW i
    PROVE  IsFiniteSet(ActiveIn(H, n, i)) /\ Cardinality(ActiveIn(H, n, i)) \in Nat
BY FS_Subset, FS_CardinalityType DEF ActiveIn

\* Fewer handlers have fewer deliveries to come.
LEMMA ActiveSubset ==
    ASSUME NEW H, IsFiniteSet(H), NEW K, NEW n, NEW i,
           ActiveIn(K, n, i) \subseteq ActiveIn(H, n, i)
    PROVE  Cardinality(ActiveIn(K, n, i)) <= Cardinality(ActiveIn(H, n, i))
BY ActiveCount, FS_Subset

\* A new handler is at most one delivery more, of its own message at its own node.
LEMMA ActiveAdded ==
    ASSUME NEW H, IsFiniteSet(H), NEW k, NEW n, NEW i
    PROVE  /\ IsFiniteSet(H \cup {k})
           /\ Cardinality(ActiveIn(H \cup {k}, n, i)) <= Cardinality(ActiveIn(H, n, i)) + 1
           /\ ~(k.node = n /\ k.msg.id = i) =>
                 Cardinality(ActiveIn(H \cup {k}, n, i)) = Cardinality(ActiveIn(H, n, i))
<1>1. IsFiniteSet(H \cup {k})
    BY FS_AddElement
<1>2. ActiveIn(H \cup {k}, n, i) = ActiveIn(H, n, i)
      \/ ActiveIn(H \cup {k}, n, i) = ActiveIn(H, n, i) \cup {k}
    BY DEF ActiveIn
<1>3. IsFiniteSet(ActiveIn(H, n, i)) /\ Cardinality(ActiveIn(H, n, i)) \in Nat
    BY ActiveCount
<1>4. Cardinality(ActiveIn(H, n, i) \cup {k}) <= Cardinality(ActiveIn(H, n, i)) + 1
    BY <1>3, FS_AddElement
<1>5. ~(k.node = n /\ k.msg.id = i) => ActiveIn(H \cup {k}, n, i) = ActiveIn(H, n, i)
    BY DEF ActiveIn
<1>6. Cardinality(ActiveIn(H \cup {k}, n, i)) <= Cardinality(ActiveIn(H, n, i)) + 1
    <2>1. CASE ActiveIn(H \cup {k}, n, i) = ActiveIn(H, n, i)
        BY <1>3, <2>1
    <2>2. CASE ActiveIn(H \cup {k}, n, i) = ActiveIn(H, n, i) \cup {k}
        BY <1>4, <2>2
    <2> QED BY <1>2, <2>1, <2>2
<1>7. ~(k.node = n /\ k.msg.id = i) =>
          Cardinality(ActiveIn(H \cup {k}, n, i)) = Cardinality(ActiveIn(H, n, i))
    BY <1>5
<1> QED BY <1>1, <1>6, <1>7

\* A handler that delivers is one delivery less to come.
LEMMA ActiveFinished ==
    ASSUME NEW H, IsFiniteSet(H), NEW h \in H, h.stage # "ack", NEW n, NEW i
    PROVE  /\ IsFiniteSet(H \ {h})
           /\ Cardinality(ActiveIn(H \ {h}, n, i)) <= Cardinality(ActiveIn(H, n, i))
           /\ h.node = n /\ h.msg.id = i =>
                 Cardinality(ActiveIn(H \ {h}, n, i)) = Cardinality(ActiveIn(H, n, i)) - 1
<1>1. IsFiniteSet(H \ {h})
    BY FS_Subset
<1>2. ActiveIn(H \ {h}, n, i) \subseteq ActiveIn(H, n, i)
    BY DEF ActiveIn
<1>3. ASSUME h.node = n /\ h.msg.id = i
      PROVE  ActiveIn(H \ {h}, n, i) = ActiveIn(H, n, i) \ {h} /\ h \in ActiveIn(H, n, i)
    BY <1>3 DEF ActiveIn
<1>4. IsFiniteSet(ActiveIn(H, n, i))
    BY ActiveCount
<1> QED BY <1>1, <1>2, <1>3, <1>4, ActiveSubset, FS_RemoveElement

\* A handler that moves on is no delivery more.
LEMMA ActiveMoved ==
    ASSUME NEW H, IsFiniteSet(H), NEW h \in H, h.stage # "ack",
           NEW k, k.node = h.node, k.msg.id = h.msg.id, NEW n, NEW i
    PROVE  /\ IsFiniteSet((H \ {h}) \cup {k})
           /\ Cardinality(ActiveIn((H \ {h}) \cup {k}, n, i)) <= Cardinality(ActiveIn(H, n, i))
<1>1. /\ IsFiniteSet(H \ {h})
      /\ Cardinality(ActiveIn(H \ {h}, n, i)) <= Cardinality(ActiveIn(H, n, i))
      /\ h.node = n /\ h.msg.id = i =>
            Cardinality(ActiveIn(H \ {h}, n, i)) = Cardinality(ActiveIn(H, n, i)) - 1
    BY ActiveFinished
<1>2. /\ IsFiniteSet((H \ {h}) \cup {k})
      /\ Cardinality(ActiveIn((H \ {h}) \cup {k}, n, i))
            <= Cardinality(ActiveIn(H \ {h}, n, i)) + 1
      /\ ~(k.node = n /\ k.msg.id = i) =>
            Cardinality(ActiveIn((H \ {h}) \cup {k}, n, i)) = Cardinality(ActiveIn(H \ {h}, n, i))
    BY <1>1, ActiveAdded
<1>3. /\ Cardinality(ActiveIn(H, n, i)) \in Nat
      /\ Cardinality(ActiveIn(H \ {h}, n, i)) \in Nat
      /\ Cardinality(ActiveIn((H \ {h}) \cup {k}, n, i)) \in Nat
    BY <1>1, <1>2, ActiveCount
<1> QED BY <1>1, <1>2, <1>3

(***************************************************************************)
(* A step that neither delivers nor accepts nor ends a window, and adds no *)
(* active handler, keeps the count.                                        *)
(***************************************************************************)
LEMMA DedupInvQuiet ==
    ASSUME TypeOK, DedupInv, UNCHANGED <<appCount, window, seen>>, IsFiniteSet(handlers'),
           \A n \in Node, i \in Id :
               Cardinality(ActiveIn(handlers', n, i)) <= Cardinality(ActiveIn(handlers, n, i))
    PROVE  DedupInv'
<1> SUFFICES ASSUME NEW n \in Node, NEW i \in Id
             PROVE  appCount[n][i] + Cardinality(ActiveIn(handlers', n, i))
                        <= window[n] + Spent(seen[n], i)
    BY DEF DedupInv
<1>1. /\ Cardinality(ActiveIn(handlers, n, i)) \in Nat
      /\ Cardinality(ActiveIn(handlers', n, i)) \in Nat
    BY ActiveCount DEF DedupInv
<1>2. appCount[n][i] \in Nat /\ window[n] \in Nat /\ Spent(seen[n], i) \in Nat
    BY BoundAssumption DEF TypeOK, Spent
<1>3. appCount[n][i] + Cardinality(ActiveIn(handlers, n, i)) <= window[n] + Spent(seen[n], i)
    BY DEF DedupInv
<1> QED BY <1>1, <1>2, <1>3

(***************************************************************************)
(* Accept counts one handler more exactly when it enters the message in    *)
(* `seen'.                                                                 *)
(***************************************************************************)
LEMMA DedupInvAccept ==
    ASSUME TypeOK, DedupInv, NEW n \in Node, NEW msg, msg.id \in Id, NEW from, NEW kind,
           NEW known, Accept(n, msg, from, kind, known), UNCHANGED <<appCount, window>>
    PROVE  DedupInv'
<1> DEFINE k == [node |-> n, msg |-> msg, from |-> from, kind |-> kind,
                 stage |-> "relay", win |-> window[n]]
<1>1. k.node = n /\ k.msg = msg
    OBVIOUS
<1>2. IsFiniteSet(handlers) /\ seen \in [Node -> SUBSET Id]
    BY DEF DedupInv, TypeOK
<1>3. CASE IsDuplicate(n, msg)
    <2>1. UNCHANGED <<seen, handlers>>
        BY <1>3 DEF Accept
    <2>2. \A q \in Node, i \in Id : Cardinality(ActiveIn(handlers, q, i)) \in Nat
        BY <1>2, ActiveCount
    <2>3. \A q \in Node, i \in Id :
              Cardinality(ActiveIn(handlers', q, i)) <= Cardinality(ActiveIn(handlers, q, i))
        BY <2>1, <2>2
    <2> QED BY <1>2, <2>1, <2>3, DedupInvQuiet
<1>4. CASE ~IsDuplicate(n, msg)
    <2>1. /\ msg.id \notin seen[n]
          /\ seen' = [seen EXCEPT ![n] = @ \cup {msg.id}]
          /\ handlers' = handlers \cup {k}
        BY <1>4 DEF Accept, IsDuplicate
    <2> HIDE DEF k
    <2>2. IsFiniteSet(handlers')
        BY <1>2, <2>1, ActiveAdded
    <2>3. ASSUME NEW q \in Node, NEW i \in Id
          PROVE  appCount[q][i] + Cardinality(ActiveIn(handlers', q, i))
                     <= window[q] + Spent(seen'[q], i)
        <3>1. /\ Cardinality(ActiveIn(handlers', q, i)) \in Nat
              /\ Cardinality(ActiveIn(handlers, q, i)) \in Nat
            BY <1>2, <2>2, ActiveCount
        <3>2. appCount[q][i] \in Nat /\ window[q] \in Nat
            BY BoundAssumption DEF TypeOK
        <3>3. appCount[q][i] + Cardinality(ActiveIn(handlers, q, i))
                  <= window[q] + Spent(seen[q], i)
            BY DEF DedupInv
        <3>4. CASE q = n /\ i = msg.id
            <4>1. Spent(seen[q], i) = 0 /\ Spent(seen'[q], i) = 1
                BY <1>2, <2>1, <3>4 DEF Spent
            <4>2. Cardinality(ActiveIn(handlers', q, i))
                      <= Cardinality(ActiveIn(handlers, q, i)) + 1
                BY <1>2, <2>1, ActiveAdded
            <4> QED BY <3>1, <3>2, <3>3, <4>1, <4>2
        <3>5. CASE ~(q = n /\ i = msg.id)
            <4>1. Spent(seen[q], i) = Spent(seen'[q], i)
                BY <1>2, <2>1, <3>5 DEF Spent
            <4>2. Cardinality(ActiveIn(handlers', q, i)) = Cardinality(ActiveIn(handlers, q, i))
                <5>1. ~(k.node = q /\ k.msg.id = i)
                    BY <1>1, <3>5
                <5>2. ActiveIn(handlers \cup {k}, q, i) = ActiveIn(handlers, q, i)
                    BY <5>1 DEF ActiveIn
                <5> QED BY <2>1, <5>2
            <4> QED BY <3>3, <4>1, <4>2
        <3> QED BY <3>4, <3>5
    <2> QED BY <2>2, <2>3 DEF DedupInv
<1> QED BY <1>3, <1>4

(***************************************************************************)
(* A node that starts a new dedup window with an empty `seen', keeping its *)
(* handlers or losing them, keeps the count.                               *)
(***************************************************************************)
LEMMA DedupInvNewWindow ==
    ASSUME TypeOK, DedupInv, NEW n \in Node,
           seen' = [seen EXCEPT ![n] = {}], window' = [window EXCEPT ![n] = @ + 1],
           UNCHANGED appCount, handlers' \subseteq handlers
    PROVE  DedupInv'
<1>1. IsFiniteSet(handlers) /\ IsFiniteSet(handlers')
    BY FS_Subset DEF DedupInv
<1>2. ASSUME NEW q \in Node, NEW i \in Id
      PROVE  appCount[q][i] + Cardinality(ActiveIn(handlers', q, i))
                 <= window'[q] + Spent(seen'[q], i)
    <2>1. /\ Cardinality(ActiveIn(handlers', q, i)) \in Nat
          /\ Cardinality(ActiveIn(handlers, q, i)) \in Nat
        BY <1>1, ActiveCount
    <2>2. Cardinality(ActiveIn(handlers', q, i)) <= Cardinality(ActiveIn(handlers, q, i))
        <3>1. ActiveIn(handlers', q, i) \subseteq ActiveIn(handlers, q, i)
            BY DEF ActiveIn
        <3> QED BY <1>1, <3>1, ActiveSubset
    <2>3. appCount[q][i] \in Nat /\ window[q] \in Nat
        BY BoundAssumption DEF TypeOK
    <2>4. appCount[q][i] + Cardinality(ActiveIn(handlers, q, i)) <= window[q] + Spent(seen[q], i)
        BY DEF DedupInv
    <2>5. CASE q = n
        <3>1. window'[q] = window[q] + 1 /\ Spent(seen'[q], i) = 0
            BY <2>5 DEF TypeOK, Spent
        <3>2. Spent(seen[q], i) \in {0, 1}
            BY DEF Spent
        <3> QED BY <2>1, <2>2, <2>3, <2>4, <3>1, <3>2
    <2>6. CASE q # n
        <3>1. window'[q] = window[q] /\ Spent(seen'[q], i) = Spent(seen[q], i)
            BY <2>6 DEF TypeOK, Spent
        <3>2. Spent(seen[q], i) \in {0, 1}
            BY DEF Spent
        <3> QED BY <2>1, <2>2, <2>3, <2>4, <3>1, <3>2
    <2> QED BY <2>5, <2>6
<1> QED BY <1>1, <1>2 DEF DedupInv

(***************************************************************************)
(* The count is an invariant.                                              *)
(***************************************************************************)
LEMMA DedupInvInit == Init => DedupInv
<1> SUFFICES ASSUME Init PROVE DedupInv
    OBVIOUS
<1>1. handlers = {} /\ IsFiniteSet(handlers)
    BY FS_EmptySet DEF Init
<1>2. \A n \in Node, i \in Id : Cardinality(ActiveIn(handlers, n, i)) = 0
    <2>1. \A n, i : ActiveIn({}, n, i) = {}
        BY DEF ActiveIn
    <2> QED BY <1>1, <2>1, FS_EmptySet
<1> QED BY <1>1, <1>2 DEF DedupInv, Init, Spent

\* Every step keeps DedupInv.
LEMMA DedupInvNext == CopyInv /\ DedupInv /\ [Next]_vars => DedupInv'
<1> SUFFICES ASSUME CopyInv, DedupInv, [Next]_vars
             PROVE  DedupInv'
    OBVIOUS
<1>0. TypeOK /\ CopiesGood /\ IsFiniteSet(handlers)
    BY DEF CopyInv, DedupInv
<1>a. \A n \in Node, i \in Id : Cardinality(ActiveIn(handlers, n, i)) \in Nat
    BY <1>0, ActiveCount
<1>b. ASSUME UNCHANGED <<appCount, window, seen, handlers>>
      PROVE  DedupInv'
    BY <1>0, <1>a, <1>b, DedupInvQuiet
<1>1. ASSUME NEW m \in Msg, Send(m)
      PROVE  DedupInv'
    BY <1>1, <1>b DEF Send
<1>2. ASSUME NEW s \in streams, HandleStream(s)
      PROVE  DedupInv'
    <2>1. s.to \in Node /\ s.msg.id \in Id
        BY <1>0 DEF TypeOK, Copy
    <2> QED BY <1>0, <1>2, <2>1, DedupInvAccept DEF HandleStream
<1>3. ASSUME NEW s \in streams, LoseStream(s)
      PROVE  DedupInv'
    BY <1>3, <1>b DEF LoseStream
<1>4. ASSUME NEW g \in gossip, NEW n \in Node, HandlePubSub(g, n)
      PROVE  DedupInv'
    <2>1. g.msg.id \in Id
        BY <1>0 DEF TypeOK, Copy
    <2>2. PICK via \in Node : Accept(n, g.msg, via, "pubsub", {})
        BY <1>4 DEF HandlePubSub
    <2> QED BY <1>0, <1>4, <2>1, <2>2, DedupInvAccept DEF HandlePubSub
<1>5. ASSUME NEW g \in gossip, ForgetGossip(g)
      PROVE  DedupInv'
    BY <1>5, <1>b DEF ForgetGossip
<1>6. ASSUME NEW h \in handlers, Relay(h)
      PROVE  DedupInv'
    <2>1. h \in Handler /\ h.msg \in Copy
        BY <1>0 DEF TypeOK, Handler
    <2>2. h.stage = "relay" /\ UNCHANGED <<appCount, window, seen>>
        BY <1>6 DEF Relay
    <2>3. DecrementTTL(h.msg).id = h.msg.id
        BY <2>1 DEF DecrementTTL, Copy
    <2>4. PICK m : m.id = h.msg.id
                   /\ handlers' = (handlers \ {h}) \cup {[h EXCEPT !.stage = "deliver", !.msg = m]}
        BY <1>6, <2>1, <2>3 DEF Relay, Copy, DecrementTTL
    <2> DEFINE k == [h EXCEPT !.stage = "deliver", !.msg = m]
    <2>5. k.node = h.node /\ k.msg.id = h.msg.id
        BY <2>1, <2>4 DEF Handler
    <2> HIDE DEF k
    <2>6. handlers' = (handlers \ {h}) \cup {k} /\ h.stage # "ack"
        BY <2>2, <2>4 DEF k
    <2>7. IsFiniteSet(handlers')
          /\ \A n \in Node, i \in Id :
                Cardinality(ActiveIn(handlers', n, i)) <= Cardinality(ActiveIn(handlers, n, i))
        BY <1>0, <2>5, <2>6, ActiveMoved
    <2> QED BY <1>0, <2>2, <2>7, DedupInvQuiet
<1>7. ASSUME NEW o \in outbox, PublishRelay(o)
      PROVE  DedupInv'
    BY <1>7, <1>b DEF PublishRelay
<1>8. ASSUME NEW h \in handlers, Deliver(h)
      PROVE  DedupInv'
    <2> DEFINE n == h.node
               i == h.msg.id
               rest == handlers \ {h}
    <2>1. h \in Handler /\ n \in Node /\ i \in Id /\ h.stage = "deliver"
        BY <1>0, <1>8 DEF TypeOK, Handler, Copy, Deliver
    <2>2. UNCHANGED <<window, seen>> /\ appCount' = [appCount EXCEPT ![n][i] = @ + 1]
        BY <1>8 DEF Deliver
    <2>3. handlers' = rest \/ handlers' = rest \cup {[h EXCEPT !.stage = "ack"]}
        BY <1>8 DEF Deliver
    <2>4. [h EXCEPT !.stage = "ack"].stage = "ack"
        BY <2>1 DEF Handler
    <2>5. \A q, j : ActiveIn(handlers', q, j) = ActiveIn(rest, q, j)
        BY <2>3, <2>4 DEF ActiveIn
    <2>6. IsFiniteSet(rest) /\ IsFiniteSet(handlers')
        <3>1. IsFiniteSet(rest)
            BY <1>0, FS_Subset
        <3>2. IsFiniteSet(rest \cup {[h EXCEPT !.stage = "ack"]})
            BY <3>1, FS_AddElement, Zenon
        <3> QED BY <2>3, <3>1, <3>2
    <2>7. ASSUME NEW q \in Node, NEW j \in Id
          PROVE  appCount'[q][j] + Cardinality(ActiveIn(handlers', q, j))
                     <= window[q] + Spent(seen[q], j)
        <3>1. appCount[q][j] + Cardinality(ActiveIn(handlers, q, j)) <= window[q] + Spent(seen[q], j)
            BY DEF DedupInv
        <3>2. /\ appCount[q][j] \in Nat /\ window[q] \in Nat /\ Spent(seen[q], j) \in Nat
              /\ Cardinality(ActiveIn(handlers, q, j)) \in Nat
              /\ Cardinality(ActiveIn(rest, q, j)) \in Nat
            BY <1>0, <1>a, <2>6, ActiveCount, BoundAssumption DEF TypeOK, Spent
        <3>3. /\ Cardinality(ActiveIn(rest, q, j)) <= Cardinality(ActiveIn(handlers, q, j))
              /\ h.node = q /\ h.msg.id = j =>
                   Cardinality(ActiveIn(rest, q, j)) = Cardinality(ActiveIn(handlers, q, j)) - 1
            BY <1>0, <2>1, ActiveFinished
        <3>4. appCount \in [Node -> [Id -> Nat]]
            BY <1>0 DEF TypeOK
        <3>5. appCount'[q][j] = IF q = n /\ j = i THEN appCount[q][j] + 1 ELSE appCount[q][j]
            BY <2>1, <2>2, <3>4
        <3> QED BY <2>5, <3>1, <3>2, <3>3, <3>5
    <2> QED BY <2>2, <2>6, <2>7 DEF DedupInv
<1>9. ASSUME NEW h \in handlers, Acknowledge(h)
      PROVE  DedupInv'
    <2>1. handlers' \subseteq handlers /\ UNCHANGED <<appCount, window, seen>>
        BY <1>9 DEF Acknowledge
    <2>2. IsFiniteSet(handlers')
        BY <1>0, <2>1, FS_Subset
    <2>3. \A n \in Node, i \in Id : ActiveIn(handlers', n, i) \subseteq ActiveIn(handlers, n, i)
        BY <2>1 DEF ActiveIn
    <2> QED BY <1>0, <2>1, <2>2, <2>3, ActiveSubset, DedupInvQuiet
<1>10. ASSUME NEW n \in Forgetful, ResetSeen(n) \/ Restart(n)
       PROVE  DedupInv'
    <2>1. n \in Node
        BY BoundAssumption
    <2>2. /\ seen' = [seen EXCEPT ![n] = {}] /\ window' = [window EXCEPT ![n] = @ + 1]
          /\ UNCHANGED appCount /\ handlers' \subseteq handlers
        BY <1>10 DEF ResetSeen, Restart
    <2> QED BY <1>0, <2>1, <2>2, DedupInvNewWindow
<1>11. ASSUME NEW n \in Forgetful, ResetSprayed(n)
       PROVE  DedupInv'
    BY <1>11, <1>b DEF ResetSprayed
<1>12. ASSUME NEW a \in Node, NEW b \in Node,
              Connect(a, b) \/ Disconnect(a, b) \/ HandlePeerFound(a, b)
       PROVE  DedupInv'
    BY <1>12, <1>b DEF Connect, Disconnect, HandlePeerFound
<1>13. CASE UNCHANGED vars
    BY <1>13, <1>b DEF vars
<1> QED BY <1>1, <1>2, <1>3, <1>4, <1>5, <1>6, <1>7, <1>8, <1>9, <1>10, <1>11, <1>12, <1>13
           DEF Next, Progress, Environment

(***************************************************************************)
(* OnMessage runs at most once per message and dedup window, however the   *)
(* streams and the topic interleave.                                       *)
(***************************************************************************)
THEOREM DeliversAtMostOnce == Spec => []AtMostOncePerWindow
<1>1. CopyInv /\ DedupInv => AtMostOncePerWindow
    <2> SUFFICES ASSUME CopyInv, DedupInv, NEW n \in Node, NEW i \in Id
                 PROVE  appCount[n][i] <= window[n] + 1
        BY DEF AtMostOncePerWindow
    <2>1. appCount[n][i] \in Nat /\ window[n] \in Nat
        BY BoundAssumption DEF CopyInv, TypeOK
    <2>2. Cardinality(ActiveIn(handlers, n, i)) \in Nat
        BY ActiveCount DEF DedupInv
    <2>3. Spent(seen[n], i) \in {0, 1}
        BY DEF Spent
    <2>4. appCount[n][i] + Cardinality(ActiveIn(handlers, n, i)) <= window[n] + Spent(seen[n], i)
        BY DEF DedupInv
    <2> QED BY <2>1, <2>2, <2>3, <2>4
<1> QED BY <1>1, CopyInvInit, CopyInvNext, DedupInvInit, DedupInvNext, PTL DEF Spec

-----------------------------------------------------------------------------
(***************************************************************************)
(* The mesh implements Delivery.  A delivery is a Hand step: it needs that *)
(* the message was sent, which no invariant so far says.  Every copy, and  *)
(* every acknowledgment, is of a message in `sent', because no step makes  *)
(* a copy of another message than the one it handles.                      *)
(***************************************************************************)
SentInv ==
    /\ \A s \in streams : s.msg.id[1] \in sent
    /\ \A g \in gossip : g.msg.id[1] \in sent
    /\ \A h \in handlers : h.msg.id[1] \in sent
    /\ \A o \in outbox : o.msg.id[1] \in sent

(***************************************************************************)
(* routeToPeers and SendMessage send copies of their message only.         *)
(***************************************************************************)
LEMMA RouteToPeersIds ==
    ASSUME NEW n, NEW msg \in Copy, NEW from, RouteToPeers(n, msg, from)
    PROVE  \A s \in streams' : s \in streams \/ s.msg.id = msg.id
<1> DEFINE fresh == Targets(n, msg, from)
           out   == fresh \cup ({Recipient(msg.id)} \cap RoutingCandidates(n, from))
           new(p) == [from |-> n, to |-> p,
                      msg |-> [msg EXCEPT !.copies = CopiesOnWire(p, msg.copies, fresh)]]
<1>1. streams' = streams \cup {new(p) : p \in {q \in out : Linked(n, q)}}
    BY Zenon DEF RouteToPeers
<1>2. \A p : new(p).msg.id = msg.id
    BY DEF Copy
<1> HIDE DEF new, out
<1> QED BY <1>1, <1>2

\* SendMessage puts only copies of its message on the network.
LEMMA SendMessageIds ==
    ASSUME NEW n, NEW msg \in Copy, SendMessage(n, msg)
    PROVE  /\ \A s \in streams' : s \in streams \/ s.msg.id = msg.id
           /\ \A g \in gossip' : g \in gossip \/ g.msg.id = msg.id
<1> DEFINE first == [msg EXCEPT !.copies = IF @ < 1 THEN 1 ELSE @]
<1>1. first \in Copy /\ first.id = msg.id
    BY DEF Copy
<1>2. CASE RouteToPeers(n, first, NoNode) /\ UNCHANGED gossip
    <2> HIDE DEF first
    <2> QED BY <1>1, <1>2, RouteToPeersIds
<1>3. CASE /\ streams' = streams \cup {[from |-> n, to |-> Recipient(msg.id), msg |-> msg]}
           /\ UNCHANGED gossip
    BY <1>3
<1>4. CASE Publish(n, msg) /\ UNCHANGED streams
    BY <1>4 DEF Publish
<1> QED BY <1>2, <1>3, <1>4 DEF SendMessage

(***************************************************************************)
(* The first part of deliverMessage handles the copy it was given.         *)
(***************************************************************************)
LEMMA AcceptIds ==
    ASSUME NEW n, NEW msg, NEW from, NEW kind, NEW known, Accept(n, msg, from, kind, known)
    PROVE  \A h \in handlers' : h \in handlers \/ h.msg = msg
BY DEF Accept

\* At the start nothing is under way.
LEMMA SentInvInit == Init => SentInv
BY DEF Init, SentInv

\* Every step keeps SentInv.
LEMMA SentInvNext == CopyInv /\ SentInv /\ [Next]_vars => SentInv'
<1> SUFFICES ASSUME CopyInv, SentInv, [Next]_vars
             PROVE  SentInv'
    OBVIOUS
<1>0. TypeOK /\ CopiesGood /\ AckersDelivered
    BY DEF CopyInv
<1>1. ASSUME NEW m \in Msg, Send(m)
      PROVE  SentInv'
    <2> DEFINE new == NewMessage(<<m, 0>>)
    <2>1. new \in Copy /\ new.id[1] = m
        BY <1>0, OriginGood DEF Good, NewMessage
    <2> HIDE DEF new
    <2>2. SendMessage(Origin[m].sender, new) /\ sent' = sent \cup {m} /\ UNCHANGED workVars
        BY <1>1 DEF Send, new
    <2> QED BY <2>1, <2>2, SendMessageIds DEF SentInv
<1>2. ASSUME NEW s \in streams, HandleStream(s)
      PROVE  SentInv'
    <2>1. \A h \in handlers' : h \in handlers \/ h.msg = s.msg
        BY <1>2, AcceptIds DEF HandleStream
    <2> QED BY <1>2, <2>1 DEF HandleStream, SentInv
<1>3. ASSUME NEW s \in streams, LoseStream(s)
      PROVE  SentInv'
    BY <1>3 DEF LoseStream, SentInv
<1>4. ASSUME NEW g \in gossip, NEW n \in Node, HandlePubSub(g, n)
      PROVE  SentInv'
    <2>1. \A h \in handlers' : h \in handlers \/ h.msg = g.msg
        BY <1>4, AcceptIds DEF HandlePubSub
    <2> DEFINE k == [g EXCEPT !.reached = @ \cup {n}]
    <2>2. k.msg = g.msg
        BY <1>0 DEF TypeOK
    <2>3. gossip' = (gossip \ {g}) \cup {k} /\ UNCHANGED <<streams, outbox, sent>>
        BY <1>4 DEF HandlePubSub
    <2> HIDE DEF k
    <2> QED BY <2>1, <2>2, <2>3 DEF SentInv
<1>5. ASSUME NEW g \in gossip, ForgetGossip(g)
      PROVE  SentInv'
    BY <1>5 DEF ForgetGossip, SentInv
<1>6. ASSUME NEW h \in handlers, Relay(h)
      PROVE  SentInv'
    <2> DEFINE hop == DecrementTTL(h.msg)
               Moved(m) == [h EXCEPT !.stage = "deliver", !.msg = m]
               more == [hop EXCEPT !.copies = @ + Cardinality(Targets(h.node, hop, h.from))]
    <2>1. h \in Handler /\ h.msg \in Copy /\ Good(h.msg, appCount)
        BY <1>0 DEF TypeOK, CopiesGood, Handler
    <2>2. hop.id = h.msg.id /\ more.id = h.msg.id
        BY <2>1 DEF DecrementTTL, Copy
    <2>3. \A m : Moved(m).msg = m
        BY <2>1 DEF Handler
    <2>4. MayRelay(h.node, h.msg) => hop \in Copy
        BY <2>1, DecrementTTLGood DEF MayRelay, Good
    <2>5. /\ UNCHANGED <<gossip, sent>>
          /\ \/ /\ MayRelay(h.node, h.msg) /\ RouteToPeers(h.node, hop, h.from)
                /\ handlers' = (handlers \ {h}) \cup {Moved(more)}
                /\ UNCHANGED outbox
             \/ /\ outbox' = outbox \cup {[node |-> h.node, msg |-> hop, win |-> h.win]}
                /\ handlers' = (handlers \ {h}) \cup {Moved(hop)}
                /\ UNCHANGED streams
             \/ /\ handlers' = (handlers \ {h}) \cup {Moved(h.msg)}
                /\ UNCHANGED <<streams, outbox>>
        BY <1>6, Zenon DEF Relay
    <2>6. h.msg.id[1] \in sent
        BY DEF SentInv
    <2> HIDE DEF hop, more, Moved
    <2>7. CASE /\ MayRelay(h.node, h.msg) /\ RouteToPeers(h.node, hop, h.from)
               /\ handlers' = (handlers \ {h}) \cup {Moved(more)}
               /\ UNCHANGED outbox
        <3>1. \A s \in streams' : s \in streams \/ s.msg.id = hop.id
            BY <2>4, <2>7, RouteToPeersIds
        <3> QED BY <2>2, <2>3, <2>5, <2>6, <2>7, <3>1 DEF SentInv
    <2>8. CASE UNCHANGED streams
        BY <2>2, <2>3, <2>5, <2>6, <2>8 DEF SentInv
    <2> QED BY <2>5, <2>7, <2>8
<1>7. ASSUME NEW o \in outbox, PublishRelay(o)
      PROVE  SentInv'
    BY <1>7 DEF PublishRelay, Publish, SentInv
<1>8. ASSUME NEW h \in handlers, Deliver(h)
      PROVE  SentInv'
    <2> DEFINE new == [h EXCEPT !.stage = "ack"]
    <2>1. new.msg = h.msg
        BY <1>0 DEF TypeOK, Handler
    <2>2. \A k \in handlers' : k \in handlers \/ k = new
        BY <1>8 DEF Deliver
    <2> HIDE DEF new
    <2> QED BY <1>8, <2>1, <2>2 DEF Deliver, SentInv
<1>9. ASSUME NEW h \in handlers, Acknowledge(h)
      PROVE  SentInv'
    <2> DEFINE ack == NewMessage(<<h.msg.id[1], h.win + 1>>)
    <2>1. ack \in Copy /\ ack.id[1] = h.msg.id[1]
        BY <1>9, AckGood DEF Acknowledge, Good, NewMessage
    <2> HIDE DEF ack
    <2>2. /\ SendMessage(h.node, ack) /\ handlers' \subseteq handlers
          /\ UNCHANGED <<outbox, sent>>
        BY <1>9 DEF Acknowledge, ack
    <2> QED BY <2>1, <2>2, SendMessageIds DEF SentInv
<1>10. ASSUME NEW n \in Forgetful, ResetSeen(n) \/ ResetSprayed(n)
      PROVE  SentInv'
    BY <1>10 DEF ResetSeen, ResetSprayed, SentInv
<1>11. ASSUME NEW a \in Node, NEW b \in Node,
              Connect(a, b) \/ Disconnect(a, b) \/ HandlePeerFound(a, b)
      PROVE  SentInv'
    BY <1>11 DEF Connect, Disconnect, HandlePeerFound, SentInv
<1>12. ASSUME NEW n \in Forgetful, Restart(n)
       PROVE  SentInv'
    <2> DEFINE Kept(g) == IF g.by = n THEN [g EXCEPT !.reached = @ \cup {n}] ELSE g
    <2>1. gossip' = {Kept(g) : g \in gossip}
        BY <1>12, Zenon DEF Restart
    <2>2. \A g \in gossip : Kept(g).msg = g.msg
        BY <1>0 DEF TypeOK
    <2> HIDE DEF Kept
    <2> QED BY <1>12, <2>1, <2>2 DEF Restart, SentInv
<1>13. CASE UNCHANGED vars
    BY <1>13 DEF vars, SentInv
<1> QED BY <1>1, <1>2, <1>3, <1>4, <1>5, <1>6, <1>7, <1>8, <1>9, <1>10, <1>11, <1>12, <1>13
           DEF Next, Progress, Environment

(***************************************************************************)
(* A call of OnMessage is a Hand step of Delivery.                         *)
(***************************************************************************)
LEMMA DeliverHands ==
    ASSUME CopyInv, DedupInv, SentInv, NEW h \in handlers, Deliver(h)
    PROVE  h.node \in Node /\ h.msg.id \in Id /\ Applications!Hand(h.node, h.msg.id)
<1> DEFINE n == h.node
           i == h.msg.id
<1>1. h \in Handler /\ n \in Node /\ i \in Id /\ Good(h.msg, appCount) /\ h.stage = "deliver"
    BY DEF CopyInv, CopiesGood, TypeOK, Handler, Copy, Deliver
<1>2. i[1] \in sent
    BY DEF SentInv
<1>3. appCount[n][i] <= window[n]
    <2>0. IsFiniteSet(ActiveIn(handlers, n, i))
        BY ActiveCount DEF DedupInv
    <2>1. h \in ActiveIn(handlers, n, i)
        BY <1>1 DEF ActiveIn
    <2>2. Cardinality(ActiveIn(handlers, n, i)) # 0
        BY <2>0, <2>1, FS_EmptySet
    <2>3. Cardinality(ActiveIn(handlers, n, i)) \in Nat
        BY <2>0, FS_CardinalityType
    <2>4. appCount[n][i] \in Nat /\ window[n] \in Nat
        BY <1>1, BoundAssumption DEF CopyInv, TypeOK
    <2>5. Spent(seen[n], i) \in {0, 1}
        BY DEF Spent
    <2>6. appCount[n][i] + Cardinality(ActiveIn(handlers, n, i)) <= window[n] + Spent(seen[n], i)
        BY <1>1 DEF DedupInv
    <2> QED BY <2>2, <2>3, <2>4, <2>5, <2>6
<1>4. i[2] > 0 => appCount[Addressee(i[1])][<<i[1], 0>>] > 0
    BY <1>1 DEF Good, IsAck, Sender, Addressee
<1>5. appCount' = [appCount EXCEPT ![n][i] = @ + 1] /\ UNCHANGED <<sent, window>>
    BY DEF Deliver
<1> QED BY <1>1, <1>2, <1>3, <1>4, <1>5 DEF Applications!Hand

(***************************************************************************)
(* The mesh, with its streams, its topic, relays, budgets, resets and      *)
(* restarts, implements Delivery.                                          *)
(***************************************************************************)
THEOREM MeshDelivers == Spec => ImplementsDelivery
<1>1. Init => Applications!Init
    BY DEF Init, Applications!Init, Id, Applications!Id
<1>2. CopyInv /\ DedupInv /\ SentInv /\ [Next]_vars => [Applications!Next]_(Applications!vars)
    <2> SUFFICES ASSUME CopyInv, DedupInv, SentInv, [Next]_vars
                 PROVE  Applications!Next \/ UNCHANGED Applications!vars
        OBVIOUS
    <2>1. ASSUME UNCHANGED histVars
          PROVE  UNCHANGED Applications!vars
        BY <2>1 DEF Applications!vars
    <2>2. ASSUME NEW m \in Msg, Send(m)
          PROVE  Applications!Next
        BY <2>2 DEF Send, Applications!Next, Applications!Send
    <2>3. ASSUME NEW h \in handlers, Deliver(h)
          PROVE  Applications!Next
        BY <2>3, DeliverHands DEF Applications!Next, Id, Applications!Id
    <2>4. ASSUME NEW n \in Forgetful, ResetSeen(n) \/ Restart(n)
          PROVE  Applications!Next
        BY <2>4, BoundAssumption DEF ResetSeen, Restart, Applications!Next, Applications!Forget
    <2>5. CASE \E s \in streams : HandleStream(s) \/ LoseStream(s)
        BY <2>1, <2>5 DEF HandleStream, LoseStream
    <2>6. CASE \E g \in gossip : ForgetGossip(g) \/ \E n \in Node : HandlePubSub(g, n)
        BY <2>1, <2>6 DEF ForgetGossip, HandlePubSub
    <2>7. CASE \E h \in handlers : Relay(h) \/ Acknowledge(h)
        BY <2>1, <2>7 DEF Relay, Acknowledge
    <2>8. CASE \E o \in outbox : PublishRelay(o)
        BY <2>1, <2>8 DEF PublishRelay
    <2>9. CASE \/ \E n \in Forgetful : ResetSprayed(n)
               \/ \E a, b \in Node : Connect(a, b) \/ Disconnect(a, b) \/ HandlePeerFound(a, b)
        BY <2>1, <2>9 DEF ResetSprayed, Connect, Disconnect, HandlePeerFound
    <2>10. CASE UNCHANGED vars
        BY <2>1, <2>10 DEF vars
    <2> QED BY <2>2, <2>3, <2>4, <2>5, <2>6, <2>7, <2>8, <2>9, <2>10
               DEF Next, Progress, Environment
<1> QED BY <1>1, <1>2, CopyInvInit, CopyInvNext, DedupInvInit, DedupInvNext,
           SentInvInit, SentInvNext, PTL DEF Spec, ImplementsDelivery, Applications!Spec

-----------------------------------------------------------------------------
(***************************************************************************)
(* The copies of an addressed message.  Each carrier counts on from the    *)
(* number its own copy carries, so no node knows how many copies there     *)
(* are, and the copies form a tree.  A copy is identified by the counts    *)
(* along its path, an increasing sequence, hence a set of numbers up to    *)
(* the budget; so the number of copies is bounded by the number of such    *)
(* sets.                                                                   *)
(***************************************************************************)

\* n has handed a copy of m to p, which is not its destination.
Sprayed(m, n, p) == p # Origin[m].recipient /\ <<<<m, 0>>, p>> \in sprayed[n]

\* The budget L of the sender of m.
Budget(m) == SprayBudget[Origin[m].sender]

\* Within one dedup window a node routes m at most once: an addressed message
\* is never published, it has one handler at a node, for which the ID is in
\* seen, and a node other than the sender has handed out copies only if its
\* handler is past the relay.
OneRelay(m) ==
    LET i == <<m, 0>>
    IN  /\ \A g \in gossip : g.msg.id # i
        /\ \A o \in outbox : o.msg.id # i
        /\ \A h \in handlers : h.msg.id = i => i \in seen[h.node]
        /\ \A h, k \in handlers : h.msg.id = i /\ k.msg.id = i /\ h.node = k.node => h = k
        /\ \A n, p \in Node : Sprayed(m, n, p) =>
              IF n = Origin[m].sender THEN m \in sent
              ELSE /\ i \in seen[n]
                   /\ \A h \in handlers : h.msg.id = i /\ h.node = n => h.stage # "relay"

\* Every copy in a ledger has a label, the set of counts that were written on
\* the copies on its way from the sender: a node that was handed a copy with
\* label B hands out copies labelled B \cup {k}, k the count on the new copy. The
\* sender has the empty label. The destination, which may be handed copies with
\* any count and relays one of them, begins a tree of its own, with label {1};
\* counts of handed copies begin at 2. Labels determine who handed a copy to whom,
\* so there are no more copies than sets of counts.
Labelled(m, label, base) ==
    LET src == Origin[m].sender
        dst == Origin[m].recipient
    IN  /\ base[src] = {} /\ (dst # src => base[dst] = {1})
        /\ \A n, p \in Node : Sprayed(m, n, p) =>
              \E k \in 2 .. Budget(m) :
                  (\A x \in base[n] : x < k) /\ label[<<n, p>>] = base[n] \cup {k}
        /\ \A n, p \in Node : Sprayed(m, n, p) /\ n # src /\ n # dst =>
              \E e \in Node : Sprayed(m, e, n) /\ base[n] = label[<<e, n>>]
        /\ \A n, p, a, q \in Node :
              Sprayed(m, n, p) /\ Sprayed(m, a, q) /\ label[<<n, p>>] = label[<<a, q>>]
                  => n = a /\ p = q

\* The count on a copy under way is the largest in its label; the copies to the
\* destination carry some count.
Carried(m, label, from, to, copies) ==
    IF to = Origin[m].recipient THEN copies >= 1
    ELSE /\ Sprayed(m, from, to) /\ copies \in label[<<from, to>>]
         /\ \A x \in label[<<from, to>>] : x <= copies

\* The copies in the streams, and in the handlers that have not relayed yet.
CopiesCarried(m, label) ==
    /\ \A s \in streams : s.msg.id = <<m, 0>> =>
          Carried(m, label, s.from, s.to, s.msg.copies)
    /\ \A h \in handlers : h.msg.id = <<m, 0>> /\ h.stage = "relay" =>
          Carried(m, label, h.from, h.node, h.msg.copies)

\* The labels of copies, by who handed them to whom, and those of nodes.
Label == [Node \X Node -> SUBSET (Nat \ {0})]
Base  == [Node -> SUBSET (Nat \ {0})]

\* The inductive invariant behind TreeBudget, for one message.
TreeInv(m) ==
    /\ OneRelay(m)
    /\ \E label \in Label, base \in Base : Labelled(m, label, base) /\ CopiesCarried(m, label)

\* All nodes run with the same budget.
SameBudget == \A n, p \in Node : SprayBudget[n] = SprayBudget[p]

\* The rank of a member in a set of nodes: positive, different for different
\* members, not smaller in a larger set.
LEMMA RankOrder ==
    ASSUME NEW S \in SUBSET Node, NEW p \in S
    PROVE  /\ Rank(p, S) \in Nat \ {0}
           /\ \A q \in S : Rank(q, S) = Rank(p, S) => q = p
           /\ \A T \in SUBSET Node : S \subseteq T => Rank(p, S) <= Rank(p, T)
<1> DEFINE Below(q, U) == {x \in U : x <= q}
<1>1. ASSUME NEW U \in SUBSET Node, NEW q \in Node
      PROVE  IsFiniteSet(Below(q, U)) /\ Rank(q, U) = Cardinality(Below(q, U)) /\ Rank(q, U) \in Nat
    <2>1. IsFiniteSet(Below(q, U))
        BY NodeAssumption, FS_Subset
    <2>2. Rank(q, U) = Cardinality(Below(q, U))
        BY DEF Rank
    <2> QED BY <2>1, <2>2, FS_CardinalityType
<1>2. p \in Node /\ p \in Nat /\ S \subseteq Nat
    BY NodeAssumption
<1>3. p \in Below(p, S)
    BY <1>2
<1>4. Rank(p, S) # 0
    <2>1. Below(p, S) # {}
        BY <1>3
    <2> HIDE DEF Below
    <2> QED BY <1>1, <1>2, <2>1, FS_EmptySet
<1>5. ASSUME NEW q \in S, NEW r \in S, q < r PROVE Rank(q, S) # Rank(r, S)
    <2>1. q \in Node /\ r \in Node /\ q \in Nat /\ r \in Nat
        BY <1>2
    <2>2. r \in Below(r, S) /\ r \notin Below(q, S)
        BY <1>5, <2>1
    <2>3. Below(q, S) \in SUBSET Below(r, S)
        <3>1. \A x \in S : x \in Nat /\ (x <= q => x <= r)
            BY <1>2, <1>5, <2>1
        <3> QED BY <3>1
    <2>4. Below(q, S) # Below(r, S)
        BY <2>2
    <2> HIDE DEF Below
    <2> QED BY <1>1, <2>1, <2>3, <2>4, FS_Subset
<1>6. \A q \in S : Rank(q, S) = Rank(p, S) => q = p
    <2> TAKE q \in S
    <2>1. q < p \/ p < q \/ q = p
        BY <1>2
    <2> QED BY <1>5, <2>1
<1>7. ASSUME NEW T \in SUBSET Node, S \subseteq T PROVE Rank(p, S) <= Rank(p, T)
    <2>1. Below(p, S) \in SUBSET Below(p, T)
        BY <1>7
    <2> HIDE DEF Below
    <2> QED BY <1>1, <1>2, <2>1, FS_Subset
<1> QED BY <1>1, <1>2, <1>4, <1>6, <1>7

\* Counting the labels: they are subsets of 1 .. L other than {} and {1}.
LEMMA TreeCounted ==
    ASSUME TypeOK, NEW m \in Msg, Routed(m), TreeInv(m)
    PROVE  SprayedCopies(m) < 2 ^ SprayBudget[Origin[m].sender]
<1> DEFINE b == Budget(m)
           E == {e \in Node \X Node :
                    e[2] # Origin[m].recipient /\ <<<<m, 0>>, e[2]>> \in sprayed[e[1]]}
           P == SUBSET (1 .. b)
           Q == (P \ {{}}) \ {{1}}
<1>1. b \in Nat /\ b >= 1
    BY OriginAssumption, BoundAssumption DEF Routed, Budget
<1>2. PICK label \in Label, base \in Base : Labelled(m, label, base)
    BY DEF TreeInv
<1> DEFINE F == [e \in E |-> label[e]]
<1>3. ASSUME NEW e \in E
      PROVE  /\ e[1] \in Node /\ e[2] \in Node /\ e = <<e[1], e[2]>> /\ Sprayed(m, e[1], e[2])
             /\ label[e] \in Q
    <2>1. e[1] \in Node /\ e[2] \in Node /\ e = <<e[1], e[2]>> /\ Sprayed(m, e[1], e[2])
        BY DEF Sprayed
    <2>2. PICK k \in 2 .. Budget(m) :
              (\A x \in base[e[1]] : x < k) /\ label[<<e[1], e[2]>>] = base[e[1]] \cup {k}
        BY <1>2, <2>1 DEF Labelled
    <2>3. label[e] = base[e[1]] \cup {k} /\ label[e] \subseteq Nat \ {0}
        BY <2>1, <2>2 DEF Label, Base
    <2>4. label[e] \subseteq 1 .. b /\ k \in label[e] /\ k # 1
        BY <1>1, <2>2, <2>3
    <2> QED BY <2>1, <2>4
<1>4. F \in Injection(E, Q)
    <2>1. F \in [E -> Q]
        BY <1>3
    <2>2. \A d, e \in E : F[d] = F[e] => d = e
        BY <1>2, <1>3 DEF Labelled
    <2> QED BY <2>1, <2>2 DEF Injection, IsInjective
<1>5. IsFiniteSet(P) /\ Cardinality(P) = 2 ^ b /\ Cardinality(P) \in Nat
    <2>1. IsFiniteSet(1 .. b) /\ Cardinality(1 .. b) = b
        BY <1>1, FS_Interval
    <2> QED BY <2>1, FS_SUBSET, FS_CardinalityType
<1>6. {} \in P /\ {1} \in P \ {{}}
    BY <1>1
<1> HIDE DEF P, E, b
<1>7. IsFiniteSet(P \ {{}}) /\ Cardinality(P \ {{}}) = Cardinality(P) - 1
    BY <1>5, <1>6, FS_RemoveElement
<1>8. IsFiniteSet(Q) /\ Cardinality(Q) = Cardinality(P) - 2
    <2>1. IsFiniteSet(Q) /\ Cardinality(Q) = Cardinality(P \ {{}}) - 1
        BY <1>6, <1>7, FS_RemoveElement
    <2> QED BY <1>5, <1>7, <2>1
<1>9. IsFiniteSet(E) /\ Cardinality(E) <= Cardinality(Q) /\ Cardinality(E) \in Nat
    BY <1>4, <1>8, FS_Injection, FS_CardinalityType
<1>10. SprayedCopies(m) = 1 + Cardinality(E)
    BY DEF SprayedCopies, E
<1>11. SprayedCopies(m) < Cardinality(P)
    BY <1>5, <1>8, <1>9, <1>10
<1> QED BY <1>5, <1>11 DEF b, Budget

\* B is what a node that hands out copies of m has for a label.
Root(m, label, n, B) ==
    LET src == Origin[m].sender
        dst == Origin[m].recipient
    IN  \/ n = src /\ B = {}
        \/ n # src /\ n = dst /\ B = {1}
        \/ n # src /\ n # dst /\ \E e \in Node : Sprayed(m, e, n) /\ B = label[<<e, n>>]

\* What routeToPeers enters in the ledgers for its message.
LEMMA LedgerGrows ==
    ASSUME TypeOK, NEW m \in Msg, NEW n \in Node, NEW msg \in Copy, msg.id = <<m, 0>>,
           NEW from, RouteToPeers(n, msg, from)
    PROVE  LET T == Targets(n, msg, from)
           IN  /\ \A a, p \in Node : a # n => (Sprayed(m, a, p)' <=> Sprayed(m, a, p))
               /\ \A p \in Node : Sprayed(m, n, p)' <=> Sprayed(m, n, p) \/ p \in T
<1> DEFINE T == Targets(n, msg, from)
           i == <<m, 0>>
           out == T \cup ({Recipient(msg.id)} \cap RoutingCandidates(n, from))
<1>1. Recipient(msg.id) = Origin[m].recipient
    BY DEF Recipient, IsAck
<1>2. T \subseteq Node /\ Origin[m].recipient \notin T
    BY <1>1, TargetsType DEF Targets, SprayTargets, Fresh
<1>3. sprayed' = [sprayed EXCEPT ![n] = @ \cup {<<msg.id, p>> : p \in out}]
    BY DEF RouteToPeers
<1>4. sprayed \in [Node -> SUBSET (Id \X Node)]
    BY DEF TypeOK
<1>5. \A p \in out : p \in T \/ p = Origin[m].recipient
    BY <1>1
<1>6. T \subseteq out
    OBVIOUS
<1> HIDE DEF T, out
<1>7. sprayed'[n] = sprayed[n] \cup {<<i, p>> : p \in out}
    BY <1>3, <1>4
<1>8. \A a \in Node : a # n => sprayed'[a] = sprayed[a]
    BY <1>3, <1>4
<1>9. \A p \in Node : <<i, p>> \in sprayed'[n] <=> <<i, p>> \in sprayed[n] \/ p \in out
    BY <1>7
<1> HIDE DEF i
<1>10. \A p \in Node : Sprayed(m, n, p)' <=> Sprayed(m, n, p) \/ p \in T
    BY <1>2, <1>5, <1>6, <1>9 DEF Sprayed, i
<1> QED BY <1>8, <1>10 DEF Sprayed, T

\* The counts routeToPeers writes on new copies: larger than its own, within the
\* budget, no two the same.
LEMMA NewCounts ==
    ASSUME TypeOK, NEW m \in Msg, NEW n \in Node, NEW msg \in Copy, msg.id = <<m, 0>>,
           msg.copies >= 1, SprayBudget[n] = Budget(m), NEW from
    PROVE  LET T == Targets(n, msg, from)
               K(p) == CopiesOnWire(p, msg.copies, T)
           IN  /\ \A p \in T : K(p) \in 2 .. Budget(m) /\ K(p) > msg.copies
               /\ \A p, q \in T : K(p) = K(q) => p = q
               /\ \A p \in Node : K(p) >= 1
<1> DEFINE T == Targets(n, msg, from)
           K(p) == CopiesOnWire(p, msg.copies, T)
           F == Fresh(RoutingCandidates(n, from), Recipient(msg.id),
                      {p \in Node : <<msg.id, p>> \in sprayed[n]})
           c == msg.copies
<1>1. c \in Nat /\ c >= 1 /\ Budget(m) \in Nat
    BY OriginAssumption, BoundAssumption DEF Copy, Budget
<1>2. T = {p \in F : c + Rank(p, F) <= Budget(m)}
    BY DEF Targets, SprayTargets
<1>3. F \subseteq Node
    BY DEF Fresh, RoutingCandidates, TypeOK
<1>4. T \subseteq F /\ T \subseteq Node
    BY <1>2, <1>3
<1>5. \A p : K(p) = c + Rank(p, T)
    BY DEF CopiesOnWire
<1>6. \A p \in T : c + Rank(p, F) <= Budget(m)
    BY <1>2
<1>7. \A p \in Node : K(p) \in Nat /\ K(p) >= 1
    <2> TAKE p \in Node
    <2>1. Rank(p, T) \in Nat
        <3>1. IsFiniteSet({q \in T : q <= p})
            BY <1>4, NodeAssumption, FS_Subset
        <3> QED BY <3>1, FS_CardinalityType DEF Rank
    <2> HIDE DEF T, F, K, c
    <2> QED BY <1>1, <1>5, <2>1
<1> HIDE DEF T, F, c
<1>8. ASSUME NEW p \in T PROVE K(p) \in 2 .. Budget(m) /\ K(p) > c
    <2>1. Rank(p, T) \in Nat \ {0} /\ Rank(p, T) <= Rank(p, F)
        BY <1>3, <1>4, RankOrder
    <2>2. Rank(p, F) \in Nat
        BY <1>3, <1>4, RankOrder
    <2> HIDE DEF K
    <2> QED BY <1>1, <1>5, <1>6, <2>1, <2>2
<1>9. ASSUME NEW p \in T, NEW q \in T, K(p) = K(q) PROVE p = q
    <2>1. Rank(p, T) \in Nat /\ Rank(q, T) \in Nat
        BY <1>4, RankOrder
    <2>2. Rank(q, T) = Rank(p, T)
        BY <1>1, <1>5, <1>9, <2>1
    <2> QED BY <1>4, <2>2, RankOrder
<1> QED BY <1>7, <1>8, <1>9 DEF T, c

\* Sets that are extended by a larger number.
LEMMA Extended ==
    ASSUME NEW A \in SUBSET Nat, NEW B \in SUBSET Nat, NEW k \in Nat, NEW l \in Nat,
           \A x \in A : x < k, \A x \in B : x < l, A \cup {k} = B \cup {l}
    PROVE  A = B /\ k = l
<1>1. k = l
    <2>1. k \in B \cup {l} /\ l \in A \cup {k}
        OBVIOUS
    <2>2. (k \in B => k < l) /\ (l \in A => l < k)
        OBVIOUS
    <2> QED BY <2>1, <2>2
<1>2. k \notin A /\ k \notin B
    BY <1>1
<1> QED BY <1>1, <1>2

\* No other node that has handed out copies has the label of n.
LEMMA OtherRoot ==
    ASSUME NEW m \in Msg, NEW label \in Label, NEW base \in Base, Labelled(m, label, base),
           Origin[m].sender \in Node, Origin[m].recipient \in Node,
           NEW n \in Node, NEW B, Root(m, label, n, B),
           NEW a \in Node, NEW q \in Node, Sprayed(m, a, q), a # n
    PROVE  base[a] # B
<1> DEFINE src == Origin[m].sender
           dst == Origin[m].recipient
<1>1. ASSUME NEW e \in Node, NEW p \in Node, Sprayed(m, e, p)
      PROVE  label[<<e, p>>] # {} /\ label[<<e, p>>] # {1}
    <2>1. PICK k \in 2 .. Budget(m) : label[<<e, p>>] = base[e] \cup {k}
        BY <1>1 DEF Labelled
    <2>2. k # 1 /\ k \in label[<<e, p>>]
        BY <2>1
    <2> QED BY <2>2
<1>2. base[src] = {} /\ (dst # src => base[dst] = {1})
    BY DEF Labelled
<1>3. a # src /\ a # dst => \E e \in Node : Sprayed(m, e, a) /\ base[a] = label[<<e, a>>]
    BY DEF Labelled
<1>4. \A e, f \in Node : Sprayed(m, e, n) /\ Sprayed(m, f, a) => label[<<e, n>>] # label[<<f, a>>]
    BY DEF Labelled
<1>5. {} # {1}
    OBVIOUS
<1>6. CASE n = src /\ B = {}
    BY <1>1, <1>2, <1>3, <1>5, <1>6
<1>7. CASE n # src /\ n = dst /\ B = {1}
    BY <1>1, <1>2, <1>3, <1>5, <1>7
<1>8. CASE n # src /\ n # dst /\ \E e \in Node : Sprayed(m, e, n) /\ B = label[<<e, n>>]
    <2>1. PICK e \in Node : Sprayed(m, e, n) /\ B = label[<<e, n>>]
        BY <1>8
    <2>2. B # {} /\ B # {1}
        BY <1>1, <2>1
    <2>3. CASE a = src \/ a = dst
        BY <1>2, <2>2, <2>3
    <2>4. CASE a # src /\ a # dst
        BY <1>3, <1>4, <2>1, <2>4
    <2> QED BY <2>3, <2>4
<1> QED BY <1>6, <1>7, <1>8 DEF Root

\* routeToPeers at a node that has not handed out copies of m yet: the new copies
\* can be labelled, and the old ones keep their labels.
LEMMA RouteLabels ==
    ASSUME TypeOK, NEW m \in Msg, Origin[m].sender \in Node, Origin[m].recipient \in Node,
           NEW label \in Label, NEW base \in Base, Labelled(m, label, base),
           NEW n \in Node, \A p \in Node : ~Sprayed(m, n, p),
           NEW msg \in Copy, msg.id = <<m, 0>>, msg.copies >= 1, SprayBudget[n] = Budget(m),
           NEW B \in SUBSET (Nat \ {0}), Root(m, label, n, B), \A x \in B : x <= msg.copies,
           NEW from, RouteToPeers(n, msg, from)
    PROVE  \E new \in Label, first \in Base :
              /\ Labelled(m, new, first)'
              /\ \A a, p \in Node : Sprayed(m, a, p) =>
                    Sprayed(m, a, p)' /\ new[<<a, p>>] = label[<<a, p>>]
              /\ \A p \in Targets(n, msg, from) : Sprayed(m, n, p)'
                    /\ new[<<n, p>>] = B \cup {CopiesOnWire(p, msg.copies, Targets(n, msg, from))}
<1> DEFINE src == Origin[m].sender
           dst == Origin[m].recipient
           T == Targets(n, msg, from)
           K(p) == CopiesOnWire(p, msg.copies, T)
           longer == [e \in Node \X Node |->
                         IF e[1] = n /\ e[2] \in T THEN B \cup {K(e[2])} ELSE label[e]]
           other == [base EXCEPT ![n] = B]
<1>1. /\ \A a, p \in Node : a # n => (Sprayed(m, a, p)' <=> Sprayed(m, a, p))
      /\ \A p \in Node : Sprayed(m, n, p)' <=> p \in T
    BY LedgerGrows
<1>2. T \subseteq Node
    BY TargetsType
<1>3. /\ \A p \in T : K(p) \in 2 .. Budget(m) /\ K(p) > msg.copies
      /\ \A p, q \in T : K(p) = K(q) => p = q
    BY NewCounts
<1>4. msg.copies \in Nat /\ Budget(m) \in Nat
    BY OriginAssumption, BoundAssumption DEF Copy, Budget
<1> HIDE DEF T, K
<1>5. \A p \in T : K(p) \in Nat \ {0} /\ \A x \in B : x < K(p)
    BY <1>3, <1>4
<1>6. longer \in Label /\ other \in Base
    BY <1>2, <1>5 DEF Label, Base
<1>7. PICK new \in Label, first \in Base :
        /\ \A a, p \in Node : a # n => new[<<a, p>>] = label[<<a, p>>]
        /\ \A p \in T : new[<<n, p>>] = B \cup {K(p)}
        /\ first[n] = B /\ \A a \in Node : a # n => first[a] = base[a]
    <2>1. /\ \A a, p \in Node : a # n => longer[<<a, p>>] = label[<<a, p>>]
          /\ \A p \in T : longer[<<n, p>>] = B \cup {K(p)}
          /\ other[n] = B /\ \A a \in Node : a # n => other[a] = base[a]
        BY <1>2 DEF Base
    <2> HIDE DEF longer, other
    <2> QED BY <1>6, <2>1
<1>8. first[src] = {} /\ (dst # src => first[dst] = {1})
    <2>1. base[src] = {} /\ (dst # src => base[dst] = {1})
        BY DEF Labelled
    <2>2. (n = src => B = {}) /\ (n = dst /\ dst # src => B = {1})
        BY DEF Root
    <2> QED BY <1>7, <2>1, <2>2
<1>9. ASSUME NEW a \in Node, NEW p \in Node, Sprayed(m, a, p)'
      PROVE  \E k \in 2 .. Budget(m) :
                (\A x \in first[a] : x < k) /\ new[<<a, p>>] = first[a] \cup {k}
    <2>1. CASE a = n
        <3>1. p \in T
            BY <1>1, <1>9, <2>1
        <3> QED BY <1>3, <1>5, <1>7, <2>1, <3>1
    <2>2. CASE a # n
        <3>1. Sprayed(m, a, p)
            BY <1>1, <1>9, <2>2
        <3>2. \E k \in 2 .. Budget(m) :
                 (\A x \in base[a] : x < k) /\ label[<<a, p>>] = base[a] \cup {k}
            BY <3>1 DEF Labelled
        <3> QED BY <1>7, <2>2, <3>2
    <2> QED BY <2>1, <2>2
<1>10. \A a, p \in Node : Sprayed(m, a, p) => Sprayed(m, a, p)' /\ new[<<a, p>>] = label[<<a, p>>]
    BY <1>1, <1>7
<1>11. ASSUME NEW a \in Node, NEW p \in Node, Sprayed(m, a, p)', a # src, a # dst
       PROVE  \E e \in Node : Sprayed(m, e, a)' /\ first[a] = new[<<e, a>>]
    <2>1. PICK e \in Node : Sprayed(m, e, a) /\ first[a] = label[<<e, a>>]
        <3>1. CASE a = n
            BY <1>7, <1>11, <3>1 DEF Root
        <3>2. CASE a # n
            <4>1. Sprayed(m, a, p)
                BY <1>1, <1>11, <3>2
            <4>2. \E e \in Node : Sprayed(m, e, a) /\ base[a] = label[<<e, a>>]
                BY <1>11, <4>1 DEF Labelled
            <4> QED BY <1>7, <3>2, <4>2
        <3> QED BY <3>1, <3>2
    <2> QED BY <1>10, <2>1
<1>12. ASSUME NEW a \in Node, NEW q \in Node, Sprayed(m, a, q), NEW p \in T
       PROVE  new[<<n, p>>] # new[<<a, q>>]
    <2>1. a # n /\ new[<<a, q>>] = label[<<a, q>>] /\ new[<<n, p>>] = B \cup {K(p)}
        BY <1>7, <1>12
    <2>2. PICK k \in 2 .. Budget(m) :
              (\A x \in base[a] : x < k) /\ label[<<a, q>>] = base[a] \cup {k}
        BY <1>12 DEF Labelled
    <2>3. base[a] # B
        BY <1>12, <2>1, OtherRoot
    <2>4. base[a] \in SUBSET Nat /\ B \in SUBSET Nat /\ k \in Nat /\ K(p) \in Nat
        BY <1>5, <1>4, <2>2 DEF Base
    <2>5. \A x \in B : x < K(p)
        BY <1>5
    <2> HIDE DEF K
    <2>6. B \cup {K(p)} # base[a] \cup {k}
        BY <2>2, <2>3, <2>4, <2>5, Extended
    <2> QED BY <2>1, <2>2, <2>6
<1>13. ASSUME NEW p \in T, NEW q \in T, new[<<n, p>>] = new[<<n, q>>] PROVE p = q
    <2>1. B \cup {K(p)} = B \cup {K(q)} /\ B \in SUBSET Nat /\ K(p) \in Nat /\ K(q) \in Nat
          /\ (\A x \in B : x < K(p)) /\ (\A x \in B : x < K(q))
        BY <1>5, <1>7, <1>13
    <2>2. K(p) = K(q)
        BY <2>1, Extended
    <2> QED BY <1>3, <2>2
<1>14. ASSUME NEW a \in Node, NEW p \in Node, NEW c \in Node, NEW q \in Node,
              Sprayed(m, a, p)', Sprayed(m, c, q)', new[<<a, p>>] = new[<<c, q>>]
       PROVE  a = c /\ p = q
    <2>1. (a = n => p \in T) /\ (c = n => q \in T)
          /\ (a # n => Sprayed(m, a, p)) /\ (c # n => Sprayed(m, c, q))
        BY <1>1, <1>14
    <2>2. CASE a = n /\ c = n
        BY <1>13, <1>14, <2>1, <2>2
    <2>3. CASE a = n /\ c # n
        BY <1>12, <1>14, <2>1, <2>3
    <2>4. CASE a # n /\ c = n
        BY <1>12, <1>14, <2>1, <2>4
    <2>5. CASE a # n /\ c # n
        <3>1. Sprayed(m, a, p) /\ Sprayed(m, c, q) /\ label[<<a, p>>] = label[<<c, q>>]
            BY <1>7, <1>14, <2>1, <2>5
        <3> QED BY <3>1 DEF Labelled
    <2> QED BY <2>2, <2>3, <2>4, <2>5
<1>15. Labelled(m, new, first)'
    <2>1. \A a, p \in Node : Sprayed(m, a, p)' =>
             \E k \in 2 .. Budget(m) :
                 (\A x \in first[a] : x < k) /\ new[<<a, p>>] = first[a] \cup {k}
        BY <1>9
    <2>2. \A a, p \in Node : Sprayed(m, a, p)' /\ a # src /\ a # dst =>
             \E e \in Node : Sprayed(m, e, a)' /\ first[a] = new[<<e, a>>]
        BY <1>11
    <2>3. \A a, p, c, q \in Node :
             Sprayed(m, a, p)' /\ Sprayed(m, c, q)' /\ new[<<a, p>>] = new[<<c, q>>]
                 => a = c /\ p = q
        BY <1>14
    <2> QED BY <1>8, <2>1, <2>2, <2>3, Zenon DEF Labelled, Budget
<1>16. \A p \in T : Sprayed(m, n, p)' /\ new[<<n, p>>] = B \cup {K(p)}
    BY <1>1, <1>2, <1>7
<1> QED BY <1>10, <1>15, <1>16, Zenon DEF T, K

\* The same, with the copies in the streams.
LEMMA RouteStreams ==
    ASSUME TypeOK, NEW m \in Msg, Origin[m].sender \in Node, Origin[m].recipient \in Node,
           NEW label \in Label, NEW base \in Base, Labelled(m, label, base),
           NEW n \in Node, \A p \in Node : ~Sprayed(m, n, p),
           NEW msg \in Copy, msg.id = <<m, 0>>, msg.copies >= 1, SprayBudget[n] = Budget(m),
           NEW B \in SUBSET (Nat \ {0}), Root(m, label, n, B), \A x \in B : x <= msg.copies,
           NEW from, RouteToPeers(n, msg, from),
           \A s \in streams : s.msg.id = <<m, 0>> => Carried(m, label, s.from, s.to, s.msg.copies)
    PROVE  \E new \in Label, first \in Base :
              /\ Labelled(m, new, first)'
              /\ \A a, p \in Node : Sprayed(m, a, p) =>
                    Sprayed(m, a, p)' /\ new[<<a, p>>] = label[<<a, p>>]
              /\ \A s \in streams' : s.msg.id = <<m, 0>> =>
                    Carried(m, new, s.from, s.to, s.msg.copies)'
<1> DEFINE dst == Origin[m].recipient
           T == Targets(n, msg, from)
           K(p) == CopiesOnWire(p, msg.copies, T)
           out == T \cup ({Recipient(msg.id)} \cap RoutingCandidates(n, from))
           wire(p) == [from |-> n, to |-> p, msg |-> [msg EXCEPT !.copies = K(p)]]
<1>1. PICK new \in Label, first \in Base :
          /\ Labelled(m, new, first)'
          /\ \A a, p \in Node : Sprayed(m, a, p) =>
                Sprayed(m, a, p)' /\ new[<<a, p>>] = label[<<a, p>>]
          /\ \A p \in T : Sprayed(m, n, p)' /\ new[<<n, p>>] = B \cup {K(p)}
    BY RouteLabels
<1>2. T \subseteq Node /\ dst \notin T /\ Recipient(msg.id) = dst
    <2>1. Recipient(msg.id) = dst
        BY DEF Recipient, IsAck
    <2> QED BY <2>1, TargetsType DEF Targets, SprayTargets, Fresh
<1>3. out \subseteq Node /\ \A p \in out : p \in T \/ p = dst
    BY <1>2
<1>4. /\ \A p \in T : K(p) \in 2 .. Budget(m) /\ K(p) > msg.copies
      /\ \A p \in Node : K(p) >= 1
    BY NewCounts
<1>5. msg.copies \in Nat /\ Budget(m) \in Nat
    BY OriginAssumption, BoundAssumption DEF Copy, Budget
<1>6. streams' = streams \cup {wire(p) : p \in {q \in out : Linked(n, q)}}
    BY Zenon DEF RouteToPeers
<1>7. \A p : wire(p).from = n /\ wire(p).to = p /\ wire(p).msg.copies = K(p)
    BY DEF Copy
<1> HIDE DEF T, K, out, wire
<1>8. ASSUME NEW s \in streams, s.msg.id = <<m, 0>>
      PROVE  Carried(m, new, s.from, s.to, s.msg.copies)'
    <2>1. s.from \in Node /\ s.to \in Node
        BY DEF TypeOK
    <2>2. Carried(m, label, s.from, s.to, s.msg.copies)
        BY <1>8
    <2>3. CASE s.to = dst
        BY <2>2, <2>3 DEF Carried
    <2>4. CASE s.to # dst
        <3>1. Sprayed(m, s.from, s.to) /\ s.msg.copies \in label[<<s.from, s.to>>]
              /\ \A x \in label[<<s.from, s.to>>] : x <= s.msg.copies
            BY <2>2, <2>4 DEF Carried
        <3>2. Sprayed(m, s.from, s.to)' /\ new[<<s.from, s.to>>] = label[<<s.from, s.to>>]
            BY <1>1, <2>1, <3>1
        <3> QED BY <2>4, <3>1, <3>2, Zenon DEF Carried
    <2> QED BY <2>3, <2>4
<1>9. ASSUME NEW p \in out, NEW c, c = K(p)
      PROVE  Carried(m, new, n, p, c)'
    <2>1. CASE p = dst
        <3>1. c >= 1
            BY <1>3, <1>4, <1>9
        <3> QED BY <2>1, <3>1 DEF Carried
    <2>2. CASE p \in T
        <3>1. c \in Nat /\ \A x \in B : x <= c
            BY <1>4, <1>5, <1>9, <2>2
        <3>2. Sprayed(m, n, p)' /\ new[<<n, p>>] = B \cup {c} /\ p # dst
            BY <1>1, <1>2, <1>9, <2>2
        <3>3. c \in B \cup {c} /\ \A x \in B \cup {c} : x <= c
            BY <3>1
        <3> QED BY <3>2, <3>3, Zenon DEF Carried
    <2> QED BY <1>3, <2>1, <2>2
<1>10. ASSUME NEW s \in streams', s.msg.id = <<m, 0>>
       PROVE  Carried(m, new, s.from, s.to, s.msg.copies)'
    <2>1. CASE s \in streams
        BY <1>8, <1>10, <2>1
    <2>2. CASE \E p \in out : s = wire(p)
        <3>1. PICK p \in out : s = wire(p)
            BY <2>2
        <3>2. s.from = n /\ s.to = p /\ s.msg.copies = K(p)
            BY <1>7, <3>1
        <3>3. Carried(m, new, n, p, s.msg.copies)'
            BY <1>9, <3>2
        <3> QED BY <3>2, <3>3, Zenon
    <2> QED BY <1>6, <2>1, <2>2
<1> QED BY <1>1, <1>10

\* Labels stay as long as the ledgers do.
LEMMA LabelsStay ==
    ASSUME NEW m \in Msg, NEW label, NEW base, Labelled(m, label, base),
           \A n, p \in Node : Sprayed(m, n, p)' <=> Sprayed(m, n, p)
    PROVE  Labelled(m, label, base)'
<1>1. /\ base[Origin[m].sender] = {}
      /\ Origin[m].recipient # Origin[m].sender => base[Origin[m].recipient] = {1}
    BY DEF Labelled
<1>2. \A n, p \in Node : Sprayed(m, n, p)' =>
          \E k \in 2 .. Budget(m) :
              (\A x \in base[n] : x < k) /\ label[<<n, p>>] = base[n] \cup {k}
    BY DEF Labelled
<1>3. \A n, p \in Node : Sprayed(m, n, p)' /\ n # Origin[m].sender /\ n # Origin[m].recipient =>
          \E e \in Node : Sprayed(m, e, n)' /\ base[n] = label[<<e, n>>]
    BY DEF Labelled
<1>4. \A n, p, a, q \in Node :
          Sprayed(m, n, p)' /\ Sprayed(m, a, q)' /\ label[<<n, p>>] = label[<<a, q>>]
              => n = a /\ p = q
    BY DEF Labelled
<1> QED BY <1>1, <1>2, <1>3, <1>4, Zenon DEF Labelled, Budget

\* Steps that do not route m: nothing new of m is in the network, and at most one
\* handler moves on.
LEMMA TreeQuiet ==
    ASSUME TypeOK, NEW m \in Msg, TreeInv(m),
           \A n \in Node : <<m, 0>> \in seen[n] => <<m, 0>> \in seen'[n],
           m \in sent => m \in sent',
           \A n, p \in Node : Sprayed(m, n, p)' <=> Sprayed(m, n, p),
           \A s \in streams' : s.msg.id = <<m, 0>> => s \in streams,
           \A g \in gossip' : g.msg.id # <<m, 0>>,
           \A o \in outbox' : o.msg.id # <<m, 0>>,
           \/ \A h \in handlers' : h.msg.id = <<m, 0>> => h \in handlers
           \/ \E h \in handlers : \E k \in handlers' :
                 /\ handlers' = (handlers \ {h}) \cup {k} /\ k.stage # "relay"
                 /\ k.node = h.node /\ k.msg.id = h.msg.id
    PROVE  TreeInv(m)'
<1> DEFINE i == <<m, 0>>
<1>1. handlers \subseteq Handler /\ \A h \in handlers : h.node \in Node /\ h.from \in Node
    BY DEF TypeOK, Handler
<1>2. /\ \A h \in handlers : h.msg.id = i => i \in seen[h.node]
      /\ \A h, k \in handlers : h.msg.id = i /\ k.msg.id = i /\ h.node = k.node => h = k
      /\ \A n, p \in Node : Sprayed(m, n, p) =>
            IF n = Origin[m].sender THEN m \in sent
            ELSE /\ i \in seen[n]
                 /\ \A h \in handlers : h.msg.id = i /\ h.node = n => h.stage # "relay"
    BY DEF TreeInv, OneRelay
<1>3. PICK label \in Label, base \in Base : Labelled(m, label, base) /\ CopiesCarried(m, label)
    BY DEF TreeInv
<1> HIDE DEF i
<1>4. ASSUME NEW k \in handlers', k.msg.id = i
      PROVE  \E h \in handlers : /\ h.node = k.node /\ h.msg.id = i
                                 /\ k.stage = "relay" => k = h
                                 /\ k # h => handlers' = (handlers \ {h}) \cup {k}
    BY <1>4 DEF i
<1>5. \A k \in handlers' : k.msg.id = i => i \in seen'[k.node]
    BY <1>1, <1>2, <1>4 DEF i
<1>6. ASSUME NEW h \in handlers', NEW k \in handlers',
             h.msg.id = i, k.msg.id = i, h.node = k.node
      PROVE  h = k
    <2>1. PICK f \in handlers : f.node = h.node /\ f.msg.id = i
                                /\ (h # f => handlers' = (handlers \ {f}) \cup {h})
        BY <1>4, <1>6
    <2>2. PICK g \in handlers : g.node = k.node /\ g.msg.id = i
                                /\ (k # g => handlers' = (handlers \ {g}) \cup {k})
        BY <1>4, <1>6
    <2>3. f = g
        BY <1>2, <1>6, <2>1, <2>2
    <2> QED BY <1>2, <1>6, <2>1, <2>2, <2>3
<1>7. \A n, p \in Node : Sprayed(m, n, p)' =>
         IF n = Origin[m].sender THEN m \in sent'
         ELSE /\ i \in seen'[n]
              /\ \A h \in handlers' : h.msg.id = i /\ h.node = n => h.stage # "relay"
    BY <1>2, <1>4 DEF i
<1>8. OneRelay(m)'
    BY <1>5, <1>6, <1>7 DEF OneRelay, i
<1>9. Labelled(m, label, base)'
    BY <1>3, LabelsStay
<1>10. \A s \in streams : s.from \in Node /\ s.to \in Node
    BY DEF TypeOK
<1>11. CopiesCarried(m, label)'
    <2>1. ASSUME NEW s \in streams', s.msg.id = i
          PROVE  Carried(m, label, s.from, s.to, s.msg.copies)'
        <3>1. s \in streams /\ Carried(m, label, s.from, s.to, s.msg.copies)
            BY <1>3, <2>1 DEF CopiesCarried, i
        <3> QED BY <1>10, <3>1 DEF Carried
    <2>2. ASSUME NEW h \in handlers', h.msg.id = i, h.stage = "relay"
          PROVE  Carried(m, label, h.from, h.node, h.msg.copies)'
        <3>1. h \in handlers
            BY <1>4, <2>2
        <3>2. Carried(m, label, h.from, h.node, h.msg.copies)
            BY <1>3, <2>2, <3>1 DEF CopiesCarried, i
        <3> QED BY <1>1, <3>1, <3>2 DEF Carried
    <2> QED BY <2>1, <2>2 DEF CopiesCarried, i
<1> QED BY <1>8, <1>9, <1>11 DEF TreeInv

\* At the start no ledger has an entry.
LEMMA TreeInvInit == ASSUME NEW m \in Msg, Routed(m), Init PROVE TreeInv(m)
<1> DEFINE label == [e \in Node \X Node |-> {}]
           base == [n \in Node |-> IF n = Origin[m].sender THEN {} ELSE {1}]
<1>1. Origin[m].sender \in Node /\ Origin[m].recipient \in Node
    BY OriginAssumption DEF Routed
<1>2. \A n, p \in Node : ~Sprayed(m, n, p)
    BY DEF Init, Sprayed
<1>3. label \in Label /\ base \in Base
    BY DEF Label, Base
<1>4. Labelled(m, label, base)
    BY <1>1, <1>2 DEF Labelled
<1>5. CopiesCarried(m, label)
    BY DEF Init, CopiesCarried
<1>6. OneRelay(m)
    BY <1>2 DEF Init, OneRelay
<1> HIDE DEF label, base
<1> QED BY <1>3, <1>4, <1>5, <1>6 DEF TreeInv

\* routeToPeers of another message leaves the entries of m.
LEMMA RouteOther ==
    ASSUME TypeOK, NEW m \in Msg, NEW n \in Node, NEW msg \in Copy, msg.id # <<m, 0>>,
           NEW from, RouteToPeers(n, msg, from)
    PROVE  \A a, p \in Node : Sprayed(m, a, p)' <=> Sprayed(m, a, p)
<1> DEFINE out == Targets(n, msg, from) \cup ({Recipient(msg.id)} \cap RoutingCandidates(n, from))
<1>1. sprayed' = [sprayed EXCEPT ![n] = @ \cup {<<msg.id, p>> : p \in out}]
    BY DEF RouteToPeers
<1>2. sprayed \in [Node -> SUBSET (Id \X Node)]
    BY DEF TypeOK
<1> HIDE DEF out
<1>3. \A a \in Node : \A p : <<<<m, 0>>, p>> \in sprayed'[a] <=> <<<<m, 0>>, p>> \in sprayed[a]
    BY <1>1, <1>2
<1> QED BY <1>3 DEF Sprayed

\* So does SendMessage.
LEMMA SendOther ==
    ASSUME TypeOK, NEW m \in Msg, NEW n \in Node, NEW msg \in Copy, msg.id # <<m, 0>>,
           SendMessage(n, msg)
    PROVE  \A a, p \in Node : Sprayed(m, a, p)' <=> Sprayed(m, a, p)
<1> DEFINE first == [msg EXCEPT !.copies = IF @ < 1 THEN 1 ELSE @]
<1>1. first \in Copy /\ first.id = msg.id
    BY DEF Copy
<1>2. CASE RouteToPeers(n, first, NoNode)
    <2> HIDE DEF first
    <2> QED BY <1>1, <1>2, RouteOther
<1>3. CASE UNCHANGED sprayed
    BY <1>3 DEF Sprayed
<1> QED BY <1>2, <1>3 DEF SendMessage

\* The first part of deliverMessage forgets no ID.
LEMMA AcceptSeen ==
    ASSUME TypeOK, NEW n \in Node, NEW msg, NEW from, NEW kind, NEW known,
           Accept(n, msg, from, kind, known)
    PROVE  \A a \in Node : seen[a] \subseteq seen'[a]
<1>1. seen \in [Node -> SUBSET Id]
    BY DEF TypeOK
<1>2. seen' = seen \/ seen' = [seen EXCEPT ![n] = @ \cup {msg.id}]
    BY DEF Accept
<1> QED BY <1>1, <1>2

\* An accepted copy keeps its label; it is the first at its node.
LEMMA TreeHandleStream ==
    ASSUME CopyInv, NEW m \in Msg, TreeInv(m), NEW s \in streams, HandleStream(s)
    PROVE  TreeInv(m)'
<1> DEFINE i == <<m, 0>>
           n == s.to
           new == [node |-> n, msg |-> s.msg, from |-> s.from, kind |-> "stream",
                   stage |-> "relay", win |-> window[n]]
<1>1. TypeOK /\ n \in Node /\ s.from \in Node /\ s.msg \in Copy
    BY DEF CopyInv, TypeOK
<1>2. /\ streams' = streams \ {s}
      /\ UNCHANGED <<sprayed, gossip, outbox, sent>>
      /\ Accept(n, s.msg, s.from, "stream", {s.from})
    BY DEF HandleStream
<1>3. \A a, p \in Node : Sprayed(m, a, p)' <=> Sprayed(m, a, p)
    BY <1>2 DEF Sprayed
<1>4. \A a \in Node : i \in seen[a] => i \in seen'[a]
    BY <1>1, <1>2, AcceptSeen
<1>5. (\A g \in gossip' : g.msg.id # i) /\ (\A o \in outbox' : o.msg.id # i)
    BY <1>2 DEF TreeInv, OneRelay
<1>6. CASE i \in seen[n] \/ s.msg.id # i
    <2>1. \A h \in handlers' : h.msg.id = i => h \in handlers
        BY <1>2, <1>6 DEF Accept, IsDuplicate
    <2> QED BY <1>1, <1>2, <1>3, <1>4, <1>5, <2>1, TreeQuiet
<1>7. CASE i \notin seen[n] /\ s.msg.id = i
    <2>1. /\ seen' = [seen EXCEPT ![n] = @ \cup {i}]
          /\ handlers' = handlers \cup {new}
        BY <1>2, <1>7 DEF Accept, IsDuplicate
    <2>2. i \in seen'[n]
        BY <1>1, <2>1 DEF TypeOK
    <2>3. /\ \A h \in handlers : h.msg.id = i => i \in seen[h.node]
          /\ \A h, k \in handlers : h.msg.id = i /\ k.msg.id = i /\ h.node = k.node => h = k
          /\ \A a, p \in Node : Sprayed(m, a, p) =>
                IF a = Origin[m].sender THEN m \in sent
                ELSE /\ i \in seen[a]
                     /\ \A h \in handlers : h.msg.id = i /\ h.node = a => h.stage # "relay"
        BY DEF TreeInv, OneRelay
    <2>4. \A h \in handlers : h.node \in Node /\ h.from \in Node
        BY <1>1 DEF TypeOK, Handler
    <2>5. new.node = n /\ new.from = s.from /\ new.msg = s.msg
        OBVIOUS
    <2> HIDE DEF new, n, i
    <2>6. \A h \in handlers' : h.msg.id = i => i \in seen'[h.node]
        BY <1>4, <2>1, <2>2, <2>3, <2>4, <2>5
    <2>7. \A h, k \in handlers' : h.msg.id = i /\ k.msg.id = i /\ h.node = k.node => h = k
        BY <1>7, <2>1, <2>3, <2>5
    <2>8. \A a, p \in Node : Sprayed(m, a, p)' =>
             IF a = Origin[m].sender THEN m \in sent'
             ELSE /\ i \in seen'[a]
                  /\ \A h \in handlers' : h.msg.id = i /\ h.node = a => h.stage # "relay"
        BY <1>2, <1>3, <1>4, <1>7, <2>1, <2>3, <2>5
    <2>9. OneRelay(m)'
        BY <1>5, <2>6, <2>7, <2>8 DEF OneRelay, i
    <2>10. PICK label \in Label, base \in Base : Labelled(m, label, base) /\ CopiesCarried(m, label)
        BY DEF TreeInv
    <2>11. Labelled(m, label, base)'
        BY <1>3, <2>10, LabelsStay
    <2>12. ASSUME NEW a \in Node, NEW p \in Node, NEW c, Carried(m, label, a, p, c)
           PROVE  Carried(m, label, a, p, c)'
        BY <1>3, <2>12 DEF Carried
    <2>13. ASSUME NEW t \in streams', t.msg.id = i
           PROVE  Carried(m, label, t.from, t.to, t.msg.copies)'
        <3>1. t \in streams /\ t.from \in Node /\ t.to \in Node
            BY <1>1, <1>2 DEF TypeOK
        <3>2. Carried(m, label, t.from, t.to, t.msg.copies)
            BY <2>10, <2>13, <3>1 DEF CopiesCarried, i
        <3> QED BY <2>12, <3>1, <3>2
    <2>14. ASSUME NEW h \in handlers', h.msg.id = i, h.stage = "relay"
           PROVE  Carried(m, label, h.from, h.node, h.msg.copies)'
        <3>1. h.from \in Node /\ h.node \in Node
            BY <1>1, <2>1, <2>4, <2>5
        <3>2. Carried(m, label, h.from, h.node, h.msg.copies)
            <4>1. CASE h \in handlers
                BY <2>10, <2>14, <4>1 DEF CopiesCarried, i
            <4>2. CASE h = new
                <5>1. Carried(m, label, s.from, s.to, s.msg.copies)
                    BY <1>7, <2>10 DEF CopiesCarried, i
                <5> QED BY <2>5, <4>2, <5>1 DEF n
            <4> QED BY <2>1, <4>1, <4>2
        <3> QED BY <2>12, <3>1, <3>2
    <2>15. CopiesCarried(m, label)'
        BY <2>13, <2>14 DEF CopiesCarried, i
    <2> QED BY <2>9, <2>10, <2>11, <2>15 DEF TreeInv
<1> QED BY <1>6, <1>7

\* SendMessage of m itself begins the tree.
LEMMA TreeSend ==
    ASSUME CopyInv, SameBudget, NEW m \in Msg, Routed(m), TreeInv(m), Send(m)
    PROVE  TreeInv(m)'
<1> DEFINE i == <<m, 0>>
           n == Origin[m].sender
           one == [NewMessage(i) EXCEPT !.copies = 1]
<1>1. TypeOK /\ n \in Node /\ Origin[m].recipient \in Node /\ NewMessage(i) \in Copy
    BY OriginGood, OriginAssumption DEF CopyInv, Good, Routed
<1>2. one \in Copy /\ one.id = i /\ one.copies = 1
    BY <1>1 DEF Copy, NewMessage
<1>3. /\ RouteToPeers(n, one, NoNode) /\ m \notin sent /\ sent' = sent \cup {m}
      /\ UNCHANGED <<seen, gossip, handlers, outbox>>
    <2>1. Recipient(NewMessage(i).id) = Origin[m].recipient /\ NewMessage(i).copies = 0
        BY DEF NewMessage, Recipient, IsAck
    <2>2. Origin[m].recipient # NoNode /\ SprayBudget[n] > 0 /\ SprayBudget[n] # 0
        BY <1>1, BoundAssumption DEF Routed
    <2>3. SendMessage(n, NewMessage(i)) /\ m \notin sent /\ sent' = sent \cup {m}
          /\ UNCHANGED <<seen, handlers, outbox>>
        BY DEF Send
    <2> QED BY <2>1, <2>2, <2>3 DEF SendMessage
<1> HIDE DEF one
<1>4. \A p \in Node : ~Sprayed(m, n, p)
    BY <1>1, <1>3 DEF TreeInv, OneRelay
<1>5. PICK label \in Label, base \in Base : Labelled(m, label, base) /\ CopiesCarried(m, label)
    BY DEF TreeInv
<1>6. PICK new \in Label, first \in Base :
          /\ Labelled(m, new, first)'
          /\ \A a, p \in Node : Sprayed(m, a, p) =>
                Sprayed(m, a, p)' /\ new[<<a, p>>] = label[<<a, p>>]
          /\ \A s \in streams' : s.msg.id = i => Carried(m, new, s.from, s.to, s.msg.copies)'
    <2> DEFINE B == {}
    <2>1. /\ B \in SUBSET (Nat \ {0}) /\ Root(m, label, n, B)
          /\ \A x \in B : x <= one.copies
        BY DEF Root
    <2>2. one.copies >= 1 /\ SprayBudget[n] = Budget(m)
        BY <1>2 DEF Budget
    <2>3. \A s \in streams : s.msg.id = i => Carried(m, label, s.from, s.to, s.msg.copies)
        BY <1>5 DEF CopiesCarried
    <2> HIDE DEF B
    <2> QED BY <1>1, <1>2, <1>3, <1>4, <1>5, <2>1, <2>2, <2>3, RouteStreams
<1>7. CopiesCarried(m, new)'
    <2>1. ASSUME NEW h \in handlers', h.msg.id = i, h.stage = "relay"
          PROVE  Carried(m, new, h.from, h.node, h.msg.copies)'
        <3>1. h \in handlers /\ h.from \in Node /\ h.node \in Node
            BY <1>1, <1>3 DEF TypeOK, Handler
        <3>2. Carried(m, label, h.from, h.node, h.msg.copies)
            BY <1>5, <2>1, <3>1 DEF CopiesCarried
        <3> QED BY <1>6, <3>1, <3>2 DEF Carried
    <2> QED BY <1>6, <2>1 DEF CopiesCarried
<1>8. OneRelay(m)'
    <2>1. \A a, p \in Node : a # n => (Sprayed(m, a, p)' <=> Sprayed(m, a, p))
        BY <1>1, <1>2, <1>3, LedgerGrows
    <2>2. m \in sent'
        BY <1>3
    <2>3. \A a, p \in Node : Sprayed(m, a, p)' =>
             IF a = n THEN m \in sent'
             ELSE /\ i \in seen'[a]
                  /\ \A h \in handlers' : h.msg.id = i /\ h.node = a => h.stage # "relay"
        BY <1>3, <2>1, <2>2 DEF TreeInv, OneRelay
    <2>4. /\ \A g \in gossip' : g.msg.id # i
          /\ \A o \in outbox' : o.msg.id # i
          /\ \A h \in handlers' : h.msg.id = i => i \in seen'[h.node]
          /\ \A h, k \in handlers' : h.msg.id = i /\ k.msg.id = i /\ h.node = k.node => h = k
        BY <1>3 DEF TreeInv, OneRelay
    <2> QED BY <2>3, <2>4 DEF OneRelay
<1> QED BY <1>6, <1>7, <1>8 DEF TreeInv

\* A relay of m continues the tree at its node.
LEMMA TreeRoute ==
    ASSUME CopyInv, SameBudget, NEW m \in Msg, Routed(m), TreeInv(m),
           NEW h \in handlers, h.msg.id = <<m, 0>>, h.stage = "relay",
           h.node # Origin[m].sender,
           NEW hop \in Copy, hop.id = <<m, 0>>, hop.copies = h.msg.copies,
           RouteToPeers(h.node, hop, h.from),
           NEW k, handlers' = (handlers \ {h}) \cup {k}, k.stage # "relay",
           k.node = h.node, k.msg.id = <<m, 0>>,
           UNCHANGED <<seen, gossip, outbox, sent>>
    PROVE  TreeInv(m)'
<1> DEFINE i == <<m, 0>>
           n == h.node
           src == Origin[m].sender
           dst == Origin[m].recipient
<1>1. TypeOK /\ src \in Node /\ dst \in Node
      /\ \A f \in handlers : f.node \in Node /\ f.from \in Node
    BY OriginAssumption DEF CopyInv, TypeOK, Handler, Routed
<1>2. n \in Node /\ SprayBudget[n] = Budget(m) /\ h.from \in Node
    BY <1>1 DEF SameBudget, Budget
<1>3. /\ \A g \in gossip : g.msg.id # i
      /\ \A o \in outbox : o.msg.id # i
      /\ \A f \in handlers : f.msg.id = i => i \in seen[f.node]
      /\ \A f, g \in handlers : f.msg.id = i /\ g.msg.id = i /\ f.node = g.node => f = g
      /\ \A a, p \in Node : Sprayed(m, a, p) =>
            IF a = src THEN m \in sent
            ELSE /\ i \in seen[a]
                 /\ \A f \in handlers : f.msg.id = i /\ f.node = a => f.stage # "relay"
    BY DEF TreeInv, OneRelay
<1>4. \A p \in Node : ~Sprayed(m, n, p)
    BY <1>2, <1>3
<1>5. PICK label \in Label, base \in Base : Labelled(m, label, base) /\ CopiesCarried(m, label)
    BY DEF TreeInv
<1>6. Carried(m, label, h.from, n, hop.copies)
    BY <1>5 DEF CopiesCarried
<1>7. PICK B \in SUBSET (Nat \ {0}) :
          Root(m, label, n, B) /\ (\A x \in B : x <= hop.copies) /\ hop.copies >= 1
    <2>1. hop.copies \in Nat
        BY DEF Copy
    <2>2. CASE n = dst
        <3>1. hop.copies >= 1
            BY <1>6, <2>2 DEF Carried
        <3>2. {1} \in SUBSET (Nat \ {0}) /\ \A x \in {1} : x <= hop.copies
            BY <2>1, <3>1
        <3>3. Root(m, label, n, {1})
            BY <2>2 DEF Root
        <3> QED BY <3>1, <3>2, <3>3
    <2>3. CASE n # dst
        <3> DEFINE X == label[<<h.from, n>>]
        <3>1. Sprayed(m, h.from, n) /\ hop.copies \in X /\ \A x \in X : x <= hop.copies
            BY <1>6, <2>3 DEF Carried
        <3>2. X \in SUBSET (Nat \ {0})
            BY <1>2, <1>5 DEF Label
        <3>3. Root(m, label, n, X)
            BY <1>2, <2>3, <3>1 DEF Root
        <3> HIDE DEF X
        <3>4. hop.copies \in Nat \ {0}
            BY <3>1, <3>2, Zenon
        <3>5. hop.copies >= 1
            BY <3>4
        <3> QED BY <3>1, <3>2, <3>3, <3>5
    <2> QED BY <2>2, <2>3
<1>8. PICK new \in Label, first \in Base :
          /\ Labelled(m, new, first)'
          /\ \A a, p \in Node : Sprayed(m, a, p) =>
                Sprayed(m, a, p)' /\ new[<<a, p>>] = label[<<a, p>>]
          /\ \A s \in streams' : s.msg.id = i => Carried(m, new, s.from, s.to, s.msg.copies)'
    <2>1. \A s \in streams : s.msg.id = i => Carried(m, label, s.from, s.to, s.msg.copies)
        BY <1>5 DEF CopiesCarried
    <2> QED BY <1>1, <1>2, <1>4, <1>5, <1>7, <2>1, RouteStreams
<1>9. CopiesCarried(m, new)'
    <2>1. ASSUME NEW f \in handlers', f.msg.id = i, f.stage = "relay"
          PROVE  Carried(m, new, f.from, f.node, f.msg.copies)'
        <3>1. f \in handlers /\ f.from \in Node /\ f.node \in Node
            BY <1>1, <2>1
        <3>2. Carried(m, label, f.from, f.node, f.msg.copies)
            BY <1>5, <2>1, <3>1 DEF CopiesCarried
        <3> QED BY <1>8, <3>1, <3>2 DEF Carried
    <2> QED BY <1>8, <2>1 DEF CopiesCarried
<1>10. OneRelay(m)'
    <2>1. \A a, p \in Node : a # n => (Sprayed(m, a, p)' <=> Sprayed(m, a, p))
        BY <1>1, <1>2, LedgerGrows
    <2>2. \A f \in handlers' : f = k \/ (f \in handlers /\ f # h)
        OBVIOUS
    <2>3. \A f \in handlers' : f.msg.id = i => i \in seen'[f.node]
        BY <1>3, <2>2
    <2>4. \A f, g \in handlers' : f.msg.id = i /\ g.msg.id = i /\ f.node = g.node => f = g
        BY <1>3, <2>2
    <2>5. \A a, p \in Node : Sprayed(m, a, p)' =>
             IF a = src THEN m \in sent'
             ELSE /\ i \in seen'[a]
                  /\ \A f \in handlers' : f.msg.id = i /\ f.node = a => f.stage # "relay"
        <3> TAKE a, p \in Node
        <3>1. CASE a = n
            BY <1>3, <2>2, <3>1
        <3>2. CASE a # n
            BY <1>3, <2>1, <2>2, <3>2
        <3> QED BY <3>1, <3>2
    <2> QED BY <1>3, <2>3, <2>4, <2>5 DEF OneRelay
<1> QED BY <1>8, <1>9, <1>10 DEF TreeInv

\* Relay of any message.
LEMMA TreeRelay ==
    ASSUME CopyInv, SameBudget, NEW m \in Msg, Routed(m), TreeInv(m),
           NEW h \in handlers, Relay(h)
    PROVE  TreeInv(m)'
<1> DEFINE i == <<m, 0>>
           hop == DecrementTTL(h.msg)
           Moved(c) == [h EXCEPT !.stage = "deliver", !.msg = c]
           more == [hop EXCEPT !.copies = @ + Cardinality(Targets(h.node, hop, h.from))]
<1>1. TypeOK /\ h \in Handler /\ h.node \in Node /\ h.msg \in Copy /\ Good(h.msg, appCount)
    BY DEF CopyInv, TypeOK, CopiesGood, Handler
<1>2. hop.id = h.msg.id /\ more.id = h.msg.id /\ hop.copies = h.msg.copies
    BY <1>1 DEF DecrementTTL, Copy
<1>3. \A c : Moved(c).msg = c /\ Moved(c).stage = "deliver" /\ Moved(c).node = h.node
    BY <1>1 DEF Handler
<1>4. MayRelay(h.node, h.msg) => hop \in Copy
    BY <1>1, DecrementTTLGood DEF MayRelay, Good
<1>5. /\ UNCHANGED <<seen, gossip, sent>> /\ h.stage = "relay"
      /\ \/ /\ MayRelay(h.node, h.msg) /\ RouteToPeers(h.node, hop, h.from)
            /\ handlers' = (handlers \ {h}) \cup {Moved(more)}
            /\ UNCHANGED outbox
         \/ /\ ~(SprayBudget[h.node] > 0 /\ Recipient(h.msg.id) # NoNode)
            /\ outbox' = outbox \cup {[node |-> h.node, msg |-> hop, win |-> h.win]}
            /\ handlers' = (handlers \ {h}) \cup {Moved(hop)}
            /\ UNCHANGED <<streams, sprayed>>
         \/ /\ handlers' = (handlers \ {h}) \cup {Moved(h.msg)}
            /\ UNCHANGED <<streams, sprayed, outbox>>
    BY Zenon DEF Relay
<1>6. (\A g \in gossip : g.msg.id # i) /\ (\A o \in outbox : o.msg.id # i)
    BY DEF TreeInv, OneRelay
<1> HIDE DEF hop, more, Moved
<1>7. ASSUME NEW c, c.id = h.msg.id, handlers' = (handlers \ {h}) \cup {Moved(c)}
      PROVE  /\ h.msg.id # i => \A k \in handlers' : k.msg.id = i => k \in handlers
             /\ h.msg.id = i => \E f \in handlers : \E k \in handlers' :
                   /\ handlers' = (handlers \ {f}) \cup {k} /\ k.stage # "relay"
                   /\ k.node = f.node /\ k.msg.id = f.msg.id
    <2>1. Moved(c).msg.id = h.msg.id /\ Moved(c).stage # "relay" /\ Moved(c).node = h.node
        BY <1>3, <1>7
    <2> QED BY <1>7, <2>1
<1>8. CASE /\ MayRelay(h.node, h.msg) /\ RouteToPeers(h.node, hop, h.from)
           /\ handlers' = (handlers \ {h}) \cup {Moved(more)}
           /\ UNCHANGED outbox
    <2>1. CASE h.msg.id = i
        <3>1. h.node # Origin[m].sender
            BY <1>8, <2>1 DEF MayRelay, Sender, IsAck
        <3> DEFINE k == Moved(more)
        <3>2. k.stage # "relay" /\ k.node = h.node /\ k.msg.id = i
            BY <1>2, <1>3, <2>1
        <3>3. handlers' = (handlers \ {h}) \cup {k} /\ UNCHANGED <<seen, gossip, outbox, sent>>
            BY <1>5, <1>8
        <3> HIDE DEF k
        <3> QED BY <1>2, <1>4, <1>5, <1>8, <2>1, <3>1, <3>2, <3>3, TreeRoute
    <2>2. CASE h.msg.id # i
        <3>1. \A a, p \in Node : Sprayed(m, a, p)' <=> Sprayed(m, a, p)
            BY <1>1, <1>2, <1>4, <1>8, <2>2, RouteOther
        <3>2. \A s \in streams' : s.msg.id = i => s \in streams
            BY <1>2, <1>4, <1>8, <2>2, RouteToPeersIds
        <3>3. \A k \in handlers' : k.msg.id = i => k \in handlers
            BY <1>2, <1>7, <1>8, <2>2
        <3> QED BY <1>1, <1>5, <1>6, <1>8, <3>1, <3>2, <3>3, TreeQuiet
    <2> QED BY <2>1, <2>2
<1>9. CASE /\ ~(SprayBudget[h.node] > 0 /\ Recipient(h.msg.id) # NoNode)
           /\ outbox' = outbox \cup {[node |-> h.node, msg |-> hop, win |-> h.win]}
           /\ handlers' = (handlers \ {h}) \cup {Moved(hop)}
           /\ UNCHANGED <<streams, sprayed>>
    <2>1. h.msg.id # i
        <3>1. Origin[m].sender \in Node /\ SprayBudget[h.node] > 0
            BY <1>1, OriginAssumption DEF SameBudget, Routed
        <3> QED BY <1>9, <3>1 DEF Recipient, IsAck, Routed
    <2>2. \A a, p \in Node : Sprayed(m, a, p)' <=> Sprayed(m, a, p)
        BY <1>9 DEF Sprayed
    <2>3. \A o \in outbox' : o.msg.id # i
        BY <1>2, <1>6, <1>9, <2>1
    <2>4. \A k \in handlers' : k.msg.id = i => k \in handlers
        BY <1>2, <1>7, <1>9, <2>1
    <2> QED BY <1>1, <1>5, <1>6, <1>9, <2>2, <2>3, <2>4, TreeQuiet
<1>10. CASE /\ handlers' = (handlers \ {h}) \cup {Moved(h.msg)}
            /\ UNCHANGED <<streams, sprayed, outbox>>
    <2>1. \A a, p \in Node : Sprayed(m, a, p)' <=> Sprayed(m, a, p)
        BY <1>10 DEF Sprayed
    <2>2. \/ \A k \in handlers' : k.msg.id = i => k \in handlers
          \/ \E f \in handlers : \E k \in handlers' :
                /\ handlers' = (handlers \ {f}) \cup {k} /\ k.stage # "relay"
                /\ k.node = f.node /\ k.msg.id = f.msg.id
        BY <1>7, <1>10
    <2> QED BY <1>1, <1>5, <1>6, <1>10, <2>1, <2>2, TreeQuiet
<1> QED BY <1>5, <1>8, <1>9, <1>10

\* Every step keeps the invariant.
LEMMA TreeInvNext ==
    ASSUME CopyInv, SameBudget, Forgetful = {}, NEW m \in Msg, Routed(m), TreeInv(m), [Next]_vars
    PROVE  TreeInv(m)'
<1> DEFINE i == <<m, 0>>
<1>0. TypeOK /\ CopiesGood /\ AckersDelivered
    BY DEF CopyInv
<1>1. (\A g \in gossip : g.msg.id # i) /\ (\A o \in outbox : o.msg.id # i)
    BY DEF TreeInv, OneRelay
<1>2. ASSUME NEW j \in Msg, Send(j)
      PROVE  TreeInv(m)'
    <2>1. CASE j = m
        BY <1>2, <2>1, TreeSend
    <2>2. CASE j # m
        <3> DEFINE new == NewMessage(<<j, 0>>)
        <3>1. new \in Copy /\ new.id # i /\ Origin[j].sender \in Node
            BY <1>0, <2>2, OriginGood DEF Good, NewMessage
        <3> HIDE DEF new
        <3>2. SendMessage(Origin[j].sender, new) /\ sent' = sent \cup {j}
              /\ UNCHANGED <<seen, handlers, outbox>>
            BY <1>2 DEF Send, new
        <3>3. \A a, p \in Node : Sprayed(m, a, p)' <=> Sprayed(m, a, p)
            BY <1>0, <3>1, <3>2, SendOther
        <3>4. /\ \A s \in streams' : s.msg.id = i => s \in streams
              /\ \A g \in gossip' : g.msg.id # i
            BY <1>1, <3>1, <3>2, SendMessageIds
        <3> QED BY <1>0, <1>1, <3>2, <3>3, <3>4, TreeQuiet
    <2> QED BY <2>1, <2>2
<1>3. ASSUME NEW s \in streams, HandleStream(s)
      PROVE  TreeInv(m)'
    BY <1>3, TreeHandleStream
<1>4. ASSUME NEW s \in streams, LoseStream(s)
      PROVE  TreeInv(m)'
    <2>1. streams' \subseteq streams /\ UNCHANGED <<seen, sprayed, gossip, handlers, outbox, sent>>
        BY <1>4 DEF LoseStream
    <2>2. \A a, p \in Node : Sprayed(m, a, p)' <=> Sprayed(m, a, p)
        BY <2>1 DEF Sprayed
    <2> QED BY <1>0, <1>1, <2>1, <2>2, TreeQuiet
<1>5. ASSUME NEW g \in gossip, NEW n \in Node, HandlePubSub(g, n)
      PROVE  TreeInv(m)'
    <2> DEFINE k == [g EXCEPT !.reached = @ \cup {n}]
    <2>1. k.msg = g.msg
        BY <1>0 DEF TypeOK
    <2>2. gossip' = (gossip \ {g}) \cup {k} /\ UNCHANGED <<sprayed, streams, outbox, sent>>
        BY <1>5 DEF HandlePubSub
    <2> HIDE DEF k
    <2>3. PICK via \in Node : Accept(n, g.msg, via, "pubsub", {})
        BY <1>5 DEF HandlePubSub
    <2>4. \A h \in handlers' : h.msg.id = i => h \in handlers
        BY <1>1, <2>3, AcceptIds
    <2>5. \A a \in Node : i \in seen[a] => i \in seen'[a]
        BY <1>0, <2>3, AcceptSeen
    <2>6. \A a, p \in Node : Sprayed(m, a, p)' <=> Sprayed(m, a, p)
        BY <2>2 DEF Sprayed
    <2>7. \A f \in gossip' : f.msg.id # i
        BY <1>1, <2>1, <2>2
    <2> QED BY <1>0, <1>1, <2>2, <2>4, <2>5, <2>6, <2>7, TreeQuiet
<1>6. ASSUME NEW g \in gossip, ForgetGossip(g)
      PROVE  TreeInv(m)'
    <2>1. gossip' \subseteq gossip /\ UNCHANGED <<seen, sprayed, streams, handlers, outbox, sent>>
        BY <1>6 DEF ForgetGossip
    <2>2. \A a, p \in Node : Sprayed(m, a, p)' <=> Sprayed(m, a, p)
        BY <2>1 DEF Sprayed
    <2> QED BY <1>0, <1>1, <2>1, <2>2, TreeQuiet
<1>7. ASSUME NEW h \in handlers, Relay(h)
      PROVE  TreeInv(m)'
    BY <1>7, TreeRelay
<1>8. ASSUME NEW o \in outbox, PublishRelay(o)
      PROVE  TreeInv(m)'
    <2>1. /\ outbox' \subseteq outbox /\ UNCHANGED <<seen, sprayed, streams, handlers, sent>>
          /\ \A g \in gossip' : g \in gossip \/ g.msg = o.msg
        BY <1>8 DEF PublishRelay, Publish
    <2>2. \A a, p \in Node : Sprayed(m, a, p)' <=> Sprayed(m, a, p)
        BY <2>1 DEF Sprayed
    <2> QED BY <1>0, <1>1, <2>1, <2>2, TreeQuiet
<1>9. ASSUME NEW h \in handlers, Deliver(h)
      PROVE  TreeInv(m)'
    <2> DEFINE k == [h EXCEPT !.stage = "ack"]
    <2>1. k.node = h.node /\ k.msg = h.msg /\ k.stage # "relay"
        BY <1>0 DEF TypeOK, Handler
    <2>2. /\ handlers' = (handlers \ {h}) \cup {k} \/ handlers' = handlers \ {h}
          /\ UNCHANGED <<seen, sprayed, streams, gossip, outbox, sent>>
        BY <1>9 DEF Deliver
    <2> HIDE DEF k
    <2>3. \A a, p \in Node : Sprayed(m, a, p)' <=> Sprayed(m, a, p)
        BY <2>2 DEF Sprayed
    <2>4. \/ \A f \in handlers' : f.msg.id = i => f \in handlers
          \/ \E f \in handlers : \E e \in handlers' :
                /\ handlers' = (handlers \ {f}) \cup {e} /\ e.stage # "relay"
                /\ e.node = f.node /\ e.msg.id = f.msg.id
        BY <2>1, <2>2
    <2> QED BY <1>0, <1>1, <2>2, <2>3, <2>4, TreeQuiet
<1>10. ASSUME NEW h \in handlers, Acknowledge(h)
       PROVE  TreeInv(m)'
    <2> DEFINE ack == NewMessage(<<h.msg.id[1], h.win + 1>>)
    <2>1. ack \in Copy /\ ack.id = <<h.msg.id[1], h.win + 1>> /\ h.node \in Node
        BY <1>10, AckGood DEF Acknowledge, Good, NewMessage
    <2>2. ack.id # i
        <3>1. h.win \in Nat
            BY <1>0, BoundAssumption DEF TypeOK, Handler
        <3> HIDE DEF ack
        <3> QED BY <2>1, <3>1
    <2> HIDE DEF ack
    <2>3. /\ SendMessage(h.node, ack) /\ handlers' \subseteq handlers
          /\ UNCHANGED <<seen, outbox, sent>>
        BY <1>10 DEF Acknowledge, ack
    <2>4. \A a, p \in Node : Sprayed(m, a, p)' <=> Sprayed(m, a, p)
        BY <1>0, <2>1, <2>2, <2>3, SendOther
    <2>5. /\ \A s \in streams' : s.msg.id = i => s \in streams
          /\ \A g \in gossip' : g.msg.id # i
        BY <1>1, <2>1, <2>2, <2>3, SendMessageIds
    <2> QED BY <1>0, <1>1, <2>3, <2>4, <2>5, TreeQuiet
<1>11. ASSUME UNCHANGED <<seen, sprayed, streams, gossip, handlers, outbox, sent>>
       PROVE  TreeInv(m)'
    <2>1. \A a, p \in Node : Sprayed(m, a, p)' <=> Sprayed(m, a, p)
        BY <1>11 DEF Sprayed
    <2> QED BY <1>0, <1>1, <1>11, <2>1, TreeQuiet
<1>12. ASSUME NEW a \in Node, NEW b \in Node,
              Connect(a, b) \/ Disconnect(a, b) \/ HandlePeerFound(a, b)
       PROVE  TreeInv(m)'
    BY <1>11, <1>12 DEF Connect, Disconnect, HandlePeerFound
<1>13. CASE UNCHANGED vars
    BY <1>11, <1>13 DEF vars
<1> QED BY <1>2, <1>3, <1>4, <1>5, <1>6, <1>7, <1>8, <1>9, <1>10, <1>12, <1>13
           DEF Next, Progress, Environment

\* TreeBudget for every number of nodes, every network and every budget: if all
\* nodes have the same budget L and none resets or restarts, the nodes hand out fewer
\* than 2^L copies of an addressed message, however relays, deliveries and lost
\* connections interleave.
THEOREM CopiesBounded ==
    ASSUME SameBudget, Forgetful = {}
    PROVE  Spec => []TreeBudget
<1> DEFINE Inv == \A m \in Msg : Routed(m) => TreeInv(m)
<1>1. Init => Inv
    BY TreeInvInit
<1>2. CopyInv /\ Inv /\ [Next]_vars => Inv'
    <2> SUFFICES ASSUME CopyInv, Inv, [Next]_vars, NEW m \in Msg, Routed(m)'
                 PROVE  TreeInv(m)'
        OBVIOUS
    <2>1. Routed(m)
        BY DEF Routed
    <2> QED BY <2>1, TreeInvNext
<1>3. CopyInv /\ Inv => TreeBudget
    BY TreeCounted DEF TreeBudget, CopyInv
<1> QED BY <1>1, <1>2, <1>3, CopyInvInit, CopyInvNext, PTL DEF Spec
=============================================================================
