----------------------------- MODULE RouteLoop -----------------------------
(***************************************************************************)
(* The loop of routeToPeers, one candidate per step, for one message at    *)
(* one node: the decision layer is asked about every candidate in sorted   *)
(* order, with the copy count the candidates before it have left.  Mesh    *)
(* takes the whole loop in one step, by the closed form of Routing         *)
(* (SprayTargets, CopiesOnWire); here the loop itself is run and the       *)
(* closed form is what it must have done when it ends.                     *)
(*                                                                         *)
(* The live node asks with the zero statistic for the peer (peerP = 0), so *)
(* it never hands off; other values run the handoff branch too.            *)
(***************************************************************************)
EXTENDS Routing

CONSTANTS
    Peer,           \* candidate identities
    MaxBudget,      \* bound on L
    MyPs, PeerPs    \* predictabilities, ours and the candidates'

ASSUME LoopAssumption ==
    /\ Peer \subseteq Nat /\ IsFiniteSet(Peer)
    /\ MaxBudget \in Nat /\ MyPs \subseteq Nat /\ PeerPs \subseteq Nat

VARIABLES
    input,          \* the call: candidates, dst, ledger, copies, L, myP, peerP
    todo,           \* candidates not yet visited
    copies,         \* state.CopiesMade
    ledger,         \* peers in sprayed[msg.ID]
    wire            \* the CopiesMade each peer's copy was sent with

loopVars == <<input, todo, copies, ledger, wire>>

LoopInit ==
    /\ input \in [candidates : SUBSET Peer, dst : Peer, ledger : SUBSET Peer,
                  copies : 0 .. MaxBudget, L : 1 .. MaxBudget,
                  myP : MyPs, peerP : [Peer -> PeerPs]]
    /\ todo = input.candidates
    /\ copies = input.copies
    /\ ledger = input.ledger
    /\ wire = <<>>

LoopVerdict(p) ==
    Decide(input.dst, p, p \in ledger, copies, input.L, input.myP, input.peerP[p])

\* One iteration of the loop, for the least candidate left.
Visit(p) ==
    LET action == LoopVerdict(p)
        count  == IF CreatesCopy(action) THEN copies + 1 ELSE copies
    IN  /\ p \in todo /\ \A q \in todo : p <= q
        /\ todo' = todo \ {p}
        /\ copies' = count
        /\ \/ /\ CreatesCopy(action) \/ MovesCopy(action)
              /\ ledger' = ledger \cup {p}
              /\ wire' = [q \in DOMAIN wire \cup {p} |-> IF q = p THEN count ELSE wire[q]]
           \/ /\ action \in {"keep", "dup"}
              /\ UNCHANGED <<ledger, wire>>
        /\ UNCHANGED input

LoopNext == \E p \in todo : Visit(p)

LoopSpec == LoopInit /\ [][LoopNext]_loopVars

-----------------------------------------------------------------------------
Sprays == SprayTargets(input.candidates, input.dst, input.ledger, input.copies, input.L)

\* Fresh candidates the budget does not reach, better placed than we are.
Handoffs ==
    {p \in Fresh(input.candidates, input.dst, input.ledger) \ Sprays :
        input.peerP[p] > input.myP}

(***************************************************************************)
(* The closed form is what the loop computes: the same peers are sent a    *)
(* copy, each with the same count on the wire, the ledger grows by exactly *)
(* these, and the count ends where the sprays leave it.  In the live mesh  *)
(* (peerP = 0) there are no handoffs, which is the case Mesh uses.         *)
(***************************************************************************)
ClosedForm ==
    todo = {} =>
        /\ DOMAIN wire = Sprays \cup Handoffs \cup (input.candidates \cap {input.dst})
        /\ \A p \in DOMAIN wire : wire[p] = CopiesOnWire(p, input.copies, Sprays)
        /\ ledger = input.ledger \cup DOMAIN wire
        /\ copies = input.copies + Cardinality(Sprays)
=============================================================================
