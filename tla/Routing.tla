------------------------------ MODULE Routing ------------------------------
(***************************************************************************)
(* The pure parts of the forwarding path: the TTL bookkeeping of           *)
(* pkg/message and the decision layer of pkg/routing, as operators.        *)
(*                                                                         *)
(* Peer identities are natural numbers: routingCandidates sorts the        *)
(* candidates by their identity, and the order decides which of them the   *)
(* remaining budget reaches.                                               *)
(***************************************************************************)
EXTENDS Integers, FiniteSets

\* Mutant of DecrementTTL: two hops are charged for one.
DecrementTTLTwice(msg) ==
    [msg EXCEPT !.ttl = IF msg.ttl > 0 THEN msg.ttl - 2 ELSE msg.ttl, !.hop = msg.hop + 1]

(***************************************************************************)
(* DecrementTTL: one hop less to live, one hop more travelled.  The hop    *)
(* count rises even when the TTL is already zero.                          *)
(***************************************************************************)
DecrementTTL(msg) ==
    [msg EXCEPT !.ttl = IF msg.ttl > 0 THEN msg.ttl - 1 ELSE msg.ttl, !.hop = msg.hop + 1]

(***************************************************************************)
(* SprayAndWait.Decide.  myP and peerP are the predictabilities for the    *)
(* destination, `holds' is peerHoldsCopy.                                  *)
(***************************************************************************)
Decide(dst, peer, holds, copies, L, myP, peerP) ==
    CASE peer = dst                                         -> "deliver"
      [] peer # dst /\ holds                                -> "dup"
      [] peer # dst /\ ~holds /\ copies < L                 -> "spray"
      [] peer # dst /\ ~holds /\ copies >= L /\ peerP > myP -> "handoff"
      [] OTHER                                              -> "keep"

\* Epidemic.Decide: a copy for every fresh peer.
EpidemicDecide(dst, peer, holds) ==
    CASE peer = dst              -> "deliver"
      [] peer # dst /\ holds     -> "dup"
      [] OTHER                   -> "spray"

CreatesCopy(action) == action = "spray"
MovesCopy(action)   == action \in {"handoff", "deliver"}

(***************************************************************************)
(* The loop of routeToPeers over the sorted candidates, in closed form.    *)
(* The loop never hands off: it passes the zero statistic for the peer.    *)
(* A fresh candidate is one that is neither the destination nor in the     *)
(* ledger; the k-th fresh candidate meets a count of copies + k - 1, so it *)
(* is sprayed exactly when copies + k is within the budget, and the copy   *)
(* it is handed carries that count.                                        *)
(***************************************************************************)
Fresh(candidates, dst, ledger) == candidates \ (ledger \cup {dst})

Rank(p, S) == Cardinality({q \in S : q <= p})

\* Mutant of SprayTargets: the last unit of the budget is never spent.
SprayTargetsShort(candidates, dst, ledger, copies, L) ==
    LET fresh == Fresh(candidates, dst, ledger)
    IN  {p \in fresh : copies + Rank(p, fresh) < L}

SprayTargets(candidates, dst, ledger, copies, L) ==
    LET fresh == Fresh(candidates, dst, ledger)
    IN  {p \in fresh : copies + Rank(p, fresh) <= L}

\* Mutant of CopiesOnWire: the copy carries the count it was received with.
CopiesAsReceived(p, copies, sprayed) == copies

CopiesOnWire(p, copies, sprayed) == copies + Rank(p, sprayed)
=============================================================================
