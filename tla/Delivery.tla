------------------------------ MODULE Delivery ------------------------------
(***************************************************************************)
(* What the mesh promises the applications on it, without a network: an    *)
(* application is only ever handed messages that were sent, at most once   *)
(* each per dedup window of its node, and is only ever told that a message *)
(* was received when the application it was addressed to has it.  It does  *)
(* not promise that anything arrives.                                      *)
(*                                                                         *)
(* Mesh, with its streams, its topic, relays, copy budgets and restarts,   *)
(* implements it.                                                          *)
(***************************************************************************)
EXTENDS Naturals

CONSTANTS
    Node, Msg,
    To(_),          \* To(m): the application m is addressed to
    MaxWindow       \* windows a node can leave

VARIABLES
    sent,           \* messages that were sent
    window,         \* window[n]: dedup windows n has left
    handed          \* handed[n][<<m, 0>>]: how often n's application got m,
                    \* handed[n][<<m, w>>]: how often it was told of the
                    \* reception in window w - 1 of the recipient

vars == <<sent, window, handed>>

Id == Msg \X (0 .. MaxWindow + 1)

Init ==
    /\ sent = {}
    /\ window = [n \in Node |-> 0]
    /\ handed = [n \in Node |-> [i \in Id |-> 0]]

Send(m) ==
    /\ sent' = sent \cup {m}
    /\ UNCHANGED <<window, handed>>

Hand(n, i) ==
    /\ i[1] \in sent
    /\ handed[n][i] <= window[n]
    /\ i[2] > 0 => handed[To(i[1])][<<i[1], 0>>] > 0
    /\ handed' = [handed EXCEPT ![n][i] = @ + 1]
    /\ UNCHANGED <<sent, window>>

Forget(n) ==
    /\ window' = [window EXCEPT ![n] = @ + 1]
    /\ UNCHANGED <<sent, handed>>

Next ==
    \/ \E m \in Msg : Send(m)
    \/ \E n \in Node : Forget(n) \/ \E i \in Id : Hand(n, i)

Spec == Init /\ [][Next]_vars
=============================================================================
