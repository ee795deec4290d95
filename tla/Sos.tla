-------------------------------- MODULE Sos --------------------------------
(***************************************************************************)
(* An emergency alert and the SOS managers that keep it alive              *)
(* (pkg/sos/sos.go), over the mesh's flooding and its dedup window         *)
(* (deliverMessage and StartSeenCleanup of pkg/mesh/mesh.go).  Every node  *)
(* that has accepted the alert re-broadcasts it while it is active, under  *)
(* the same message ID.                                                    *)
(*                                                                         *)
(* Time passes in ticks, the period of the dedup cleanup.  A copy is       *)
(* delivered or lost, and an expired alert is removed, within a tick; a    *)
(* node clears its dedup map at some moment of a tick and re-broadcasts    *)
(* up to MaxRound times (every 30 seconds in the code).                    *)
(***************************************************************************)
EXTENDS Integers, FiniteSets

CONSTANTS
    Node, Owner,        \* the nodes, and the one that sends the alert
    NoAlert,            \* the node does not track the alert
    MaxTTL,             \* initial TTL of an alert (64 in the code)
    ActiveDuration,     \* ticks an alert stays active (60 minutes in the code)
    MaxRound,           \* re-broadcasts of a node in a tick (10 in the code)
    MaxAck,             \* bound: acknowledgements counted
    MaxAge              \* bound: the age of the alert is counted up to this

ASSUME SosAssumption ==
    /\ Owner \in Node
    /\ MaxTTL \in Nat \ {0} /\ ActiveDuration \in Nat \ {0}
    /\ MaxRound \in Nat /\ MaxAck \in Nat /\ MaxAge \in Nat
    /\ NoAlert \notin [ttl : 0..MaxTTL, left : 0..ActiveDuration]

VARIABLES
    joined,     \* nodes that are in the mesh
    sending,    \* SendAlert: "no", "tracked" before SendMessage, "sent", "failed"
    alerts,     \* alerts[n]: TTL of the tracked message and ticks left
    seen,       \* nodes whose dedup map has the alert's ID
    air,        \* copies under way: destination and TTL
    ackAir,     \* acknowledgements under way to the owner
    ackCount,   \* AckCount of the owner's alert
    rounds,     \* re-broadcasts of a node in this tick
    pruned,     \* nodes that have cleared their dedup map in this tick
    age         \* ticks since SendAlert

vars == <<joined, sending, alerts, seen, air, ackAir, ackCount, rounds, pruned, age>>

Alert == [ttl : 0..MaxTTL, left : 0..ActiveDuration]

\* Mutant of NewAlert: a node that takes the alert up gives it a fresh TTL.
NewAlertFresh(ttl) == [ttl |-> MaxTTL, left |-> ActiveDuration]

NewAlert(ttl) == [ttl |-> ttl, left |-> ActiveDuration]

Tracks(n) == alerts[n] # NoAlert

\* Publish hands a copy to every subscriber, the publisher included.
Copies(ttl) == {[to |-> p, ttl |-> ttl] : p \in joined}

-----------------------------------------------------------------------------
\* SendAlert tracks the alert first, then sends it.
SendAlert ==
    /\ sending = "no" /\ Owner \in joined
    /\ sending' = "tracked"
    /\ alerts' = [alerts EXCEPT ![Owner] = NewAlert(MaxTTL)]
    /\ UNCHANGED <<joined, seen, air, ackAir, ackCount, rounds, pruned, age>>

SendMessage ==
    /\ sending = "tracked"
    /\ sending' = "sent"
    /\ air' = air \cup Copies(MaxTTL)
    /\ UNCHANGED <<joined, alerts, seen, ackAir, ackCount, rounds, pruned, age>>

SendFails ==
    /\ sending = "tracked"
    /\ sending' = "failed"
    /\ alerts' = [alerts EXCEPT ![Owner] = NoAlert]
    /\ UNCHANGED <<joined, seen, air, ackAir, ackCount, rounds, pruned, age>>

\* deliverMessage counts the hop of every copy but our own.
TTLAfter(n, ttl) == IF n # Owner /\ ttl > 0 THEN ttl - 1 ELSE ttl

Relayed(n, ttl) == IF n # Owner /\ ttl > 0 THEN Copies(ttl - 1) ELSE {}

\* HandleIncomingSOS: a tracked alert is left alone, a new one is tracked and
\* acknowledged (a stream to the sender, which may fail).
Receive(c) ==
    /\ c \in air
    /\ IF c.to \in seen
       THEN air' = air \ {c} /\ UNCHANGED <<alerts, seen, ackAir>>
       ELSE /\ seen' = seen \cup {c.to}
            /\ air' = (air \ {c}) \cup Relayed(c.to, c.ttl)
            /\ IF Tracks(c.to)
               THEN UNCHANGED <<alerts, ackAir>>
               ELSE /\ alerts' = [alerts EXCEPT ![c.to] = NewAlert(TTLAfter(c.to, c.ttl))]
                    /\ ackAir' \in {ackAir, IF ackAir < MaxAck THEN ackAir + 1 ELSE ackAir}
    /\ UNCHANGED <<joined, sending, ackCount, rounds, pruned, age>>

Lose(c) ==
    /\ c \in air
    /\ air' = air \ {c}
    /\ UNCHANGED <<joined, sending, alerts, seen, ackAir, ackCount, rounds, pruned, age>>

\* HandleDeliveryAck counts an acknowledgement of an alert it tracks.
HandleDeliveryAck ==
    /\ ackAir > 0
    /\ ackAir' = ackAir - 1
    /\ ackCount' = IF Tracks(Owner) /\ ackCount < MaxAck THEN ackCount + 1 ELSE ackCount
    /\ UNCHANGED <<joined, sending, alerts, seen, air, rounds, pruned, age>>

RebroadcastTTL(n) == IF alerts[n].ttl > 0 THEN alerts[n].ttl - 1 ELSE 0

\* reBroadcastActive skips an expired alert and an exhausted TTL.
ReBroadcast(n) ==
    /\ n \in joined /\ rounds[n] < MaxRound
    /\ Tracks(n) /\ alerts[n].left > 0 /\ RebroadcastTTL(n) > 0
    /\ rounds' = [rounds EXCEPT ![n] = @ + 1]
    /\ air' = air \cup Copies(RebroadcastTTL(n))
    /\ UNCHANGED <<joined, sending, alerts, seen, ackAir, ackCount, pruned, age>>

Expired(n) == Tracks(n) /\ alerts[n].left = 0

CheckExpiry(n) ==
    /\ Expired(n)
    /\ alerts' = [alerts EXCEPT ![n] = NoAlert]
    /\ UNCHANGED <<joined, sending, seen, air, ackAir, ackCount, rounds, pruned, age>>

CancelAlert(n) ==
    /\ Tracks(n)
    /\ alerts' = [alerts EXCEPT ![n] = NoAlert]
    /\ UNCHANGED <<joined, sending, seen, air, ackAir, ackCount, rounds, pruned, age>>

\* StartSeenCleanup empties the dedup map.
ResetSeen(n) ==
    /\ n \notin pruned
    /\ pruned' = pruned \cup {n}
    /\ seen' = seen \ {n}
    /\ UNCHANGED <<joined, sending, alerts, air, ackAir, ackCount, rounds, age>>

\* A node comes into reach of the mesh.
Join(n) ==
    /\ n \notin joined
    /\ joined' = joined \cup {n}
    /\ UNCHANGED <<sending, alerts, seen, air, ackAir, ackCount, rounds, pruned, age>>

Tick ==
    /\ air = {} /\ sending # "tracked" /\ \A n \in Node : ~Expired(n)
    /\ alerts' = [n \in Node |->
                    IF Tracks(n) THEN [alerts[n] EXCEPT !.left = @ - 1] ELSE NoAlert]
    /\ rounds' = [n \in Node |-> 0] /\ pruned' = {}
    /\ age' = IF sending # "no" /\ age < MaxAge THEN age + 1 ELSE age
    /\ UNCHANGED <<joined, sending, seen, air, ackAir, ackCount>>

-----------------------------------------------------------------------------
Init ==
    /\ joined \in {S \in SUBSET Node : Owner \in S}
    /\ sending = "no"
    /\ alerts = [n \in Node |-> NoAlert]
    /\ seen = {} /\ air = {}
    /\ ackAir = 0 /\ ackCount = 0
    /\ rounds = [n \in Node |-> 0] /\ pruned = {}
    /\ age = 0

Environment ==
    \/ \E c \in air : Lose(c)
    \/ \E n \in Node : CancelAlert(n) \/ ResetSeen(n) \/ Join(n)

Next ==
    \/ SendAlert \/ SendMessage \/ SendFails
    \/ \E c \in air : Receive(c)
    \/ HandleDeliveryAck
    \/ \E n \in Node : ReBroadcast(n) \/ CheckExpiry(n)
    \/ Tick
    \/ Environment

Spec == Init /\ [][Next]_vars

\* SendMessage returns, copies arrive, the loops run and time passes.
FairSpec ==
    /\ Spec
    /\ WF_vars(SendMessage \/ SendFails)
    /\ WF_vars(\E c \in air : Receive(c))
    /\ \A n \in Node : WF_vars(CheckExpiry(n))
    /\ WF_vars(Tick)

-----------------------------------------------------------------------------
\* Type invariant: an exhausted TTL stays at 0 on every path, and an alert is
\* removed before its time left runs below 0.
TypeOK ==
    /\ joined \subseteq Node /\ Owner \in joined
    /\ sending \in {"no", "tracked", "sent", "failed"}
    /\ alerts \in [Node -> Alert \cup {NoAlert}]
    /\ seen \subseteq Node /\ pruned \subseteq Node
    /\ air \subseteq [to : Node, ttl : 0..MaxTTL]
    /\ rounds \in [Node -> 0..MaxRound]
    /\ ackAir \in 0..MaxAck /\ ackCount \in 0..MaxAck
    /\ age \in 0..MaxAge

(***************************************************************************)
(* An alert dies out: although any node may bring it back at any other     *)
(* after the dedup window, from some moment on nobody tracks it and no     *)
(* copy is under way.                                                      *)
(***************************************************************************)
AlertsDie == <>[](air = {} /\ \A n \in Node : ~Tracks(n))

(***************************************************************************)
(* How long it can live: every re-broadcast costs a hop of TTL, and buys   *)
(* the node that accepts it one more ActiveDuration at most.  Whatever the *)
(* joins, losses, cancellations and dedup cleanups, a tracked alert with   *)
(* TTL t is never older than the hops it has used allow.                   *)
(***************************************************************************)
AlertLifetime ==
    \A n \in Node : Tracks(n) =>
        age + alerts[n].left <= (MaxTTL - alerts[n].ttl + 1) * ActiveDuration
=============================================================================
