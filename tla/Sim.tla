-------------------------------- MODULE Sim --------------------------------
(***************************************************************************)
(* The routing simulator (pkg/routing/sim/sim.go) that backs the project's *)
(* published comparison of spray-and-wait with epidemic routing.  One run  *)
(* of Run: per tick a message may be injected, the nodes move, every pair  *)
(* in range meets in ascending order, and the buffers are swept.           *)
(*                                                                         *)
(* Movement is abstracted to the pairs that are in range at a tick: any.   *)
(* A contact is one step per offered copy, because the copies of one       *)
(* message share one MessageState (copies made, delivered or not) that the *)
(* offers of a contact change under each other's feet, while the list of   *)
(* offers is a snapshot from the start of the contact.                     *)
(*                                                                         *)
(* Predictabilities are fixed-point numbers, Scale standing for 1; what    *)
(* they are rounded to matters only through the order in which a Go map is *)
(* ranged over, which is left open as in Go.                               *)
(***************************************************************************)
EXTENDS Routing, SequencesExt

CONSTANTS
    Nodes,          \* number of nodes
    Messages,       \* number of messages to inject
    InjectionFrom, InjectionTo,
    Lifetime,       \* cfg.TTL
    Duration,
    Forwarders,     \* budgets of SprayAndWait; 0 stands for Epidemic
    Scale,          \* the predictability 1
    PInit, Beta, Gamma,     \* the PROPHET constants, in units of Scale
    Pairs,          \* bound: the sources and destinations that are drawn
    MaxContacts     \* bound: pairs in range at one tick

Node    == 1 .. Nodes
Message == 1 .. Messages

\* What Run validates, and what the bounds stand for.
ASSUME ConfigAssumption ==
    /\ Nodes \in Nat /\ Nodes >= 2
    /\ InjectionFrom \in Nat /\ InjectionTo \in Nat /\ InjectionTo > InjectionFrom
    /\ Messages \in Nat /\ Lifetime \in Nat /\ Duration \in Nat /\ MaxContacts \in Nat
    /\ Forwarders \subseteq Nat
    /\ Pairs \subseteq {p \in Node \X Node : p[1] # p[2]}

ASSUME ScaleAssumption ==
    /\ Scale \in Nat \ {0}
    /\ PInit \in 0 .. Scale /\ Beta \in 0 .. Scale /\ Gamma \in 0 .. Scale

VARIABLES
    L,              \* the forwarder of this run
    tick, phase,    \* where the loop of Run is
    last,           \* the pair that met last in this tick
    met,            \* inContact: the nodes that meet somebody in this tick
    contacts,       \* pairs that have met in this tick
    injected,       \* messages injected so far: the messages 1 .. injected
    states,         \* the MessageState shared by the copies of a message
    buf, has,       \* the copies a node holds, and its presence map
    stats,          \* stats[a][b]: predictability of b in the table of a
    offers,         \* the rest of the snapshots of the running contact
    delivered,      \* the outcome recorded for delivered messages
    atZero          \* history: messages delivered at tick 0

contactVars == <<last, met, contacts, offers>>
vars == <<L, tick, phase, contactVars, injected, states, buf, has, stats, delivered, atZero>>

-----------------------------------------------------------------------------
(***************************************************************************)
(* PROPHET (pkg/routing/routing.go).                                       *)
(***************************************************************************)
Times(p, q) == (p * q) \div Scale

OnEncounter(p) == p + Times(Scale - p, PInit)

TransitGain(pACold, pAB, pBC) == Times(Times(Times(Scale - pACold, pAB), pBC), Beta)

\* RecordEncounter: the encounter first, then transitivity over the peer's
\* table in some order.  The gain is added to the predictability of the peer
\* itself, whatever third node the entry is about.
RecordEncounter(p, peerStats, order) ==
    LET pAB == OnEncounter(p)
        Gain(q, id) == LET sum == q + TransitGain(q, pAB, peerStats[id])
                       IN  IF sum > Scale THEN Scale ELSE sum
    IN  FoldLeft(Gain, pAB, order)

AgePredictability(p) == Times(p, Gamma)

\* updateEncounter: a's entry for b, from a copy of b's table.  Entries at
\* zero are skipped; a's own is not, since the statistic has no peer name.
UpdateEncounter(table, a, b) ==
    {[table EXCEPT ![a][b] = RecordEncounter(@, table[b], order)] :
        order \in SetToSeqs({id \in Node : table[b][id] > 0})}

-----------------------------------------------------------------------------
(***************************************************************************)
(* One tick: inject.                                                       *)
(***************************************************************************)
Stride == IF Messages > 1
          THEN LET s == (InjectionTo - InjectionFrom) \div (Messages - 1)
               IN  IF s > 1 THEN s ELSE 1
          ELSE 1

Due == /\ injected < Messages /\ tick >= InjectionFrom
       /\ (tick - InjectionFrom) % Stride = 0

NoMessage == [src |-> 0, dst |-> 0, created |-> 0, copies |-> 0, deliveredAt |-> 0]

NotDelivered == [latency |-> -1, hops |-> -1]

Inject ==
    /\ phase = "inject"
    /\ \/ /\ Due
          /\ injected' = injected + 1
          /\ \E p \in Pairs :
               /\ states' = [states EXCEPT ![injected'] =
                    [src |-> p[1], dst |-> p[2], created |-> tick,
                     copies |-> 1, deliveredAt |-> 0]]
               /\ has' = [has EXCEPT ![p[1]] = @ \cup {injected'}]
               /\ buf' = [buf EXCEPT ![p[1]] = Append(@, [msg |-> injected', hops |-> 0])]
       \/ /\ ~Due
          /\ UNCHANGED <<injected, states, has, buf>>
    /\ phase' = "meet"
    /\ last' = <<0, 0>> /\ met' = {} /\ contacts' = 0
    /\ UNCHANGED <<L, tick, stats, offers, delivered, atZero>>

-----------------------------------------------------------------------------
(***************************************************************************)
(* Contacts.  Both tables are updated, both queues are snapshotted, and    *)
(* then a's copies are offered to b and b's to a.                          *)
(***************************************************************************)
Offered(from, to) == [i \in DOMAIN buf[from] |-> [from |-> from, to |-> to, entry |-> buf[from][i]]]

Later(a, b) == a > last[1] \/ (a = last[1] /\ b > last[2])

Meet(a, b) ==
    /\ phase = "meet" /\ offers = <<>>
    /\ a < b /\ Later(a, b) /\ contacts < MaxContacts
    /\ last' = <<a, b>>
    /\ met' = met \cup {a, b}
    /\ contacts' = contacts + 1
    /\ \E table \in UpdateEncounter(stats, a, b) : stats' \in UpdateEncounter(table, b, a)
    /\ offers' = Offered(a, b) \o Offered(b, a)
    /\ UNCHANGED <<L, tick, phase, injected, states, buf, has, delivered, atZero>>

\* Mutant of HasCopy: the presence map is not asked.
HasCopyNever(n, m) == FALSE

HasCopy(n, m) == m \in has[n]

\* Mutants of Verdict: one copy more than the budget is made; a better placed
\* peer is handed the copy while the budget lasts.
VerdictOneMore(o) ==
    LET st == states[o.entry.msg]
    IN  Decide(st.dst, o.to, HasCopy(o.to, o.entry.msg), st.copies, L + 1,
               stats[o.from][st.dst], stats[o.to][st.dst])
VerdictHandoffFirst(o) ==
    LET st == states[o.entry.msg]
        better == stats[o.to][st.dst] > stats[o.from][st.dst]
    IN  Decide(st.dst, o.to, HasCopy(o.to, o.entry.msg), st.copies, IF better THEN 0 ELSE L,
               stats[o.from][st.dst], stats[o.to][st.dst])

Verdict(o) ==
    LET st == states[o.entry.msg]
    IN  IF L = 0 THEN EpidemicDecide(st.dst, o.to, HasCopy(o.to, o.entry.msg))
        ELSE Decide(st.dst, o.to, HasCopy(o.to, o.entry.msg), st.copies, L,
                    stats[o.from][st.dst], stats[o.to][st.dst])

\* give: the peer's copy has taken one hop more.
Give(n, e) ==
    /\ has' = [has EXCEPT ![n] = @ \cup {e.msg}]
    /\ buf' = [buf EXCEPT ![n] = Append(@, [e EXCEPT !.hops = @ + 1])]

\* dropFrom: the first copy of the message goes, if there is one.
Without(s, m) ==
    IF \E i \in DOMAIN s : s[i].msg = m
    THEN RemoveAt(s, CHOOSE i \in DOMAIN s : s[i].msg = m /\ \A j \in 1 .. i - 1 : s[j].msg # m)
    ELSE s

\* Mutant of Live: offers of a message delivered meanwhile are still acted on.
LiveAlways(o) == TRUE

Live(o) == states[o.entry.msg].deliveredAt = 0

(***************************************************************************)
(* The cases of exchange for one offered copy.                             *)
(***************************************************************************)
Skip(o) ==
    /\ ~Live(o) \/ Verdict(o) \in {"dup", "keep"}
    /\ UNCHANGED <<states, buf, has, delivered, atZero>>

Hand(o) ==
    /\ Live(o) /\ Verdict(o) = "deliver"
    /\ states' = [states EXCEPT ![o.entry.msg].deliveredAt = tick]
    /\ delivered' = [delivered EXCEPT ![o.entry.msg] =
          [latency |-> tick - states[o.entry.msg].created, hops |-> o.entry.hops]]
    /\ buf' = [buf EXCEPT ![o.from] = Without(@, o.entry.msg)]
    /\ has' = [has EXCEPT ![o.from] = @ \ {o.entry.msg}]
    /\ atZero' = IF tick = 0 THEN atZero \cup {o.entry.msg} ELSE atZero

\* Mutant of Spray: the new copy is not counted.
SprayUncounted(o) ==
    /\ Live(o) /\ Verdict(o) = "spray"
    /\ Give(o.to, o.entry)
    /\ UNCHANGED <<states, delivered, atZero>>

Spray(o) ==
    /\ Live(o) /\ Verdict(o) = "spray"
    /\ states' = [states EXCEPT ![o.entry.msg].copies = @ + 1]
    /\ Give(o.to, o.entry)
    /\ UNCHANGED <<delivered, atZero>>

Handoff(o) ==
    /\ Live(o) /\ Verdict(o) = "handoff"
    /\ buf' = [buf EXCEPT ![o.to] = Append(@, [o.entry EXCEPT !.hops = @ + 1]),
                          ![o.from] = Without(@, o.entry.msg)]
    /\ has' = [has EXCEPT ![o.to] = @ \cup {o.entry.msg}, ![o.from] = @ \ {o.entry.msg}]
    /\ UNCHANGED <<states, delivered, atZero>>

Exchange ==
    /\ offers # <<>>
    /\ offers' = Tail(offers)
    /\ LET o == Head(offers) IN Skip(o) \/ Hand(o) \/ Spray(o) \/ Handoff(o)
    /\ UNCHANGED <<L, tick, phase, last, met, contacts, injected, stats>>

-----------------------------------------------------------------------------
(***************************************************************************)
(* The end of a tick: the tables of nodes that met nobody age, and the     *)
(* buffers are swept.  A delivered message is Expired as well, but the     *)
(* sweep keeps it.                                                         *)
(***************************************************************************)
Expired(st) == st.deliveredAt # 0 \/ tick - st.created >= Lifetime

\* Mutant of Keeps: the sweep is one tick late.
KeepsLate(m) == states[m].deliveredAt # 0 \/ tick - states[m].created <= Lifetime

Keeps(m) == states[m].deliveredAt # 0 \/ ~Expired(states[m])

\* sweep: the copies that are kept, in the order they had.
Kept(s) == {i \in DOMAIN s : Keeps(s[i].msg)}

Swept(s) ==
    [k \in 1 .. Cardinality(Kept(s)) |-> s[CHOOSE i \in Kept(s) : Rank(i, Kept(s)) = k]]

EndTick ==
    /\ phase = "meet" /\ offers = <<>>
    /\ stats' = [a \in Node |-> IF a \in met THEN stats[a]
                                ELSE [b \in Node |-> AgePredictability(stats[a][b])]]
    /\ buf' = [n \in Node |-> Swept(buf[n])]
    /\ has' = [n \in Node |-> {e.msg : e \in Range(buf'[n])}]
    /\ tick' = tick + 1
    /\ phase' = IF tick' < Duration THEN "inject" ELSE "done"
    /\ UNCHANGED <<L, contactVars, injected, states, delivered, atZero>>

Init ==
    /\ L \in Forwarders
    /\ tick = 0
    /\ phase = IF Duration > 0 THEN "inject" ELSE "done"
    /\ last = <<0, 0>> /\ met = {} /\ contacts = 0 /\ offers = <<>>
    /\ injected = 0
    /\ states = [m \in Message |-> NoMessage]
    /\ buf = [n \in Node |-> <<>>]
    /\ has = [n \in Node |-> {}]
    /\ stats = [a \in Node |-> [b \in Node |-> 0]]
    /\ delivered = [m \in Message |-> NotDelivered]
    /\ atZero = {}

Next == Inject \/ (\E a, b \in Node : Meet(a, b)) \/ Exchange \/ EndTick

Spec == Init /\ [][Next]_vars

-----------------------------------------------------------------------------
\* Type invariant: predictabilities stay between 0 and 1.
TypeOK ==
    /\ L \in Forwarders /\ tick \in 0 .. Duration /\ phase \in {"inject", "meet", "done"}
    /\ injected \in 0 .. Messages /\ met \subseteq Node /\ contacts \in 0 .. MaxContacts
    /\ \A n \in Node : Range(buf[n]) \subseteq [msg : 1 .. injected, hops : Nat]
    /\ has \in [Node -> SUBSET (1 .. injected)]
    /\ stats \in [Node -> [Node -> 0 .. Scale]]
    /\ \A m \in 1 .. injected : states[m].copies \in Nat \ {0}

Holders(m) == {n \in Node : m \in has[n]}

\* The messages whose bookkeeping is reliable.  DeliveredAt is 0 until a message
\* is delivered, and stays 0 when it is delivered at tick 0: the copy is gone
\* and the message counts as undelivered.
Timed == (1 .. injected) \ atZero

(***************************************************************************)
(* `A node never holds more than one copy of a given message': the queue   *)
(* and the presence map agree, through offers that come from a snapshot    *)
(* while both change.                                                      *)
(***************************************************************************)
OneCopyEach ==
    \A n \in Node : /\ has[n] = {e.msg : e \in Range(buf[n])}
                    /\ Cardinality(has[n]) = Len(buf[n])

(***************************************************************************)
(* The copies counted are the copies there are: as long as a message is    *)
(* neither delivered nor past its lifetime, CopiesMade nodes hold it; the  *)
(* delivery consumes one copy; expiry removes all of them at once.         *)
(***************************************************************************)
CopiesConserved ==
    \A m \in Timed :
        Cardinality(Holders(m)) = IF states[m].deliveredAt # 0 THEN states[m].copies - 1
                                  ELSE IF tick - states[m].created <= Lifetime
                                       THEN states[m].copies ELSE 0

(***************************************************************************)
(* The budget of SprayAndWait is a bound on the carriers of a message at   *)
(* any moment, because all copies share one count (on the live mesh they   *)
(* do not: see TreeBudget of Mesh).                                        *)
(***************************************************************************)
BudgetKept == L > 0 => \A m \in 1 .. injected : Cardinality(Holders(m)) <= L

(***************************************************************************)
(* What the outcome reports: a latency is recorded exactly for the         *)
(* delivered messages, and nothing is delivered after its lifetime.        *)
(***************************************************************************)
DeliveriesRecorded ==
    \A m \in Timed :
        IF states[m].deliveredAt = 0 THEN delivered[m] = NotDelivered
        ELSE /\ delivered[m].latency = states[m].deliveredAt - states[m].created
             /\ delivered[m].latency \in 0 .. Lifetime

(***************************************************************************)
(* `Each hop creates or moves a copy': no copy is moved before the budget  *)
(* is spent, so until then, and always under Epidemic, the hops of a copy  *)
(* are fewer than the copies made.                                         *)
(***************************************************************************)
HopsNeedCopies ==
    \A n \in Node : \A e \in Range(buf[n]) :
        L = 0 \/ states[e.msg].copies < L => e.hops < states[e.msg].copies

(***************************************************************************)
(* A delivery is final: no later contact, and no offer left of a snapshot  *)
(* taken before it, makes, moves or removes a copy or delivers again.      *)
(***************************************************************************)
DeliveryFinal ==
    [][\A m \in Timed : states[m].deliveredAt # 0 =>
            /\ states'[m] = states[m] /\ delivered'[m] = delivered[m]
            /\ Holders(m)' = Holders(m)]_vars
=============================================================================
