-------------------------- MODULE AlgorithmProofs --------------------------
(***************************************************************************)
(* Proofs about the routing layer and the binary codec. For every set of   *)
(* peers, ledger, budget and predictability, the closed form that Mesh     *)
(* uses for the loop of routeToPeers is what the loop computes. For every  *)
(* number of nodes, messages, ticks and contacts, the simulator neither    *)
(* loses nor doubles copies, keeps its budget and records each delivery    *)
(* once. And for every byte size, frame size and message, Unmarshal gives  *)
(* back what Marshal encoded, and notices when the end of it is missing.   *)
(***************************************************************************)
EXTENDS MCAlgorithms, Sim, FiniteSetTheorems, SequenceTheorems, WellFoundedInduction, TLAPS

-----------------------------------------------------------------------------
(***************************************************************************)
(* The inductive invariant, over the candidates already visited.           *)
(***************************************************************************)
Call == [candidates : SUBSET Peer, dst : Peer, ledger : SUBSET Peer,
         copies : 0 .. MaxBudget, L : 1 .. MaxBudget,
         myP : MyPs, peerP : [Peer -> PeerPs]]

Visited == input.candidates \ todo

FreshOnes == Fresh(input.candidates, input.dst, input.ledger)

\* The candidates are visited in ascending order.
OrderInv ==
    /\ input \in Call /\ todo \subseteq input.candidates
    /\ \A p \in Visited, q \in todo : p < q

\* What the loop has sent so far, and with which counts.
SentInv ==
    /\ DOMAIN wire = Visited \cap (Sprays \cup Handoffs \cup {input.dst})
    /\ \A p \in DOMAIN wire : wire[p] = CopiesOnWire(p, input.copies, Sprays)
    /\ ledger = input.ledger \cup DOMAIN wire

\* As long as the budget is not spent, no fresh candidate was passed over.
CountInv ==
    /\ copies = input.copies + Cardinality(Sprays \cap Visited)
    /\ copies < input.L => FreshOnes \cap Visited \subseteq Sprays

LoopInv == OrderInv /\ SentInv /\ CountInv

-----------------------------------------------------------------------------
\* The sets that are counted are finite.
LEMMA FinitePeers == ASSUME NEW S \in SUBSET Peer PROVE IsFiniteSet(S) /\ Cardinality(S) \in Nat
BY LoopAssumption, FS_Subset, FS_CardinalityType

\* LoopInv holds before the first candidate.
LEMMA LoopInvInit == LoopInit => LoopInv
<1> SUFFICES ASSUME LoopInit
             PROVE  LoopInv
    OBVIOUS
<1>1. input \in Call /\ todo = input.candidates /\ copies = input.copies /\ ledger = input.ledger
          /\ wire = <<>>
    BY DEF LoopInit, Call
<1>2. Visited = {}
    BY <1>1 DEF Visited
<1>3. DOMAIN wire = {}
    BY <1>1
<1>4. OrderInv /\ SentInv
    BY <1>1, <1>2, <1>3 DEF OrderInv, SentInv
<1>5. Sprays \cap Visited = {} /\ Cardinality({}) = 0 /\ input.copies \in Nat
    BY <1>1, <1>2, FS_EmptySet, LoopAssumption DEF Call
<1>6. CountInv
    BY <1>1, <1>2, <1>5 DEF CountInv
<1> QED BY <1>4, <1>6 DEF LoopInv

(***************************************************************************)
(* The rank of the candidate that is next, in a set of candidates.         *)
(***************************************************************************)
LEMMA NextRank ==
    ASSUME OrderInv, NEW S \in SUBSET input.candidates,
           NEW p \in todo, \A q \in todo : p <= q
    PROVE  /\ Rank(p, S) = Cardinality(S \cap Visited) + (IF p \in S THEN 1 ELSE 0)
           /\ Cardinality(S \cap Visited) \in Nat
<1>1. input.candidates \subseteq Peer /\ Peer \subseteq Nat
    BY LoopAssumption DEF OrderInv, Call
<1>2. {q \in S : q <= p} = (S \cap Visited) \cup (S \cap {p})
    <2>0. todo \subseteq input.candidates /\ p \in Nat /\ \A q \in input.candidates : q \in Nat
        BY <1>1 DEF OrderInv
    <2>1. ASSUME NEW q \in S, q <= p, q \notin Visited
          PROVE  q = p
        <3>1. q \in todo /\ q \in Nat
            BY <2>0, <2>1 DEF Visited
        <3>2. p <= q
            BY <3>1
        <3> QED BY <2>0, <2>1, <3>1, <3>2
    <2>2. ASSUME NEW q \in Visited
          PROVE  q <= p
        <3>1. q < p /\ q \in Nat
            BY <2>0 DEF OrderInv, Visited
        <3> QED BY <2>0, <3>1
    <2>3. p <= p
        BY <2>0
    <2> QED BY <2>1, <2>2, <2>3
<1>3. p \notin S \cap Visited
    BY DEF Visited
<1>4. IsFiniteSet(S \cap Visited) /\ Cardinality(S \cap Visited) \in Nat
    BY <1>1, FinitePeers
<1>5. CASE p \in S
    <2>1. {q \in S : q <= p} = (S \cap Visited) \cup {p}
        BY <1>2, <1>5
    <2>2. Cardinality((S \cap Visited) \cup {p}) = Cardinality(S \cap Visited) + 1
        BY <1>3, <1>4, FS_AddElement
    <2> QED BY <1>4, <1>5, <2>1, <2>2 DEF Rank
<1>6. CASE p \notin S
    <2>1. {q \in S : q <= p} = S \cap Visited
        BY <1>2, <1>6
    <2> QED BY <1>4, <1>6, <2>1 DEF Rank
<1> QED BY <1>5, <1>6

(***************************************************************************)
(* A fresh candidate is in the closed form's set exactly when the budget   *)
(* is not spent at its turn.                                               *)
(***************************************************************************)
LEMMA SprayTurn ==
    ASSUME LoopInv, NEW p \in todo, \A q \in todo : p <= q
    PROVE  /\ p \in Sprays <=> p \in FreshOnes /\ copies < input.L
           /\ CopiesOnWire(p, input.copies, Sprays) = IF p \in Sprays THEN copies + 1 ELSE copies
           /\ copies \in Nat
<1>1. OrderInv /\ CountInv /\ input.copies \in Nat /\ input.L \in Nat
          /\ input.candidates \subseteq Peer
    BY LoopAssumption DEF LoopInv, OrderInv, Call
<1>2. FreshOnes \in SUBSET input.candidates /\ Sprays \in SUBSET FreshOnes
    BY DEF FreshOnes, Fresh, Sprays, SprayTargets
<1>3. p \in Sprays <=> p \in FreshOnes /\ input.copies + Rank(p, FreshOnes) <= input.L
    BY DEF FreshOnes, Sprays, SprayTargets
<1> DEFINE f == Cardinality(FreshOnes \cap Visited)
           s == Cardinality(Sprays \cap Visited)
<1>4. /\ p \in FreshOnes => Rank(p, FreshOnes) = f + 1
      /\ Rank(p, Sprays) = s + (IF p \in Sprays THEN 1 ELSE 0)
      /\ f \in Nat /\ s \in Nat
    <2>1. /\ Rank(p, FreshOnes) = f + (IF p \in FreshOnes THEN 1 ELSE 0)
          /\ f \in Nat
        BY <1>1, <1>2, NextRank
    <2>2. Sprays \in SUBSET input.candidates
        BY <1>2
    <2>3. /\ Rank(p, Sprays) = s + (IF p \in Sprays THEN 1 ELSE 0)
          /\ s \in Nat
        BY <1>1, <2>2, NextRank
    <2> QED BY <2>1, <2>3
<1>5. s <= f
    <2>1. IsFiniteSet(FreshOnes \cap Visited)
        BY <1>1, <1>2, FinitePeers
    <2>2. Sprays \cap Visited \in SUBSET (FreshOnes \cap Visited)
        BY <1>2
    <2> QED BY <2>1, <2>2, FS_Subset
<1>6. copies < input.L => s = f
    <2> SUFFICES ASSUME copies < input.L
                 PROVE  Sprays \cap Visited = FreshOnes \cap Visited
        OBVIOUS
    <2> QED BY <1>1, <1>2 DEF CountInv
<1>7. copies = input.copies + s
    BY <1>1 DEF CountInv
<1> HIDE DEF f, s
<1>8. p \in FreshOnes => (input.copies + Rank(p, FreshOnes) <= input.L <=> copies < input.L)
    BY <1>1, <1>4, <1>5, <1>6, <1>7
<1>9. CopiesOnWire(p, input.copies, Sprays) = IF p \in Sprays THEN copies + 1 ELSE copies
    BY <1>1, <1>4, <1>7 DEF CopiesOnWire
<1> QED BY <1>1, <1>3, <1>4, <1>7, <1>8, <1>9

(***************************************************************************)
(* One iteration keeps the invariant.                                      *)
(***************************************************************************)
LEMMA VisitKeeps ==
    ASSUME LoopInv, NEW p, Visit(p)
    PROVE  LoopInv'
<1> DEFINE action == LoopVerdict(p)
           count == IF CreatesCopy(action) THEN copies + 1 ELSE copies
<1>1. /\ p \in todo /\ \A q \in todo : p <= q
      /\ todo' = todo \ {p} /\ copies' = count /\ input' = input
      /\ \/ /\ CreatesCopy(action) \/ MovesCopy(action)
            /\ ledger' = ledger \cup {p}
            /\ wire' = [q \in DOMAIN wire \cup {p} |-> IF q = p THEN count ELSE wire[q]]
         \/ /\ action \in {"keep", "dup"}
            /\ UNCHANGED <<ledger, wire>>
    BY DEF Visit
<1>2. /\ FreshOnes' = FreshOnes /\ Sprays' = Sprays /\ Handoffs' = Handoffs
      /\ Visited' = Visited \cup {p} /\ p \notin Visited /\ p \in input.candidates
    BY <1>1 DEF FreshOnes, Sprays, Handoffs, Visited, LoopInv, OrderInv
<1>3. OrderInv'
    <2>1. \A q \in todo' : p < q
        <3> SUFFICES ASSUME NEW q \in todo'
                     PROVE  p < q
            OBVIOUS
        <3>1. q \in todo /\ q # p /\ p <= q
            BY <1>1
        <3>2. p \in Nat /\ q \in Nat
            BY <1>1, <3>1, LoopAssumption DEF LoopInv, OrderInv, Call
        <3> QED BY <3>1, <3>2
    <2> QED BY <1>1, <1>2, <2>1 DEF LoopInv, OrderInv
<1>4. /\ p \in Sprays <=> p \in FreshOnes /\ copies < input.L
      /\ CopiesOnWire(p, input.copies, Sprays) = IF p \in Sprays THEN copies + 1 ELSE copies
      /\ copies \in Nat
    BY <1>1, SprayTurn
<1>5. /\ input.L \in Nat /\ p \in Peer
      /\ p \in FreshOnes <=> p # input.dst /\ p \notin ledger
    BY <1>1, <1>2, LoopAssumption DEF LoopInv, OrderInv, SentInv, Call, FreshOnes, Fresh
<1>6. /\ action \in {"deliver", "dup", "spray", "handoff", "keep"}
      /\ action = "deliver" <=> p = input.dst
      /\ action = "spray" <=> p \in Sprays
      /\ action = "handoff" <=> p \in Handoffs
    <2>1. CASE p = input.dst
        BY <1>4, <1>5, <2>1 DEF LoopVerdict, Decide, Handoffs, FreshOnes
    <2>2. CASE p # input.dst /\ p \in ledger
        BY <1>4, <1>5, <2>2 DEF LoopVerdict, Decide, Handoffs, FreshOnes
    <2>3. CASE p # input.dst /\ p \notin ledger /\ copies < input.L
        BY <1>4, <1>5, <2>3 DEF LoopVerdict, Decide, Handoffs, FreshOnes
    <2>4. CASE p # input.dst /\ p \notin ledger /\ ~(copies < input.L)
        <3>1. copies >= input.L /\ p \in FreshOnes /\ p \notin Sprays
            BY <1>4, <1>5, <2>4
        <3> QED BY <2>4, <3>1 DEF LoopVerdict, Decide, Handoffs, FreshOnes
    <2> QED BY <2>1, <2>2, <2>3, <2>4
<1> HIDE DEF action
<1>7. count = CopiesOnWire(p, input.copies, Sprays)
    BY <1>4, <1>6 DEF CreatesCopy
<1>8. CountInv'
    <2>1. copies' = input.copies + Cardinality(Sprays \cap Visited')
        <3>1. IsFiniteSet(Sprays \cap Visited) /\ Cardinality(Sprays \cap Visited) \in Nat
            BY FinitePeers DEF LoopInv, OrderInv, Call, Visited
        <3>2. copies = input.copies + Cardinality(Sprays \cap Visited) /\ input.copies \in Nat
            BY LoopAssumption DEF LoopInv, CountInv, OrderInv, Call
        <3>3. CASE p \in Sprays
            <4>1. Sprays \cap Visited' = (Sprays \cap Visited) \cup {p}
                BY <1>2, <3>3
            <4>2. Cardinality(Sprays \cap Visited') = Cardinality(Sprays \cap Visited) + 1
                BY <1>2, <3>1, <4>1, FS_AddElement
            <4>3. copies' = copies + 1
                BY <1>1, <1>6, <3>3 DEF CreatesCopy
            <4> QED BY <3>1, <3>2, <4>2, <4>3
        <3>4. CASE p \notin Sprays
            <4>1. Sprays \cap Visited' = Sprays \cap Visited
                BY <1>2, <3>4
            <4>2. copies' = copies
                BY <1>1, <1>6, <3>4 DEF CreatesCopy
            <4> QED BY <3>2, <4>1, <4>2
        <3> QED BY <3>3, <3>4
    <2>2. ASSUME copies' < input.L
          PROVE  FreshOnes \cap Visited' \subseteq Sprays
        <3>1. copies < input.L
            BY <1>1, <1>4, <1>5, <2>2
        <3> QED BY <1>2, <1>4, <3>1 DEF LoopInv, CountInv
    <2> QED BY <1>1, <1>2, <2>1, <2>2 DEF CountInv
<1>9. SentInv'
    <2>1. /\ DOMAIN wire = Visited \cap (Sprays \cup Handoffs \cup {input.dst})
          /\ \A q \in DOMAIN wire : wire[q] = CopiesOnWire(q, input.copies, Sprays)
          /\ ledger = input.ledger \cup DOMAIN wire
        BY DEF LoopInv, SentInv
    <2>2. CASE p \in Sprays \cup Handoffs \cup {input.dst}
        <3>1. /\ wire' = [q \in DOMAIN wire \cup {p} |-> IF q = p THEN count ELSE wire[q]]
              /\ ledger' = ledger \cup {p}
            BY <1>1, <1>6, <2>2 DEF CreatesCopy, MovesCopy
        <3>2. p \notin DOMAIN wire
            BY <1>2, <2>1
        <3>3. /\ DOMAIN wire' = DOMAIN wire \cup {p} /\ wire'[p] = count
              /\ \A q \in DOMAIN wire : wire'[q] = wire[q]
            BY <3>1, <3>2
        <3>4. DOMAIN wire' = Visited' \cap (Sprays \cup Handoffs \cup {input.dst})
            BY <1>2, <2>1, <2>2, <3>3
        <3>5. \A q \in DOMAIN wire' : wire'[q] = CopiesOnWire(q, input.copies, Sprays)
            BY <1>7, <2>1, <3>3
        <3> QED BY <1>1, <1>2, <2>1, <3>1, <3>3, <3>4, <3>5 DEF SentInv
    <2>3. CASE p \notin Sprays \cup Handoffs \cup {input.dst}
        <3>1. UNCHANGED <<ledger, wire>>
            BY <1>1, <1>6, <2>3 DEF CreatesCopy, MovesCopy
        <3> QED BY <1>1, <1>2, <2>1, <2>3, <3>1 DEF SentInv
    <2> QED BY <2>2, <2>3
<1> QED BY <1>3, <1>8, <1>9 DEF LoopInv

(***************************************************************************)
(* The loop of routeToPeers computes the closed form: for every set of     *)
(* candidates, ledger, count and budget it sends to the same peers, with   *)
(* the same counts on the wire, as the one step Mesh takes.                *)
(***************************************************************************)
THEOREM LoopComputesClosedForm == LoopSpec => []ClosedForm
<1>1. LoopInv /\ [LoopNext]_loopVars => LoopInv'
    <2> SUFFICES ASSUME LoopInv, [LoopNext]_loopVars
                 PROVE  LoopInv'
        OBVIOUS
    <2>1. CASE LoopNext
        BY <2>1, VisitKeeps DEF LoopNext
    <2>2. CASE UNCHANGED loopVars
        BY <2>2 DEF loopVars, LoopInv, OrderInv, SentInv, CountInv, Visited, FreshOnes, Sprays, Handoffs
    <2> QED BY <2>1, <2>2
<1>2. LoopInv => ClosedForm
    <2> SUFFICES ASSUME LoopInv, todo = {}
                 PROVE  /\ DOMAIN wire = Sprays \cup Handoffs \cup (input.candidates \cap {input.dst})
                        /\ \A p \in DOMAIN wire : wire[p] = CopiesOnWire(p, input.copies, Sprays)
                        /\ ledger = input.ledger \cup DOMAIN wire
                        /\ copies = input.copies + Cardinality(Sprays)
        BY DEF ClosedForm
    <2>1. Visited = input.candidates
        BY DEF Visited
    <2>2. Sprays \subseteq input.candidates /\ Handoffs \subseteq input.candidates
        BY DEF Sprays, SprayTargets, Handoffs, Fresh
    <2>3. Sprays \cap Visited = Sprays
        BY <2>1, <2>2
    <2> QED BY <2>1, <2>2, <2>3 DEF LoopInv, SentInv, CountInv
<1> QED BY <1>1, <1>2, LoopInvInit, PTL DEF LoopSpec

-----------------------------------------------------------------------------
(***************************************************************************)
(* The simulator.  Queues: a queue holds at most one copy of a message.    *)
(***************************************************************************)
Entry == [msg : Message, hops : Nat]

Unique(s) == \A i, j \in 1 .. Len(s) : s[i].msg = s[j].msg => i = j

IsQueue(s) == s \in Seq(Entry) /\ Unique(s)

\* give: a message that is not in the queue goes to its end.
LEMMA QueueAppend ==
    ASSUME NEW s, IsQueue(s), NEW e \in Entry, \A x \in Range(s) : x.msg # e.msg
    PROVE  IsQueue(Append(s, e)) /\ Range(Append(s, e)) = Range(s) \cup {e}
<1> DEFINE t == Append(s, e)
<1>1. s \in Seq(Entry) /\ Len(s) \in Nat /\ DOMAIN s = 1 .. Len(s)
    BY DEF IsQueue
<1>2. /\ t \in Seq(Entry) /\ Len(t) = Len(s) + 1 /\ DOMAIN t = 1 .. Len(t)
      /\ t[Len(s) + 1] = e /\ \A i \in 1 .. Len(s) : t[i] = s[i]
    BY <1>1
<1> HIDE DEF t
<1>3. \A i \in 1 .. Len(t) : i \in 1 .. Len(s) \/ i = Len(s) + 1
    BY <1>1, <1>2
<1>4. \A i \in 1 .. Len(s) : s[i] \in Range(s)
    BY <1>1 DEF Range
<1>5. Unique(t)
    BY <1>2, <1>3, <1>4 DEF Unique, IsQueue
<1>6. Range(t) = Range(s) \cup {e}
    <2>1. Range(t) = {t[i] : i \in 1 .. Len(t)} /\ Range(s) = {s[i] : i \in 1 .. Len(s)}
        BY <1>1, <1>2 DEF Range
    <2>2. 1 .. Len(s) \subseteq 1 .. Len(t) /\ Len(s) + 1 \in 1 .. Len(t)
        BY <1>1, <1>2
    <2> QED BY <1>2, <1>3, <2>1, <2>2
<1> QED BY <1>2, <1>5, <1>6 DEF IsQueue, t

\* dropFrom: the copy of the message goes, the others stay.
LEMMA QueueWithout ==
    ASSUME NEW s, IsQueue(s), NEW e \in Range(s)
    PROVE  IsQueue(Without(s, e.msg)) /\ Range(Without(s, e.msg)) = Range(s) \ {e}
<1>1. s \in Seq(Entry) /\ Len(s) \in Nat /\ DOMAIN s = 1 .. Len(s) /\ Unique(s)
    BY DEF IsQueue
<1>2. PICK i \in 1 .. Len(s) : s[i] = e
    BY <1>1 DEF Range
<1>3. \A j \in 1 .. Len(s) : s[j].msg = e.msg => j = i
    BY <1>1, <1>2 DEF Unique
<1>4. (CHOOSE k \in DOMAIN s : s[k].msg = e.msg /\ \A j \in 1 .. k - 1 : s[j].msg # e.msg) = i
    <2>1. i \in DOMAIN s /\ s[i].msg = e.msg /\ \A j \in 1 .. i - 1 : s[j].msg # e.msg
        <3>1. \A j \in 1 .. i - 1 : j \in 1 .. Len(s) /\ j # i
            BY <1>1
        <3> QED BY <1>1, <1>2, <1>3, <3>1
    <2>2. \A k \in DOMAIN s : s[k].msg = e.msg => k = i
        BY <1>1, <1>3
    <2> QED BY <2>1, <2>2
<1> DEFINE t == Without(s, e.msg)
<1>5. t = SubSeq(s, 1, i - 1) \o SubSeq(s, i + 1, Len(s))
    BY <1>1, <1>2, <1>4 DEF Without, RemoveAt
<1>6. /\ t \in Seq(Entry) /\ Len(t) = Len(s) - 1 /\ DOMAIN t = 1 .. Len(t)
      /\ \A k \in 1 .. Len(s) - 1 : t[k] = IF k < i THEN s[k] ELSE s[k + 1]
    <2>1. /\ SubSeq(s, 1, i - 1) \in Seq(Entry) /\ Len(SubSeq(s, 1, i - 1)) = i - 1
          /\ \A k \in 1 .. i - 1 : SubSeq(s, 1, i - 1)[k] = s[k]
        BY <1>1
    <2>2. /\ SubSeq(s, i + 1, Len(s)) \in Seq(Entry) /\ Len(SubSeq(s, i + 1, Len(s))) = Len(s) - i
          /\ \A k \in 1 .. Len(s) - i : SubSeq(s, i + 1, Len(s))[k] = s[i + k]
        <3>1. i + 1 \in Int /\ Len(s) \in Int /\ \A k \in i + 1 .. Len(s) : s[k] \in Entry
            BY <1>1
        <3>2. /\ SubSeq(s, i + 1, Len(s)) \in Seq(Entry)
              /\ Len(SubSeq(s, i + 1, Len(s))) =
                    IF i + 1 <= Len(s) THEN Len(s) - (i + 1) + 1 ELSE 0
              /\ \A k \in 1 .. Len(s) - (i + 1) + 1 :
                    SubSeq(s, i + 1, Len(s))[k] = s[(i + 1) + k - 1]
            BY <3>1, SubSeqProperties
        <3>3. Len(s) - (i + 1) + 1 = Len(s) - i /\ \A k \in Nat : (i + 1) + k - 1 = i + k
            BY <1>1
        <3>4. Len(SubSeq(s, i + 1, Len(s))) = Len(s) - i
            <4> DEFINE n == Len(s)
                       w == Len(SubSeq(s, i + 1, Len(s)))
            <4>1. n \in Nat /\ i \in 1 .. n /\ w = IF i + 1 <= n THEN n - (i + 1) + 1 ELSE 0
                BY <1>1, <3>2
            <4> HIDE DEF n, w
            <4>2. w = n - i
                BY <4>1
            <4> QED BY <4>2 DEF n, w
        <3>5. ASSUME NEW k \in 1 .. Len(s) - i
              PROVE  SubSeq(s, i + 1, Len(s))[k] = s[i + k]
            BY <3>2, <3>3
        <3> QED BY <3>2, <3>4, <3>5
    <2> DEFINE u == SubSeq(s, 1, i - 1)
               v == SubSeq(s, i + 1, Len(s))
    <2> HIDE DEF t, u, v
    <2>3. t = u \o v /\ u \in Seq(Entry) /\ v \in Seq(Entry) /\ Len(u) = i - 1 /\ Len(v) = Len(s) - i
              /\ (\A k \in 1 .. i - 1 : u[k] = s[k]) /\ \A k \in 1 .. Len(s) - i : v[k] = s[i + k]
        BY <1>5, <2>1, <2>2 DEF u, v
    <2>4. t \in Seq(Entry) /\ Len(t) = Len(u) + Len(v)
              /\ \A k \in 1 .. Len(u) + Len(v) : t[k] = IF k <= Len(u) THEN u[k] ELSE v[k - Len(u)]
        BY <2>3, ConcatProperties
    <2>5. \A k \in 1 .. Len(s) - 1 : t[k] = IF k < i THEN s[k] ELSE s[k + 1]
        <3> SUFFICES ASSUME NEW k \in 1 .. Len(s) - 1
                     PROVE  t[k] = IF k < i THEN s[k] ELSE s[k + 1]
            OBVIOUS
        <3>1. CASE k < i
            BY <1>1, <2>3, <2>4, <3>1
        <3>2. CASE ~(k < i)
            <4>1. k - (i - 1) \in 1 .. Len(s) - i /\ i + (k - (i - 1)) = k + 1
                BY <1>1, <3>2
            <4> QED BY <1>1, <2>3, <2>4, <3>2, <4>1
        <3> QED BY <3>1, <3>2
    <2> QED BY <1>1, <2>3, <2>4, <2>5
<1> HIDE DEF t
<1>7. Unique(t)
    <2> SUFFICES ASSUME NEW k \in 1 .. Len(t), NEW l \in 1 .. Len(t), t[k].msg = t[l].msg
                 PROVE  k = l
        BY DEF Unique
    <2> DEFINE At(j) == IF j < i THEN j ELSE j + 1
    <2>1. \A j \in 1 .. Len(t) : At(j) \in 1 .. Len(s) /\ t[j] = s[At(j)]
        <3> TAKE j \in 1 .. Len(t)
        <3>1. CASE j < i
            BY <1>1, <1>6, <3>1
        <3>2. CASE ~(j < i)
            BY <1>1, <1>6, <3>2
        <3> QED BY <3>1, <3>2
    <2>2. At(k) = At(l)
        BY <1>1, <2>1 DEF Unique
    <2> QED BY <2>2
<1>8. Range(t) = Range(s) \ {e}
    <2>1. Range(t) = {t[k] : k \in 1 .. Len(t)} /\ Range(s) = {s[k] : k \in 1 .. Len(s)}
        BY <1>1, <1>6 DEF Range
    <2>2. ASSUME NEW k \in 1 .. Len(t)
          PROVE  t[k] \in Range(s) /\ t[k] # e
        <3>1. CASE k < i
            BY <1>1, <1>2, <1>3, <1>6, <2>1, <3>1
        <3>2. CASE ~(k < i)
            <4>1. k + 1 \in 1 .. Len(s) /\ k + 1 # i /\ t[k] = s[k + 1]
                BY <1>1, <1>6, <3>2
            <4> QED BY <1>2, <1>3, <2>1, <4>1
        <3> QED BY <3>1, <3>2
    <2>3. ASSUME NEW j \in 1 .. Len(s), s[j] # e
          PROVE  s[j] \in Range(t)
        <3>1. j # i
            BY <1>2, <2>3
        <3>2. CASE j < i
            <4>1. j \in 1 .. Len(t) /\ t[j] = s[j]
                BY <1>1, <1>6, <3>2
            <4> QED BY <2>1, <4>1
        <3>3. CASE ~(j < i)
            <4>1. j - 1 \in 1 .. Len(t) /\ ~(j - 1 < i) /\ (j - 1) + 1 = j
                BY <1>1, <1>6, <3>1, <3>3
            <4>2. t[j - 1] = s[j]
                BY <1>6, <4>1
            <4> QED BY <2>1, <4>1, <4>2
        <3> QED BY <3>2, <3>3
    <2> QED BY <2>1, <2>2, <2>3
<1> QED BY <1>6, <1>7, <1>8 DEF IsQueue, t

(***************************************************************************)
(* The ranks of a finite set of numbers are 1, 2, ... up to its size, each *)
(* once: an injection between finite sets of one size is a bijection.      *)
(***************************************************************************)
LEMMA RankBijective ==
    ASSUME NEW S \in SUBSET Nat, IsFiniteSet(S)
    PROVE  /\ Cardinality(S) \in Nat
           /\ \A i \in S : Rank(i, S) \in 1 .. Cardinality(S)
           /\ \A i, j \in S : Rank(i, S) = Rank(j, S) => i = j
           /\ \A k \in 1 .. Cardinality(S) : \E i \in S : Rank(i, S) = k
<1> DEFINE n == Cardinality(S)
           Below(i) == {q \in S : q <= i}
<1>1. n \in Nat
    BY FS_CardinalityType
<1>2. ASSUME NEW i \in S
      PROVE  /\ IsFiniteSet(Below(i)) /\ Cardinality(Below(i)) \in 1 .. n
             /\ Rank(i, S) = Cardinality(Below(i))
    <2>1. Below(i) \in SUBSET S /\ i \in Below(i)
        OBVIOUS
    <2>2. IsFiniteSet(Below(i)) /\ Cardinality(Below(i)) <= n /\ Cardinality(Below(i)) \in Nat
        BY <2>1, FS_Subset, FS_CardinalityType
    <2>3. Cardinality(Below(i)) # 0
        BY <2>1, <2>2, FS_EmptySet
    <2> QED BY <1>1, <2>2, <2>3 DEF Rank
<1>3. ASSUME NEW i \in S, NEW j \in S, i < j
      PROVE  Rank(i, S) # Rank(j, S)
    <2>1. Below(i) \in SUBSET Below(j) /\ j \in Below(j) /\ j \notin Below(i)
        <3>1. i \in Nat /\ j \in Nat /\ \A q \in S : q \in Nat
            OBVIOUS
        <3>2. j <= j /\ ~(j <= i) /\ \A q \in S : q <= i => q <= j
            BY <1>3, <3>1
        <3> QED BY <3>2
    <2>2. Cardinality(Below(i)) # Cardinality(Below(j))
        BY <1>2, <2>1, FS_Subset
    <2> QED BY <1>2, <2>2
<1>4. \A i, j \in S : Rank(i, S) = Rank(j, S) => i = j
    BY <1>3
<1>5. \A i \in S : Rank(i, S) \in 1 .. n
    BY <1>2
<1>6. \A k \in 1 .. n : \E i \in S : Rank(i, S) = k
    <2> DEFINE r == [i \in S |-> Rank(i, S)]
    <2>1. r \in Injection(S, 1 .. n)
        BY <1>4, <1>5 DEF Injection, IsInjective
    <2>2. IsFiniteSet(1 .. n) /\ Cardinality(1 .. n) = n
        BY <1>1, FS_Interval
    <2>3. r \in Surjection(S, 1 .. n)
        BY <2>1, <2>2, FS_Injection
    <2> QED BY <2>3 DEF Surjection
<1> QED BY <1>1, <1>4, <1>5, <1>6

\* sweep: exactly the copies that are kept stay.
LEMMA QueueSwept ==
    ASSUME NEW s, IsQueue(s)
    PROVE  IsQueue(Swept(s)) /\ Range(Swept(s)) = {e \in Range(s) : Keeps(e.msg)}
<1>1. s \in Seq(Entry) /\ Len(s) \in Nat /\ DOMAIN s = 1 .. Len(s) /\ Unique(s)
    BY DEF IsQueue
<1> DEFINE K == Kept(s)
           n == Cardinality(K)
           At(k) == CHOOSE i \in K : Rank(i, K) = k
           t == Swept(s)
<1>2. K = {i \in 1 .. Len(s) : Keeps(s[i].msg)}
    BY <1>1 DEF Kept
<1>3. K \in SUBSET Nat /\ IsFiniteSet(K)
    <2>1. K \in SUBSET (1 .. Len(s)) /\ IsFiniteSet(1 .. Len(s))
        BY <1>1, <1>2, FS_Interval
    <2> QED BY <1>1, <2>1, FS_Subset
<1>4. t = [k \in 1 .. n |-> s[At(k)]]
    BY DEF Swept
<1> HIDE DEF K, t
<1>5. /\ n \in Nat
      /\ \A i \in K : Rank(i, K) \in 1 .. n
      /\ \A i, j \in K : Rank(i, K) = Rank(j, K) => i = j
      /\ \A k \in 1 .. n : \E i \in K : Rank(i, K) = k
    BY <1>3, RankBijective
<1>6. \A k \in 1 .. n : At(k) \in K /\ Rank(At(k), K) = k
    BY <1>5
<1>7. \A i \in K : At(Rank(i, K)) = i
    BY <1>5, <1>6
<1> HIDE DEF At, n
<1>8. \A k \in 1 .. n : At(k) \in 1 .. Len(s) /\ Keeps(s[At(k)].msg) /\ s[At(k)] \in Entry
    <2> SUFFICES ASSUME NEW k \in 1 .. n
                 PROVE  At(k) \in 1 .. Len(s) /\ Keeps(s[At(k)].msg) /\ s[At(k)] \in Entry
        OBVIOUS
    <2>1. At(k) \in K
        BY <1>6
    <2>2. At(k) \in 1 .. Len(s) /\ Keeps(s[At(k)].msg)
        BY <1>2, <2>1, Zenon
    <2>3. s[At(k)] \in Entry
        BY <1>1, <2>2
    <2> QED BY <2>2, <2>3
<1>9. t \in Seq(Entry) /\ Len(t) = n /\ DOMAIN t = 1 .. n /\ \A k \in 1 .. n : t[k] = s[At(k)]
    BY <1>4, <1>5, <1>8
<1>10. Unique(t)
    <2> SUFFICES ASSUME NEW k \in 1 .. n, NEW l \in 1 .. n, t[k].msg = t[l].msg
                 PROVE  k = l
        BY <1>9 DEF Unique
    <2>1. At(k) = At(l)
        BY <1>1, <1>8, <1>9 DEF Unique
    <2> QED BY <1>6, <2>1
<1>11. Range(t) = {e \in Range(s) : Keeps(e.msg)}
    <2>1. Range(t) = {t[k] : k \in 1 .. n} /\ Range(s) = {s[i] : i \in 1 .. Len(s)}
        BY <1>1, <1>9 DEF Range
    <2>2. ASSUME NEW i \in 1 .. Len(s), Keeps(s[i].msg)
          PROVE  s[i] \in Range(t)
        <3>1. i \in K
            BY <1>2, <2>2, Zenon
        <3>2. Rank(i, K) \in 1 .. n /\ t[Rank(i, K)] = s[i]
            BY <1>5, <1>7, <1>9, <3>1
        <3> QED BY <2>1, <3>2
    <2>3. ASSUME NEW k \in 1 .. n
          PROVE  t[k] \in Range(s) /\ Keeps(t[k].msg)
        BY <1>8, <1>9, <2>1, Zenon
    <2> QED BY <2>1, <2>2, <2>3, Zenon
<1> QED BY <1>9, <1>10, <1>11 DEF IsQueue, t

\* An initial segment of the numbers is as large as its end.
LEMMA SegmentSize ==
    ASSUME NEW n \in Nat
    PROVE  IsFiniteSet(1 .. n) /\ Cardinality(1 .. n) = n
BY FS_Interval

\* As many messages as entries.
LEMMA QueueCount ==
    ASSUME NEW s, IsQueue(s)
    PROVE  Cardinality({e.msg : e \in Range(s)}) = Len(s)
<1>1. s \in Seq(Entry) /\ Len(s) \in Nat /\ DOMAIN s = 1 .. Len(s) /\ Unique(s)
    BY DEF IsQueue
<1> DEFINE M == {e.msg : e \in Range(s)}
           f == [i \in 1 .. Len(s) |-> s[i].msg]
<1>2. M = {s[i].msg : i \in 1 .. Len(s)}
    BY <1>1 DEF Range
<1> HIDE DEF M
<1>3. f \in Surjection(1 .. Len(s), M) /\ f \in Injection(1 .. Len(s), M)
    BY <1>1, <1>2 DEF Surjection, Injection, IsInjective, Unique
<1>4. IsFiniteSet(1 .. Len(s)) /\ Cardinality(1 .. Len(s)) = Len(s)
    BY <1>1, SegmentSize
<1> HIDE DEF f
<1>5. Cardinality(M) = Cardinality(1 .. Len(s))
    BY <1>3, <1>4, FS_Surjection
<1> QED BY <1>4, <1>5 DEF M

\* A queue has one entry for a message.
LEMMA QueueSame ==
    ASSUME NEW s, IsQueue(s), NEW x \in Range(s), NEW y \in Range(s), x.msg = y.msg
    PROVE  x = y
BY DEF IsQueue, Unique, Range

\* The elements of a queue are entries.
LEMMA QueueEntry == ASSUME NEW s, IsQueue(s), NEW x \in Range(s) PROVE x \in Entry
BY DEF IsQueue, Range

-----------------------------------------------------------------------------
(***************************************************************************)
(* The inductive invariant of the simulator.                               *)
(***************************************************************************)
Offer == [from : Node, to : Node, entry : Entry]

MessageState == [src : 0 .. Nodes, dst : 0 .. Nodes, created : Nat, copies : Nat, deliveredAt : Nat]

SimType ==
    /\ L \in Nat /\ tick \in Nat /\ injected \in 0 .. Messages
    /\ states \in [Message -> MessageState]
    /\ buf \in [Node -> Seq(Entry)] /\ has \in [Node -> SUBSET (1 .. injected)]
    /\ delivered \in [Message -> [latency : Int, hops : Int]]
    /\ \A m \in Message : m > injected => delivered[m] = NotDelivered
    /\ atZero \subseteq 1 .. injected
    /\ offers \in Seq(Offer)

\* The presence map says what is in the queue, and no message is in it twice.
QueueInv ==
    \A n \in Node : IsQueue(buf[n]) /\ has[n] = {e.msg : e \in Range(buf[n])}

\* A copy that is still to be offered has not left the queue it was read
\* from, and is offered once.
OfferInv ==
    /\ \A k \in 1 .. Len(offers) :
          /\ offers[k].from # offers[k].to
          /\ offers[k].entry \in Range(buf[offers[k].from])
    /\ \A k, l \in 1 .. Len(offers) :
          offers[k].from = offers[l].from /\ offers[k].entry.msg = offers[l].entry.msg => k = l

\* What holds of a message after its injection: the destination never holds
\* a copy, and the shared state counts the copies, with or without a record
\* of the delivery.
MsgOK(m) ==
    /\ states[m].copies >= 1 /\ states[m].created <= tick
    /\ states[m].dst \notin Holders(m)
    /\ Cardinality(Holders(m)) <= states[m].copies
    /\ L > 0 => states[m].copies <= L
    /\ m \notin atZero =>
          /\ Cardinality(Holders(m)) = IF states[m].deliveredAt # 0 THEN states[m].copies - 1
                                       ELSE IF tick - states[m].created <= Lifetime
                                            THEN states[m].copies ELSE 0
          /\ IF states[m].deliveredAt = 0 THEN delivered[m] = NotDelivered
             ELSE /\ delivered[m].latency = states[m].deliveredAt - states[m].created
                  /\ delivered[m].latency \in 0 .. Lifetime

MsgInv == \A m \in 1 .. injected : MsgOK(m)

SimInv == SimType /\ QueueInv /\ OfferInv /\ MsgInv /\ HopsNeedCopies

USE DEF contactVars

-----------------------------------------------------------------------------
\* What a function is after two of its values were replaced.
LEMMA TwoUpdates ==
    ASSUME NEW S, NEW T, NEW f \in [S -> T], NEW g, NEW a \in S, NEW b \in S, a # b,
           NEW x \in T, NEW y \in T, g = [f EXCEPT ![b] = x, ![a] = y]
    PROVE  /\ g \in [S -> T] /\ g[b] = x /\ g[a] = y
           /\ \A n \in S : n # a /\ n # b => g[n] = f[n]
OBVIOUS

\* What a function is after one of its values was replaced.
LEMMA OneUpdate ==
    ASSUME NEW S, NEW T, NEW f \in [S -> T], NEW g, NEW b \in S, NEW x \in T,
           g = [f EXCEPT ![b] = x]
    PROVE  g \in [S -> T] /\ g[b] = x /\ \A n \in S : n # b => g[n] = f[n]
OBVIOUS

\* The messages of a queue that got one entry more.
LEMMA OneMore ==
    ASSUME NEW R, NEW x
    PROVE  {e.msg : e \in R \cup {x}} = {e.msg : e \in R} \cup {x.msg}
OBVIOUS

\* Counting a copy leaves a message state.
LEMMA CopiesCounted ==
    ASSUME NEW s \in MessageState, NEW c \in Nat
    PROVE  [s EXCEPT !.copies = c] \in MessageState
BY DEF MessageState

\* The nodes that hold a copy of a message can be counted.
LEMMA HoldersFinite ==
    ASSUME NEW m
    PROVE  IsFiniteSet(Holders(m)) /\ Cardinality(Holders(m)) \in Nat
<1>1. IsFiniteSet(Node) /\ Holders(m) \in SUBSET Node
    BY FS_Interval, ConfigAssumption DEF Node, Holders
<1> QED BY <1>1, FS_Subset, FS_CardinalityType

\* SimInv holds at the start.
LEMMA SimInvInit == Init => SimInv
<1> SUFFICES ASSUME Init
             PROVE  SimInv
    OBVIOUS
<1>1. Messages \in Nat /\ Nodes \in Nat /\ Forwarders \subseteq Nat
    BY ConfigAssumption
<1>2. 1 .. injected = {} /\ injected \in 0 .. Messages
    BY <1>1 DEF Init
<1>3. <<>> \in Seq(Entry) /\ <<>> \in Seq(Offer) /\ Len(<<>>) = 0 /\ Range(<<>>) = {}
    BY DEF Range
<1>4. NoMessage \in MessageState
    BY <1>1 DEF NoMessage, MessageState
<1>5. NotDelivered \in [latency : Int, hops : Int]
    BY DEF NotDelivered
<1>6. /\ states \in [Message -> MessageState] /\ delivered \in [Message -> [latency : Int, hops : Int]]
      /\ \A m \in Message : delivered[m] = NotDelivered
    BY <1>4, <1>5 DEF Init
<1>7. \A n \in Node : buf[n] = <<>> /\ has[n] = {}
    BY DEF Init
<1>8. buf \in [Node -> Seq(Entry)] /\ has \in [Node -> SUBSET (1 .. injected)]
    BY <1>3 DEF Init
<1>9. SimType
    BY <1>1, <1>2, <1>3, <1>6, <1>8 DEF Init, SimType
<1>10. QueueInv
    <2>1. IsQueue(<<>>)
        BY <1>3 DEF IsQueue, Unique
    <2>2. {e.msg : e \in Range(<<>>)} = {}
        BY <1>3
    <2> QED BY <1>7, <2>1, <2>2 DEF QueueInv
<1>11. OfferInv /\ MsgInv
    BY <1>2, <1>3 DEF Init, OfferInv, MsgInv
<1>12. HopsNeedCopies
    BY <1>3, <1>7 DEF HopsNeedCopies
<1> QED BY <1>9, <1>10, <1>11, <1>12 DEF SimInv

\* A message that a step leaves alone.
LEMMA MsgSame ==
    ASSUME NEW m, MsgOK(m), Holders(m)' = Holders(m), UNCHANGED <<L, tick>>,
           states'[m] = states[m], delivered'[m] = delivered[m], m \in atZero => m \in atZero'
    PROVE  MsgOK(m)'
BY DEF MsgOK

\* Below the budget, a peer without a copy is given one.
LEMMA SpraysBelow ==
    ASSUME NEW dst, NEW peer, NEW c \in Nat, NEW l \in Nat, NEW myP, NEW peerP, NEW holds,
           peer # dst, ~holds, c < l
    PROVE  Decide(dst, peer, holds, c, l, myP, peerP) = "spray"
BY DEF Decide

(***************************************************************************)
(* What Decide answers about an offer.                                     *)
(***************************************************************************)
LEMMA VerdictFacts ==
    ASSUME NEW o, states[o.entry.msg].copies \in Nat, L \in Nat
    PROVE  LET st == states[o.entry.msg]
           IN  /\ Verdict(o) \in {"deliver", "dup", "spray", "handoff", "keep"}
               /\ Verdict(o) \in {"spray", "handoff"} =>
                     o.to # st.dst /\ o.entry.msg \notin has[o.to]
               /\ Verdict(o) = "spray" => L = 0 \/ st.copies < L
               /\ Verdict(o) = "handoff" => L # 0 /\ ~(st.copies < L)
<1> DEFINE st == states[o.entry.msg]
<1>1. CASE L = 0
    BY <1>1 DEF Verdict, EpidemicDecide, HasCopy
<1>2. CASE L # 0
    <2>1. Verdict(o) = Decide(st.dst, o.to, HasCopy(o.to, o.entry.msg), st.copies, L,
                              stats[o.from][st.dst], stats[o.to][st.dst])
        BY <1>2 DEF Verdict
    <2>2. CASE o.to = st.dst
        BY <1>2, <2>1, <2>2 DEF Decide
    <2>3. CASE o.to # st.dst /\ HasCopy(o.to, o.entry.msg)
        BY <1>2, <2>1, <2>3 DEF Decide
    <2>4. CASE o.to # st.dst /\ ~HasCopy(o.to, o.entry.msg) /\ st.copies < L
        <3>1. Verdict(o) = "spray"
            <4>1. st.copies \in Nat
                OBVIOUS
            <4> HIDE DEF st
            <4> QED BY <2>1, <2>4, <4>1, SpraysBelow
        <3> QED BY <2>4, <3>1 DEF HasCopy
    <2>5. CASE o.to # st.dst /\ ~HasCopy(o.to, o.entry.msg) /\ ~(st.copies < L)
        BY <1>2, <2>1, <2>5 DEF Decide, HasCopy
    <2> QED BY <2>2, <2>3, <2>4, <2>5
<1> QED BY <1>1, <1>2

(***************************************************************************)
(* What an offered copy is: an entry of the queue of the node that offers  *)
(* it; the offers that remain are of other messages or other nodes.        *)
(***************************************************************************)
LEMMA OfferFacts ==
    ASSUME SimInv, offers # <<>>, NEW o, o = Head(offers)
    PROVE  /\ o \in Offer /\ o.from \in Node /\ o.to \in Node /\ o.from # o.to
           /\ o.entry \in Entry /\ o.entry \in Range(buf[o.from])
           /\ o.entry.msg \in Message /\ o.entry.msg \in 1 .. injected
           /\ o.entry.msg \in has[o.from] /\ o.from \in Holders(o.entry.msg)
           /\ Cardinality(Holders(o.entry.msg)) >= 1
           /\ MsgOK(o.entry.msg)
<1>1. offers \in Seq(Offer) /\ 1 \in 1 .. Len(offers) /\ o = offers[1] /\ o \in Offer
    BY DEF SimInv, SimType
<1>2. /\ o.from \in Node /\ o.to \in Node /\ o.from # o.to
      /\ o.entry \in Entry /\ o.entry \in Range(buf[o.from])
    BY <1>1 DEF SimInv, OfferInv, Offer
<1>3. o.entry.msg \in has[o.from]
    BY <1>2 DEF SimInv, QueueInv
<1>4. o.entry.msg \in 1 .. injected /\ o.from \in Holders(o.entry.msg) /\ o.entry.msg \in Message
    BY <1>2, <1>3 DEF SimInv, SimType, Holders, Entry
<1>5. Cardinality(Holders(o.entry.msg)) # 0 /\ Cardinality(Holders(o.entry.msg)) \in Nat
    BY <1>4, HoldersFinite, FS_EmptySet
<1>6. MsgOK(o.entry.msg)
    BY <1>4 DEF SimInv, MsgInv
<1> QED BY <1>1, <1>2, <1>3, <1>4, <1>5, <1>6

\* A step of exchange that changes one message, and at most takes the copy
\* that is offered away from the node that offers it.
LEMMA ExchangeFrame ==
    ASSUME SimInv, offers # <<>>, offers' = Tail(offers), NEW o, o = Head(offers),
           UNCHANGED <<L, tick, injected>>,
           states' \in [Message -> MessageState], buf' \in [Node -> Seq(Entry)],
           has' \in [Node -> SUBSET (1 .. injected)],
           delivered' \in [Message -> [latency : Int, hops : Int]],
           QueueInv',
           \A n \in Node : \A x \in Range(buf[n]) :
               x \in Range(buf'[n]) \/ (n = o.from /\ x = o.entry),
           \A m \in Message : m # o.entry.msg =>
               Holders(m)' = Holders(m) /\ states'[m] = states[m] /\ delivered'[m] = delivered[m],
           atZero \subseteq atZero', atZero' \subseteq atZero \cup {o.entry.msg},
           MsgOK(o.entry.msg)', HopsNeedCopies'
    PROVE  SimInv'
<1>1. o.entry.msg \in 1 .. injected /\ injected \in 0 .. Messages /\ Messages \in Nat
    BY OfferFacts, ConfigAssumption DEF SimInv, SimType
<1>2. /\ offers \in Seq(Offer) /\ offers' \in Seq(Offer) /\ Len(offers) \in Nat
      /\ Len(offers') = Len(offers) - 1 /\ o = offers[1]
      /\ \A k \in 1 .. Len(offers') : k + 1 \in 1 .. Len(offers) /\ offers'[k] = offers[k + 1]
    BY DEF SimInv, SimType
<1>3. SimType'
    <2>1. \A m \in Message : m > injected => delivered'[m] = NotDelivered
        BY <1>1 DEF SimInv, SimType
    <2>2. atZero' \subseteq 1 .. injected
        BY <1>1 DEF SimInv, SimType
    <2> QED BY <1>2, <2>1, <2>2 DEF SimInv, SimType
<1>4. OfferInv'
    <2>1. ASSUME NEW k \in 1 .. Len(offers')
          PROVE  /\ offers'[k].from # offers'[k].to
                 /\ offers'[k].entry \in Range(buf'[offers'[k].from])
        <3>1. k + 1 \in 1 .. Len(offers) /\ offers'[k] = offers[k + 1] /\ k + 1 # 1
                  /\ 1 \in 1 .. Len(offers)
            BY <1>2
        <3>2. /\ offers[k + 1].from # offers[k + 1].to
              /\ offers[k + 1].entry \in Range(buf[offers[k + 1].from])
            BY <3>1 DEF SimInv, OfferInv
        <3>3. offers[k + 1].from \in Node
            <4>1. offers[k + 1] \in Offer
                BY <1>2, <3>1, ElementOfSeq
            <4> QED BY <4>1 DEF Offer
        <3>4. ~(offers[k + 1].from = o.from /\ offers[k + 1].entry = o.entry)
            BY <1>2, <3>1 DEF SimInv, OfferInv
        <3> QED BY <3>1, <3>2, <3>3, <3>4
    <2>2. ASSUME NEW k \in 1 .. Len(offers'), NEW l \in 1 .. Len(offers'),
                 offers'[k].from = offers'[l].from, offers'[k].entry.msg = offers'[l].entry.msg
          PROVE  k = l
        <3>1. /\ k + 1 \in 1 .. Len(offers) /\ l + 1 \in 1 .. Len(offers)
              /\ offers[k + 1].from = offers[l + 1].from
              /\ offers[k + 1].entry.msg = offers[l + 1].entry.msg
            BY <1>2, <2>2
        <3>2. k + 1 = l + 1
            BY <3>1 DEF SimInv, OfferInv
        <3> QED BY <3>2
    <2> QED BY <2>1, <2>2 DEF OfferInv
<1>5. MsgInv'
    <2> SUFFICES ASSUME NEW m \in 1 .. injected
                 PROVE  MsgOK(m)'
        BY DEF MsgInv
    <2>1. m \in Message /\ MsgOK(m)
        BY <1>1 DEF SimInv, MsgInv, Message
    <2> QED BY <2>1, MsgSame
<1> QED BY <1>3, <1>4, <1>5 DEF SimInv

\* The offers of one contact, one after the other.
LEMMA SkipKeeps ==
    ASSUME SimInv, offers # <<>>, offers' = Tail(offers), NEW o, o = Head(offers),
           UNCHANGED <<L, tick, injected>>, Skip(o)
    PROVE  SimInv'
<1>1. UNCHANGED <<states, buf, has, delivered, atZero>>
    BY DEF Skip
<1>2. o.entry.msg \in Message /\ MsgOK(o.entry.msg)
    BY OfferFacts
<1>3. \A m : Holders(m)' = Holders(m)
    BY <1>1 DEF Holders
<1>4. MsgOK(o.entry.msg)'
    BY <1>1, <1>2, <1>3, MsgSame
<1>5. QueueInv' /\ HopsNeedCopies'
    BY <1>1 DEF SimInv, QueueInv, HopsNeedCopies
<1>6. /\ states' \in [Message -> MessageState] /\ buf' \in [Node -> Seq(Entry)]
      /\ has' \in [Node -> SUBSET (1 .. injected)]
      /\ delivered' \in [Message -> [latency : Int, hops : Int]]
    BY <1>1 DEF SimInv, SimType
<1> QED BY <1>1, <1>3, <1>4, <1>5, <1>6, ExchangeFrame

\* A delivery keeps SimInv.
LEMMA HandKeeps ==
    ASSUME SimInv, offers # <<>>, offers' = Tail(offers), NEW o, o = Head(offers),
           UNCHANGED <<L, tick, injected>>, Hand(o)
    PROVE  SimInv'
<1> DEFINE m0 == o.entry.msg
           a == o.from
           st == states[m0]
<1>1. /\ a \in Node /\ m0 \in Message /\ o.entry \in Entry /\ o.entry \in Range(buf[a])
      /\ a \in Holders(m0) /\ Cardinality(Holders(m0)) >= 1 /\ MsgOK(m0) /\ m0 \in has[a]
    BY OfferFacts
<1>2. SimType /\ QueueInv /\ HopsNeedCopies
    BY DEF SimInv
<1>3. st \in MessageState /\ st.created \in Nat /\ st.copies \in Nat /\ st.deliveredAt = 0
          /\ tick \in Nat /\ L \in Nat /\ Lifetime \in Nat
    BY <1>1, <1>2, ConfigAssumption DEF SimType, MessageState, Hand, Live
<1>4. /\ states' = [states EXCEPT ![m0].deliveredAt = tick]
      /\ delivered' = [delivered EXCEPT ![m0] =
            [latency |-> tick - st.created, hops |-> o.entry.hops]]
      /\ buf' = [buf EXCEPT ![a] = Without(buf[a], m0)]
      /\ has' = [has EXCEPT ![a] = has[a] \ {m0}]
      /\ atZero' = IF tick = 0 THEN atZero \cup {m0} ELSE atZero
    BY DEF Hand
<1>5. IsQueue(Without(buf[a], m0)) /\ Range(Without(buf[a], m0)) = Range(buf[a]) \ {o.entry}
    BY <1>1, <1>2, QueueWithout DEF QueueInv
<1>6. /\ buf' \in [Node -> Seq(Entry)] /\ buf'[a] = Without(buf[a], m0)
      /\ \A n \in Node : n # a => buf'[n] = buf[n]
      /\ has' \in [Node -> SUBSET (1 .. injected)] /\ has'[a] = has[a] \ {m0}
      /\ \A n \in Node : n # a => has'[n] = has[n]
    BY <1>1, <1>2, <1>4, <1>5 DEF SimType, IsQueue
<1>7. /\ states' \in [Message -> MessageState]
      /\ states'[m0].created = st.created /\ states'[m0].copies = st.copies
      /\ states'[m0].dst = st.dst /\ states'[m0].deliveredAt = tick
      /\ \A m \in Message : m # m0 => states'[m] = states[m]
    <2>1. [st EXCEPT !.deliveredAt = tick] \in MessageState
        BY <1>3 DEF MessageState
    <2>2. states' = [states EXCEPT ![m0] = [st EXCEPT !.deliveredAt = tick]]
        BY <1>4
    <2> QED BY <1>1, <1>2, <1>3, <2>1, <2>2 DEF SimType, MessageState
<1>8. /\ delivered' \in [Message -> [latency : Int, hops : Int]]
      /\ delivered'[m0].latency = tick - st.created
      /\ \A m \in Message : m # m0 => delivered'[m] = delivered[m]
    <2>1. [latency |-> tick - st.created, hops |-> o.entry.hops] \in [latency : Int, hops : Int]
        BY <1>1, <1>3 DEF Entry
    <2> QED BY <1>1, <1>2, <1>4, <2>1 DEF SimType
<1> HIDE DEF m0, a, st
<1>9. QueueInv'
    <2> SUFFICES ASSUME NEW n \in Node
                 PROVE  IsQueue(buf'[n]) /\ has'[n] = {e.msg : e \in Range(buf'[n])}
        BY DEF QueueInv
    <2>1. CASE n # a
        BY <1>2, <1>6, <2>1 DEF QueueInv
    <2>2. CASE n = a
        <3>1. has[a] = {e.msg : e \in Range(buf[a])} /\ IsQueue(buf[a])
            BY <1>1, <1>2 DEF QueueInv
        <3>2. \A x \in Range(buf[a]) : x.msg = m0 => x = o.entry
            BY <1>1, <3>1, QueueSame DEF m0
        <3>3. has[a] \ {m0} = {e.msg : e \in Range(buf[a]) \ {o.entry}}
            BY <3>1, <3>2 DEF m0
        <3> QED BY <1>5, <1>6, <2>2, <3>3
    <2> QED BY <2>1, <2>2
<1>10. \A n \in Node : \A x \in Range(buf'[n]) : x \in Range(buf[n])
    BY <1>5, <1>6
<1>11. HopsNeedCopies'
    <2> SUFFICES ASSUME NEW n \in Node, NEW e \in Range(buf'[n]), L = 0 \/ states'[e.msg].copies < L
                 PROVE  e.hops < states'[e.msg].copies
        BY DEF HopsNeedCopies
    <2>1. e \in Range(buf[n])
        BY <1>10
    <2>2. e.msg \in Message
        BY <1>2, <2>1, QueueEntry DEF QueueInv, Entry
    <2>3. states'[e.msg].copies = states[e.msg].copies
        BY <1>7, <2>2 DEF st
    <2> QED BY <1>2, <2>1, <2>3 DEF HopsNeedCopies
<1>12. Holders(m0)' = Holders(m0) \ {a} /\ \A m : m # m0 => Holders(m)' = Holders(m)
    BY <1>6 DEF Holders
<1>13. MsgOK(m0)'
    <2>1. Cardinality(Holders(m0)') = Cardinality(Holders(m0)) - 1 /\ Cardinality(Holders(m0)) \in Nat
        BY <1>1, <1>12, HoldersFinite, FS_RemoveElement
    <2>2. /\ st.copies >= 1 /\ st.created <= tick /\ st.dst \notin Holders(m0)
          /\ Cardinality(Holders(m0)) <= st.copies /\ (L > 0 => st.copies <= L)
          /\ m0 \notin atZero => Cardinality(Holders(m0)) =
                IF tick - st.created <= Lifetime THEN st.copies ELSE 0
        BY <1>1, <1>3 DEF MsgOK, st
    <2>3. m0 \notin atZero' => /\ tick # 0 /\ tick - st.created <= Lifetime
                               /\ Cardinality(Holders(m0)) = st.copies
        BY <1>1, <1>3, <1>4, <2>2
    <2>4. m0 \notin atZero' =>
              /\ Cardinality(Holders(m0)') = IF states'[m0].deliveredAt # 0 THEN states'[m0].copies - 1
                                       ELSE IF tick' - states'[m0].created <= Lifetime
                                            THEN states'[m0].copies ELSE 0
              /\ IF states'[m0].deliveredAt = 0 THEN delivered'[m0] = NotDelivered
                 ELSE /\ delivered'[m0].latency = states'[m0].deliveredAt - states'[m0].created
                      /\ delivered'[m0].latency \in 0 .. Lifetime
        <3> SUFFICES ASSUME m0 \notin atZero'
                     PROVE  /\ Cardinality(Holders(m0)') = st.copies - 1
                            /\ tick - st.created \in 0 .. Lifetime
            BY <1>7, <1>8, <2>3
        <3> QED BY <1>3, <2>1, <2>2, <2>3
    <2>5. states'[m0].dst \notin Holders(m0)'
        BY <1>7, <1>12, <2>2
    <2>6. Cardinality(Holders(m0)') <= states'[m0].copies
        BY <1>3, <1>7, <2>1, <2>2
    <2> QED BY <1>7, <2>2, <2>4, <2>5, <2>6 DEF MsgOK
<1>14. \A n \in Node : \A x \in Range(buf[n]) : x \in Range(buf'[n]) \/ (n = a /\ x = o.entry)
    BY <1>5, <1>6
<1>15. atZero \subseteq atZero' /\ atZero' \subseteq atZero \cup {m0}
    BY <1>4
<1> QED BY <1>6, <1>7, <1>8, <1>9, <1>11, <1>12, <1>13, <1>14, <1>15, ExchangeFrame DEF m0, a

\* A spray, one copy more and one holder more, keeps SimInv.
LEMMA SprayKeeps ==
    ASSUME SimInv, offers # <<>>, offers' = Tail(offers), NEW o, o = Head(offers),
           UNCHANGED <<L, tick, injected>>, Spray(o)
    PROVE  SimInv'
<1> DEFINE m0 == o.entry.msg
           b == o.to
           st == states[m0]
           e2 == [o.entry EXCEPT !.hops = o.entry.hops + 1]
<1>1. /\ b \in Node /\ m0 \in Message /\ o.entry \in Entry /\ o.entry \in Range(buf[o.from])
      /\ o.from \in Node /\ m0 \in 1 .. injected
      /\ Cardinality(Holders(m0)) >= 1 /\ MsgOK(m0)
    BY OfferFacts
<1>2. SimType /\ QueueInv /\ HopsNeedCopies
    BY DEF SimInv
<1>3. st \in MessageState /\ st.created \in Nat /\ st.copies \in Nat /\ st.deliveredAt = 0
          /\ tick \in Nat /\ L \in Nat /\ Lifetime \in Nat
    BY <1>1, <1>2, ConfigAssumption DEF SimType, MessageState, Spray, Live
<1>4. /\ states' = [states EXCEPT ![m0].copies = st.copies + 1]
      /\ buf' = [buf EXCEPT ![b] = Append(buf[b], e2)]
      /\ has' = [has EXCEPT ![b] = has[b] \cup {m0}]
      /\ UNCHANGED <<delivered, atZero>>
    BY DEF Spray, Give
<1>5. b # st.dst /\ m0 \notin has[b] /\ (L = 0 \/ st.copies < L)
    BY <1>3, VerdictFacts DEF Spray
<1>6. e2 \in Entry /\ e2.msg = m0 /\ e2.hops = o.entry.hops + 1 /\ o.entry.hops \in Nat
    BY <1>1 DEF Entry
<1> HIDE DEF e2
<1>7. /\ IsQueue(Append(buf[b], e2)) /\ Range(Append(buf[b], e2)) = Range(buf[b]) \cup {e2}
      /\ has[b] = {e.msg : e \in Range(buf[b])}
    <2>1. IsQueue(buf[b]) /\ has[b] = {e.msg : e \in Range(buf[b])}
        BY <1>1, <1>2 DEF QueueInv
    <2>2. \A x \in Range(buf[b]) : x.msg # e2.msg
        BY <1>5, <1>6, <2>1
    <2> QED BY <1>6, <2>1, <2>2, QueueAppend
<1>8. /\ buf' \in [Node -> Seq(Entry)] /\ buf'[b] = Append(buf[b], e2)
      /\ \A n \in Node : n # b => buf'[n] = buf[n]
      /\ has' \in [Node -> SUBSET (1 .. injected)] /\ has'[b] = has[b] \cup {m0}
      /\ \A n \in Node : n # b => has'[n] = has[n]
    <2>1. buf \in [Node -> Seq(Entry)] /\ has \in [Node -> SUBSET (1 .. injected)]
        BY <1>2 DEF SimType
    <2>2. Append(buf[b], e2) \in Seq(Entry)
        BY <1>7 DEF IsQueue
    <2>3. has[b] \cup {m0} \in SUBSET (1 .. injected)
        BY <1>1, <2>1
    <2> HIDE DEF m0, b
    <2>4. /\ buf' \in [Node -> Seq(Entry)] /\ buf'[b] = Append(buf[b], e2)
          /\ \A n \in Node : n # b => buf'[n] = buf[n]
        BY <1>1, <1>4, <2>1, <2>2, OneUpdate
    <2>5. /\ has' \in [Node -> SUBSET (1 .. injected)] /\ has'[b] = has[b] \cup {m0}
          /\ \A n \in Node : n # b => has'[n] = has[n]
        BY <1>1, <1>4, <2>1, <2>3, OneUpdate
    <2> QED BY <2>4, <2>5
<1>9. /\ states' \in [Message -> MessageState]
      /\ states'[m0].created = st.created /\ states'[m0].copies = st.copies + 1
      /\ states'[m0].dst = st.dst /\ states'[m0].deliveredAt = 0
      /\ \A m \in Message : m # m0 => states'[m] = states[m]
    <2>1. [st EXCEPT !.copies = st.copies + 1] \in MessageState
        <3>1. st \in MessageState /\ st.copies + 1 \in Nat
            BY <1>3
        <3> HIDE DEF st
        <3> QED BY <3>1, CopiesCounted
    <2>2. states' = [states EXCEPT ![m0] = [st EXCEPT !.copies = st.copies + 1]]
        BY <1>4
    <2> QED BY <1>1, <1>2, <1>3, <2>1, <2>2 DEF SimType, MessageState
<1> HIDE DEF m0, b, st
<1>10. QueueInv'
    <2> SUFFICES ASSUME NEW n \in Node
                 PROVE  IsQueue(buf'[n]) /\ has'[n] = {e.msg : e \in Range(buf'[n])}
        BY DEF QueueInv
    <2>1. CASE n # b
        BY <1>2, <1>8, <2>1 DEF QueueInv
    <2>2. CASE n = b
        <3>1. {e.msg : e \in Range(buf'[b])} = {e.msg : e \in Range(buf[b])} \cup {m0}
            BY <1>6, <1>7, <1>8, OneMore
        <3> QED BY <1>7, <1>8, <2>2, <3>1
    <2> QED BY <2>1, <2>2
<1>11. HopsNeedCopies'
    <2> SUFFICES ASSUME NEW n \in Node, NEW e \in Range(buf'[n]), L = 0 \/ states'[e.msg].copies < L
                 PROVE  e.hops < states'[e.msg].copies
        BY DEF HopsNeedCopies
    <2>1. e \in Range(buf[n]) \/ e = e2
        BY <1>7, <1>8
    <2>2. CASE e = e2
        <3>1. o.entry.hops < st.copies
            BY <1>1, <1>2, <1>5 DEF HopsNeedCopies, st, m0
        <3> QED BY <1>3, <1>6, <1>9, <2>2, <3>1
    <2>3. CASE e \in Range(buf[n]) /\ e.msg = m0
        <3>1. e.hops < st.copies
            BY <1>2, <1>5, <2>3 DEF HopsNeedCopies, st
        <3>2. e.hops \in Nat
            BY <1>2, <2>3, QueueEntry DEF QueueInv, Entry
        <3> QED BY <1>3, <1>9, <2>3, <3>1, <3>2
    <2>4. CASE e \in Range(buf[n]) /\ e.msg # m0
        <3>1. e.msg \in Message
            BY <1>2, <2>4, QueueEntry DEF QueueInv, Entry
        <3> QED BY <1>2, <1>9, <2>4, <3>1 DEF HopsNeedCopies
    <2> QED BY <2>1, <2>2, <2>3, <2>4
<1>12. Holders(m0)' = Holders(m0) \cup {b} /\ \A m : m # m0 => Holders(m)' = Holders(m)
    BY <1>1, <1>8 DEF Holders
<1>13. MsgOK(m0)'
    <2>1. /\ Cardinality(Holders(m0)') = Cardinality(Holders(m0)) + 1
          /\ Cardinality(Holders(m0)) \in Nat
        <3>1. b \notin Holders(m0)
            BY <1>5 DEF Holders
        <3>2. IsFiniteSet(Holders(m0)) /\ Cardinality(Holders(m0)) \in Nat
            BY HoldersFinite
        <3>3. Cardinality(Holders(m0) \cup {b}) = Cardinality(Holders(m0)) + 1
            BY <3>1, <3>2, FS_AddElement
        <3> QED BY <1>12, <3>2, <3>3
    <2>2. /\ st.copies >= 1 /\ st.created <= tick /\ st.dst \notin Holders(m0)
          /\ Cardinality(Holders(m0)) <= st.copies
          /\ m0 \notin atZero =>
                /\ Cardinality(Holders(m0)) =
                      IF tick - st.created <= Lifetime THEN st.copies ELSE 0
                /\ delivered[m0] = NotDelivered
        BY <1>1, <1>3 DEF MsgOK, st
    <2>3. m0 \notin atZero => /\ tick - st.created <= Lifetime
                              /\ Cardinality(Holders(m0)) = st.copies
        BY <1>1, <2>2
    <2>4. m0 \notin atZero' =>
              /\ Cardinality(Holders(m0)') = IF states'[m0].deliveredAt # 0 THEN states'[m0].copies - 1
                                       ELSE IF tick' - states'[m0].created <= Lifetime
                                            THEN states'[m0].copies ELSE 0
              /\ IF states'[m0].deliveredAt = 0 THEN delivered'[m0] = NotDelivered
                 ELSE /\ delivered'[m0].latency = states'[m0].deliveredAt - states'[m0].created
                      /\ delivered'[m0].latency \in 0 .. Lifetime
        BY <1>4, <1>9, <2>1, <2>2, <2>3
    <2>5. states'[m0].dst \notin Holders(m0)'
        BY <1>5, <1>9, <1>12, <2>2
    <2>6. /\ Cardinality(Holders(m0)') <= states'[m0].copies /\ states'[m0].copies >= 1
          /\ L > 0 => states'[m0].copies <= L
        BY <1>3, <1>5, <1>9, <2>1, <2>2
    <2> QED BY <1>9, <2>2, <2>4, <2>5, <2>6 DEF MsgOK
<1>14. \A n \in Node : \A x \in Range(buf[n]) : x \in Range(buf'[n])
    BY <1>7, <1>8
<1>15. delivered' \in [Message -> [latency : Int, hops : Int]] /\ delivered' = delivered
          /\ atZero' = atZero
    BY <1>2, <1>4 DEF SimType
<1> QED BY <1>8, <1>9, <1>10, <1>11, <1>12, <1>13, <1>14, <1>15, ExchangeFrame DEF m0

\* A handoff, a copy that moves, keeps SimInv.
LEMMA HandoffKeeps ==
    ASSUME SimInv, offers # <<>>, offers' = Tail(offers), NEW o, o = Head(offers),
           UNCHANGED <<L, tick, injected>>, Handoff(o)
    PROVE  SimInv'
<1> DEFINE m0 == o.entry.msg
           a == o.from
           b == o.to
           st == states[m0]
           e2 == [o.entry EXCEPT !.hops = o.entry.hops + 1]
<1>1. /\ a \in Node /\ b \in Node /\ a # b /\ m0 \in Message /\ o.entry \in Entry
      /\ o.entry \in Range(buf[a]) /\ m0 \in 1 .. injected /\ a \in Holders(m0) /\ MsgOK(m0)
    BY OfferFacts
<1>2. SimType /\ QueueInv /\ HopsNeedCopies
    BY DEF SimInv
<1>3. st.copies \in Nat /\ L \in Nat
    BY <1>1, <1>2 DEF SimType, MessageState
<1>4. /\ buf' = [buf EXCEPT ![b] = Append(buf[b], e2), ![a] = Without(buf[a], m0)]
      /\ has' = [has EXCEPT ![b] = has[b] \cup {m0}, ![a] = has[a] \ {m0}]
      /\ UNCHANGED <<states, delivered, atZero>>
    BY <1>1 DEF Handoff
<1>5. b # st.dst /\ m0 \notin has[b] /\ L # 0 /\ ~(st.copies < L)
    BY <1>3, VerdictFacts DEF Handoff
<1>6. e2 \in Entry /\ e2.msg = m0
    BY <1>1 DEF Entry
<1> HIDE DEF e2
<1>7. /\ IsQueue(Append(buf[b], e2)) /\ Range(Append(buf[b], e2)) = Range(buf[b]) \cup {e2}
      /\ has[b] = {e.msg : e \in Range(buf[b])}
    <2>1. IsQueue(buf[b]) /\ has[b] = {e.msg : e \in Range(buf[b])}
        BY <1>1, <1>2 DEF QueueInv
    <2>2. \A x \in Range(buf[b]) : x.msg # e2.msg
        BY <1>5, <1>6, <2>1
    <2> QED BY <1>6, <2>1, <2>2, QueueAppend
<1>8. /\ IsQueue(Without(buf[a], m0)) /\ Range(Without(buf[a], m0)) = Range(buf[a]) \ {o.entry}
      /\ has[a] \ {m0} = {e.msg : e \in Range(buf[a]) \ {o.entry}}
    <2>1. has[a] = {e.msg : e \in Range(buf[a])} /\ IsQueue(buf[a])
        BY <1>1, <1>2 DEF QueueInv
    <2>2. \A x \in Range(buf[a]) : x.msg = m0 => x = o.entry
        BY <1>1, <2>1, QueueSame
    <2>3. has[a] \ {m0} = {e.msg : e \in Range(buf[a]) \ {o.entry}}
        BY <2>1, <2>2
    <2> QED BY <1>1, <2>1, <2>3, QueueWithout
<1>9. /\ buf' \in [Node -> Seq(Entry)]
      /\ buf'[b] = Append(buf[b], e2) /\ buf'[a] = Without(buf[a], m0)
      /\ \A n \in Node : n # a /\ n # b => buf'[n] = buf[n]
    <2>1. buf \in [Node -> Seq(Entry)]
        BY <1>2 DEF SimType
    <2>2. Append(buf[b], e2) \in Seq(Entry) /\ Without(buf[a], m0) \in Seq(Entry)
        BY <1>7, <1>8 DEF IsQueue
    <2> HIDE DEF m0, a, b
    <2> QED BY <1>1, <1>4, <2>1, <2>2, TwoUpdates
<1>10. /\ has' \in [Node -> SUBSET (1 .. injected)]
       /\ has'[b] = has[b] \cup {m0} /\ has'[a] = has[a] \ {m0}
       /\ \A n \in Node : n # a /\ n # b => has'[n] = has[n]
    <2>1. has \in [Node -> SUBSET (1 .. injected)]
        BY <1>2 DEF SimType
    <2>2. has[b] \cup {m0} \in SUBSET (1 .. injected) /\ has[a] \ {m0} \in SUBSET (1 .. injected)
        BY <1>1, <2>1
    <2> HIDE DEF m0, a, b
    <2> QED BY <1>1, <1>4, <2>1, <2>2, TwoUpdates
<1> HIDE DEF m0, a, b, st
<1>11. QueueInv'
    <2> SUFFICES ASSUME NEW n \in Node
                 PROVE  IsQueue(buf'[n]) /\ has'[n] = {e.msg : e \in Range(buf'[n])}
        BY DEF QueueInv
    <2>1. CASE n # a /\ n # b
        BY <1>2, <1>9, <1>10, <2>1 DEF QueueInv
    <2>2. CASE n = b
        <3>1. has[b] \cup {m0} = {e.msg : e \in Range(buf[b]) \cup {e2}}
            BY <1>6, <1>7
        <3> QED BY <1>7, <1>9, <1>10, <2>2, <3>1
    <2>3. CASE n = a
        BY <1>8, <1>9, <1>10, <2>3
    <2> QED BY <2>1, <2>2, <2>3
<1>12. HopsNeedCopies'
    <2> SUFFICES ASSUME NEW n \in Node, NEW e \in Range(buf'[n]), L = 0 \/ states[e.msg].copies < L
                 PROVE  e.hops < states[e.msg].copies
        BY <1>4 DEF HopsNeedCopies
    <2>1. e \in Range(buf[n]) \/ e = e2
        <3>1. CASE n = b
            BY <1>7, <1>9, <3>1
        <3>2. CASE n = a
            BY <1>8, <1>9, <3>2
        <3> QED BY <1>9, <3>1, <3>2
    <2>2. e # e2
        BY <1>5, <1>6 DEF st
    <2> QED BY <1>2, <2>1, <2>2 DEF HopsNeedCopies
<1>13. /\ Holders(m0)' = (Holders(m0) \ {a}) \cup {b}
       /\ \A m : m # m0 => Holders(m)' = Holders(m)
    BY <1>1, <1>10 DEF Holders
<1>14. MsgOK(m0)'
    <2>1. Cardinality(Holders(m0)') = Cardinality(Holders(m0)) /\ Cardinality(Holders(m0)) \in Nat
        <3>1. b \notin Holders(m0) /\ IsFiniteSet(Holders(m0)) /\ Cardinality(Holders(m0)) \in Nat
            BY <1>5, HoldersFinite DEF Holders
        <3>2. /\ IsFiniteSet(Holders(m0) \ {a})
              /\ Cardinality(Holders(m0) \ {a}) = Cardinality(Holders(m0)) - 1
            BY <1>1, <3>1, FS_RemoveElement
        <3>3. Cardinality((Holders(m0) \ {a}) \cup {b}) = Cardinality(Holders(m0) \ {a}) + 1
            BY <3>1, <3>2, FS_AddElement
        <3> QED BY <1>13, <3>1, <3>2, <3>3
    <2>2. states[m0].dst \notin Holders(m0)'
        BY <1>1, <1>5, <1>13 DEF MsgOK, st
    <2> QED BY <1>1, <1>4, <2>1, <2>2 DEF MsgOK
<1>15. \A n \in Node : \A x \in Range(buf[n]) : x \in Range(buf'[n]) \/ (n = a /\ x = o.entry)
    <2> SUFFICES ASSUME NEW n \in Node, NEW x \in Range(buf[n])
                 PROVE  x \in Range(buf'[n]) \/ (n = a /\ x = o.entry)
        OBVIOUS
    <2>1. CASE n = b
        BY <1>7, <1>9, <2>1
    <2>2. CASE n = a
        BY <1>8, <1>9, <2>2
    <2> QED BY <1>9, <2>1, <2>2
<1>16. /\ states' \in [Message -> MessageState]
       /\ delivered' \in [Message -> [latency : Int, hops : Int]]
    BY <1>2, <1>4 DEF SimType
<1>17. \A m \in Message : m # o.entry.msg =>
           Holders(m)' = Holders(m) /\ states'[m] = states[m] /\ delivered'[m] = delivered[m]
    BY <1>4, <1>13 DEF m0
<1>18. atZero \subseteq atZero' /\ atZero' \subseteq atZero \cup {o.entry.msg} /\ MsgOK(o.entry.msg)'
    BY <1>4, <1>14 DEF m0
<1> QED BY <1>9, <1>10, <1>11, <1>12, <1>15, <1>16, <1>17, <1>18, ExchangeFrame DEF a

-----------------------------------------------------------------------------
\* A new message has one copy, at its source.
LEMMA InjectKeeps == ASSUME SimInv, Inject PROVE SimInv'
<1>1. SimType /\ QueueInv /\ OfferInv /\ MsgInv /\ HopsNeedCopies
    BY DEF SimInv
<1>2. UNCHANGED <<L, tick, stats, offers, delivered, atZero>>
    BY DEF Inject
<1>3. CASE UNCHANGED <<injected, states, has, buf>>
    <2>1. \A m : Holders(m)' = Holders(m)
        BY <1>3 DEF Holders
    <2>2. MsgInv'
        BY <1>1, <1>2, <1>3, <2>1, MsgSame DEF MsgInv
    <2>3. SimType' /\ QueueInv' /\ OfferInv' /\ HopsNeedCopies'
        BY <1>1, <1>2, <1>3 DEF SimType, QueueInv, OfferInv, HopsNeedCopies
    <2> QED BY <2>2, <2>3 DEF SimInv
<1>4. ASSUME Due, NEW m1, m1 = injected + 1, injected' = m1, NEW p \in Pairs,
             states' = [states EXCEPT ![injected'] =
                    [src |-> p[1], dst |-> p[2], created |-> tick,
                     copies |-> 1, deliveredAt |-> 0]],
             has' = [has EXCEPT ![p[1]] = has[p[1]] \cup {injected'}],
             buf' = [buf EXCEPT ![p[1]] = Append(buf[p[1]], [msg |-> injected', hops |-> 0])]
      PROVE  SimInv'
    <2> DEFINE a == p[1]
               st == [src |-> p[1], dst |-> p[2], created |-> tick, copies |-> 1, deliveredAt |-> 0]
               e1 == [msg |-> m1, hops |-> 0]
    <2>1. /\ injected \in Nat /\ Messages \in Nat /\ injected < Messages /\ m1 \in Message
          /\ m1 \notin 1 .. injected /\ 1 .. m1 = (1 .. injected) \cup {m1}
          /\ tick \in Nat /\ L \in Nat /\ Lifetime \in Nat /\ Nodes \in Nat
        <3>1. injected \in Nat /\ Messages \in Nat /\ injected < Messages
            BY <1>1, <1>4, ConfigAssumption DEF SimType, Due
        <3>2. m1 \in Message /\ m1 \notin 1 .. injected /\ 1 .. m1 = (1 .. injected) \cup {m1}
            BY <1>4, <3>1 DEF Message
        <3> QED BY <1>1, <3>1, <3>2, ConfigAssumption DEF SimType
    <2>2. a \in Node /\ p[2] \in Node /\ a # p[2]
        BY ConfigAssumption
    <2>3. st \in MessageState /\ e1 \in Entry /\ e1.msg = m1 /\ e1.hops = 0
        BY <2>1, <2>2 DEF MessageState, Entry, Node
    <2>4. st.dst = p[2] /\ st.created = tick /\ st.copies = 1 /\ st.deliveredAt = 0
        OBVIOUS
    <2>5. /\ injected' = m1 /\ states' = [states EXCEPT ![m1] = st]
          /\ has' = [has EXCEPT ![a] = has[a] \cup {m1}]
          /\ buf' = [buf EXCEPT ![a] = Append(buf[a], e1)]
        BY <1>4
    <2> HIDE DEF a, st, e1
    <2>6. /\ states' \in [Message -> MessageState] /\ states'[m1] = st
          /\ \A m \in Message : m # m1 => states'[m] = states[m]
        BY <1>1, <2>1, <2>3, <2>5 DEF SimType
    <2>7. /\ has' \in [Node -> SUBSET (1 .. m1)] /\ has'[a] = has[a] \cup {m1}
          /\ \A n \in Node : n # a => has'[n] = has[n]
          /\ \A n \in Node : has[n] \in SUBSET (1 .. injected)
        BY <1>1, <2>1, <2>2, <2>5 DEF SimType
    <2>8. /\ IsQueue(Append(buf[a], e1)) /\ Range(Append(buf[a], e1)) = Range(buf[a]) \cup {e1}
          /\ has[a] = {e.msg : e \in Range(buf[a])}
        <3>1. IsQueue(buf[a]) /\ has[a] = {e.msg : e \in Range(buf[a])}
            BY <1>1, <2>2 DEF QueueInv
        <3>2. m1 \notin has[a]
            BY <2>1, <2>2, <2>7
        <3>3. \A x \in Range(buf[a]) : x.msg # e1.msg
            BY <2>3, <3>1, <3>2
        <3> QED BY <2>3, <3>1, <3>3, QueueAppend
    <2>9. /\ buf' \in [Node -> Seq(Entry)] /\ buf'[a] = Append(buf[a], e1)
          /\ \A n \in Node : n # a => buf'[n] = buf[n]
        BY <1>1, <2>2, <2>5, <2>8 DEF SimType, IsQueue
    <2>10. SimType'
        <3>1. \A m \in Message : m > m1 => m > injected
            BY <1>4, <2>1 DEF Message
        <3>2. injected' \in 0 .. Messages
            BY <2>1, <2>5 DEF Message
        <3>3. atZero' \subseteq 1 .. injected'
            BY <1>1, <1>2, <2>1, <2>5 DEF SimType
        <3>4. \A m \in Message : m > injected' => delivered'[m] = NotDelivered
            BY <1>1, <1>2, <2>5, <3>1 DEF SimType
        <3>5. has' \in [Node -> SUBSET (1 .. injected')]
            BY <2>5, <2>7
        <3> QED BY <1>1, <1>2, <2>6, <2>9, <3>2, <3>3, <3>4, <3>5 DEF SimType
    <2>11. QueueInv'
        <3> SUFFICES ASSUME NEW n \in Node
                     PROVE  IsQueue(buf'[n]) /\ has'[n] = {e.msg : e \in Range(buf'[n])}
            BY DEF QueueInv
        <3>1. CASE n # a
            BY <1>1, <2>7, <2>9, <3>1 DEF QueueInv
        <3>2. CASE n = a
            <4>1. has[a] \cup {m1} = {e.msg : e \in Range(buf[a]) \cup {e1}}
                BY <2>3, <2>8
            <4> QED BY <2>7, <2>8, <2>9, <3>2, <4>1
        <3> QED BY <3>1, <3>2
    <2>12. \A n \in Node : \A x \in Range(buf[n]) : x \in Range(buf'[n])
        BY <2>8, <2>9
    <2>13. OfferInv'
        <3>1. \A k \in 1 .. Len(offers) : offers[k].from \in Node
            <4> SUFFICES ASSUME NEW k \in 1 .. Len(offers)
                         PROVE  offers[k].from \in Node
                OBVIOUS
            <4>1. offers[k] \in Offer
                BY <1>1, ElementOfSeq DEF SimType
            <4> QED BY <4>1 DEF Offer
        <3> QED BY <1>1, <1>2, <2>12, <3>1 DEF OfferInv
    <2>14. \A m : m # m1 => Holders(m)' = Holders(m)
        BY <2>2, <2>7 DEF Holders
    <2>15. Holders(m1)' = {a}
        BY <2>1, <2>2, <2>7 DEF Holders
    <2>16. MsgInv'
        <3>1. ASSUME NEW m \in 1 .. injected
              PROVE  MsgOK(m)'
            <4>1. m \in Message /\ m # m1 /\ MsgOK(m)
                BY <1>1, <2>1 DEF MsgInv, Message
            <4> QED BY <1>2, <2>6, <2>14, <4>1, MsgSame
        <3>2. MsgOK(m1)'
            <4>1. Cardinality(Holders(m1)') = 1
                BY <2>15, FS_Singleton
            <4>2. delivered'[m1] = NotDelivered
                BY <1>1, <1>2, <1>4, <2>1 DEF SimType
            <4>3. states'[m1].dst \notin Holders(m1)'
                BY <2>2, <2>4, <2>6, <2>15
            <4> QED BY <1>2, <2>1, <2>4, <2>6, <4>1, <4>2, <4>3 DEF MsgOK
        <3> QED BY <2>1, <2>5, <3>1, <3>2 DEF MsgInv
    <2>17. HopsNeedCopies'
        <3> SUFFICES ASSUME NEW n \in Node, NEW e \in Range(buf'[n]), L = 0 \/ states'[e.msg].copies < L
                     PROVE  e.hops < states'[e.msg].copies
            BY <1>2 DEF HopsNeedCopies
        <3>1. CASE e = e1
            BY <2>3, <2>4, <2>6, <3>1
        <3>2. CASE e # e1
            <4>1. e \in Range(buf[n])
                BY <2>8, <2>9, <3>2
            <4>2. e.msg \in has[n] /\ e.msg \in Message
                BY <1>1, <4>1, QueueEntry DEF QueueInv, Entry
            <4>3. e.msg # m1
                BY <2>1, <2>7, <4>2
            <4> QED BY <1>1, <2>6, <4>1, <4>2, <4>3 DEF HopsNeedCopies
        <3> QED BY <3>1, <3>2
    <2> QED BY <2>10, <2>11, <2>13, <2>16, <2>17 DEF SimInv
<1> QED
    <2>1. CASE Due /\ injected' = injected + 1
        BY <1>4, <2>1 DEF Inject
    <2>2. CASE ~Due
        BY <1>3, <2>2 DEF Inject
    <2> QED BY <2>1, <2>2 DEF Inject

\* The snapshot of one queue.
LEMMA OfferedFacts ==
    ASSUME SimInv, NEW a \in Node, NEW b \in Node
    PROVE  /\ Offered(a, b) \in Seq(Offer) /\ Len(Offered(a, b)) = Len(buf[a]) /\ Len(buf[a]) \in Nat
           /\ \A i \in 1 .. Len(buf[a]) :
                 /\ Offered(a, b)[i].from = a /\ Offered(a, b)[i].to = b
                 /\ Offered(a, b)[i].entry = buf[a][i] /\ buf[a][i] \in Range(buf[a])
<1>1. buf[a] \in Seq(Entry) /\ Len(buf[a]) \in Nat /\ DOMAIN buf[a] = 1 .. Len(buf[a])
    BY DEF SimInv, SimType
<1>2. Offered(a, b) = [i \in 1 .. Len(buf[a]) |-> [from |-> a, to |-> b, entry |-> buf[a][i]]]
    BY <1>1 DEF Offered
<1>3. \A i \in 1 .. Len(buf[a]) : [from |-> a, to |-> b, entry |-> buf[a][i]] \in Offer
    BY <1>1 DEF Offer
<1>4. Offered(a, b) \in Seq(Offer) /\ Len(Offered(a, b)) = Len(buf[a])
    BY <1>1, <1>2, <1>3
<1>5. \A i \in 1 .. Len(buf[a]) : buf[a][i] \in Range(buf[a])
    BY <1>1 DEF Range
<1> QED BY <1>1, <1>2, <1>4, <1>5

\* A contact begins with copies that are all in their queues.
LEMMA MeetKeeps == ASSUME SimInv, NEW a \in Node, NEW b \in Node, Meet(a, b) PROVE SimInv'
<1> DEFINE u == Offered(a, b)
           v == Offered(b, a)
           n == Len(buf[a])
           w == Len(buf[b])
<1>1. SimType /\ QueueInv /\ OfferInv /\ MsgInv /\ HopsNeedCopies
    BY DEF SimInv
<1>2. /\ offers' = u \o v /\ a < b
      /\ UNCHANGED <<L, tick, phase, injected, states, buf, has, delivered, atZero>>
    BY DEF Meet
<1>3. a # b
    BY <1>2 DEF Node
<1>4. /\ u \in Seq(Offer) /\ Len(u) = n /\ n \in Nat
      /\ \A i \in 1 .. n : u[i].from = a /\ u[i].to = b /\ u[i].entry = buf[a][i]
                           /\ buf[a][i] \in Range(buf[a])
    BY OfferedFacts
<1>5. /\ v \in Seq(Offer) /\ Len(v) = w /\ w \in Nat
      /\ \A i \in 1 .. w : v[i].from = b /\ v[i].to = a /\ v[i].entry = buf[b][i]
                           /\ buf[b][i] \in Range(buf[b])
    BY OfferedFacts
<1>6. (\A i, j \in 1 .. n : buf[a][i].msg = buf[a][j].msg => i = j)
          /\ (\A i, j \in 1 .. w : buf[b][i].msg = buf[b][j].msg => i = j)
    BY <1>1 DEF QueueInv, IsQueue, Unique
<1> HIDE DEF u, v, n, w
<1>7. /\ offers' \in Seq(Offer) /\ Len(offers') = n + w
      /\ \A k \in 1 .. n + w : offers'[k] = IF k <= n THEN u[k] ELSE v[k - n]
    <2>1. /\ u \o v \in Seq(Offer) /\ Len(u \o v) = Len(u) + Len(v)
          /\ \A k \in 1 .. Len(u) + Len(v) :
                (u \o v)[k] = IF k <= Len(u) THEN u[k] ELSE v[k - Len(u)]
        BY <1>4, <1>5, ConcatProperties
    <2> QED BY <1>2, <1>4, <1>5, <2>1
<1>8. \A k \in 1 .. n + w :
          \/ k \in 1 .. n /\ offers'[k] = u[k]
          \/ k - n \in 1 .. w /\ offers'[k] = v[k - n]
    <2>1. ASSUME NEW k \in 1 .. n + w, k <= n PROVE k \in 1 .. n /\ offers'[k] = u[k]
        BY <1>4, <1>5, <1>7, <2>1
    <2>2. ASSUME NEW k \in 1 .. n + w, ~(k <= n) PROVE k - n \in 1 .. w /\ offers'[k] = v[k - n]
        <3>1. n \in Nat /\ w \in Nat
            BY <1>4, <1>5
        <3>2. k - n \in 1 .. w
            BY <2>2, <3>1
        <3> QED BY <1>7, <2>2, <3>2
    <2> QED BY <2>1, <2>2
<1>9. OfferInv'
    <2>1. ASSUME NEW k \in 1 .. n + w
          PROVE  /\ offers'[k].from # offers'[k].to
                 /\ offers'[k].entry \in Range(buf'[offers'[k].from])
        <3>1. CASE k \in 1 .. n /\ offers'[k] = u[k]
            BY <1>2, <1>3, <1>4, <3>1
        <3>2. CASE k - n \in 1 .. w /\ offers'[k] = v[k - n]
            BY <1>2, <1>3, <1>5, <3>2
        <3> QED BY <1>8, <3>1, <3>2
    <2>2. ASSUME NEW k \in 1 .. n + w, NEW l \in 1 .. n + w,
                 offers'[k].from = offers'[l].from, offers'[k].entry.msg = offers'[l].entry.msg
          PROVE  k = l
        <3>1. CASE k \in 1 .. n /\ offers'[k] = u[k]
            <4>1. l \in 1 .. n /\ offers'[l] = u[l]
                BY <1>3, <1>4, <1>5, <1>8, <2>2, <3>1
            <4> QED BY <1>4, <1>6, <2>2, <3>1, <4>1
        <3>2. CASE k - n \in 1 .. w /\ offers'[k] = v[k - n]
            <4>0. offers'[l].from = b
                BY <1>5, <2>2, <3>2
            <4>1. l - n \in 1 .. w /\ offers'[l] = v[l - n]
                BY <1>3, <1>4, <1>8, <4>0
            <4>2. k - n = l - n
                BY <1>5, <1>6, <2>2, <3>2, <4>1
            <4> QED BY <1>4, <4>2
        <3> QED BY <1>8, <3>1, <3>2
    <2> QED BY <1>7, <2>1, <2>2 DEF OfferInv
<1>10. \A m : Holders(m)' = Holders(m)
    BY <1>2 DEF Holders
<1>11. MsgInv'
    BY <1>1, <1>2, <1>10, MsgSame DEF MsgInv
<1>12. SimType'
    BY <1>1, <1>2, <1>7 DEF SimType
<1>13. QueueInv' /\ HopsNeedCopies'
    BY <1>1, <1>2 DEF QueueInv, HopsNeedCopies
<1> QED BY <1>9, <1>11, <1>12, <1>13 DEF SimInv

\* The sweep takes all copies of an expired message away at once.
LEMMA EndTickKeeps == ASSUME SimInv, EndTick PROVE SimInv'
<1>1. SimType /\ QueueInv /\ OfferInv /\ MsgInv /\ HopsNeedCopies
    BY DEF SimInv
<1>2. /\ offers = <<>> /\ tick' = tick + 1
      /\ buf' = [n \in Node |-> Swept(buf[n])]
      /\ has' = [n \in Node |-> {e.msg : e \in Range(buf'[n])}]
      /\ UNCHANGED <<L, contactVars, injected, states, delivered, atZero>>
    BY DEF EndTick
<1>3. \A n \in Node : /\ IsQueue(buf'[n]) /\ has'[n] = {e.msg : e \in Range(buf'[n])}
                      /\ Range(buf'[n]) = {e \in Range(buf[n]) : Keeps(e.msg)}
    <2> SUFFICES ASSUME NEW n \in Node
                 PROVE  /\ IsQueue(buf'[n]) /\ has'[n] = {e.msg : e \in Range(buf'[n])}
                        /\ Range(buf'[n]) = {e \in Range(buf[n]) : Keeps(e.msg)}
        OBVIOUS
    <2>1. IsQueue(buf[n])
        BY <1>1 DEF QueueInv
    <2>2. buf'[n] = Swept(buf[n]) /\ has'[n] = {e.msg : e \in Range(buf'[n])}
        BY <1>2
    <2> QED BY <2>1, <2>2, QueueSwept
<1>4. QueueInv'
    BY <1>3 DEF QueueInv
<1>5. \A n \in Node : has'[n] = {m \in has[n] : Keeps(m)}
    <2> SUFFICES ASSUME NEW n \in Node
                 PROVE  has'[n] = {m \in has[n] : Keeps(m)}
        OBVIOUS
    <2>1. has[n] = {e.msg : e \in Range(buf[n])}
        BY <1>1 DEF QueueInv
    <2>2. \A m : m \in has'[n] <=> m \in has[n] /\ Keeps(m)
        <3> SUFFICES ASSUME NEW m
                     PROVE  m \in has'[n] <=> m \in has[n] /\ Keeps(m)
            OBVIOUS
        <3>1. ASSUME m \in has'[n] PROVE m \in has[n] /\ Keeps(m)
            <4>1. PICK e \in Range(buf'[n]) : m = e.msg
                BY <1>3, <3>1
            <4>2. e \in Range(buf[n]) /\ Keeps(e.msg)
                BY <1>3, <4>1, Zenon
            <4> QED BY <2>1, <4>1, <4>2, Zenon
        <3>2. ASSUME m \in has[n], Keeps(m) PROVE m \in has'[n]
            <4>1. PICK e \in Range(buf[n]) : m = e.msg
                BY <2>1, <3>2
            <4>2. e \in Range(buf'[n])
                BY <1>3, <3>2, <4>1, Zenon
            <4> QED BY <1>3, <4>1, <4>2
        <3> QED BY <3>1, <3>2
    <2> QED BY <2>2, Zenon
<1>6. \A n \in Node : Range(buf'[n]) \subseteq Range(buf[n])
    BY <1>3, Zenon
<1>7. SimType'
    <2>1. buf' \in [Node -> Seq(Entry)]
        BY <1>2, <1>3 DEF IsQueue
    <2>2. \A n \in Node : has'[n] \in SUBSET (1 .. injected)
        BY <1>1, <1>5, Zenon DEF SimType
    <2>3. has' \in [Node -> SUBSET (1 .. injected)]
        BY <1>2, <2>2
    <2> QED BY <1>1, <1>2, <2>1, <2>3 DEF SimType
<1>8. OfferInv'
    BY <1>1, <1>2 DEF OfferInv
<1>9. HopsNeedCopies'
    BY <1>1, <1>2, <1>6 DEF HopsNeedCopies
<1>10. ASSUME NEW m \in 1 .. injected
       PROVE  MsgOK(m)'
    <2>1. m \in Message /\ MsgOK(m) /\ tick \in Nat /\ Lifetime \in Nat
        BY <1>1, ConfigAssumption DEF MsgInv, SimType, Message
    <2>2. states[m].copies \in Nat /\ states[m].created \in Nat /\ states[m].deliveredAt \in Nat
        BY <1>1, <2>1 DEF SimType, MessageState
    <2>3. Keeps(m) <=> states[m].deliveredAt # 0 \/ ~(tick - states[m].created >= Lifetime)
        BY DEF Keeps, Expired
    <2>4. Holders(m)' = IF Keeps(m) THEN Holders(m) ELSE {}
        BY <1>5 DEF Holders
    <2>5. Cardinality({}) = 0 /\ Cardinality(Holders(m)) \in Nat
        BY FS_EmptySet, HoldersFinite
    <2>6. states[m].dst \notin Holders(m)'
        BY <2>1, <2>4 DEF MsgOK
    <2>7. CASE states[m].deliveredAt # 0
        <3>1. Holders(m)' = Holders(m)
            BY <2>3, <2>4, <2>7
        <3>2. states[m].created <= tick'
            BY <1>2, <2>1, <2>2 DEF MsgOK
        <3> QED BY <1>2, <2>1, <2>7, <3>1, <3>2 DEF MsgOK
    <2>8. CASE states[m].deliveredAt = 0 /\ ~(tick - states[m].created >= Lifetime)
        <3>1. Holders(m)' = Holders(m)
            BY <2>3, <2>4, <2>8
        <3>2. /\ states[m].created <= tick' /\ tick - states[m].created <= Lifetime
              /\ tick' - states[m].created <= Lifetime
            BY <1>2, <2>1, <2>2, <2>8 DEF MsgOK
        <3> QED BY <1>2, <2>1, <2>8, <3>1, <3>2 DEF MsgOK
    <2>9. CASE states[m].deliveredAt = 0 /\ tick - states[m].created >= Lifetime
        <3>1. Holders(m)' = {}
            BY <2>3, <2>4, <2>9
        <3>2. /\ states[m].created <= tick' /\ ~(tick' - states[m].created <= Lifetime)
              /\ 0 <= states[m].copies
            BY <1>2, <2>1, <2>2, <2>9 DEF MsgOK
        <3> QED BY <1>2, <2>1, <2>5, <2>9, <3>1, <3>2 DEF MsgOK
    <2> QED BY <2>7, <2>8, <2>9
<1>11. MsgInv'
    BY <1>2, <1>10 DEF MsgInv
<1> QED BY <1>4, <1>7, <1>8, <1>9, <1>11 DEF SimInv

\* Every step keeps SimInv.
LEMMA SimInvNext == SimInv /\ [Next]_vars => SimInv'
<1> SUFFICES ASSUME SimInv, [Next]_vars
             PROVE  SimInv'
    OBVIOUS
<1>1. CASE Inject
    BY <1>1, InjectKeeps
<1>2. CASE \E a, b \in Node : Meet(a, b)
    BY <1>2, MeetKeeps
<1>3. CASE Exchange
    <2>1. PICK o : o = Head(offers)
        OBVIOUS
    <2>2. /\ offers # <<>> /\ offers' = Tail(offers) /\ UNCHANGED <<L, tick, injected>>
          /\ Skip(o) \/ Hand(o) \/ Spray(o) \/ Handoff(o)
        BY <1>3, <2>1 DEF Exchange
    <2> QED BY <2>1, <2>2, SkipKeeps, HandKeeps, SprayKeeps, HandoffKeeps
<1>4. CASE EndTick
    BY <1>4, EndTickKeeps
<1>5. CASE UNCHANGED vars
    <2>1. SimType' /\ QueueInv' /\ OfferInv' /\ HopsNeedCopies'
        BY <1>5 DEF vars, SimInv, SimType, QueueInv, OfferInv, HopsNeedCopies
    <2>2. \A m : Holders(m)' = Holders(m)
        BY <1>5 DEF vars, Holders
    <2>3. MsgInv'
        BY <1>5, <2>2, MsgSame DEF vars, SimInv, MsgInv
    <2> QED BY <2>1, <2>3 DEF SimInv
<1> QED BY <1>1, <1>2, <1>3, <1>4, <1>5 DEF Next

\* SimInv is an invariant of the simulator.
LEMMA SimInvariant == Spec => []SimInv
BY SimInvInit, SimInvNext, PTL DEF Spec

(***************************************************************************)
(* A node never holds more than one copy of a message, and the presence    *)
(* map agrees with the queue, for every number of nodes and messages.      *)
(***************************************************************************)
THEOREM SimOneCopyEach == Spec => []OneCopyEach
<1>1. SimInv => OneCopyEach
    BY QueueCount DEF SimInv, QueueInv, OneCopyEach
<1> QED BY <1>1, SimInvariant, PTL

(***************************************************************************)
(* CopiesMade is the number of carriers until the delivery takes one copy  *)
(* or the sweep takes all.                                                 *)
(***************************************************************************)
THEOREM SimCopiesConserved == Spec => []CopiesConserved
<1>1. SimInv => CopiesConserved
    BY DEF SimInv, MsgInv, MsgOK, CopiesConserved, Timed
<1> QED BY <1>1, SimInvariant, PTL

(***************************************************************************)
(* The budget of SprayAndWait bounds the carriers of a message, for every  *)
(* budget, number of nodes and order of contacts.                          *)
(***************************************************************************)
THEOREM SimBudgetKept == Spec => []BudgetKept
<1>1. SimInv => BudgetKept
    <2> SUFFICES ASSUME SimInv, L > 0, NEW m \in 1 .. injected
                 PROVE  Cardinality(Holders(m)) <= L
        BY DEF BudgetKept
    <2>1. MsgOK(m) /\ L \in Nat /\ Cardinality(Holders(m)) \in Nat
        BY HoldersFinite DEF SimInv, MsgInv, SimType
    <2>2. states[m].copies \in Nat
        <3>1. m \in Message
            BY ConfigAssumption DEF SimInv, SimType, Message
        <3> QED BY <3>1 DEF SimInv, SimType, MessageState
    <2> QED BY <2>1, <2>2 DEF MsgOK
<1> QED BY <1>1, SimInvariant, PTL

(***************************************************************************)
(* A latency is recorded exactly for the delivered messages, and nothing   *)
(* is delivered after its lifetime.                                        *)
(***************************************************************************)
THEOREM SimDeliveriesRecorded == Spec => []DeliveriesRecorded
<1>1. SimInv => DeliveriesRecorded
    BY DEF SimInv, MsgInv, MsgOK, DeliveriesRecorded, Timed
<1> QED BY <1>1, SimInvariant, PTL

(***************************************************************************)
(* Until the budget is spent, the hops of a copy are fewer than the copies *)
(* made.                                                                   *)
(***************************************************************************)
THEOREM SimHopsNeedCopies == Spec => []HopsNeedCopies
<1>1. SimInv => HopsNeedCopies
    BY DEF SimInv
<1> QED BY <1>1, SimInvariant, PTL

-----------------------------------------------------------------------------
\* No step touches a message that was delivered.
LEMMA DeliveredUntouched ==
    ASSUME SimInv, [Next]_vars, NEW m \in 1 .. injected, states[m].deliveredAt # 0
    PROVE  /\ states'[m] = states[m] /\ delivered'[m] = delivered[m]
           /\ Holders(m)' = Holders(m)
<1>1. SimType /\ m \in Message /\ m # injected + 1
    BY ConfigAssumption DEF SimInv, SimType, Message
<1>2. CASE Inject
    <2>1. CASE UNCHANGED <<states, has>>
        BY <1>2, <2>1 DEF Inject, Holders
    <2>2. CASE Due
        <3>1. PICK p \in Pairs :
                  /\ states' = [states EXCEPT ![injected + 1] =
                       [src |-> p[1], dst |-> p[2], created |-> tick,
                        copies |-> 1, deliveredAt |-> 0]]
                  /\ has' = [has EXCEPT ![p[1]] = has[p[1]] \cup {injected + 1}]
            BY <1>2, <2>2 DEF Inject
        <3>2. states'[m] = states[m] /\ \A n \in Node : m \in has'[n] <=> m \in has[n]
            BY <1>1, <3>1 DEF SimType
        <3> QED BY <1>2, <3>2 DEF Inject, Holders
    <2> QED BY <1>2, <2>1, <2>2 DEF Inject
<1>3. CASE \E a, b \in Node : Meet(a, b)
    BY <1>3 DEF Meet, Holders
<1>4. CASE Exchange
    <2>1. PICK o : o = Head(offers)
        OBVIOUS
    <2>2. offers # <<>> /\ (Skip(o) \/ Hand(o) \/ Spray(o) \/ Handoff(o))
        BY <1>4, <2>1 DEF Exchange
    <2>3. o.from \in Node /\ o.to \in Node /\ o.entry.msg \in Message
        BY <2>1, <2>2, OfferFacts
    <2>4. CASE Skip(o)
        BY <2>4 DEF Skip, Holders
    <2>5. CASE Hand(o)
        <3>1. m # o.entry.msg
            BY <2>5 DEF Hand, Live
        <3> QED BY <1>1, <2>3, <2>5, <3>1 DEF Hand, Holders, SimType
    <2>6. CASE Spray(o)
        <3>1. m # o.entry.msg
            BY <2>6 DEF Spray, Live
        <3> QED BY <1>1, <2>3, <2>6, <3>1 DEF Spray, Give, Holders, SimType
    <2>7. CASE Handoff(o)
        <3>1. m # o.entry.msg
            BY <2>7 DEF Handoff, Live
        <3> QED BY <1>1, <2>3, <2>7, <3>1 DEF Handoff, Holders, SimType
    <2> QED BY <2>2, <2>4, <2>5, <2>6, <2>7
<1>5. CASE EndTick
    <2>1. UNCHANGED <<states, delivered>>
        BY <1>5 DEF EndTick
    <2>2. \A n \in Node : m \in has'[n] <=> m \in has[n]
        <3> SUFFICES ASSUME NEW n \in Node
                     PROVE  m \in has'[n] <=> m \in has[n]
            OBVIOUS
        <3>1. IsQueue(buf[n]) /\ has[n] = {e.msg : e \in Range(buf[n])}
            BY DEF SimInv, QueueInv
        <3>2. has'[n] = {e.msg : e \in Range(Swept(buf[n]))}
            BY <1>5 DEF EndTick
        <3>3. Range(Swept(buf[n])) = {e \in Range(buf[n]) : Keeps(e.msg)}
            BY <3>1, QueueSwept
        <3>4. Keeps(m)
            BY DEF Keeps
        <3>5. m \in has[n] => m \in has'[n]
            BY <3>1, <3>2, <3>3, <3>4, Zenon
        <3>6. m \in has'[n] => m \in has[n]
            BY <3>1, <3>2, <3>3, Zenon
        <3> QED BY <3>5, <3>6
    <2> QED BY <2>1, <2>2 DEF Holders
<1>6. CASE UNCHANGED vars
    BY <1>6 DEF vars, Holders
<1> QED BY <1>2, <1>3, <1>4, <1>5, <1>6 DEF Next

(***************************************************************************)
(* A delivery is final: no offer left of an older snapshot, no contact and *)
(* no sweep makes, moves or removes a copy of the message, or delivers it  *)
(* again.                                                                  *)
(***************************************************************************)
THEOREM SimDeliveryFinal == Spec => DeliveryFinal
<1> DEFINE Final == \A m \in Timed : states[m].deliveredAt # 0 =>
                        /\ states'[m] = states[m] /\ delivered'[m] = delivered[m]
                        /\ Holders(m)' = Holders(m)
<1>1. SimInv /\ [Next]_vars => [Final]_vars
    BY DeliveredUntouched DEF Timed
<1> HIDE DEF Final
<1>2. Spec => [][Final]_vars
    BY <1>1, SimInvariant, PTL DEF Spec
<1> QED BY <1>2 DEF DeliveryFinal, Final

-----------------------------------------------------------------------------
(***************************************************************************)
(* Recursive definitions. An induction runs over the members of a set that *)
(* are natural numbers; its basis is that a set of natural numbers has a   *)
(* least element. A recursive function is what its definition says because *)
(* the body looks at smaller arguments only.                               *)
(***************************************************************************)

\* A set of natural numbers that is not empty has a least element.
LEMMA Least ==
    ASSUME NEW T, T \subseteq Nat, T # {}
    PROVE  \E x \in T : \A y \in T : x <= y
<1> DEFINE R == OpToRel(<, Nat)
<1>1. IsWellFoundedOn(R, Nat)
  BY NatLessThanWellFounded
<1>2. \A y, x \in Nat : y < x => <<y, x>> \in R
  BY DEF OpToRel
<1> HIDE DEF R
<1>3. PICK x \in T : \A y \in T : <<y, x>> \notin R
  BY <1>1, WFMin
<1>4. ASSUME NEW y \in T PROVE x <= y
  <2>1. <<y, x>> \notin R
    BY <1>3
  <2>2. ~ (y < x)
    BY <1>2, <2>1
  <2> QED BY <2>2
<1> QED
  BY <1>4

\* Strong induction over the natural numbers, for the members of a set.
LEMMA Induction ==
    ASSUME NEW T, \A n \in Nat : (\A m \in Nat : m < n => m \in T) => n \in T
    PROVE  \A n \in Nat : n \in T
<1> SUFFICES ASSUME Nat \ T # {} PROVE FALSE
  OBVIOUS
<1>1. Nat \ T \subseteq Nat
  OBVIOUS
<1>2. PICK x \in Nat \ T : \A y \in Nat \ T : x <= y
  BY <1>1, Least
<1>3. \A m \in Nat : m < x => m \in T
  BY <1>2
<1> QED BY <1>3

\* What G, the body of a recursive definition on D, makes of an argument
\* depends on the values at smaller arguments only.
Recursive(D, V, size, G) ==
    /\ V # {} /\ size \in [D -> Nat] /\ G \in [D \X [D -> V] -> V]
    /\ \A d \in D : \A f, g \in [D -> V] :
         (\A e \in D : size[e] < size[d] => f[e] = g[e]) => G[<<d, f>>] = G[<<d, g>>]

\* A recursive definition that only looks at smaller arguments has a solution.
LEMMA Recursion ==
    ASSUME NEW D, NEW V, NEW size, NEW G, Recursive(D, V, size, G)
    PROVE  \E F \in [D -> V] : \A d \in D : F[d] = G[<<d, F>>]
<1> USE DEF Recursive
<1> DEFINE Good(n) == {f \in [D -> V] : \A d \in D : size[d] < n => f[d] = G[<<d, f>>]}
<1>1. ASSUME NEW n \in Nat, NEW m \in Nat, NEW f \in Good(n), NEW g \in Good(m),
             NEW d \in D, size[d] < n, size[d] < m
      PROVE  f[d] = g[d]
  <2> DEFINE Bad == {k \in Nat : \E e \in D : size[e] = k /\ k < n /\ k < m /\ f[e] # g[e]}
  <2>1. CASE Bad = {}
    BY <1>1, <2>1
  <2>2. CASE Bad # {}
    <3>1. PICK x \in Bad : \A y \in Bad : x <= y
      <4> HIDE DEF Bad
      <4>1. Bad \subseteq Nat
        BY DEF Bad
      <4> QED BY <2>2, <4>1, Least
    <3>2. PICK e \in D : size[e] = x /\ x < n /\ x < m /\ f[e] # g[e]
      BY <3>1
    <3>3. \A c \in D : size[c] < size[e] => f[c] = g[c]
      BY <3>1, <3>2
    <3>4. f \in [D -> V] /\ g \in [D -> V]
      OBVIOUS
    <3>5. G[<<e, f>>] = G[<<e, g>>]
      BY <3>3, <3>4
    <3>6. f[e] = G[<<e, f>>] /\ g[e] = G[<<e, g>>]
      BY <3>2
    <3> QED BY <3>2, <3>5, <3>6
  <2> QED BY <2>1, <2>2
<1>2. ASSUME NEW n \in Nat PROVE Good(n) # {}
  <2> DEFINE Bad == {k \in Nat : Good(k) = {}}
  <2>1. CASE Bad = {}
    BY <2>1
  <2>2. CASE Bad # {}
    <3>1. PICK x \in Bad : \A y \in Bad : x <= y
      <4> HIDE DEF Bad
      <4>1. Bad \subseteq Nat
        BY DEF Bad
      <4> QED BY <2>2, <4>1, Least
    <3>2. CASE x = 0
      <4>1. PICK v \in V : TRUE
        OBVIOUS
      <4> DEFINE h == [d \in D |-> v]
      <4>2. h \in Good(0)
        <5>1. h \in [D -> V]
          BY <4>1
        <5>2. \A d \in D : ~ (size[d] < 0)
          OBVIOUS
        <5> HIDE DEF h
        <5> QED BY <5>1, <5>2
      <4> QED BY <3>1, <3>2, <4>2
    <3>3. CASE x # 0
      <4>1. x - 1 \in Nat /\ x - 1 \notin Bad
        <5>1. x \in Nat
          OBVIOUS
        <5> HIDE DEF Bad
        <5> QED BY <3>1, <3>3, <5>1
      <4>2. PICK f : f \in Good(x - 1)
        BY <4>1
      <4> DEFINE h == [d \in D |-> G[<<d, f>>]]
      <4>3. f \in [D -> V] /\ h \in [D -> V]
        BY <4>2
      <4>4. ASSUME NEW d \in D, size[d] < x PROVE h[d] = G[<<d, h>>]
        <5>1. \A e \in D : size[e] < size[d] => f[e] = h[e]
          BY <4>2, <4>4, <4>1
        <5>2. G[<<d, f>>] = G[<<d, h>>]
          <6> HIDE DEF h
          <6> QED BY <5>1, <4>3
        <5> QED BY <5>2
      <4>5. h \in Good(x)
        <5> HIDE DEF h
        <5> QED BY <4>3, <4>4
      <4> QED BY <3>1, <4>5
    <3> QED BY <3>2, <3>3
  <2> QED BY <2>1, <2>2
<1> DEFINE At(d) == CHOOSE f : f \in Good(size[d] + 1)
           F == [d \in D |-> At(d)[d]]
<1>3. ASSUME NEW d \in D PROVE At(d) \in Good(size[d] + 1)
  <2>1. size[d] + 1 \in Nat
    OBVIOUS
  <2>2. \E f : f \in Good(size[d] + 1)
    <3> HIDE DEF Good
    <3> QED BY <1>2, <2>1
  <2> HIDE DEF Good
  <2> QED BY <2>2
<1>4. \A d \in D : At(d) \in [D -> V]
  <2> HIDE DEF At
  <2> QED BY <1>3
<1>5. F \in [D -> V]
  <2> HIDE DEF At
  <2> QED BY <1>4
<1>6. ASSUME NEW d \in D PROVE F[d] = G[<<d, F>>]
  <2>1. \A e \in D : size[e] < size[d] => F[e] = At(d)[e]
    <3> SUFFICES ASSUME NEW e \in D, size[e] < size[d] PROVE At(e)[e] = At(d)[e]
      BY DEF F
    <3> HIDE DEF At, Good
    <3>1. size[e] < size[e] + 1 /\ size[e] < size[d] + 1 /\ size[e] + 1 \in Nat /\ size[d] + 1 \in Nat
      OBVIOUS
    <3>2. At(e) \in Good(size[e] + 1) /\ At(d) \in Good(size[d] + 1)
      BY <1>3
    <3> QED BY <1>1, <3>1, <3>2
  <2>2. G[<<d, F>>] = G[<<d, At(d)>>]
    <3> HIDE DEF F, At
    <3> QED BY <2>1, <1>4, <1>5
  <2>3. At(d)[d] = G[<<d, At(d)>>]
    <3>1. size[d] < size[d] + 1
      OBVIOUS
    <3> HIDE DEF At
    <3>2. At(d) \in Good(size[d] + 1)
      BY <1>3
    <3> QED BY <3>1, <3>2
  <2> HIDE DEF At
  <2>4. F[d] = At(d)[d]
    OBVIOUS
  <2> QED BY <2>2, <2>3, <2>4
<1> HIDE DEF F
<1> QED BY <1>5, <1>6

-----------------------------------------------------------------------------
(***************************************************************************)
(* The binary codec. An encoding is cut off d bytes before its end. Field  *)
(* after field, the reader either has the rest of what Marshal wrote, d    *)
(* bytes short, or has no data left (Stage): a text, the three numbers and *)
(* an optional text each take it to the next stage. What comes of the last *)
(* stage is the message when d = 0, and otherwise an error, or the message *)
(* without its last one or two texts.                                      *)
(***************************************************************************)

\* A string the format can carry.
Carried(s) == s # <<>> /\ Len(s) # Top /\ Len(s) < Base * Base

\* The numbers derived from Base.
LEMMA Bytes ==
    /\ Base \in Nat /\ Base > 3 /\ Base > 1 /\ Half \in Nat /\ Half > 1 /\ Base = 2 * Half
    /\ Top \in Nat /\ Top = Base - 1
  BY CodecAssumption DEF Half, Top

\* PutUvarint is the function its recursive definition describes.
LEMMA PutUvarintDef ==
    /\ PutUvarint \in [Nat -> Seq(Nat)]
    /\ \A v \in Nat : PutUvarint[v] =
         IF v < Half THEN <<v>> ELSE <<(v % Half) + Half>> \o PutUvarint[v \div Half]
<1> DEFINE D == Nat
           V == Seq(Nat)
           size == [v \in D |-> v]
           G == [p \in D \X [D -> V] |->
                    IF p[1] < Half THEN <<p[1]>>
                    ELSE <<(p[1] % Half) + Half>> \o p[2][p[1] \div Half]]
<1>1. \A v \in Nat : (v % Half) + Half \in Nat /\ v \div Half \in Nat
                     /\ (v >= Half => v \div Half < v)
  BY Bytes
<1>2. V # {} /\ size \in [D -> Nat]
  <2>1. <<>> \in Seq(Nat)
    OBVIOUS
  <2>2. size \in [D -> Nat]
    OBVIOUS
  <2> HIDE DEF size
  <2> QED BY <2>1, <2>2
<1>3. G \in [D \X [D -> V] -> V]
  <2> SUFFICES ASSUME NEW d \in D, NEW f \in [D -> V]
               PROVE  (IF d < Half THEN <<d>> ELSE <<(d % Half) + Half>> \o f[d \div Half]) \in V
    OBVIOUS
  <2>1. (d % Half) + Half \in Nat /\ f[d \div Half] \in Seq(Nat)
    BY <1>1
  <2>2. <<(d % Half) + Half>> \in Seq(Nat) /\ <<d>> \in Seq(Nat)
    BY <2>1
  <2>3. <<(d % Half) + Half>> \o f[d \div Half] \in Seq(Nat)
    BY <2>1, <2>2, ConcatProperties
  <2> QED BY <2>2, <2>3
<1>4. ASSUME NEW d \in D, NEW f \in [D -> V], NEW g \in [D -> V],
             \A e \in D : size[e] < size[d] => f[e] = g[e]
      PROVE  G[<<d, f>>] = G[<<d, g>>]
  <2>1. CASE d < Half
    BY <2>1
  <2>2. CASE ~ (d < Half)
    <3>1. d >= Half
      BY <2>2, Bytes
    <3>2. f[d \div Half] = g[d \div Half]
      BY <3>1, <1>1, <1>4
    <3> QED BY <2>2, <3>2
  <2> QED BY <2>1, <2>2
<1>5. \A d \in D : \A f, g \in [D -> V] :
        (\A e \in D : size[e] < size[d] => f[e] = g[e]) => G[<<d, f>>] = G[<<d, g>>]
  <2> HIDE DEF G, size, D, V
  <2> QED BY <1>4
<1>6. Recursive(D, V, size, G)
  <2> HIDE DEF G, size, D, V
  <2> QED BY <1>2, <1>3, <1>5 DEF Recursive
<1>7. \E F \in [D -> V] : \A d \in D : F[d] = G[<<d, F>>]
  <2> HIDE DEF D, V, size, G
  <2> QED BY <1>6, Recursion
<1>8. PICK F \in [D -> V] : \A d \in D : F[d] = G[<<d, F>>]
  BY <1>7
<1>9. F = [v \in Nat |-> IF v < Half THEN <<v>> ELSE <<(v % Half) + Half>> \o F[v \div Half]]
  BY <1>8
<1>10. PutUvarint = [v \in Nat |-> IF v < Half THEN <<v>>
                                  ELSE <<(v % Half) + Half>> \o PutUvarint[v \div Half]]
  BY <1>9 DEF PutUvarint
<1>11. ASSUME NEW v \in Nat
       PROVE PutUvarint[v] =
          IF v < Half THEN <<v>> ELSE <<(v % Half) + Half>> \o PutUvarint[v \div Half]
  BY <1>10
<1>12. \A v \in Nat : v \in {k \in Nat : PutUvarint[k] \in Seq(Nat)}
  <2> DEFINE T == {k \in Nat : PutUvarint[k] \in Seq(Nat)}
  <2>1. ASSUME NEW n \in Nat, \A m \in Nat : m < n => m \in T PROVE n \in T
    <3>1. CASE n < Half
      <4>1. PutUvarint[n] = <<n>>
        BY <3>1, <1>11, Zenon
      <4>2. <<n>> \in Seq(Nat)
        OBVIOUS
      <4> QED BY <4>1, <4>2
    <3>2. CASE ~ (n < Half)
      <4>1. n \div Half \in Nat /\ n \div Half < n
        BY <1>1, <3>2, Bytes
      <4>2. PutUvarint[n \div Half] \in Seq(Nat)
        BY <2>1, <4>1
      <4>3. <<(n % Half) + Half>> \in Seq(Nat)
        BY <1>1
      <4>4. PutUvarint[n] \in Seq(Nat)
        <5> DEFINE a == <<(n % Half) + Half>>
                   b == PutUvarint[n \div Half]
        <5>1. PutUvarint[n] = a \o b
          BY <3>2, <1>11, Zenon
        <5> HIDE DEF a, b
        <5>2. a \in Seq(Nat) /\ b \in Seq(Nat)
          BY <4>2, <4>3 DEF a, b
        <5>3. a \o b \in Seq(Nat)
          BY <5>2, ConcatProperties
        <5> QED BY <5>1, <5>3
      <4> QED BY <4>4
    <3> QED BY <3>1, <3>2
  <2> HIDE DEF T
  <2>2. \A n \in Nat : n \in T
    BY <2>1, Induction
  <2> QED BY <2>2 DEF T
<1>13. PutUvarint = [v \in Nat |-> PutUvarint[v]]
  BY <1>10
<1> QED BY <1>11, <1>12, <1>13

\* The tail of a sequence that is not empty.
LEMMA TailOf ==
    ASSUME NEW s \in Seq(Nat), s # <<>>
    PROVE  Tail(s) \in Seq(Nat) /\ Len(Tail(s)) = Len(s) - 1 /\ Len(s) \in Nat /\ Len(s) > 0
           /\ s[1] \in Nat
  BY HeadTailProperties, EmptySeq, LenProperties

\* Value is the function its recursive definition describes.
LEMMA ValueDef ==
    \A s \in Seq(Nat) :
        Value[s] = IF s = <<>> THEN 0 ELSE (s[1] % Half) + Half * Value[Tail(s)]
<1> DEFINE D == Seq(Nat)
           V == Nat
           size == [s \in D |-> Len(s)]
           G == [p \in D \X [D -> V] |->
                    IF p[1] = <<>> THEN 0 ELSE (p[1][1] % Half) + Half * p[2][Tail(p[1])]]
<1>1. \A n \in Nat : n % Half \in Nat
  BY Bytes
<1>2. V # {} /\ size \in [D -> Nat]
  <2>1. size \in [D -> Nat]
    OBVIOUS
  <2> HIDE DEF size
  <2> QED BY <2>1
<1>3. G \in [D \X [D -> V] -> V]
  <2> SUFFICES ASSUME NEW s \in D, NEW f \in [D -> V]
               PROVE  (IF s = <<>> THEN 0 ELSE (s[1] % Half) + Half * f[Tail(s)]) \in V
    OBVIOUS
  <2>1. CASE s = <<>>
    BY <2>1
  <2>2. CASE s # <<>>
    <3>1. f[Tail(s)] \in Nat /\ s[1] % Half \in Nat
      BY <2>2, TailOf, <1>1
    <3> QED BY <2>2, <3>1, Bytes
  <2> QED BY <2>1, <2>2
<1>4. ASSUME NEW s \in D, NEW f \in [D -> V], NEW g \in [D -> V],
             \A e \in D : size[e] < size[s] => f[e] = g[e]
      PROVE  G[<<s, f>>] = G[<<s, g>>]
  <2>1. CASE s = <<>>
    BY <2>1
  <2>2. CASE s # <<>>
    <3>1. Tail(s) \in D /\ size[Tail(s)] < size[s]
      BY <2>2, TailOf
    <3>2. f[Tail(s)] = g[Tail(s)]
      BY <1>4, <3>1
    <3> QED BY <2>2, <3>2
  <2> QED BY <2>1, <2>2
<1>5. \A d \in D : \A f, g \in [D -> V] :
        (\A e \in D : size[e] < size[d] => f[e] = g[e]) => G[<<d, f>>] = G[<<d, g>>]
  <2> HIDE DEF G, size, D, V
  <2> QED BY <1>4
<1>6. Recursive(D, V, size, G)
  <2> HIDE DEF G, size, D, V
  <2> QED BY <1>2, <1>3, <1>5 DEF Recursive
<1>7. PICK F \in [D -> V] : \A d \in D : F[d] = G[<<d, F>>]
  <2> HIDE DEF D, V, size, G
  <2> QED BY <1>6, Recursion
<1>8. F = [s \in Seq(Nat) |-> IF s = <<>> THEN 0 ELSE (s[1] % Half) + Half * F[Tail(s)]]
  BY <1>7
<1>9. Value = [s \in Seq(Nat) |->
                 IF s = <<>> THEN 0 ELSE (s[1] % Half) + Half * Value[Tail(s)]]
  BY <1>8 DEF Value
<1> QED BY <1>9

\* One more group of bits.
LEMMA ValueCons ==
    ASSUME NEW x \in Nat, NEW s \in Seq(Nat)
    PROVE  Value[<<x>> \o s] = (x % Half) + Half * Value[s]
<1> DEFINE t == <<x>> \o s
<1>1. <<x>> \in Seq(Nat) /\ Len(<<x>>) = 1 /\ <<x>>[1] = x
  OBVIOUS
<1>2. t \in Seq(Nat) /\ Len(t) = Len(s) + 1 /\ t[1] = x
  BY <1>1, ConcatProperties
<1>3. t # <<>> /\ Tail(t) = s
  BY <1>1, <1>2
<1> HIDE DEF t
<1>4. Value[t] = (x % Half) + Half * Value[s]
  BY <1>2, <1>3, ValueDef
<1> QED BY <1>4 DEF t

\* The elements of a slice.
LEMMA Slice ==
    ASSUME NEW s \in Seq(Nat), NEW m \in 1 .. Len(s) + 1, NEW n \in m - 1 .. Len(s)
    PROVE  /\ SubSeq(s, m, n) \in Seq(Nat) /\ Len(SubSeq(s, m, n)) = n - m + 1
           /\ \A i \in 1 .. n - m + 1 : SubSeq(s, m, n)[i] = s[m + i - 1]
<1>1. Len(s) \in Nat /\ \A i \in 1 .. Len(s) : s[i] \in Nat
  OBVIOUS
<1>2. \A i \in m .. n : s[i] \in Nat
  BY <1>1
<1>3. m \in Int /\ n \in Int
  BY <1>1
<1>4. /\ SubSeq(s, m, n) \in Seq(Nat)
      /\ Len(SubSeq(s, m, n)) = IF m <= n THEN n - m + 1 ELSE 0
      /\ \A i \in 1 .. n - m + 1 : SubSeq(s, m, n)[i] = s[m + i - 1]
  BY <1>2, <1>3, SubSeqProperties
<1>5. n - m + 1 = IF m <= n THEN n - m + 1 ELSE 0
  BY <1>1
<1> QED BY <1>4, <1>5, Zenon

\* The elements of a concatenation.
LEMMA Concat ==
    ASSUME NEW a \in Seq(Nat), NEW b \in Seq(Nat)
    PROVE  /\ a \o b \in Seq(Nat) /\ Len(a \o b) = Len(a) + Len(b)
           /\ \A i \in 1 .. Len(a) : (a \o b)[i] = a[i]
           /\ \A i \in 1 .. Len(b) : (a \o b)[Len(a) + i] = b[i]
  BY ConcatProperties, LenProperties

\* Division with remainder.
LEMMA Quotient ==
    ASSUME NEW n \in Nat, NEW d \in Nat, d > 1
    PROVE  /\ n \div d \in Nat /\ n % d \in Nat /\ n % d < d
           /\ n = d * (n \div d) + (n % d)
           /\ n < d => n % d = n
           /\ n < d * d => n \div d < d
<1>1. n \div d \in Nat /\ n % d \in Nat /\ n % d < d
  OBVIOUS
<1>2. \A q, r \in Nat : q = n \div d /\ r = n % d => n = d * q + r
  OBVIOUS
<1>3. n < d => n % d = n
  OBVIOUS
<1>4. n < d * d => n \div d < d
  OBVIOUS
<1> QED BY <1>1, <1>2, <1>3, <1>4

\* A prefix of a concatenation: of its first part, or that and a prefix of the rest.
LEMMA Cut ==
    ASSUME NEW a \in Seq(Nat), NEW b \in Seq(Nat), NEW k \in 0 .. Len(a) + Len(b)
    PROVE  LET data == SubSeq(a \o b, 1, k) IN
           /\ data \in Seq(Nat) /\ Len(data) = k /\ Len(a) \in Nat /\ Len(b) \in Nat
           /\ \A i \in 1 .. k : i <= Len(a) => data[i] = a[i]
           /\ k >= Len(a) => /\ SubSeq(data, 1, Len(a)) = a
                             /\ SubSeq(data, Len(a) + 1, Len(data)) = SubSeq(b, 1, k - Len(a))
<1> DEFINE c == a \o b
           data == SubSeq(c, 1, k)
<1>1. c \in Seq(Nat) /\ Len(c) = Len(a) + Len(b) /\ Len(a) \in Nat /\ Len(b) \in Nat
      /\ \A i \in 1 .. Len(a) + Len(b) : c[i] = IF i <= Len(a) THEN a[i] ELSE b[i - Len(a)]
  BY ConcatProperties, LenProperties
<1> HIDE DEF c
<1>2. data \in Seq(Nat) /\ Len(data) = k /\ \A i \in 1 .. k : data[i] = c[i]
  <2>1. 1 \in 1 .. Len(c) + 1 /\ k \in 1 - 1 .. Len(c) /\ k - 1 + 1 = k
    BY <1>1
  <2>2. data \in Seq(Nat) /\ Len(data) = k - 1 + 1
        /\ \A i \in 1 .. k - 1 + 1 : data[i] = c[1 + i - 1]
    BY <1>1, <2>1, Slice
  <2>3. \A i \in 1 .. k : 1 + i - 1 = i
    BY <1>1
  <2> HIDE DEF data
  <2> QED BY <2>1, <2>2, <2>3
<1> HIDE DEF data
<1>3. ASSUME NEW i \in 1 .. k PROVE data[i] = IF i <= Len(a) THEN a[i] ELSE b[i - Len(a)]
  <2>1. i \in 1 .. Len(a) + Len(b) /\ data[i] = c[i]
    BY <1>1, <1>2
  <2> QED BY <1>1, <2>1, Zenon
<1>4. ASSUME k >= Len(a)
      PROVE  /\ SubSeq(data, 1, Len(a)) = a
             /\ SubSeq(data, Len(a) + 1, Len(data)) = SubSeq(b, 1, k - Len(a))
  <2> DEFINE w == SubSeq(data, 1, Len(a))
             x == SubSeq(data, Len(a) + 1, Len(data))
             y == SubSeq(b, 1, k - Len(a))
  <2>1. w \in Seq(Nat) /\ Len(w) = Len(a) /\ \A i \in 1 .. Len(a) : w[i] = data[i]
    <3>1. 1 \in 1 .. Len(data) + 1 /\ Len(a) \in 1 - 1 .. Len(data) /\ Len(a) - 1 + 1 = Len(a)
      BY <1>1, <1>2, <1>4
    <3>2. w \in Seq(Nat) /\ Len(w) = Len(a) - 1 + 1
          /\ \A i \in 1 .. Len(a) - 1 + 1 : w[i] = data[1 + i - 1]
      BY <1>2, <3>1, Slice
    <3> QED BY <1>1, <3>1, <3>2
  <2>2. x \in Seq(Nat) /\ Len(x) = k - Len(a) /\ \A i \in 1 .. k - Len(a) : x[i] = data[Len(a) + i]
    <3>1. Len(a) + 1 \in 1 .. Len(data) + 1 /\ Len(data) \in (Len(a) + 1) - 1 .. Len(data)
          /\ Len(data) - (Len(a) + 1) + 1 = k - Len(a)
      BY <1>1, <1>2, <1>4
    <3>2. x \in Seq(Nat) /\ Len(x) = Len(data) - (Len(a) + 1) + 1
          /\ \A i \in 1 .. Len(data) - (Len(a) + 1) + 1 : x[i] = data[(Len(a) + 1) + i - 1]
      BY <1>2, <3>1, Slice
    <3>3. \A i \in 1 .. k - Len(a) : (Len(a) + 1) + i - 1 = Len(a) + i
      BY <1>1
    <3> QED BY <3>1, <3>2, <3>3
  <2>3. y \in Seq(Nat) /\ Len(y) = k - Len(a) /\ \A i \in 1 .. k - Len(a) : y[i] = b[i]
    <3>1. 1 \in 1 .. Len(b) + 1 /\ k - Len(a) \in 1 - 1 .. Len(b)
          /\ (k - Len(a)) - 1 + 1 = k - Len(a)
      BY <1>1, <1>4
    <3>2. y \in Seq(Nat) /\ Len(y) = (k - Len(a)) - 1 + 1
          /\ \A i \in 1 .. (k - Len(a)) - 1 + 1 : y[i] = b[1 + i - 1]
      BY <1>2, <3>1, Slice
    <3>3. \A i \in 1 .. k - Len(a) : 1 + i - 1 = i
      BY <1>1
    <3> QED BY <3>1, <3>2, <3>3
  <2> HIDE DEF w, x, y
  <2>4. ASSUME NEW i \in 1 .. Len(a) PROVE w[i] = a[i]
    <3>1. i \in 1 .. k /\ i <= Len(a)
      BY <1>1, <1>4
    <3> QED BY <1>3, <2>1, <3>1
  <2>5. ASSUME NEW i \in 1 .. k - Len(a) PROVE x[i] = y[i]
    <3>1. Len(a) + i \in 1 .. k /\ ~ (Len(a) + i <= Len(a)) /\ (Len(a) + i) - Len(a) = i
      BY <1>1, <1>4
    <3>2. data[Len(a) + i] = b[(Len(a) + i) - Len(a)]
      BY <1>3, <3>1, Zenon
    <3> QED BY <2>2, <2>3, <3>1, <3>2
  <2>6. w = a
    BY <2>1, <2>4, SeqEqual
  <2>7. x = y
    BY <2>2, <2>3, <2>5, SeqEqual
  <2> QED BY <2>6, <2>7 DEF w, x, y
<1> QED BY <1>1, <1>2, <1>3, <1>4 DEF data, c

\* A varint ends at the first byte without the continuation bit, and its
\* groups stand for the number.
LEMMA UvarintShape ==
    ASSUME NEW v \in Nat
    PROVE  /\ PutUvarint[v] \in Seq(Nat) /\ Len(PutUvarint[v]) \in Nat \ {0}
           /\ PutUvarint[v][Len(PutUvarint[v])] < Half
           /\ \A i \in 1 .. Len(PutUvarint[v]) - 1 : PutUvarint[v][i] >= Half
           /\ Value[PutUvarint[v]] = v
<1> DEFINE Shape(n) == LET p == PutUvarint[n]
                       IN  /\ p \in Seq(Nat) /\ Len(p) \in Nat \ {0} /\ p[Len(p)] < Half
                           /\ \A i \in 1 .. Len(p) - 1 : p[i] >= Half
                           /\ Value[p] = n
           T == {n \in Nat : Shape(n)}
<1>1. ASSUME NEW n \in Nat, n < Half PROVE Shape(n)
  <2>1. PutUvarint[n] = <<n>>
    BY <1>1, PutUvarintDef, Zenon
  <2>2. <<n>> \in Seq(Nat) /\ Len(<<n>>) = 1 /\ <<n>>[1] = n /\ <<>> \in Seq(Nat)
    OBVIOUS
  <2>3. <<n>> # <<>> /\ Tail(<<n>>) = <<>>
    OBVIOUS
  <2>4. Value[<<>>] = 0
    BY <2>2, ValueDef
  <2>5. n % Half = n
    BY <1>1, Bytes
  <2>6. Value[<<n>>] = n
    <3>1. Value[<<n>>] = (<<n>>[1] % Half) + Half * Value[Tail(<<n>>)]
      BY <2>2, <2>3, ValueDef, Zenon
    <3>2. Value[<<n>>] = n + Half * 0
      BY <2>2, <2>3, <2>4, <2>5, <3>1
    <3> QED BY <3>2, Bytes
  <2> QED BY <1>1, <2>1, <2>2, <2>6
<1>2. ASSUME NEW n \in Nat, ~ (n < Half), Shape(n \div Half) PROVE Shape(n)
  <2> DEFINE x == (n % Half) + Half
             p == PutUvarint[n \div Half]
             q == <<x>> \o p
  <2>1. PutUvarint[n] = q
    BY <1>2, PutUvarintDef, Zenon
  <2>2. x \in Nat /\ x >= Half /\ x % Half = n % Half
    BY Bytes
  <2>3. p \in Seq(Nat) /\ Len(p) \in Nat \ {0} /\ p[Len(p)] < Half
        /\ (\A i \in 1 .. Len(p) - 1 : p[i] >= Half) /\ Value[p] = n \div Half
    BY <1>2
  <2> HIDE DEF p, x
  <2>4. <<x>> \in Seq(Nat) /\ Len(<<x>>) = 1 /\ <<x>>[1] = x
    BY <2>2
  <2>5. q \in Seq(Nat) /\ Len(q) = Len(p) + 1
        /\ \A i \in 1 .. Len(p) + 1 : q[i] = IF i <= 1 THEN x ELSE p[i - 1]
    BY <2>2, <2>3, <2>4, ConcatProperties
  <2>6. Value[q] = (n % Half) + Half * (n \div Half)
    BY <2>2, <2>3, ValueCons
  <2>7. Value[q] = n
    BY <2>6, Bytes
  <2> HIDE DEF q
  <2>8. q[Len(q)] < Half
    <3>1. Len(q) \in 1 .. Len(p) + 1 /\ ~ (Len(q) <= 1) /\ Len(q) - 1 = Len(p)
      BY <2>3, <2>5
    <3> QED BY <2>3, <2>5, <3>1
  <2>9. ASSUME NEW i \in 1 .. Len(q) - 1 PROVE q[i] >= Half
    <3>1. i \in 1 .. Len(p) + 1 /\ (i <= 1 \/ i - 1 \in 1 .. Len(p) - 1)
      BY <2>3, <2>5, SMTT(30)
    <3>2. q[i] = IF i <= 1 THEN x ELSE p[i - 1]
      BY <2>5, <3>1, Zenon
    <3> QED BY <2>2, <2>3, <3>1, <3>2
  <2>10. Len(q) \in Nat \ {0}
    BY <2>3, <2>5
  <2> QED BY <2>1, <2>5, <2>7, <2>8, <2>9, <2>10
<1> HIDE DEF Shape
<1>3. ASSUME NEW n \in Nat, \A m \in Nat : m < n => m \in T PROVE n \in T
  <2>1. CASE n < Half
    BY <2>1, <1>1
  <2>2. CASE ~ (n < Half)
    <3>1. n \div Half \in Nat /\ n \div Half < n
      BY <2>2, Bytes
    <3>2. Shape(n \div Half)
      BY <1>3, <3>1
    <3> QED BY <2>2, <3>2, <1>2
  <2> QED BY <2>1, <2>2
<1>4. v \in T
  <2> HIDE DEF T
  <2> QED BY <1>3, Induction
<1> QED BY <1>4 DEF Shape

\* GetUvarint reads a varint that is there as a whole, and refuses one that is
\* cut off.
LEMMA GetUvarintCut ==
    ASSUME NEW v \in Nat, NEW b \in Seq(Nat), NEW k \in 0 .. Len(PutUvarint[v]) + Len(b)
    PROVE  LET p == PutUvarint[v]
               data == SubSeq(p \o b, 1, k)
           IN
           /\ k < Len(p) => GetUvarint(data) = Failed
           /\ k >= Len(p) => GetUvarint(data) = [ok |-> TRUE, n |-> Len(p), v |-> v]
<1> DEFINE p == PutUvarint[v]
           data == SubSeq(p \o b, 1, k)
<1>1. /\ p \in Seq(Nat) /\ Len(p) \in Nat \ {0} /\ p[Len(p)] < Half
      /\ \A i \in 1 .. Len(p) - 1 : p[i] >= Half
      /\ Value[p] = v
  BY UvarintShape
<1>2. k \in 0 .. Len(p) + Len(b)
  OBVIOUS
<1> HIDE DEF p
<1>3. /\ data \in Seq(Nat) /\ Len(data) = k
      /\ \A i \in 1 .. k : i <= Len(p) => data[i] = p[i]
      /\ k >= Len(p) => SubSeq(data, 1, Len(p)) = p
  BY <1>2, <1>1, Cut, Zenon
<1> HIDE DEF data
<1>4. DOMAIN data = 1 .. k
  BY <1>3
<1> DEFINE ends == {i \in DOMAIN data : data[i] < Half}
           n == CHOOSE i \in ends : \A j \in ends : i <= j
<1>5. ASSUME NEW i \in 1 .. k, i < Len(p) PROVE i \notin ends
  <2>1. data[i] = p[i] /\ i \in 1 .. Len(p) - 1
    BY <1>1, <1>3, <1>5
  <2>2. p[i] >= Half
    BY <1>1, <2>1
  <2>3. p[i] \in Nat
    BY <1>1, <2>1
  <2> QED BY <2>1, <2>2, <2>3, Bytes
<1>6. ASSUME k < Len(p) PROVE GetUvarint(data) = Failed
  <2>1. ends = {}
    BY <1>1, <1>4, <1>5, <1>6
  <2> QED BY <2>1 DEF GetUvarint
<1>7. ASSUME k >= Len(p) PROVE GetUvarint(data) = [ok |-> TRUE, n |-> Len(p), v |-> v]
  <2>1. Len(p) \in 1 .. k
    BY <1>1, <1>7
  <2>2. data[Len(p)] = p[Len(p)]
    BY <1>1, <1>3, <2>1
  <2>3. Len(p) \in ends
    BY <1>1, <1>4, <2>1, <2>2
  <2>4. \A j \in ends : j \in 1 .. k /\ Len(p) <= j
    BY <1>1, <1>4, <1>5
  <2>5. n = Len(p)
    <3> HIDE DEF ends
    <3>1. \E i \in ends : \A j \in ends : i <= j
      BY <2>3, <2>4
    <3>2. n \in ends /\ \A j \in ends : n <= j
      BY <3>1
    <3> HIDE DEF n
    <3> QED BY <1>1, <2>3, <2>4, <3>2
  <2>6. GetUvarint(data) = [ok |-> TRUE, n |-> n, v |-> Value[SubSeq(data, 1, n)]]
    BY <2>3 DEF GetUvarint
  <2> HIDE DEF n
  <2>7. SubSeq(data, 1, n) = p
    BY <1>3, <1>7, <2>5
  <2> QED BY <1>1, <2>5, <2>6, <2>7
<1> QED BY <1>6, <1>7 DEF data, p

\* The length prefix of a string that is not empty has one or three bytes.
LEMMA PutStringShape ==
    ASSUME NEW s \in Seq(Nat), Carried(s)
    PROVE  LET p == PutString(s) IN
           /\ p \in Seq(Nat) /\ Len(s) \in Nat \ {0}
           /\ \E head \in {1, 3} :
                 /\ Len(p) = head + Len(s) /\ \A i \in 1 .. Len(s) : p[head + i] = s[i]
                 /\ head = 1 => p[1] = Len(s) /\ Len(s) # Top
                 /\ head = 3 => p[1] = Top /\ p[2] * Base + p[3] = Len(s)
<1> DEFINE p == PutString(s)
<1>1. Len(s) \in Nat /\ Len(s) # 0 /\ s # <<>> /\ Len(s) # Top
  BY DEF Carried
<1>2. CASE Len(s) <= Top
  <2> DEFINE h == <<Len(s)>>
  <2>1. p = h \o s
    BY <1>1, <1>2, Zenon DEF PutString
  <2>2. h \in Seq(Nat) /\ Len(h) = 1 /\ h[1] = Len(s)
    BY <1>1
  <2> HIDE DEF h
  <2> HIDE DEF p
  <2>3. p \in Seq(Nat) /\ Len(p) = 1 + Len(s) /\ (\A i \in 1 .. 1 : p[i] = h[i])
        /\ \A i \in 1 .. Len(s) : p[1 + i] = s[i]
    <3> DEFINE q == h \o s
    <3>1. q \in Seq(Nat) /\ Len(q) = Len(h) + Len(s) /\ (\A i \in 1 .. Len(h) : q[i] = h[i])
          /\ \A i \in 1 .. Len(s) : q[Len(h) + i] = s[i]
      BY <2>2, Concat, Zenon
    <3>2. p = q
      BY <2>1
    <3> HIDE DEF q
    <3> QED BY <2>2, <3>1, <3>2
  <2>4. p[1] = Len(s)
    BY <2>2, <2>3
  <2>5. \E head \in {1, 3} :
           /\ Len(p) = head + Len(s) /\ \A i \in 1 .. Len(s) : p[head + i] = s[i]
           /\ head = 1 => p[1] = Len(s) /\ Len(s) # Top
           /\ head = 3 => p[1] = Top /\ p[2] * Base + p[3] = Len(s)
    <3> WITNESS 1 \in {1, 3}
    <3> QED BY <1>1, <2>3, <2>4
  <2> QED BY <1>1, <2>3, <2>5 DEF p
<1>3. CASE ~ (Len(s) <= Top)
  <2> DEFINE hi == (Len(s) \div Base) % Base
             lo == Len(s) % Base
             h == <<Top, hi, lo>>
  <2>1. p = h \o s
    BY <1>1, <1>3, Zenon DEF PutString
  <2>2. hi \in Nat /\ lo \in Nat /\ hi * Base + lo = Len(s)
    <3>1. Len(s) \div Base \in Nat /\ Len(s) \div Base < Base /\ lo \in Nat
          /\ Len(s) = Base * (Len(s) \div Base) + lo
      <4>1. Len(s) < Base * Base
        BY DEF Carried
      <4>2. Base \in Nat /\ Base > 1
        BY Bytes
      <4> QED BY <1>1, <4>1, <4>2, Quotient, Zenon
    <3>2. hi = Len(s) \div Base
      BY <3>1, Bytes, Quotient
    <3> HIDE DEF hi, lo
    <3> QED BY <3>1, <3>2, Bytes
  <2> HIDE DEF hi, lo
  <2>3. h \in Seq(Nat) /\ Len(h) = 3 /\ h[1] = Top /\ h[2] = hi /\ h[3] = lo
    BY <2>2, Bytes
  <2> HIDE DEF h
  <2> HIDE DEF p
  <2>4. p \in Seq(Nat) /\ Len(p) = 3 + Len(s) /\ (\A i \in 1 .. 3 : p[i] = h[i])
        /\ \A i \in 1 .. Len(s) : p[3 + i] = s[i]
    <3> DEFINE q == h \o s
    <3>1. q \in Seq(Nat) /\ Len(q) = Len(h) + Len(s) /\ (\A i \in 1 .. Len(h) : q[i] = h[i])
          /\ \A i \in 1 .. Len(s) : q[Len(h) + i] = s[i]
      BY <2>3, Concat, Zenon
    <3>2. p = q
      BY <2>1
    <3> HIDE DEF q
    <3> QED BY <2>3, <3>1, <3>2
  <2>5. p[1] = Top /\ p[2] = hi /\ p[3] = lo
    BY <2>3, <2>4
  <2>6. \E head \in {1, 3} :
           /\ Len(p) = head + Len(s) /\ \A i \in 1 .. Len(s) : p[head + i] = s[i]
           /\ head = 1 => p[1] = Len(s) /\ Len(s) # Top
           /\ head = 3 => p[1] = Top /\ p[2] * Base + p[3] = Len(s)
    <3> WITNESS 3 \in {1, 3}
    <3> QED BY <2>2, <2>4, <2>5
  <2> QED BY <1>1, <2>4, <2>6 DEF p
<1> QED BY <1>2, <1>3

\* GetString reads a string that is there as a whole, refuses one that is cut
\* off, and takes the end of the data for the empty string.
LEMMA GetStringCut ==
    ASSUME NEW s \in Seq(Nat), Carried(s),
           NEW b \in Seq(Nat), NEW k \in 0 .. Len(PutString(s)) + Len(b)
    PROVE  LET p == PutString(s)
               data == SubSeq(p \o b, 1, k)
           IN
           /\ k = 0 => GetString(data) = [ok |-> TRUE, s |-> <<>>, n |-> 0]
           /\ k > 0 /\ k < Len(p) => GetString(data) = Failed
           /\ k >= Len(p) => GetString(data) = [ok |-> TRUE, s |-> s, n |-> Len(p)]
<1> DEFINE p == PutString(s)
           data == SubSeq(p \o b, 1, k)
<1>1. p \in Seq(Nat) /\ Len(s) \in Nat \ {0}
  BY PutStringShape, Zenon
<1>2. PICK head \in {1, 3} :
         /\ Len(p) = head + Len(s) /\ \A i \in 1 .. Len(s) : p[head + i] = s[i]
         /\ head = 1 => p[1] = Len(s) /\ Len(s) # Top
         /\ head = 3 => p[1] = Top /\ p[2] * Base + p[3] = Len(s)
  BY PutStringShape, Zenon
<1>3. /\ data \in Seq(Nat) /\ Len(data) = k
      /\ \A i \in 1 .. k : i <= Len(p) => data[i] = p[i]
  <2>1. k \in 0 .. Len(p) + Len(b)
    OBVIOUS
  <2> HIDE DEF p
  <2> QED BY <1>1, <2>1, Cut, Zenon
<1> HIDE DEF p, data
<1>4. ASSUME k = 0 PROVE GetString(data) = [ok |-> TRUE, s |-> <<>>, n |-> 0]
  BY <1>3, <1>4 DEF GetString
<1> DEFINE long  == data # <<>> /\ data[1] = Top
           first == IF long THEN 3 ELSE 1
           n     == IF long THEN data[2] * Base + data[3] ELSE data[1]
<1>5. ASSUME k > 0
      PROVE  /\ data # <<>> /\ first = head
             /\ k >= head => n = Len(s)
  <2>1. data # <<>> /\ data[1] = p[1]
    BY <1>1, <1>2, <1>3, <1>5
  <2>2. first = head
    BY <1>2, <2>1, Bytes
  <2>3. ASSUME k >= head PROVE n = Len(s)
    <3>1. CASE head = 1
      BY <1>2, <2>1, <3>1
    <3>2. CASE head = 3
      <4>1. data[2] = p[2] /\ data[3] = p[3]
        BY <1>1, <1>2, <1>3, <2>3, <3>2
      <4> QED BY <1>2, <2>1, <3>2, <4>1
    <3> QED BY <3>1, <3>2
  <2> QED BY <2>1, <2>2, <2>3
<1>6. GetString(data) = IF data = <<>> THEN [ok |-> TRUE, s |-> <<>>, n |-> 0]
                        ELSE IF Len(data) < first \/ Len(data) < first + n THEN Failed
                        ELSE [ok |-> TRUE, s |-> SubSeq(data, first + 1, first + n),
                              n |-> first + n]
  BY DEF GetString
<1> HIDE DEF long, first, n
<1>7. ASSUME k > 0, k < Len(p) PROVE GetString(data) = Failed
  <2>1. CASE k < head
    BY <1>3, <1>5, <1>6, <1>7, <2>1
  <2>2. CASE k >= head
    BY <1>2, <1>3, <1>5, <1>6, <1>7, <2>2
  <2> QED BY <2>1, <2>2
<1>8. ASSUME k >= Len(p) PROVE GetString(data) = [ok |-> TRUE, s |-> s, n |-> Len(p)]
  <2>1. k > 0 /\ k >= head
    BY <1>1, <1>2, <1>8
  <2>2. data # <<>> /\ first = head /\ n = Len(s) /\ first + n = Len(p)
    BY <1>2, <1>5, <2>1
  <2> DEFINE w == SubSeq(data, head + 1, Len(p))
  <2>3. w \in Seq(Nat) /\ Len(w) = Len(s) /\ \A i \in 1 .. Len(s) : w[i] = data[head + i]
    <3>1. head + 1 \in 1 .. Len(data) + 1 /\ Len(p) \in (head + 1) - 1 .. Len(data)
          /\ Len(p) - (head + 1) + 1 = Len(s)
      BY <1>1, <1>2, <1>3, <1>8
    <3>2. w \in Seq(Nat) /\ Len(w) = Len(p) - (head + 1) + 1
          /\ \A i \in 1 .. Len(p) - (head + 1) + 1 : w[i] = data[(head + 1) + i - 1]
      BY <1>3, <3>1, Slice
    <3>3. \A i \in 1 .. Len(s) : (head + 1) + i - 1 = head + i
      BY <1>1
    <3> QED BY <3>1, <3>2, <3>3
  <2> HIDE DEF w
  <2>4. ASSUME NEW i \in 1 .. Len(s) PROVE w[i] = s[i]
    <3>1. head + i \in 1 .. k /\ head + i <= Len(p)
      BY <1>1, <1>2, <1>8
    <3> QED BY <1>2, <1>3, <2>3, <3>1
  <2>5. w = s
    BY <2>3, <2>4, SeqEqual
  <2>6. ~ (Len(data) < first) /\ ~ (Len(data) < first + n)
    BY <1>1, <1>2, <1>3, <1>8, <2>1, <2>2
  <2>7. GetString(data) = [ok |-> TRUE, s |-> SubSeq(data, first + 1, first + n), n |-> first + n]
    BY <1>6, <2>2, <2>6, Zenon
  <2> QED BY <2>2, <2>5, <2>7 DEF w
<1> QED BY <1>4, <1>7, <1>8 DEF data, p

\* The fields of a message that Marshal writes, and the two it leaves out.
Texts  == {"type", "id", "sender", "nick", "recipient", "payload", "nonce", "keyID"}
Fields == Texts \cup {"timestamp", "ttl", "hops"}
Copies == {"sprayBudget", "copiesMade"}

WireMessage == [type : Seq(Nat), id : Seq(Nat), sender : Seq(Nat), nick : Seq(Nat),
            recipient : Seq(Nat), payload : Seq(Nat), timestamp : Int, ttl : Nat, hops : Nat,
            sprayBudget : Nat, copiesMade : Nat, nonce : Seq(Nat), keyID : Seq(Nat)]

\* A message with nothing in it that Marshal leaves out or cuts.
Plain(m) ==
    /\ Encodable(m)
    /\ m.ttl \in 0 .. Top /\ m.hops \in 0 .. Top
    /\ m.sprayBudget = 0 /\ m.copiesMade = 0

\* What Unmarshal has of a message when it has read the fields F.
Part(m, F) == [f \in Fields \cup Copies |-> IF f \in F THEN m[f] ELSE Blank[f]]

\* A reader that has read the fields F and has k bytes of b left.
Reader(m, F, b, k) == [ok |-> TRUE, rest |-> SubSeq(b, 1, k), msg |-> Part(m, F)]

\* A reader that has read the fields F and has nothing left.
Ended(m, F) == [ok |-> TRUE, rest |-> <<>>, msg |-> Part(m, F)]

\* A reader that has failed or has nothing left to read.
Spent(r) == r.ok \in BOOLEAN /\ (r.ok => r.rest = <<>>)

\* Every text of the blank message is empty.
LEMMA BlankTexts == \A f \in Texts : Blank[f] = <<>>
  BY DEF Texts, Blank

\* The blank message is what has been read before the first field.
LEMMA BlankIsPart == ASSUME NEW m PROVE Blank = Part(m, {})
<1>1. /\ DOMAIN Blank = Fields \cup Copies
      /\ Blank = [f \in Fields \cup Copies |-> Blank[f]]
  BY DEF Blank, Fields, Copies, Texts
<1> HIDE DEF Blank
<1> QED BY <1>1 DEF Part

\* What Marshal leaves out is blank in a plain message.
LEMMA PlainCopies == ASSUME NEW m, Plain(m) PROVE \A f \in Copies : m[f] = Blank[f]
  BY DEF Plain, Copies, Blank

\* With all fields read, a plain message is there.
LEMMA WholeIsPart == ASSUME NEW m \in WireMessage, Plain(m) PROVE Part(m, Fields) = m
<1>1. m = [f \in Fields \cup Copies |-> m[f]]
  BY DEF WireMessage, Fields, Copies, Texts
<1>2. \A f \in Fields \cup Copies : f \in Fields \/ m[f] = Blank[f]
  BY PlainCopies
<1> QED BY <1>1, <1>2 DEF Part

\* A text is a sequence.
LEMMA TextType == ASSUME NEW m \in WireMessage, NEW f \in Texts PROVE m[f] \in Seq(Nat)
  BY DEF WireMessage, Texts

\* Reading a field adds it to the part.
LEMMA PartExcept ==
    ASSUME NEW m, NEW F, NEW f \in Fields
    PROVE  [Part(m, F) EXCEPT ![f] = m[f]] = Part(m, F \cup {f})
  BY DEF Part

\* Reading an empty text where nothing was read changes nothing.
LEMMA PartBlank ==
    ASSUME NEW m, NEW F, NEW f \in Texts, f \notin F
    PROVE  [Part(m, F) EXCEPT ![f] = <<>>] = Part(m, F)
  BY BlankTexts DEF Part, Fields, Copies

\* The prefix of length zero.
LEMMA EmptyCut ==
    ASSUME NEW b \in Seq(Nat) PROVE SubSeq(b, 1, 0) = <<>> 
  BY SubSeqEmpty

\* What the end of the data reads as.
LEMMA GetNothing ==
    GetString(<<>>) = [ok |-> TRUE, s |-> <<>>, n |-> 0] /\ GetUvarint(<<>>) = Failed
  BY DEF GetString, GetUvarint

\* A failed reader and one with no data are spent.
LEMMA SpentRecord == Spent(Failed) /\ \A x : Spent([ok |-> TRUE, rest |-> <<>>, msg |-> x])
  BY DEF Spent, Failed

\* A reader that has failed stays so.
LEMMA ReadFailed == ASSUME NEW field PROVE ReadString(Failed, field) = Failed
<1>1. Failed.ok = FALSE
  BY DEF Failed
<1> QED BY <1>1 DEF ReadString

\* A spent reader stays spent.
LEMMA ReadSpent == ASSUME NEW r, Spent(r), NEW field PROVE Spent(ReadString(r, field))
<1>1. Failed.ok = FALSE /\ Spent(Failed)
  BY DEF Failed, Spent
<1>2. CASE r.ok = FALSE
  <2>1. ReadString(r, field) = Failed
    BY <1>1, <1>2 DEF ReadString
  <2> QED BY <1>1, <2>1
<1>3. CASE r.ok = TRUE
  <2>1. r.rest = <<>>
    BY <1>3 DEF Spent
  <2> DEFINE got == GetString(<<>>)
  <2>2. got.ok = TRUE /\ got.s = <<>> /\ got.n = 0
    BY GetNothing
  <2> HIDE DEF got
  <2>3. ReadString(r, field) =
          IF field = "id" THEN Failed
          ELSE [ok |-> TRUE, rest |-> SubSeq(<<>>, got.n + 1, Len(<<>>)),
                msg |-> [r.msg EXCEPT ![field] = got.s]]
    BY <1>3, <2>1, <2>2 DEF ReadString, got
  <2>4. SubSeq(<<>>, got.n + 1, Len(<<>>)) = <<>>
    BY <2>2, SubSeqEmpty
  <2>5. ReadString(r, field) = Failed
        \/ ReadString(r, field) = [ok |-> TRUE, rest |-> <<>>,
                                   msg |-> [r.msg EXCEPT ![field] = got.s]]
    BY <2>3, <2>4
  <2> QED BY <2>5, SpentRecord, Zenon
<1> QED BY <1>2, <1>3 DEF Spent

\* Reading a text that is there as a whole, cut off or missing.
LEMMA ReadStringCut ==
    ASSUME NEW m \in WireMessage, NEW F, NEW f \in Texts, Carried(m[f]), NEW b \in Seq(Nat),
           NEW k \in 0 .. Len(PutString(m[f])) + Len(b)
    PROVE  LET p == PutString(m[f])
               r == Reader(m, F, p \o b, k)
           IN  /\ k >= Len(p) => ReadString(r, f) = Reader(m, F \cup {f}, b, k - Len(p))
               /\ k > 0 /\ k < Len(p) => ReadString(r, f) = Failed
               /\ k = 0 /\ f # "id" /\ f \notin F =>
                    ReadString(r, f) = Ended(m, F)
               /\ k < Len(p) => Spent(ReadString(r, f))
<1> DEFINE s == m[f]
           p == PutString(s)
           data == SubSeq(p \o b, 1, k)
           r == Reader(m, F, p \o b, k)
           got == GetString(data)
<1>1. s \in Seq(Nat) /\ Carried(s) /\ s # <<>>
  BY TextType DEF Carried
<1>2. p \in Seq(Nat) /\ Len(p) \in Nat \ {0}
  <2> HIDE DEF s
  <2>1. p \in Seq(Nat)
    BY <1>1, PutStringShape, Zenon
  <2>2. Len(s) \in Nat \ {0} /\ \E head \in {1, 3} : Len(p) = head + Len(s)
    BY <1>1, PutStringShape, Zenon
  <2> HIDE DEF p
  <2> QED BY <2>1, <2>2
<1>3. k \in 0 .. Len(p) + Len(b) /\ k \in Nat
  <2>1. k \in 0 .. Len(p) + Len(b)
    OBVIOUS
  <2> HIDE DEF p
  <2> QED BY <1>2, <2>1
<1>4. /\ k = 0 => got = [ok |-> TRUE, s |-> <<>>, n |-> 0]
      /\ k > 0 /\ k < Len(p) => got = Failed
      /\ k >= Len(p) => got = [ok |-> TRUE, s |-> s, n |-> Len(p)]
  <2> HIDE DEF s
  <2> QED BY <1>1, <1>3, GetStringCut, Zenon
<1>5. /\ data \in Seq(Nat) /\ Len(data) = k
      /\ k >= Len(p) => SubSeq(data, Len(p) + 1, Len(data)) = SubSeq(b, 1, k - Len(p))
  <2> HIDE DEF p
  <2> QED BY <1>2, <1>3, Cut, Zenon
<1>6. r.ok = TRUE /\ r.rest = data /\ r.msg = Part(m, F)
  <2> HIDE DEF p
  <2> QED BY DEF Reader
<1> HIDE DEF data, got
<1>7. ReadString(r, f) =
        IF ~ got.ok \/ (f = "id" /\ got.s = <<>>) THEN Failed
        ELSE [ok |-> TRUE, rest |-> SubSeq(data, got.n + 1, Len(data)),
              msg |-> [Part(m, F) EXCEPT ![f] = got.s]]
  <2> HIDE DEF r
  <2> QED BY <1>6 DEF ReadString, got
<1>8. Failed.ok = FALSE /\ Spent(Failed)
  BY DEF Failed, Spent
<1> HIDE DEF s, p, r
<1>9. ASSUME k >= Len(p) PROVE ReadString(r, f) = Reader(m, F \cup {f}, b, k - Len(p))
  <2>1. got.ok = TRUE /\ got.s = s /\ got.n = Len(p)
    BY <1>4, <1>9
  <2>2. [Part(m, F) EXCEPT ![f] = s] = Part(m, F \cup {f})
    <3>1. f \in Fields
      BY DEF Fields
    <3> QED BY <3>1, PartExcept, Zenon DEF s
  <2>3. ReadString(r, f) = [ok |-> TRUE, rest |-> SubSeq(data, Len(p) + 1, Len(data)),
                            msg |-> [Part(m, F) EXCEPT ![f] = s]]
    BY <1>1, <1>7, <2>1
  <2> QED BY <1>5, <1>9, <2>2, <2>3 DEF Reader
<1>10. ASSUME k > 0, k < Len(p) PROVE ReadString(r, f) = Failed
  <2>1. got.ok = FALSE
    BY <1>4, <1>8, <1>10
  <2> QED BY <1>7, <2>1
<1>11. ASSUME k = 0
       PROVE  ReadString(r, f) = IF f = "id" THEN Failed
                 ELSE [ok |-> TRUE, rest |-> <<>>, msg |-> [Part(m, F) EXCEPT ![f] = <<>>]]
  <2>1. got.ok = TRUE /\ got.s = <<>> /\ got.n = 0
    BY <1>4, <1>11
  <2>2. data = <<>>
    BY <1>5, <1>11
  <2>3. SubSeq(data, 0 + 1, Len(data)) = <<>>
    BY <2>2, SubSeqEmpty
  <2> QED BY <1>7, <2>1, <2>3
<1>12. k = 0 /\ f # "id" /\ f \notin F =>
          ReadString(r, f) = Ended(m, F)
  BY <1>11, PartBlank DEF Ended
<1>13. ASSUME k < Len(p) PROVE Spent(ReadString(r, f))
  <2>1. CASE k = 0
    <3>1. ReadString(r, f) = Failed
          \/ ReadString(r, f) = [ok |-> TRUE, rest |-> <<>>,
                                 msg |-> [Part(m, F) EXCEPT ![f] = <<>>]]
      BY <1>11, <2>1
    <3> QED BY <3>1, SpentRecord, Zenon
  <2>2. CASE k > 0
    BY <1>8, <1>10, <1>13, <2>2
  <2> QED BY <1>3, <2>1, <2>2
<1> QED BY <1>9, <1>10, <1>12, <1>13, Zenon DEF s, p, r

\* The flag of an optional text tells whether it follows.
Flagged(m, f, flags, bit) ==
    f # "id" /\ (m[f] = <<>> \/ Carried(m[f])) /\ (HasFlag(flags, bit) <=> m[f] # <<>>)

\* Reading an optional text that is there as a whole, cut off or missing.
LEMMA ReadOptionalCut ==
    ASSUME NEW m \in WireMessage, NEW F, NEW f \in Texts, f \notin F, NEW b \in Seq(Nat),
           NEW k \in 0 .. Len(PutString(m[f])) + Len(b),
           NEW flags, NEW bit, Flagged(m, f, flags, bit)
    PROVE  LET p == PutString(m[f])
               q == ReadOptional(Reader(m, F, p \o b, k), f, flags, bit)
           IN  /\ k >= Len(p) => q = Reader(m, F \cup {f}, b, k - Len(p))
               /\ k > 0 /\ k < Len(p) => q = Failed
               /\ k = 0 /\ k < Len(p) => q = Ended(m, F)
               /\ k < Len(p) => Spent(q)
<1> DEFINE p == PutString(m[f])
           r == Reader(m, F, p \o b, k)
           q == ReadOptional(r, f, flags, bit)
<1>1. m[f] \in Seq(Nat)
  BY TextType
<1>2. f # "id" /\ (m[f] = <<>> \/ Carried(m[f])) /\ (HasFlag(flags, bit) <=> m[f] # <<>>)
  BY Zenon DEF Flagged
<1>3. CASE m[f] = <<>>
  <2>1. q = r
    BY <1>3, <1>2, Zenon DEF ReadOptional
  <2>2. p = <<>> /\ <<>> \o b = b
    BY <1>3 DEF PutString
  <2>3. p \o b = b /\ Len(p) = 0 /\ p \in Seq(Nat)
    BY <2>2
  <2>4. k \in 0 .. Len(p) + Len(b)
    OBVIOUS
  <2>5. Part(m, F) = Part(m, F \cup {f})
    <3> HIDE DEF p, r, q
    <3>1. Blank[f] = m[f]
      BY <1>3, BlankTexts
    <3> QED BY <3>1 DEF Part
  <2>6. r = Reader(m, F, b, k)
    BY <2>3, Zenon
  <2> HIDE DEF p, r, q
  <2>7. q = Reader(m, F \cup {f}, b, k)
    BY <2>1, <2>5, <2>6, Zenon DEF Reader
  <2>8. k \in Nat /\ k - Len(p) = k /\ ~ (k < Len(p))
    BY <2>3, <2>4
  <2> QED BY <2>3, <2>7, <2>8 DEF p, r, q
<1>4. CASE m[f] # <<>>
  <2>1. q = ReadString(r, f)
    BY <1>4, <1>2, Zenon DEF ReadOptional
  <2>2. Carried(m[f])
    BY <1>4, <1>2
  <2>3. p \in Seq(Nat) /\ Len(p) \in Nat
    <3>1. p \in Seq(Nat)
      BY <1>1, <2>2, PutStringShape, Zenon
    <3> HIDE DEF p
    <3> QED BY <3>1
  <2>4. /\ k >= Len(p) => ReadString(r, f) = Reader(m, F \cup {f}, b, k - Len(p))
        /\ k > 0 /\ k < Len(p) => ReadString(r, f) = Failed
        /\ k = 0 => ReadString(r, f) = Ended(m, F)
        /\ k < Len(p) => Spent(ReadString(r, f))
    BY <1>2, <2>2, ReadStringCut, ZenonT(30)
  <2> HIDE DEF p, r, q
  <2> QED BY <2>1, <2>3, <2>4, Zenon DEF p, r, q
<1> QED BY <1>3, <1>4

\* A reader that has failed stays so.
LEMMA OptionalFailed ==
    ASSUME NEW f, NEW flags, NEW bit
    PROVE  ReadOptional(Failed, f, flags, bit) = Failed
  BY ReadFailed DEF ReadOptional

\* A spent reader stays spent.
LEMMA OptionalSpent ==
    ASSUME NEW r, Spent(r), NEW f, NEW flags, NEW bit PROVE Spent(ReadOptional(r, f, flags, bit))
  BY ReadSpent DEF ReadOptional

\* An optional text that the data ends before stays empty.
LEMMA OptionalNothing ==
    ASSUME NEW m, NEW F, NEW f \in Texts, f # "id", f \notin F, NEW flags, NEW bit,
           NEW r, r = Ended(m, F)
    PROVE  ReadOptional(r, f, flags, bit) = r
<1> DEFINE got == GetString(<<>>)
<1>1. got.ok = TRUE /\ got.s = <<>> /\ got.n = 0
  BY GetNothing
<1>2. r.ok = TRUE /\ r.rest = <<>> /\ r.msg = Part(m, F)
  BY DEF Ended
<1> HIDE DEF got
<1>3. ReadString(r, f) = [ok |-> TRUE, rest |-> SubSeq(<<>>, 0 + 1, Len(<<>>)),
                          msg |-> [Part(m, F) EXCEPT ![f] = <<>>]]
  BY <1>1, <1>2 DEF ReadString, got
<1>4. SubSeq(<<>>, 0 + 1, Len(<<>>)) = <<>>
  BY SubSeqEmpty
<1>5. [Part(m, F) EXCEPT ![f] = <<>>] = Part(m, F)
  BY PartBlank, Zenon
<1>6. ReadString(r, f) = r
  BY <1>3, <1>4, <1>5 DEF Ended
<1> QED BY <1>6, Zenon DEF ReadOptional

\* Every timestamp has a code, and comes back from it.
LEMMA ZigzagInverse == ASSUME NEW v \in Int PROVE Zigzag(v) \in Nat /\ Unzigzag(Zigzag(v)) = v
<1>1. CASE v >= 0
  BY <1>1 DEF Zigzag, Unzigzag
<1>2. CASE ~ (v >= 0)
  <2>1. Zigzag(v) = -2 * v - 1
    BY <1>2 DEF Zigzag
  <2>2. (-2 * v - 1) % 2 = 1 /\ ((-2 * v - 1) + 1) \div 2 = -v /\ -2 * v - 1 \in Nat
    BY <1>2
  <2> QED BY <2>1, <2>2 DEF Unzigzag
<1> QED BY <1>1, <1>2

\* Clamp leaves a byte alone.
LEMMA ClampByte == ASSUME NEW n \in 0 .. Top PROVE Clamp(n) = n /\ n \in Nat
<1>1. n \in Nat /\ n < Base /\ ~ (n > Top)
  BY Bytes
<1>2. n % Base = n
  BY <1>1, Bytes, Quotient
<1> QED BY <1>1, <1>2 DEF Clamp

\* The three numbers of a message.
Numbers == {"timestamp", "ttl", "hops"}

\* Reading the three numbers adds them to the part.
LEMMA PartNumbers ==
    ASSUME NEW m, NEW F
    PROVE  [Part(m, F) EXCEPT !.timestamp = m.timestamp, !.ttl = m.ttl, !.hops = m.hops]
             = Part(m, F \cup Numbers)
  BY DEF Part, Fields, Copies, Numbers

\* A spent reader has no numbers to read.
LEMMA NumbersSpent == ASSUME NEW r, Spent(r) PROVE ReadNumbers(r) = Failed
<1>1. Failed.ok = FALSE
  BY DEF Failed
<1>2. CASE r.ok = FALSE
  BY <1>1, <1>2 DEF ReadNumbers
<1>3. CASE r.ok = TRUE
  <2>1. GetUvarint(r.rest) = Failed
    BY <1>3, GetNothing DEF Spent
  <2> QED BY <1>1, <1>3, <2>1 DEF ReadNumbers
<1> QED BY <1>2, <1>3 DEF Spent

\* Reading the three numbers, which are there as a whole or cut off.
LEMMA ReadNumbersCut ==
    ASSUME NEW m \in WireMessage, m.ttl \in 0 .. Top, m.hops \in 0 .. Top, NEW F,
           NEW b \in Seq(Nat),
           NEW k \in 0 .. Len(PutUvarint[Zigzag(m.timestamp)]) + 2 + Len(b)
    PROVE  LET p == PutUvarint[Zigzag(m.timestamp)]
               t == <<Clamp(m.ttl), Clamp(m.hops)>>
               q == ReadNumbers(Reader(m, F, p \o (t \o b), k))
           IN  /\ p \in Seq(Nat) /\ Len(p) \in Nat /\ t \in Seq(Nat) /\ Len(t) = 2
               /\ k >= Len(p) + 2 => q = Reader(m, F \cup Numbers, b, k - (Len(p) + 2))
               /\ k < Len(p) + 2 => q = Failed
<1> DEFINE z == Zigzag(m.timestamp)
           p == PutUvarint[z]
           t == <<Clamp(m.ttl), Clamp(m.hops)>>
           e == t \o b
           data == SubSeq(p \o e, 1, k)
           r == Reader(m, F, p \o e, k)
           ts == GetUvarint(data)
           left == SubSeq(data, Len(p) + 1, Len(data))
<1>1. m.timestamp \in Int /\ z \in Nat /\ Unzigzag(z) = m.timestamp
  BY ZigzagInverse DEF WireMessage
<1>2. Clamp(m.ttl) = m.ttl /\ Clamp(m.hops) = m.hops
  BY ClampByte, Zenon
<1>3. t \in Seq(Nat) /\ Len(t) = 2 /\ t[1] = m.ttl /\ t[2] = m.hops
  BY <1>2, Bytes
<1>4. p \in Seq(Nat) /\ Len(p) \in Nat
  <2> HIDE DEF z
  <2> QED BY <1>1, UvarintShape
<1>5. k \in 0 .. Len(p) + 2 + Len(b) /\ k \in Nat
  <2>1. k \in 0 .. Len(p) + 2 + Len(b)
    OBVIOUS
  <2> HIDE DEF p
  <2> QED BY <1>4, <2>1
<1> HIDE DEF t
<1>6. e \in Seq(Nat) /\ Len(e) = 2 + Len(b)
  <2>1. e \in Seq(Nat) /\ Len(e) = Len(t) + Len(b)
    BY <1>3, Concat, Zenon
  <2> QED BY <1>3, <2>1, Zenon
<1>7. k \in 0 .. Len(p) + Len(e)
  <2> HIDE DEF p, e
  <2> QED BY <1>4, <1>5, <1>6
<1> HIDE DEF e
<1>8. /\ k < Len(p) => ts = Failed
      /\ k >= Len(p) => ts = [ok |-> TRUE, n |-> Len(p), v |-> z]
  <2> HIDE DEF z
  <2> QED BY <1>1, <1>6, <1>7, GetUvarintCut, Zenon
<1> HIDE DEF p
<1>9. /\ data \in Seq(Nat) /\ Len(data) = k
      /\ k >= Len(p) => left = SubSeq(e, 1, k - Len(p))
  BY <1>4, <1>6, <1>7, Cut, Zenon
<1>10. r.ok = TRUE /\ r.rest = data /\ r.msg = Part(m, F)
  BY DEF Reader
<1> HIDE DEF data, r
<1>11. Failed.ok = FALSE
  BY DEF Failed
<1>12. ASSUME k < Len(p) PROVE ReadNumbers(r) = Failed
  <2>1. ts = Failed
    BY <1>8, <1>12
  <2> QED BY <1>10, <1>11, <2>1 DEF ReadNumbers, ts
<1>13. ASSUME k >= Len(p)
       PROVE  ReadNumbers(r) =
                IF Len(left) < 2 THEN Failed
                ELSE [ok |-> TRUE, rest |-> SubSeq(left, 3, Len(left)),
                      msg |-> [Part(m, F) EXCEPT !.timestamp = m.timestamp,
                                                 !.ttl = left[1], !.hops = left[2]]]
  <2> HIDE DEF ts, left, z
  <2>1. ts.ok = TRUE /\ ts.n = Len(p) /\ ts.v = z
    BY <1>8, <1>13
  <2> QED BY <1>1, <1>10, <2>1 DEF ReadNumbers, ts, left
<1> HIDE DEF left
<1>14. ASSUME k >= Len(p)
       PROVE  /\ left \in Seq(Nat) /\ Len(left) = k - Len(p)
              /\ k >= Len(p) + 2 => /\ left[1] = m.ttl /\ left[2] = m.hops
                                    /\ SubSeq(left, 3, Len(left)) = SubSeq(b, 1, k - (Len(p) + 2))
  <2> DEFINE j == k - Len(p)
  <2>1. j \in 0 .. Len(t) + Len(b) /\ j \in Nat
    BY <1>3, <1>4, <1>5, <1>14
  <2>2. left = SubSeq(t \o b, 1, j)
    BY <1>9, <1>14 DEF e
  <2>3. j - 2 = k - (Len(p) + 2) /\ (k >= Len(p) + 2 <=> j >= 2)
    BY <1>4, <1>5
  <2>4. Len(t) = 2
    BY <1>3
  <2> HIDE DEF j
  <2>5. /\ left \in Seq(Nat) /\ Len(left) = j
        /\ \A i \in 1 .. j : i <= Len(t) => left[i] = t[i]
        /\ j >= Len(t) => SubSeq(left, Len(t) + 1, Len(left)) = SubSeq(b, 1, j - Len(t))
    <3> DEFINE d == SubSeq(t \o b, 1, j)
    <3>1. /\ d \in Seq(Nat) /\ Len(d) = j
          /\ \A i \in 1 .. j : i <= Len(t) => d[i] = t[i]
          /\ j >= Len(t) => SubSeq(d, Len(t) + 1, Len(d)) = SubSeq(b, 1, j - Len(t))
      BY <1>3, <2>1, Cut, Zenon
    <3>2. left = d
      BY <2>2, Zenon
    <3> HIDE DEF d
    <3> QED BY <3>1, <3>2, Zenon
  <2>6. ASSUME j >= 2
        PROVE  left[1] = m.ttl /\ left[2] = m.hops
               /\ SubSeq(left, 3, Len(left)) = SubSeq(b, 1, j - 2)
    <3>1. 1 \in 1 .. j /\ 2 \in 1 .. j
      BY <2>1, <2>6
    <3> QED BY <1>3, <2>4, <2>5, <2>6, <3>1, SMTT(30)
  <2> QED BY <2>3, <2>5, <2>6 DEF j
<1>15. ASSUME k >= Len(p) + 2
       PROVE  ReadNumbers(r) = Reader(m, F \cup Numbers, b, k - (Len(p) + 2))
  <2>1. k >= Len(p) /\ ~ (k - Len(p) < 2)
    BY <1>4, <1>5, <1>15
  <2>2. ReadNumbers(r) = [ok |-> TRUE, rest |-> SubSeq(b, 1, k - (Len(p) + 2)),
                          msg |-> [Part(m, F) EXCEPT !.timestamp = m.timestamp,
                                                     !.ttl = m.ttl, !.hops = m.hops]]
    BY <1>13, <1>14, <1>15, <2>1
  <2> QED BY <2>2, PartNumbers DEF Reader
<1>16. ASSUME k < Len(p) + 2 PROVE ReadNumbers(r) = Failed
  <2>1. CASE k < Len(p)
    BY <1>12, <2>1
  <2>2. CASE ~ (k < Len(p))
    <3>1. k >= Len(p) /\ k - Len(p) < 2
      BY <1>4, <1>5, <1>16, <2>2
    <3> QED BY <1>13, <1>14, <3>1
  <2> QED BY <2>1, <2>2
<1> QED BY <1>3, <1>4, <1>15, <1>16, Zenon DEF r, e, t, p

\* The encoding of a message, from each field on.
TypeText(m)       == IF IsShort(m.type) THEN <<>> ELSE PutString(m.type)
AfterNonce(m)     == PutString(m.keyID) \o <<>>
AfterNumbers(m)   == PutString(m.nonce) \o AfterNonce(m)
AfterTime(m)      == <<Clamp(m.ttl), Clamp(m.hops)>> \o AfterNumbers(m)
AfterPayload(m)   == PutUvarint[Zigzag(m.timestamp)] \o AfterTime(m)
AfterRecipient(m) == PutString(m.payload) \o AfterPayload(m)
AfterNick(m)      == PutString(m.recipient) \o AfterRecipient(m)
AfterSender(m)    == PutString(m.nick) \o AfterNick(m)
AfterId(m)        == PutString(m.sender) \o AfterSender(m)
AfterType(m)      == PutString(m.id) \o AfterId(m)
AfterFlags(m)     == TypeText(m) \o AfterType(m)

\* An encoded string is a sequence of numbers.
LEMMA PutStringType == ASSUME NEW s \in Seq(Nat) PROVE PutString(s) \in Seq(Nat)
<1>1. Len(s) \in Nat /\ <<>> \in Seq(Nat)
  OBVIOUS
<1>2. Len(s) % Base \in Nat /\ (Len(s) \div Base) % Base \in Nat
  BY <1>1, Bytes, Quotient
<1>3. <<Len(s)>> \in Seq(Nat) /\ <<Top, (Len(s) \div Base) % Base, Len(s) % Base>> \in Seq(Nat)
  BY <1>1, <1>2, Bytes
<1>4. <<Len(s)>> \o s \in Seq(Nat)
      /\ <<Top, (Len(s) \div Base) % Base, Len(s) % Base>> \o s \in Seq(Nat)
  BY <1>3, Concat, Zenon
<1> QED BY <1>1, <1>4, Zenon DEF PutString

\* Concatenation is associative.
LEMMA Assoc ==
    ASSUME NEW a \in Seq(Nat), NEW b \in Seq(Nat), NEW c \in Seq(Nat)
    PROVE  (a \o b) \o c = a \o (b \o c)
  BY ConcatAssociative

\* Clamp gives a number.
LEMMA ClampType == ASSUME NEW n \in Nat PROVE Clamp(n) \in Nat
<1>1. (IF n > Top THEN Top ELSE n) \in Nat
  BY Bytes
<1> QED BY <1>1, Bytes, Quotient DEF Clamp

\* The code of a type, and the type of a code.
LEMMA TypeCodes ==
    ASSUME NEW type
    PROVE  /\ IsShort(type) => TypeCode(type) \in 0 .. 5 /\ ShortType[TypeCode(type) + 1] = type
           /\ ~ IsShort(type) => TypeCode(type) = 15
<1>1. DOMAIN ShortType = 1 .. 6
  BY DEF ShortType
<1> DEFINE i == CHOOSE j \in DOMAIN ShortType : ShortType[j] = type
<1>2. ASSUME IsShort(type) PROVE i \in 1 .. 6 /\ ShortType[i] = type
  <2>1. \E j \in DOMAIN ShortType : ShortType[j] = type
    BY <1>2, Zenon DEF IsShort, Range
  <2> QED BY <1>1, <2>1
<1> HIDE DEF i
<1>3. ASSUME IsShort(type) PROVE TypeCode(type) = i - 1
  BY <1>3, Zenon DEF TypeCode, i
<1>4. ASSUME IsShort(type) PROVE TypeCode(type) \in 0 .. 5 /\ TypeCode(type) + 1 = i
  BY <1>2, <1>3, <1>4
<1>5. ASSUME ~ IsShort(type) PROVE TypeCode(type) = 15
  BY <1>5, Zenon DEF TypeCode, LongForm
<1> QED BY <1>2, <1>4, <1>5

\* The two halves of the first byte: the type code and the four flags.  No
\* type code makes it the opening brace.
LEMMA FlagsHalves ==
    ASSUME NEW m
    PROVE  /\ FlagsByte(m) \in Nat /\ FlagsByte(m) # Brace
           /\ FlagsByte(m) \div 16 = TypeCode(m.type)
           /\ HasFlag(FlagsByte(m) % 16, 1) <=> m.nick # <<>>
           /\ HasFlag(FlagsByte(m) % 16, 2) <=> m.recipient # <<>>
           /\ HasFlag(FlagsByte(m) % 16, 4) <=> m.nonce # <<>>
           /\ HasFlag(FlagsByte(m) % 16, 8) <=> m.keyID # <<>>
<1> DEFINE t == TypeCode(m.type)
           a == Flag(m.nick, 1)
           b == Flag(m.recipient, 2)
           c == Flag(m.nonce, 4)
           d == Flag(m.keyID, 8)
           x == 16 * t + a + b + c + d
<1>1. t \in 0 .. 5 \/ t = 15
  BY TypeCodes, Zenon
<1>2. /\ a \in {0, 1} /\ (a = 1 <=> m.nick # <<>>)
      /\ b \in {0, 2} /\ (b = 2 <=> m.recipient # <<>>)
      /\ c \in {0, 4} /\ (c = 4 <=> m.nonce # <<>>)
      /\ d \in {0, 8} /\ (d = 8 <=> m.keyID # <<>>)
  BY DEF Flag
<1>3. FlagsByte(m) = x
  BY DEF FlagsByte
<1> HIDE DEF t, a, b, c, d
<1>4. x \in Nat /\ x # 123 /\ x \div 16 = t /\ x % 16 = a + b + c + d
  <2> DEFINE y == a + b + c + d
  <2>1. y \in 0 .. 15 /\ x = 16 * t + y /\ t \in Nat
    BY <1>1, <1>2, SMTT(30)
  <2> HIDE DEF x, y
  <2>2. x \in Nat /\ x \div 16 = t /\ x % 16 = y
    BY <2>1
  <2>3. x # 123
    BY <1>1, <2>1
  <2> QED BY <2>2, <2>3 DEF y
<1> HIDE DEF x
<1>5. /\ (((a + b + c + d) \div 1) % 2 = 1 <=> a = 1)
      /\ (((a + b + c + d) \div 2) % 2 = 1 <=> b = 2)
      /\ (((a + b + c + d) \div 4) % 2 = 1 <=> c = 4)
      /\ (((a + b + c + d) \div 8) % 2 = 1 <=> d = 8)
  BY <1>2
<1> QED BY <1>2, <1>3, <1>4, <1>5 DEF HasFlag, Brace, t

\* Marshal writes the flags and then field after field.
LEMMA MarshalFields ==
    ASSUME NEW m \in WireMessage
    PROVE  /\ Marshal(m) = <<FlagsByte(m)>> \o AfterFlags(m) /\ <<FlagsByte(m)>> \in Seq(Nat)
           /\ TypeText(m) \in Seq(Nat)
           /\ AfterFlags(m) \in Seq(Nat) /\ AfterType(m) \in Seq(Nat) /\ AfterId(m) \in Seq(Nat)
           /\ AfterSender(m) \in Seq(Nat) /\ AfterNick(m) \in Seq(Nat)
           /\ AfterRecipient(m) \in Seq(Nat) /\ AfterPayload(m) \in Seq(Nat)
           /\ AfterNumbers(m) \in Seq(Nat) /\ AfterNonce(m) \in Seq(Nat)
<1> DEFINE
      x1 == <<FlagsByte(m)>>
      x2 == TypeText(m)
      x3 == PutString(m.id)
      x4 == PutString(m.sender)
      x5 == PutString(m.nick)
      x6 == PutString(m.recipient)
      x7 == PutString(m.payload)
      x8 == PutUvarint[Zigzag(m.timestamp)]
      x9 == <<Clamp(m.ttl), Clamp(m.hops)>>
      x10 == PutString(m.nonce)
      x11 == PutString(m.keyID)
      l1 == x1
      l2 == l1 \o x2
      l3 == l2 \o x3
      l4 == l3 \o x4
      l5 == l4 \o x5
      l6 == l5 \o x6
      l7 == l6 \o x7
      l8 == l7 \o x8
      l9 == l8 \o x9
      l10 == l9 \o x10
      l11 == l10 \o x11
      t11 == <<>>
      t10 == x11 \o t11
      t9 == x10 \o t10
      t8 == x9 \o t9
      t7 == x8 \o t8
      t6 == x7 \o t7
      t5 == x6 \o t6
      t4 == x5 \o t5
      t3 == x4 \o t4
      t2 == x3 \o t3
      t1 == x2 \o t2
<1>1. /\ m.type \in Seq(Nat) /\ m.id \in Seq(Nat) /\ m.sender \in Seq(Nat) /\ m.nick \in Seq(Nat)
      /\ m.recipient \in Seq(Nat) /\ m.payload \in Seq(Nat) /\ m.timestamp \in Int
      /\ m.ttl \in Nat /\ m.hops \in Nat /\ m.nonce \in Seq(Nat) /\ m.keyID \in Seq(Nat)
  BY DEF WireMessage
<1>2. x1 \in Seq(Nat)
  BY FlagsHalves
<1>3. x2 \in Seq(Nat)
  <2>1. <<>> \in Seq(Nat)
    OBVIOUS
  <2> QED BY <1>1, <2>1, PutStringType, Zenon DEF TypeText
<1>4. x3 \in Seq(Nat) /\ x4 \in Seq(Nat) /\ x5 \in Seq(Nat) /\ x6 \in Seq(Nat) /\ x7 \in Seq(Nat)
      /\ x10 \in Seq(Nat) /\ x11 \in Seq(Nat)
  BY <1>1, PutStringType, Zenon
<1>5. x8 \in Seq(Nat)
  <2>1. Zigzag(m.timestamp) \in Nat
    BY <1>1, ZigzagInverse
  <2> QED BY <2>1, UvarintShape, Zenon
<1>6. x9 \in Seq(Nat)
  <2>1. Clamp(m.ttl) \in Nat /\ Clamp(m.hops) \in Nat
    BY <1>1, ClampType, Zenon
  <2> QED BY <2>1
<1>7. Marshal(m) = l11
  BY Zenon DEF Marshal, TypeText
<1>8. /\ AfterNonce(m) = t10 /\ AfterNumbers(m) = t9 /\ AfterTime(m) = t8
      /\ AfterPayload(m) = t7 /\ AfterRecipient(m) = t6 /\ AfterNick(m) = t5
      /\ AfterSender(m) = t4 /\ AfterId(m) = t3 /\ AfterType(m) = t2 /\ AfterFlags(m) = t1
  BY Zenon DEF AfterNonce, AfterNumbers, AfterTime, AfterPayload, AfterRecipient, AfterNick,
               AfterSender, AfterId, AfterType, AfterFlags
<1>9. TypeText(m) = x2
  OBVIOUS
<1> HIDE DEF x1, x2, x3, x4, x5, x6, x7, x8, x9, x10, x11
<1>10. t11 \in Seq(Nat) /\ l1 \in Seq(Nat)
  BY <1>2
<1>11. l2 \in Seq(Nat)
  BY <1>10, <1>3, Concat, Zenon
<1>12. l3 \in Seq(Nat)
  BY <1>11, <1>4, Concat, Zenon
<1>13. l4 \in Seq(Nat)
  BY <1>12, <1>4, Concat, Zenon
<1>14. l5 \in Seq(Nat)
  BY <1>13, <1>4, Concat, Zenon
<1>15. l6 \in Seq(Nat)
  BY <1>14, <1>4, Concat, Zenon
<1>16. l7 \in Seq(Nat)
  BY <1>15, <1>4, Concat, Zenon
<1>17. l8 \in Seq(Nat)
  BY <1>16, <1>5, Concat, Zenon
<1>18. l9 \in Seq(Nat)
  BY <1>17, <1>6, Concat, Zenon
<1>19. l10 \in Seq(Nat)
  BY <1>18, <1>4, Concat, Zenon
<1>20. l11 \in Seq(Nat)
  BY <1>19, <1>4, Concat, Zenon
<1>21. t10 \in Seq(Nat)
  BY <1>10, <1>4, Concat, Zenon
<1>22. t9 \in Seq(Nat)
  BY <1>21, <1>4, Concat, Zenon
<1>23. t8 \in Seq(Nat)
  BY <1>22, <1>6, Concat, Zenon
<1>24. t7 \in Seq(Nat)
  BY <1>23, <1>5, Concat, Zenon
<1>25. t6 \in Seq(Nat)
  BY <1>24, <1>4, Concat, Zenon
<1>26. t5 \in Seq(Nat)
  BY <1>25, <1>4, Concat, Zenon
<1>27. t4 \in Seq(Nat)
  BY <1>26, <1>4, Concat, Zenon
<1>28. t3 \in Seq(Nat)
  BY <1>27, <1>4, Concat, Zenon
<1>29. t2 \in Seq(Nat)
  BY <1>28, <1>4, Concat, Zenon
<1>30. t1 \in Seq(Nat)
  BY <1>29, <1>3, Concat, Zenon
<1>31. l11 = l11 \o t11
  <2> HIDE DEF l11
  <2> QED BY <1>20
<1>32. l11 \o t11 = l10 \o t10
  <2>1. x11 \in Seq(Nat)
    BY <1>4
  <2>2. t11 \in Seq(Nat)
    BY <1>10
  <2> HIDE DEF l10, t11
  <2> QED BY <1>19, <2>1, <2>2, Assoc, Zenon
<1>33. l10 \o t10 = l9 \o t9
  <2>1. x10 \in Seq(Nat)
    BY <1>4
  <2>2. t10 \in Seq(Nat)
    BY <1>21
  <2> HIDE DEF l9, t10
  <2> QED BY <1>18, <2>1, <2>2, Assoc, Zenon
<1>34. l9 \o t9 = l8 \o t8
  <2>1. x9 \in Seq(Nat)
    BY <1>6
  <2>2. t9 \in Seq(Nat)
    BY <1>22
  <2> HIDE DEF l8, t9
  <2> QED BY <1>17, <2>1, <2>2, Assoc, Zenon
<1>35. l8 \o t8 = l7 \o t7
  <2>1. x8 \in Seq(Nat)
    BY <1>5
  <2>2. t8 \in Seq(Nat)
    BY <1>23
  <2> HIDE DEF l7, t8
  <2> QED BY <1>16, <2>1, <2>2, Assoc, Zenon
<1>36. l7 \o t7 = l6 \o t6
  <2>1. x7 \in Seq(Nat)
    BY <1>4
  <2>2. t7 \in Seq(Nat)
    BY <1>24
  <2> HIDE DEF l6, t7
  <2> QED BY <1>15, <2>1, <2>2, Assoc, Zenon
<1>37. l6 \o t6 = l5 \o t5
  <2>1. x6 \in Seq(Nat)
    BY <1>4
  <2>2. t6 \in Seq(Nat)
    BY <1>25
  <2> HIDE DEF l5, t6
  <2> QED BY <1>14, <2>1, <2>2, Assoc, Zenon
<1>38. l5 \o t5 = l4 \o t4
  <2>1. x5 \in Seq(Nat)
    BY <1>4
  <2>2. t5 \in Seq(Nat)
    BY <1>26
  <2> HIDE DEF l4, t5
  <2> QED BY <1>13, <2>1, <2>2, Assoc, Zenon
<1>39. l4 \o t4 = l3 \o t3
  <2>1. x4 \in Seq(Nat)
    BY <1>4
  <2>2. t4 \in Seq(Nat)
    BY <1>27
  <2> HIDE DEF l3, t4
  <2> QED BY <1>12, <2>1, <2>2, Assoc, Zenon
<1>40. l3 \o t3 = l2 \o t2
  <2>1. x3 \in Seq(Nat)
    BY <1>4
  <2>2. t3 \in Seq(Nat)
    BY <1>28
  <2> HIDE DEF l2, t3
  <2> QED BY <1>11, <2>1, <2>2, Assoc, Zenon
<1>41. l2 \o t2 = l1 \o t1
  <2>1. x2 \in Seq(Nat)
    BY <1>3
  <2>2. t2 \in Seq(Nat)
    BY <1>29
  <2> HIDE DEF l1, t2
  <2> QED BY <1>10, <2>1, <2>2, Assoc, Zenon
<1> HIDE DEF l2, l3, l4, l5, l6, l7, l8, l9, l10, l11, t1, t2, t3, t4, t5, t6, t7, t8, t9, t10, t11
<1>42. Marshal(m) = l1 \o t1
  BY <1>7, <1>31, <1>32, <1>33, <1>34, <1>35, <1>36, <1>37, <1>38, <1>39, <1>40, <1>41, Zenon
<1> QED
  BY <1>2, <1>3, <1>8, <1>9, <1>42, <1>30, <1>29, <1>28, <1>27, <1>26, <1>25, <1>24,
     <1>23, <1>22, <1>21, Zenon DEF x1, l1

\* The last d bytes are missing: a reader that is to read b next has the rest
\* of it, or its data has ended before.
Stage(m, r, F, b, d) ==
    /\ d <= Len(b) => r = Reader(m, F, b, Len(b) - d)
    /\ d > Len(b) => Spent(r)

\* Reading a text that is always written takes a reader to its next stage.
LEMMA StageString ==
    ASSUME NEW m \in WireMessage, NEW F, NEW f \in Texts, Carried(m[f]), NEW b \in Seq(Nat),
           NEW d \in Nat,
           NEW r, Stage(m, r, F, PutString(m[f]) \o b, d)
    PROVE  Stage(m, ReadString(r, f), F \cup {f}, b, d)
<1> DEFINE p == PutString(m[f])
           k == Len(p) + Len(b) - d
<1>1. p \in Seq(Nat)
  BY TextType, PutStringType, Zenon
<1>2. Len(p \o b) = Len(p) + Len(b)
  BY <1>1, Concat, Zenon
<1>3. Stage(m, r, F, p \o b, d)
  OBVIOUS
<1> HIDE DEF p
<1>4. Len(p) \in Nat /\ Len(b) \in Nat
  BY <1>1
<1>5. CASE d <= Len(p) + Len(b)
  <2>1. k \in 0 .. Len(p) + Len(b)
    BY <1>4, <1>5
  <2>2. r = Reader(m, F, p \o b, k)
    BY <1>2, <1>3, <1>5 DEF Stage
  <2>3. k - Len(p) = Len(b) - d /\ (k >= Len(p) <=> d <= Len(b)) /\ (k < Len(p) <=> d > Len(b))
    BY <1>4
  <2> HIDE DEF k
  <2>4. /\ k >= Len(p) => ReadString(r, f) = Reader(m, F \cup {f}, b, k - Len(p))
        /\ k < Len(p) => Spent(ReadString(r, f))
    BY <2>1, <2>2, ReadStringCut, Zenon DEF p
  <2> QED BY <2>3, <2>4 DEF Stage
<1>6. CASE d > Len(p) + Len(b)
  <2>1. Spent(r) /\ d > Len(b) /\ ~ (d <= Len(b))
    BY <1>2, <1>3, <1>4, <1>6 DEF Stage
  <2> QED BY <2>1, ReadSpent DEF Stage
<1> QED BY <1>4, <1>5, <1>6

\* The reader r is to read the optional text f and then b.
Awaits(m, r, F, f, b, d, flags, bit) ==
    /\ m \in WireMessage /\ f \in Texts /\ f \notin F /\ b \in Seq(Nat) /\ d \in Nat
    /\ Flagged(m, f, flags, bit) /\ Stage(m, r, F, PutString(m[f]) \o b, d)

\* Reading an optional text takes a reader to its next stage; when the text is
\* cut off or missing, the reader fails or ends without it.
LEMMA StageOptional ==
    ASSUME NEW m, NEW r, NEW F, NEW f, NEW b, NEW d, NEW flags, NEW bit,
           Awaits(m, r, F, f, b, d, flags, bit)
    PROVE  LET q == ReadOptional(r, f, flags, bit)
           IN  /\ Stage(m, q, F \cup {f}, b, d)
               /\ d > Len(b) /\ d <= Len(PutString(m[f]) \o b) => q = Failed \/ q = Ended(m, F)
<1>1. /\ m \in WireMessage /\ f \in Texts /\ f \notin F /\ b \in Seq(Nat) /\ d \in Nat
      /\ Flagged(m, f, flags, bit) /\ Stage(m, r, F, PutString(m[f]) \o b, d)
  BY Zenon DEF Awaits
<1> DEFINE p == PutString(m[f])
           k == Len(p) + Len(b) - d
           q == ReadOptional(r, f, flags, bit)
<1>2. p \in Seq(Nat)
  BY <1>1, TextType, PutStringType, Zenon
<1>3. Len(p \o b) = Len(p) + Len(b)
  BY <1>1, <1>2, Concat, Zenon
<1>4. Stage(m, r, F, p \o b, d)
  BY <1>1, Zenon
<1> HIDE DEF p
<1>5. Len(p) \in Nat /\ Len(b) \in Nat
  BY <1>1, <1>2
<1>6. CASE d <= Len(p) + Len(b)
  <2>1. k \in 0 .. Len(p) + Len(b)
    BY <1>1, <1>5, <1>6
  <2>2. k > 0 \/ k = 0
    BY <1>1, <1>5, <1>6
  <2>3. r = Reader(m, F, p \o b, k)
    <3>1. d <= Len(p \o b) /\ Len(p \o b) - d = k
      BY <1>1, <1>3, <1>5, <1>6
    <3> QED BY <1>4, <3>1, Zenon DEF Stage
  <2>4. k - Len(p) = Len(b) - d /\ (k >= Len(p) <=> d <= Len(b)) /\ (k < Len(p) <=> d > Len(b))
    BY <1>1, <1>5
  <2> HIDE DEF k
  <2> DEFINE o == ReadOptional(Reader(m, F, p \o b, k), f, flags, bit)
  <2>5. /\ k >= Len(p) => o = Reader(m, F \cup {f}, b, k - Len(p))
        /\ k > 0 /\ k < Len(p) => o = Failed
        /\ k = 0 /\ k < Len(p) => o = Ended(m, F)
        /\ k < Len(p) => Spent(o)
    BY <1>1, <2>1, ReadOptionalCut, Zenon DEF p
  <2>6. q = o
    BY <2>3, Zenon
  <2> HIDE DEF o, q
  <2>7. /\ k >= Len(p) => q = Reader(m, F \cup {f}, b, k - Len(p))
        /\ k > 0 /\ k < Len(p) => q = Failed
        /\ k = 0 /\ k < Len(p) => q = Ended(m, F)
        /\ k < Len(p) => Spent(q)
    BY <2>5, <2>6, Zenon
  <2>8. Stage(m, q, F \cup {f}, b, d)
    BY <1>1, <2>4, <2>7 DEF Stage
  <2>9. d > Len(b) => q = Failed \/ q = Ended(m, F)
    BY <1>1, <2>2, <2>4, <2>7
  <2> QED BY <2>8, <2>9, Zenon DEF q, p
<1>7. CASE d > Len(p) + Len(b)
  <2>1. Spent(r) /\ d > Len(b) /\ ~ (d <= Len(b)) /\ ~ (d <= Len(p \o b))
    BY <1>1, <1>3, <1>4, <1>5, <1>7 DEF Stage
  <2>2. Spent(q)
    BY <2>1, OptionalSpent, Zenon
  <2> HIDE DEF q
  <2>3. Stage(m, q, F \cup {f}, b, d)
    BY <2>1, <2>2, Zenon DEF Stage
  <2> QED BY <2>1, <2>3, Zenon DEF q, p
<1> QED BY <1>1, <1>5, <1>6, <1>7

\* Reading the numbers takes a reader to its next stage, or fails.
LEMMA StageNumbers ==
    ASSUME NEW m \in WireMessage, m.ttl \in 0 .. Top, m.hops \in 0 .. Top, NEW F,
           NEW b \in Seq(Nat),
           NEW d \in Nat, NEW r,
           Stage(m, r, F, PutUvarint[Zigzag(m.timestamp)]
                             \o (<<Clamp(m.ttl), Clamp(m.hops)>> \o b), d)
    PROVE  /\ d <= Len(b) => ReadNumbers(r) = Reader(m, F \cup Numbers, b, Len(b) - d)
           /\ d > Len(b) => ReadNumbers(r) = Failed
<1> DEFINE p == PutUvarint[Zigzag(m.timestamp)]
           t == <<Clamp(m.ttl), Clamp(m.hops)>>
           k == Len(p) + 2 + Len(b) - d
<1>1. 0 \in 0 .. Len(p) + 2 + Len(b)
  <2>1. m.timestamp \in Int
    BY DEF WireMessage
  <2>2. Zigzag(m.timestamp) \in Nat
    BY <2>1, ZigzagInverse
  <2>3. p \in Seq(Nat)
    BY <2>2, UvarintShape, Zenon
  <2> HIDE DEF p
  <2> QED BY <2>3
<1>2. p \in Seq(Nat) /\ t \in Seq(Nat) /\ Len(t) = 2
  BY <1>1, ReadNumbersCut, Zenon
<1>3. Stage(m, r, F, p \o (t \o b), d)
  OBVIOUS
<1> HIDE DEF p, t
<1>4. Len(p \o (t \o b)) = Len(p) + 2 + Len(b) /\ Len(p) \in Nat /\ Len(b) \in Nat
  <2>1. t \o b \in Seq(Nat) /\ Len(t \o b) = Len(t) + Len(b)
    BY <1>2, Concat, Zenon
  <2>2. Len(p \o (t \o b)) = Len(p) + Len(t \o b)
    BY <1>2, <2>1, Concat, Zenon
  <2> QED BY <1>2, <2>1, <2>2
<1>5. CASE d <= Len(p) + 2 + Len(b)
  <2>1. k \in 0 .. Len(p) + 2 + Len(b)
    BY <1>4, <1>5
  <2>2. r = Reader(m, F, p \o (t \o b), k)
    BY <1>3, <1>4, <1>5 DEF Stage
  <2>3. k - (Len(p) + 2) = Len(b) - d /\ (k >= Len(p) + 2 <=> d <= Len(b))
        /\ (k < Len(p) + 2 <=> d > Len(b))
    BY <1>4
  <2> HIDE DEF k
  <2>4. /\ k >= Len(p) + 2 => ReadNumbers(r) = Reader(m, F \cup Numbers, b, k - (Len(p) + 2))
        /\ k < Len(p) + 2 => ReadNumbers(r) = Failed
    BY <2>1, <2>2, ReadNumbersCut, Zenon DEF p, t
  <2> QED BY <2>3, <2>4
<1>6. CASE d > Len(p) + 2 + Len(b)
  <2>1. Spent(r) /\ d > Len(b) /\ ~ (d <= Len(b))
    BY <1>3, <1>4, <1>6 DEF Stage
  <2> QED BY <2>1, NumbersSpent
<1> QED BY <1>4, <1>5, <1>6

\* A prefix, after its first byte.
LEMMA TailCut ==
    ASSUME NEW x \in Nat, NEW b \in Seq(Nat), NEW k \in 1 .. 1 + Len(b)
    PROVE  LET data == SubSeq(<<x>> \o b, 1, k)
           IN  data \in Seq(Nat) /\ Len(data) = k /\ data[1] = x /\ Tail(data) = SubSeq(b, 1, k - 1)
<1> DEFINE a == <<x>>
           data == SubSeq(a \o b, 1, k)
<1>1. a \in Seq(Nat) /\ Len(a) = 1 /\ a[1] = x
  OBVIOUS
<1> HIDE DEF a
<1>2. k \in 0 .. Len(a) + Len(b) /\ k >= Len(a) /\ 1 \in 1 .. k /\ 1 <= Len(a)
  BY <1>1
<1>3. /\ data \in Seq(Nat) /\ Len(data) = k
      /\ \A i \in 1 .. k : i <= Len(a) => data[i] = a[i]
      /\ k >= Len(a) => SubSeq(data, Len(a) + 1, Len(data)) = SubSeq(b, 1, k - Len(a))
  BY <1>1, <1>2, Cut, ZenonT(30)
<1> HIDE DEF data
<1>4. data[1] = x
  BY <1>1, <1>2, <1>3
<1>5. SubSeq(data, 2, Len(data)) = SubSeq(b, 1, k - 1)
  BY <1>1, <1>2, <1>3
<1>6. Tail(data) = SubSeq(data, 2, Len(data))
  <2>1. data # <<>>
    BY <1>2, <1>3
  <2>2. Tail(data) \in Seq(Nat) /\ Len(Tail(data)) = Len(data) - 1
        /\ \A i \in 1 .. Len(Tail(data)) : Tail(data)[i] = data[i + 1]
    BY <1>3, <2>1, HeadTailProperties
  <2> DEFINE u == SubSeq(data, 2, Len(data))
  <2>3. u \in Seq(Nat) /\ Len(u) = Len(data) - 2 + 1
        /\ \A i \in 1 .. Len(data) - 2 + 1 : u[i] = data[2 + i - 1]
    <3>1. 2 \in 1 .. Len(data) + 1 /\ Len(data) \in 2 - 1 .. Len(data)
      BY <1>2, <1>3
    <3> QED BY <1>3, <3>1, Slice
  <2> DEFINE v == Tail(data)
  <2> HIDE DEF u, v
  <2>4. Len(u) = Len(v) /\ \A i \in 1 .. Len(u) : u[i] = v[i]
    BY <1>2, <1>3, <2>2, <2>3 DEF v
  <2>5. u = v
    BY <2>2, <2>3, <2>4, SeqEqual DEF v
  <2> QED BY <2>5 DEF u, v
<1> QED BY <1>3, <1>4, <1>5, <1>6 DEF data, a

\* A reader is its three fields.
LEMMA ReaderRecord ==
    ASSUME NEW x, NEW y, NEW u, u = [i \in {"ok", "rest", "msg"} |-> u[i]],
           u.ok = TRUE, u.rest = x, u.msg = y
    PROVE  u = [ok |-> TRUE, rest |-> x, msg |-> y]
<1> DEFINE z == [ok |-> TRUE, rest |-> x, msg |-> y]
<1>1. z = [i \in {"ok", "rest", "msg"} |-> z[i]] /\ z.ok = TRUE /\ z.rest = x /\ z.msg = y
  OBVIOUS
<1> HIDE DEF z
<1>2. \A i \in {"ok", "rest", "msg"} : z[i] = u[i]
  BY <1>1
<1>3. u = z
  BY <1>1, <1>2, Zenon
<1> QED BY <1>3 DEF z

\* The type is the first stage of Unmarshal.
LEMMA StageType ==
    ASSUME NEW m \in WireMessage, Carried(m.type), NEW b \in Seq(Nat), TypeText(m) \in Seq(Nat),
           NEW d \in 0 .. Len(TypeText(m) \o b)
    PROVE  LET c == TypeText(m) \o b
               data == SubSeq(<<FlagsByte(m)>> \o c, 1, 1 + Len(c) - d)
           IN  data[1] = FlagsByte(m) /\ Len(data) = 1 + Len(c) - d
               /\ Stage(m, ReadType(data), {"type"}, b, d)
<1> DEFINE c == TypeText(m) \o b
           k == 1 + Len(c) - d
           data == SubSeq(<<FlagsByte(m)>> \o c, 1, k)
           r == [ok |-> TRUE, rest |-> Tail(data), msg |-> Blank]
<1>1. c \in Seq(Nat) /\ Len(c) \in Nat
  <2>1. c \in Seq(Nat)
    BY Concat, Zenon
  <2> HIDE DEF c
  <2> QED BY <2>1
<1>2. d \in 0 .. Len(c)
  OBVIOUS
<1> HIDE DEF c
<1>3. k \in 1 .. 1 + Len(c) /\ k - 1 = Len(c) - d /\ d \in Nat /\ ~ (d > Len(c)) /\ d <= Len(c)
  BY <1>1, <1>2
<1>4. FlagsByte(m) \in Nat /\ FlagsByte(m) \div 16 = TypeCode(m.type)
  BY FlagsHalves
<1> HIDE DEF k
<1>5. data \in Seq(Nat) /\ Len(data) = k /\ data[1] = FlagsByte(m)
      /\ Tail(data) = SubSeq(c, 1, k - 1)
  BY <1>1, <1>3, <1>4, TailCut, Zenon
<1> HIDE DEF data
<1>6. r = Reader(m, {}, c, Len(c) - d)
  BY <1>3, <1>5, BlankIsPart DEF Reader
<1>7. "type" \in Texts /\ "type" \in Fields
  BY DEF Texts, Fields
<1>8. CASE IsShort(m.type)
  <2>1. TypeCode(m.type) \in 0 .. 5 /\ ShortType[TypeCode(m.type) + 1] = m.type
    BY <1>8, TypeCodes
  <2>2. Len(ShortType) = 6 /\ LongForm = 15
    BY DEF ShortType, LongForm
  <2> DEFINE e == [Blank EXCEPT !["type"] = m["type"]]
             u == [r EXCEPT !.msg.type = ShortType[data[1] \div 16 + 1]]
  <2>3. ReadType(data) = u
    <3>1. data[1] \div 16 # LongForm /\ ~ (data[1] \div 16 >= Len(ShortType))
      BY <1>4, <1>5, <2>1, <2>2, SMTT(30)
    <3> QED BY <3>1, Zenon DEF ReadType
  <2>4. u = [ok |-> TRUE, rest |-> Tail(data), msg |-> e]
    <3>1. u = [i \in {"ok", "rest", "msg"} |-> u[i]]
      OBVIOUS
    <3>2. u.ok = TRUE /\ u.rest = Tail(data)
      OBVIOUS
    <3>3. u.msg = e
      BY <1>4, <1>5, <2>1
    <3> HIDE DEF u, e
    <3> QED BY <3>1, <3>2, <3>3, ReaderRecord, Zenon
  <2>5. e = Part(m, {"type"})
    <3>1. [Part(m, {}) EXCEPT !["type"] = m["type"]] = Part(m, {} \cup {"type"})
      BY <1>7, PartExcept, Zenon
    <3>2. {} \cup {"type"} = {"type"}
      OBVIOUS
    <3> QED BY <3>1, <3>2, BlankIsPart, Zenon
  <2>6. c = b
    <3>1. c = <<>> \o b
      BY <1>8, Zenon DEF TypeText, c
    <3> QED BY <3>1
  <2> HIDE DEF u, e
  <2>7. ReadType(data) = Reader(m, {"type"}, b, Len(b) - d)
    BY <1>3, <1>5, <2>3, <2>4, <2>5, <2>6 DEF Reader
  <2>8. Stage(m, ReadType(data), {"type"}, b, d)
    BY <1>3, <2>6, <2>7, Zenon DEF Stage
  <2> QED BY <1>5, <2>8, Zenon DEF data, k, c
<1>9. CASE ~ IsShort(m.type)
  <2>1. ReadType(data) = ReadString(r, "type")
    BY <1>4, <1>5, <1>9, TypeCodes DEF ReadType, LongForm
  <2>2. Stage(m, r, {}, PutString(m["type"]) \o b, d)
    <3>1. c = PutString(m["type"]) \o b
      BY <1>9 DEF TypeText, c
    <3>2. Stage(m, r, {}, c, d)
      <4> HIDE DEF r
      <4> QED BY <1>3, <1>6, Zenon DEF Stage
    <3> QED BY <3>1, <3>2, Zenon
  <2>3. Carried(m["type"])
    OBVIOUS
  <2> HIDE DEF r
  <2>4. Stage(m, ReadString(r, "type"), {} \cup {"type"}, b, d)
    BY <1>3, <1>7, <2>2, <2>3, StageString, Zenon
  <2>5. {} \cup {"type"} = {"type"}
    OBVIOUS
  <2>6. Stage(m, ReadType(data), {"type"}, b, d)
    BY <2>1, <2>4, <2>5, Zenon
  <2> QED BY <1>5, <2>6, Zenon DEF data, k, c
<1> QED BY <1>8, <1>9

\* The result g of Unmarshal, if it is a message, is m but for the last two
\* texts, which may be missing.
Preserved(m, g) ==
    g.ok => \A f \in Fields \cup Copies :
              g.msg[f] = m[f] \/ (f \in {"nonce", "keyID"} /\ g.msg[f] = <<>>)

\* An error keeps nothing and breaks nothing.
LEMMA KeptFailed == ASSUME NEW m PROVE Preserved(m, Failed) /\ Failed.ok = FALSE
  BY DEF Preserved, Failed

\* A part that lacks at most the last two texts.
LEMMA KeptPart ==
    ASSUME NEW m, Plain(m), NEW F, \A f \in Fields : f \in F \/ f \in {"nonce", "keyID"}
    PROVE  Preserved(m, [ok |-> TRUE, msg |-> Part(m, F)])
<1> DEFINE g == Part(m, F)
<1>1. ASSUME NEW f \in Fields \cup Copies
      PROVE  g[f] = m[f] \/ (f \in {"nonce", "keyID"} /\ g[f] = <<>>)
  <2>1. g[f] = IF f \in F THEN m[f] ELSE Blank[f]
    BY DEF Part
  <2>2. f \in {"nonce", "keyID"} => f \in Texts
    BY DEF Texts
  <2> HIDE DEF g
  <2> QED BY <2>1, <2>2, BlankTexts, PlainCopies
<1> HIDE DEF g
<1>2. [ok |-> TRUE, msg |-> g].msg = g
  OBVIOUS
<1>3. Preserved(m, [ok |-> TRUE, msg |-> g])
  BY <1>1, <1>2 DEF Preserved
<1> QED BY <1>3 DEF g

\* The fields of a plain message.
LEMMA PlainFields ==
    ASSUME NEW m \in WireMessage, Plain(m)
    PROVE  /\ Carried(m["type"]) /\ Carried(m["id"]) /\ Carried(m["sender"])
           /\ Carried(m["payload"])
           /\ m.ttl \in 0 .. Top /\ m.hops \in 0 .. Top
           /\ Flagged(m, "nick", FlagsByte(m) % 16, 1)
           /\ Flagged(m, "recipient", FlagsByte(m) % 16, 2)
           /\ Flagged(m, "nonce", FlagsByte(m) % 16, 4)
           /\ Flagged(m, "keyID", FlagsByte(m) % 16, 8)
<1>1. \A f \in Texts : Len(m[f]) # Top /\ Len(m[f]) < Base * Base
  BY DEF Plain, Encodable, Texts
<1>2. \A f \in {"type", "id", "sender", "payload"} : f \in Texts /\ m[f] # <<>>
  BY DEF Plain, Encodable, Texts
<1>3. \A f \in {"type", "id", "sender", "payload"} : Carried(m[f])
  BY <1>1, <1>2, Zenon DEF Carried
<1>4. \A f \in {"nick", "recipient", "nonce", "keyID"} : f # "id" /\ (m[f] = <<>> \/ Carried(m[f]))
  <2>1. \A f \in {"nick", "recipient", "nonce", "keyID"} : f # "id" /\ f \in Texts
    BY DEF Texts
  <2> QED BY <1>1, <2>1, Zenon DEF Carried
<1>5. /\ HasFlag(FlagsByte(m) % 16, 1) <=> m["nick"] # <<>>
      /\ HasFlag(FlagsByte(m) % 16, 2) <=> m["recipient"] # <<>>
      /\ HasFlag(FlagsByte(m) % 16, 4) <=> m["nonce"] # <<>>
      /\ HasFlag(FlagsByte(m) % 16, 8) <=> m["keyID"] # <<>>
  BY FlagsHalves
<1>6. m.ttl \in 0 .. Top /\ m.hops \in 0 .. Top
  BY DEF Plain
<1>7. Flagged(m, "nick", FlagsByte(m) % 16, 1)
  BY <1>4, <1>5, Zenon DEF Flagged
<1>8. Flagged(m, "recipient", FlagsByte(m) % 16, 2)
  BY <1>4, <1>5, Zenon DEF Flagged
<1>9. Flagged(m, "nonce", FlagsByte(m) % 16, 4)
  BY <1>4, <1>5, Zenon DEF Flagged
<1>10. Flagged(m, "keyID", FlagsByte(m) % 16, 8)
  BY <1>4, <1>5, Zenon DEF Flagged
<1> QED BY <1>3, <1>6, <1>7, <1>8, <1>9, <1>10, Zenon

\* The fields read up to the hop count.
UpToHops == Fields \ {"nonce", "keyID"}

\* The two texts at the end of an encoding whose last d bytes are missing.
LastTwo(m, n, G, f, g, e, d, flags, bit, lastBit) ==
    /\ Awaits(m, n, G, f, PutString(m[g]) \o e, d, flags, bit)
    /\ g \in Texts /\ g \notin G \cup {f} /\ e \in Seq(Nat) /\ Len(e) = 0
    /\ Flagged(m, g, flags, lastBit) /\ d <= Len(PutString(m[f]) \o (PutString(m[g]) \o e))

\* An encoding that ends within its last two texts is an error, or loses the
\* texts that are not there as a whole.
LEMMA LastTexts ==
    ASSUME NEW m, NEW n, NEW G, NEW f, NEW g, NEW e, NEW d, NEW flags, NEW bit, NEW lastBit,
           LastTwo(m, n, G, f, g, e, d, flags, bit, lastBit)
    PROVE  LET all == ReadOptional(ReadOptional(n, f, flags, bit), g, flags, lastBit)
           IN  /\ d = 0 => all = Reader(m, (G \cup {f}) \cup {g}, e, 0)
               /\ d # 0 => all = Failed \/ all = Ended(m, G) \/ all = Ended(m, G \cup {f})
<1> DEFINE o == ReadOptional(n, f, flags, bit)
           all == ReadOptional(o, g, flags, lastBit)
           H == G \cup {f}
           c == PutString(m[g]) \o e
<1>1. /\ Awaits(m, n, G, f, c, d, flags, bit) /\ g \in Texts /\ g \notin H
      /\ e \in Seq(Nat) /\ Flagged(m, g, flags, lastBit) /\ d <= Len(PutString(m[f]) \o c)
  BY Zenon DEF LastTwo
<1>2. Len(e) = 0
  BY Zenon DEF LastTwo
<1>3. m \in WireMessage /\ f \in Texts /\ c \in Seq(Nat) /\ d \in Nat
  BY <1>1, Zenon DEF Awaits
<1> HIDE DEF c
<1>4. Len(c) \in Nat
  BY <1>3
<1>5. g \notin H /\ g \notin G
  BY <1>1
<1>6. /\ Stage(m, o, G \cup {f}, c, d)
      /\ d > Len(c) /\ d <= Len(PutString(m[f]) \o c) => o = Failed \/ o = Ended(m, G)
  <2>1. Awaits(m, n, G, f, c, d, flags, bit)
    BY <1>1, Zenon
  <2> QED BY <2>1, StageOptional
<1>7. Stage(m, o, H, PutString(m[g]) \o e, d)
  BY <1>6, Zenon DEF c
<1>8. ASSUME o = Ended(m, G) PROVE all = Ended(m, G)
  <2>1. ReadOptional(Ended(m, G), g, flags, lastBit) = Ended(m, G)
    <3>1. g # "id"
      BY <1>1, Zenon DEF Flagged
    <3> QED BY <1>5, <1>1, <3>1, OptionalNothing
  <2> QED BY <1>8, <2>1, Zenon
<1>9. ASSUME o = Failed PROVE all = Failed
  BY <1>9, OptionalFailed, Zenon
<1> HIDE DEF o, H
<1>10. /\ Stage(m, all, H \cup {g}, e, d)
       /\ d > Len(e) /\ d <= Len(PutString(m[g]) \o e) => all = Failed \/ all = Ended(m, H)
  <2>1. Awaits(m, o, H, g, e, d, flags, lastBit)
    BY <1>3, <1>5, <1>7, <1>1, Zenon DEF Awaits
  <2> QED BY <2>1, StageOptional
<1> HIDE DEF all
<1> DEFINE k == Len(e)
<1>11. (d = 0 => d <= k /\ k - d = 0) /\ (d # 0 => d > k)
  <2>1. k = 0 /\ d \in Nat
    BY <1>2, <1>3
  <2> HIDE DEF k
  <2> QED BY <2>1
<1>12. d = 0 => all = Reader(m, H \cup {g}, e, 0)
  <2>1. d = 0 => d <= Len(e) /\ Len(e) - d = 0
    BY <1>11, Zenon DEF k
  <2>2. Stage(m, all, H \cup {g}, e, d)
    BY <1>10
  <2>3. d <= Len(e) => all = Reader(m, H \cup {g}, e, Len(e) - d)
    BY <2>2, Zenon DEF Stage
  <2> QED BY <2>1, <2>3
<1>13. ASSUME d # 0 PROVE all = Failed \/ all = Ended(m, G) \/ all = Ended(m, H)
  <2>1. CASE d <= Len(c)
    <3>1. d > Len(e) /\ d <= Len(PutString(m[g]) \o e)
      <4>1. d > Len(e)
        BY <1>13, <1>11, Zenon DEF k
      <4>2. d <= Len(PutString(m[g]) \o e)
        BY <2>1, Zenon DEF c
      <4> QED BY <4>1, <4>2
    <3> QED BY <1>10, <3>1
  <2>2. CASE ~ (d <= Len(c))
    <3>1. d > Len(c)
      BY <1>3, <1>4, <2>2
    <3>2. d <= Len(PutString(m[f]) \o c)
      BY <1>1, Zenon
    <3> QED BY <1>6, <1>8, <1>9, <3>1, <3>2, Zenon
  <2> QED BY <2>1, <2>2
<1> QED BY <1>12, <1>13, Zenon DEF all, o, H

\* What comes of the reader r of an encoding whose last d bytes are missing.
Outcome(m, d, r) ==
    /\ r.ok = FALSE \/ (r.ok = TRUE /\ Preserved(m, [ok |-> TRUE, msg |-> r.msg]))
    /\ d = 0 => r.ok = TRUE /\ r.msg = m

\* Unmarshal, from the payload on, when the last d bytes are missing.
LEMMA UnmarshalEnd ==
    ASSUME NEW m \in WireMessage, Plain(m), NEW d \in Nat, NEW r,
           NEW flags, Flagged(m, "nonce", flags, 4), Flagged(m, "keyID", flags, 8),
           Stage(m, r, UpToHops \ Numbers, AfterPayload(m), d)
    PROVE  Outcome(m, d, ReadOptional(ReadOptional(ReadNumbers(r), "nonce", flags, 4),
                                      "keyID", flags, 8))
<1> DEFINE f == "nonce"
           g == "keyID"
           e == <<>>
           n == ReadNumbers(r)
           o == ReadOptional(n, f, flags, 4)
           all == ReadOptional(o, g, flags, 8)
           G == UpToHops
           H == G \cup {f}
           Goal == /\ all.ok = FALSE \/ (all.ok = TRUE /\ Preserved(m, [ok |-> TRUE, msg |-> all.msg]))
                   /\ d = 0 => all.ok = TRUE /\ all.msg = m
<1>1. /\ f \in Texts /\ g \in Texts /\ f \notin G /\ g \notin G
      /\ g # f /\ g # "id"
  BY DEF UpToHops, Texts, Fields
<1>2. (UpToHops \ Numbers) \cup Numbers = G /\ H \cup {g} = Fields
  BY DEF UpToHops, Numbers, Fields, Texts
<1>3. Flagged(m, f, flags, 4) /\ Flagged(m, g, flags, 8)
  OBVIOUS
<1>4. AfterNumbers(m) \in Seq(Nat) /\ AfterNonce(m) \in Seq(Nat) /\ e \in Seq(Nat)
      /\ Len(AfterNumbers(m)) \in Nat /\ Len(AfterNonce(m)) \in Nat /\ Len(e) = 0
  <2>1. AfterNumbers(m) \in Seq(Nat) /\ AfterNonce(m) \in Seq(Nat)
    BY MarshalFields
  <2> QED BY <2>1
<1>5. /\ AfterPayload(m) = PutUvarint[Zigzag(m.timestamp)]
                              \o (<<Clamp(m.ttl), Clamp(m.hops)>> \o AfterNumbers(m))
      /\ AfterNumbers(m) = PutString(m[f]) \o AfterNonce(m)
      /\ AfterNonce(m) = PutString(m[g]) \o e
  BY DEF AfterPayload, AfterTime, AfterNumbers, AfterNonce
<1>6. m.ttl \in 0 .. Top /\ m.hops \in 0 .. Top
  BY PlainFields
<1> HIDE DEF f, g, e
<1> DEFINE E == UpToHops \ Numbers
<1>7. Stage(m, r, E, PutUvarint[Zigzag(m.timestamp)]
                        \o (<<Clamp(m.ttl), Clamp(m.hops)>> \o AfterNumbers(m)), d)
  BY <1>5, Zenon
<1>8. AfterNumbers(m) \in Seq(Nat)
  BY <1>4
<1> HIDE DEF E
<1>9. /\ d <= Len(AfterNumbers(m)) =>
            n = Reader(m, E \cup Numbers, AfterNumbers(m), Len(AfterNumbers(m)) - d)
      /\ d > Len(AfterNumbers(m)) => n = Failed
  BY <1>7, <1>8, <1>6, StageNumbers, Zenon
<1>10. E \cup Numbers = G
  BY <1>2 DEF E
<1> HIDE DEF n
<1>11. CASE d > Len(AfterNumbers(m))
  <2>1. n = Failed
    BY <1>9, <1>11
  <2>2. all = Failed
    BY <2>1, OptionalFailed, Zenon
  <2>3. d # 0
    BY <1>4, <1>11
  <2> HIDE DEF all
  <2>4. Goal
    BY <2>2, <2>3, KeptFailed
  <2> QED BY <2>4, Zenon DEF all, n, o, f, g, Outcome
<1>12. CASE d <= Len(AfterNumbers(m))
  <2>1. Stage(m, n, G, PutString(m[f]) \o AfterNonce(m), d)
    <3>1. n = Reader(m, G, AfterNumbers(m), Len(AfterNumbers(m)) - d)
          /\ ~ (d > Len(AfterNumbers(m)))
      <4> HIDE DEF G
      <4>1. ~ (d > Len(AfterNumbers(m)))
        BY <1>4, <1>12
      <4> QED BY <1>9, <1>10, <1>12, <4>1, Zenon
    <3>2. Stage(m, n, G, AfterNumbers(m), d)
      BY <3>1, Zenon DEF Stage
    <3> QED BY <1>5, <3>2, Zenon
  <2>2. d <= Len(PutString(m[f]) \o AfterNonce(m))
    BY <1>5, <1>12, Zenon
  <2>3. /\ d = 0 => all = Reader(m, (G \cup {f}) \cup {g}, e, 0)
        /\ d # 0 => all = Failed \/ all = Ended(m, G) \/ all = Ended(m, G \cup {f})
    <3> HIDE DEF G
    <3>1. f \in Texts /\ g \in Texts /\ f \notin G /\ g \notin G \cup {f}
      BY <1>1
    <3>2. e \in Seq(Nat) /\ Len(e) = 0 /\ PutString(m[g]) \o e \in Seq(Nat)
      BY <1>4, <1>5
    <3>3. Awaits(m, n, G, f, PutString(m[g]) \o e, d, flags, 4)
      BY <1>5, <1>3, <2>1, <3>1, <3>2, Zenon DEF Awaits
    <3>4. d <= Len(PutString(m[f]) \o (PutString(m[g]) \o e))
      BY <1>5, <2>2, Zenon
    <3>5. LastTwo(m, n, G, f, g, e, d, flags, 4, 8)
      BY <1>3, <3>1, <3>2, <3>3, <3>4, Zenon DEF LastTwo
    <3> QED BY <3>5, LastTexts
  <2> HIDE DEF all, o
  <2>4. (all = Failed /\ d # 0) \/ (all = Ended(m, G) /\ d # 0) \/ (all = Ended(m, H) /\ d # 0)
         \/ (all = Reader(m, Fields, e, 0) /\ d = 0)
    BY <1>2, <2>3, Zenon
  <2>5. /\ Preserved(m, [ok |-> TRUE, msg |-> Part(m, G)])
        /\ Preserved(m, [ok |-> TRUE, msg |-> Part(m, H)])
        /\ Preserved(m, [ok |-> TRUE, msg |-> Part(m, Fields)])
    <3>1. \A x \in Fields : x \in G \/ x \in {"nonce", "keyID"}
      BY DEF UpToHops, f
    <3>2. \A x \in Fields : x \in H \/ x \in {"nonce", "keyID"}
      BY DEF UpToHops, f
    <3>3. \A x \in Fields : x \in Fields \/ x \in {"nonce", "keyID"}
      OBVIOUS
    <3> HIDE DEF G, H
    <3> QED BY <3>1, <3>2, <3>3, KeptPart, Zenon
  <2>6. Part(m, Fields) = m
    BY WholeIsPart
  <2>7. \A F : Ended(m, F).ok = TRUE /\ Ended(m, F).msg = Part(m, F)
    BY DEF Ended
  <2>8. Reader(m, Fields, e, 0).ok = TRUE /\ Reader(m, Fields, e, 0).msg = Part(m, Fields)
    BY DEF Reader
  <2> HIDE DEF G, H
  <2>9. Goal
    <3>1. CASE all = Failed /\ d # 0
      BY <3>1, KeptFailed
    <3>2. CASE all = Ended(m, G) /\ d # 0
      BY <2>5, <2>7, <3>2
    <3>3. CASE all = Ended(m, H) /\ d # 0
      BY <2>5, <2>7, <3>3
    <3>4. CASE all = Reader(m, Fields, e, 0) /\ d = 0
      BY <2>5, <2>6, <2>8, <3>4
    <3> HIDE DEF Goal
    <3> QED BY <2>4, <3>1, <3>2, <3>3, <3>4, Zenon
  <2> QED BY <2>9, Zenon DEF all, o, n, f, g, Outcome
<1>13. d > Len(AfterNumbers(m)) \/ d <= Len(AfterNumbers(m))
  BY <1>4
<1> QED BY <1>11, <1>12, <1>13, Zenon

\* The reader r is to read the text f and then b.
Expects(m, r, F, f, b, d) ==
    /\ m \in WireMessage /\ f \in Texts /\ Carried(m[f]) /\ b \in Seq(Nat) /\ d \in Nat
    /\ Stage(m, r, F, PutString(m[f]) \o b, d)

\* StageString, with its hypotheses as one formula.
LEMMA StageText ==
    ASSUME NEW m, NEW r, NEW F, NEW f, NEW b, NEW d, Expects(m, r, F, f, b, d)
    PROVE  Stage(m, ReadString(r, f), F \cup {f}, b, d)
<1>1. /\ m \in WireMessage /\ f \in Texts /\ Carried(m[f]) /\ b \in Seq(Nat) /\ d \in Nat
      /\ Stage(m, r, F, PutString(m[f]) \o b, d)
  BY Zenon DEF Expects
<1> QED BY <1>1, StageString, Zenon

\* Unmarshal, up to the payload, when the last d bytes are missing.
LEMMA UnmarshalStart ==
    ASSUME NEW m \in WireMessage, Plain(m), NEW d \in 0 .. Len(AfterFlags(m)), NEW flags,
           flags = FlagsByte(m) % 16
    PROVE  LET data      == SubSeq(<<FlagsByte(m)>> \o AfterFlags(m), 1, 1 + Len(AfterFlags(m)) - d)
               id        == ReadString(ReadType(data), "id")
               sender    == ReadString(id, "sender")
               nick      == ReadOptional(sender, "nick", flags, 1)
               recipient == ReadOptional(nick, "recipient", flags, 2)
               payload   == ReadString(recipient, "payload")
           IN  /\ data[1] = FlagsByte(m) /\ Len(data) = 1 + Len(AfterFlags(m)) - d
               /\ Stage(m, payload, UpToHops \ Numbers, AfterPayload(m), d)
<1> DEFINE data      == SubSeq(<<FlagsByte(m)>> \o AfterFlags(m), 1, 1 + Len(AfterFlags(m)) - d)
           type      == ReadType(data)
           id        == ReadString(type, "id")
           sender    == ReadString(id, "sender")
           nick      == ReadOptional(sender, "nick", flags, 1)
           recipient == ReadOptional(nick, "recipient", flags, 2)
           payload   == ReadString(recipient, "payload")
           F1 == {"type"}
           F2 == F1 \cup {"id"}
           F3 == F2 \cup {"sender"}
           F4 == F3 \cup {"nick"}
           F5 == F4 \cup {"recipient"}
           F6 == F5 \cup {"payload"}
<1>1. /\ "id" \in Texts /\ "sender" \in Texts /\ "nick" \in Texts /\ "recipient" \in Texts
      /\ "payload" \in Texts /\ "nick" \notin F3 /\ "recipient" \notin F4
  BY DEF Texts
<1>2. F6 = UpToHops \ Numbers
  BY DEF UpToHops, Numbers, Fields, Texts
<1>3. /\ TypeText(m) \in Seq(Nat) /\ AfterFlags(m) \in Seq(Nat)
      /\ AfterType(m) \in Seq(Nat) /\ AfterId(m) \in Seq(Nat) /\ AfterSender(m) \in Seq(Nat)
      /\ AfterNick(m) \in Seq(Nat) /\ AfterRecipient(m) \in Seq(Nat) /\ AfterPayload(m) \in Seq(Nat)
  BY MarshalFields, Zenon
<1>4. /\ AfterFlags(m) = TypeText(m) \o AfterType(m)
      /\ AfterType(m) = PutString(m["id"]) \o AfterId(m)
      /\ AfterId(m) = PutString(m["sender"]) \o AfterSender(m)
      /\ AfterSender(m) = PutString(m["nick"]) \o AfterNick(m)
      /\ AfterNick(m) = PutString(m["recipient"]) \o AfterRecipient(m)
      /\ AfterRecipient(m) = PutString(m["payload"]) \o AfterPayload(m)
  BY DEF AfterFlags, AfterType, AfterId, AfterSender, AfterNick, AfterRecipient
<1>5. /\ Carried(m["type"]) /\ Carried(m["id"]) /\ Carried(m["sender"]) /\ Carried(m["payload"])
      /\ Flagged(m, "nick", flags, 1) /\ Flagged(m, "recipient", flags, 2)
  BY PlainFields, Zenon
<1>6. d \in Nat
  <2>1. Len(AfterFlags(m)) \in Nat
    BY <1>3
  <2> QED BY <2>1
<1>7. data[1] = FlagsByte(m) /\ Len(data) = 1 + Len(AfterFlags(m)) - d
      /\ Stage(m, type, F1, AfterType(m), d)
  <2> DEFINE c == TypeText(m) \o AfterType(m)
             w == SubSeq(<<FlagsByte(m)>> \o c, 1, 1 + Len(c) - d)
  <2>1. c = AfterFlags(m)
    BY <1>4
  <2>2. d \in 0 .. Len(c)
    BY <2>1
  <2>3. Carried(m.type)
    BY <1>5
  <2>4. w[1] = FlagsByte(m) /\ Len(w) = 1 + Len(c) - d
        /\ Stage(m, ReadType(w), {"type"}, AfterType(m), d)
    BY <1>3, <2>2, <2>3, StageType, Zenon
  <2> HIDE DEF c
  <2>5. w = data
    BY <2>1
  <2> QED BY <2>1, <2>4, <2>5, Zenon
<1> HIDE DEF type, F1
<1>8. Stage(m, id, F2, AfterId(m), d)
  <2>1. Expects(m, type, F1, "id", AfterId(m), d)
    BY <1>1, <1>3, <1>4, <1>5, <1>6, <1>7, Zenon DEF Expects
  <2> QED BY <2>1, StageText, Zenon
<1> HIDE DEF id, F2
<1>9. Stage(m, sender, F3, AfterSender(m), d)
  <2>1. Expects(m, id, F2, "sender", AfterSender(m), d)
    BY <1>1, <1>3, <1>4, <1>5, <1>6, <1>8, Zenon DEF Expects
  <2> QED BY <2>1, StageText, Zenon
<1> HIDE DEF sender, F3
<1>10. Stage(m, nick, F4, AfterNick(m), d)
  <2>1. Awaits(m, sender, F3, "nick", AfterNick(m), d, flags, 1)
    BY <1>1, <1>3, <1>4, <1>5, <1>6, <1>9, Zenon DEF Awaits
  <2> QED BY <2>1, StageOptional
<1> HIDE DEF nick, F4
<1>11. Stage(m, recipient, F5, AfterRecipient(m), d)
  <2>1. Awaits(m, nick, F4, "recipient", AfterRecipient(m), d, flags, 2)
    BY <1>1, <1>3, <1>4, <1>5, <1>6, <1>10, Zenon DEF Awaits
  <2> QED BY <2>1, StageOptional
<1> HIDE DEF recipient, F5
<1>12. Stage(m, payload, F6, AfterPayload(m), d)
  <2>1. Expects(m, recipient, F5, "payload", AfterPayload(m), d)
    BY <1>1, <1>3, <1>4, <1>5, <1>6, <1>11, Zenon DEF Expects
  <2> QED BY <2>1, StageText, Zenon
<1> HIDE DEF payload, F6, data
<1> QED BY <1>2, <1>7, <1>12, Zenon DEF payload, recipient, nick, sender, id, type, data

\* An encoding has more than the flags byte.
LEMMA BodyNotEmpty == ASSUME NEW m \in WireMessage, Plain(m) PROVE Len(AfterFlags(m)) >= 1
<1> DEFINE p == PutString(m["id"])
           t == TypeText(m)
           b == AfterId(m)
           c == AfterType(m)
<1>1. Carried(m["id"]) /\ m["id"] \in Seq(Nat)
  BY PlainFields DEF WireMessage
<1>2. p \in Seq(Nat) /\ Len(m["id"]) \in Nat \ {0}
      /\ \E head \in {1, 3} : Len(p) = head + Len(m["id"])
  BY <1>1, PutStringShape, Zenon
<1>3. b \in Seq(Nat) /\ c \in Seq(Nat) /\ t \in Seq(Nat) /\ AfterFlags(m) = t \o c /\ c = p \o b
  BY MarshalFields DEF AfterFlags, AfterType
<1> HIDE DEF p, t, b, c
<1>4. Len(p \o b) = Len(p) + Len(b) /\ Len(t \o c) = Len(t) + Len(c)
  BY <1>2, <1>3, Concat, Zenon
<1>5. Len(p) \in Nat /\ Len(b) \in Nat /\ Len(t) \in Nat /\ Len(p) >= 1
  BY <1>2, <1>3
<1> QED BY <1>3, <1>4, <1>5

\* UnmarshalCut for a plain message.
LEMMA PlainCut ==
    ASSUME NEW m \in WireMessage, Plain(m), NEW d \in 0 .. Len(Marshal(m))
    PROVE  LET got == Unmarshal(SubSeq(Marshal(m), 1, Len(Marshal(m)) - d))
           IN  /\ d = 0 => got = [ok |-> TRUE, msg |-> m]
               /\ Preserved(m, got)
<1> DEFINE c         == AfterFlags(m)
           data      == SubSeq(<<FlagsByte(m)>> \o c, 1, 1 + Len(c) - d)
           flags     == data[1] % 16
           id        == ReadString(ReadType(data), "id")
           sender    == ReadString(id, "sender")
           nick      == ReadOptional(sender, "nick", flags, 1)
           recipient == ReadOptional(nick, "recipient", flags, 2)
           payload   == ReadString(recipient, "payload")
           nonce     == ReadOptional(ReadNumbers(payload), "nonce", flags, 4)
           all       == ReadOptional(nonce, "keyID", flags, 8)
           got       == Unmarshal(data)
<1>1. Marshal(m) = <<FlagsByte(m)>> \o c /\ <<FlagsByte(m)>> \in Seq(Nat) /\ c \in Seq(Nat)
  BY MarshalFields, Zenon
<1>2. Len(Marshal(m)) = 1 + Len(c) /\ Len(c) \in Nat
  <2> DEFINE a == <<FlagsByte(m)>>
  <2>1. Len(a) = 1 /\ a \in Seq(Nat)
    BY <1>1
  <2> HIDE DEF a, c
  <2>2. Len(a \o c) = Len(a) + Len(c)
    BY <1>1, <2>1, Concat
  <2> QED BY <1>1, <2>1, <2>2 DEF a
<1>3. SubSeq(Marshal(m), 1, Len(Marshal(m)) - d) = data
  <2> HIDE DEF c
  <2> QED BY <1>1, <1>2
<1>4. d \in 0 .. 1 + Len(c) /\ d \in Nat
  BY <1>2
<1>5. got = IF Len(data) < 2 \/ ~ all.ok THEN Failed ELSE [ok |-> TRUE, msg |-> all.msg]
  BY Zenon DEF Unmarshal
<1> HIDE DEF c
<1>6. CASE d > Len(c)
  <2>1. 1 + Len(c) - d = 0 /\ d # 0
    BY <1>2, <1>4, <1>6
  <2>2. data = <<>>
    <3>1. <<FlagsByte(m)>> \o c \in Seq(Nat)
      BY <1>1, Concat, Zenon
    <3>2. data = SubSeq(<<FlagsByte(m)>> \o c, 1, 0)
      BY <2>1, Zenon
    <3> QED BY <3>1, <3>2, EmptyCut, Zenon
  <2> HIDE DEF data
  <2>3. Len(data) < 2
    BY <2>2
  <2> HIDE DEF all, got
  <2>4. got = Failed
    BY <1>5, <2>3, Zenon
  <2>5. Preserved(m, got)
    BY <2>4, KeptFailed, Zenon
  <2> QED BY <1>3, <2>1, <2>5, Zenon DEF got
<1>7. CASE d <= Len(c)
  <2>1. d \in 0 .. Len(c)
    BY <1>2, <1>4, <1>7
  <2> DEFINE fl == FlagsByte(m) % 16
  <2>2. data[1] = FlagsByte(m) /\ Len(data) = 1 + Len(c) - d
        /\ Stage(m, ReadString(ReadOptional(ReadOptional(sender, "nick", fl, 1),
                                            "recipient", fl, 2), "payload"),
                 UpToHops \ Numbers, AfterPayload(m), d)
    BY <2>1, UnmarshalStart, Zenon DEF c
  <2>3. flags = fl
    BY <2>2, Zenon
  <2>4. Stage(m, payload, UpToHops \ Numbers, AfterPayload(m), d)
    BY <2>2, <2>3, Zenon
  <2>5. Flagged(m, "nonce", flags, 4) /\ Flagged(m, "keyID", flags, 8)
    BY <2>3, PlainFields, Zenon
  <2> HIDE DEF payload, flags, fl
  <2>6. Outcome(m, d, all)
    BY <1>4, <2>4, <2>5, UnmarshalEnd, Zenon
  <2>7. /\ all.ok = FALSE \/ (all.ok = TRUE /\ Preserved(m, [ok |-> TRUE, msg |-> all.msg]))
        /\ d = 0 => all.ok = TRUE /\ all.msg = m
    <3> HIDE DEF all
    <3> QED BY <2>6, Zenon DEF Outcome
  <2> HIDE DEF all, got
  <2>8. Preserved(m, got)
    BY <1>5, <2>7, KeptFailed, Zenon
  <2>9. ASSUME d = 0 PROVE got = [ok |-> TRUE, msg |-> m]
    <3>1. all.ok = TRUE /\ all.msg = m
      BY <2>7, <2>9
    <3>2. ~ (Len(data) < 2)
      BY <1>2, <2>2, <2>9, BodyNotEmpty DEF c
    <3> HIDE DEF data
    <3> QED BY <1>5, <3>1, <3>2
  <2> QED BY <1>3, <2>8, <2>9, Zenon DEF got
<1> QED BY <1>2, <1>4, <1>6, <1>7

\* A clamped number is clamped to itself.
LEMMA ClampTwice ==
    ASSUME NEW n \in Nat
    PROVE  LET byte == IF n > Top THEN Top ELSE n
           IN  byte \in 0 .. Top /\ Clamp(byte) = Clamp(n)
  BY Bytes DEF Clamp

\* What arrives of a message is a plain one, with the same encoding.
LEMMA ArrivesPlain ==
    ASSUME NEW m \in WireMessage, Encodable(m)
    PROVE  /\ Arrives(m) \in WireMessage /\ Plain(Arrives(m))
           /\ Marshal(Arrives(m)) = Marshal(m)
<1> DEFINE a == Arrives(m)
           t == IF m.ttl > Top THEN Top ELSE m.ttl
           h == IF m.hops > Top THEN Top ELSE m.hops
<1>1. a = [m EXCEPT !.ttl = t, !.hops = h, !.sprayBudget = 0, !.copiesMade = 0]
  BY DEF Arrives
<1>2. /\ t \in 0 .. Top /\ h \in 0 .. Top
      /\ Clamp(t) = Clamp(m.ttl) /\ Clamp(h) = Clamp(m.hops)
  <2>1. m.ttl \in Nat /\ m.hops \in Nat
    BY DEF WireMessage
  <2> QED BY <2>1, ClampTwice
<1>3. t \in Nat /\ h \in Nat
  BY <1>2
<1> HIDE DEF a, t, h
<1>4. /\ a \in WireMessage
      /\ a.ttl = t /\ a.hops = h /\ a.sprayBudget = 0 /\ a.copiesMade = 0
      /\ a.timestamp = m.timestamp /\ \A f \in Texts : a[f] = m[f]
  BY <1>1, <1>3 DEF WireMessage, Texts
<1>5. /\ a.type = m.type /\ a.id = m.id /\ a.sender = m.sender /\ a.nick = m.nick
      /\ a.recipient = m.recipient /\ a.payload = m.payload /\ a.nonce = m.nonce
      /\ a.keyID = m.keyID
  BY <1>4 DEF Texts
<1>6. Encodable(a)
  <2>1. /\ \A f \in {"type", "id", "sender", "payload"} : a[f] = m[f]
        /\ \A f \in {"type", "id", "sender", "nick", "recipient", "payload", "nonce", "keyID"} :
              a[f] = m[f]
    BY <1>4 DEF Texts
  <2> QED BY <2>1, Zenon DEF Encodable
<1>7. Plain(a)
  BY <1>2, <1>4, <1>6 DEF Plain
<1>8. Marshal(a) = Marshal(m)
  <2>1. FlagsByte(a) = FlagsByte(m)
    BY <1>5, Zenon DEF FlagsByte
  <2>2. Clamp(a.ttl) = Clamp(m.ttl) /\ Clamp(a.hops) = Clamp(m.hops)
    BY <1>2, <1>4, Zenon
  <2>3. a.timestamp = m.timestamp
    BY <1>4
  <2> QED BY <1>5, <2>1, <2>2, <2>3, Zenon DEF Marshal
<1> QED BY <1>4, <1>7, <1>8 DEF a

\* Unmarshal on an encoding whose last d bytes are missing, wherever the cut
\* falls: in the middle of a varint, of a length prefix, of a text or between two
\* fields. With all bytes it gives what Arrives says; otherwise it returns an error
\* or a message that lacks the key ID, or nonce and key ID, and nothing else of it.
THEOREM UnmarshalCut ==
    ASSUME NEW m \in WireMessage, Encodable(m), NEW d \in 0 .. Len(Marshal(m))
    PROVE  LET got == Unmarshal(SubSeq(Marshal(m), 1, Len(Marshal(m)) - d))
           IN  /\ d = 0 => got = [ok |-> TRUE, msg |-> Arrives(m)]
               /\ Preserved(Arrives(m), got)
<1> DEFINE a == Arrives(m)
<1>1. a \in WireMessage /\ Plain(a) /\ Marshal(a) = Marshal(m)
  BY ArrivesPlain, Zenon
<1> HIDE DEF a
<1>2. \A e \in 0 .. Len(Marshal(a)) :
         /\ e = 0 => Unmarshal(SubSeq(Marshal(a), 1, Len(Marshal(a)) - e)) = [ok |-> TRUE, msg |-> a]
         /\ Preserved(a, Unmarshal(SubSeq(Marshal(a), 1, Len(Marshal(a)) - e)))
  BY <1>1, PlainCut, Zenon
<1> QED BY <1>1, <1>2, Zenon DEF a

\* An encoding is a sequence of numbers.
LEMMA MarshalType == ASSUME NEW m \in WireMessage PROVE Marshal(m) \in Seq(Nat)
<1>1. Marshal(m) = <<FlagsByte(m)>> \o AfterFlags(m) /\ <<FlagsByte(m)>> \in Seq(Nat)
      /\ AfterFlags(m) \in Seq(Nat)
  BY MarshalFields, Zenon
<1>2. <<FlagsByte(m)>> \o AfterFlags(m) \in Seq(Nat)
  BY <1>1, Concat, Zenon
<1> QED BY <1>1, <1>2, Zenon

\* Two neighbouring slices make one.
LEMMA Glue ==
    ASSUME NEW c \in Seq(Nat), NEW i \in 0 .. Len(c), NEW j \in i .. Len(c)
    PROVE  SubSeq(c, 1, i) \o SubSeq(c, i + 1, j) = SubSeq(c, 1, j)
<1> DEFINE a == SubSeq(c, 1, i)
           b == SubSeq(c, i + 1, j)
           u == SubSeq(c, 1, j)
           v == a \o b
<1>1. Len(c) \in Nat /\ i \in Nat /\ j \in Nat /\ i <= j
  OBVIOUS
<1>2. a \in Seq(Nat) /\ Len(a) = i /\ \A x \in 1 .. i : a[x] = c[x]
  <2>1. 1 \in 1 .. Len(c) + 1 /\ i \in 1 - 1 .. Len(c)
    BY <1>1
  <2>2. a \in Seq(Nat) /\ Len(a) = i - 1 + 1 /\ \A x \in 1 .. i - 1 + 1 : a[x] = c[1 + x - 1]
    BY <2>1, Slice, Zenon
  <2>3. i - 1 + 1 = i /\ \A x \in 1 .. i : 1 + x - 1 = x
    BY <1>1
  <2> HIDE DEF a
  <2> QED BY <2>2, <2>3
<1>3. u \in Seq(Nat) /\ Len(u) = j /\ \A x \in 1 .. j : u[x] = c[x]
  <2>1. 1 \in 1 .. Len(c) + 1 /\ j \in 1 - 1 .. Len(c)
    BY <1>1
  <2>2. u \in Seq(Nat) /\ Len(u) = j - 1 + 1 /\ \A x \in 1 .. j - 1 + 1 : u[x] = c[1 + x - 1]
    BY <2>1, Slice, Zenon
  <2>3. j - 1 + 1 = j /\ \A x \in 1 .. j : 1 + x - 1 = x
    BY <1>1
  <2> HIDE DEF u
  <2> QED BY <2>2, <2>3
<1>4. b \in Seq(Nat) /\ Len(b) = j - i /\ \A x \in 1 .. j - i : b[x] = c[i + x]
  <2>1. i + 1 \in 1 .. Len(c) + 1 /\ j \in (i + 1) - 1 .. Len(c)
    BY <1>1
  <2>2. b \in Seq(Nat) /\ Len(b) = j - (i + 1) + 1
        /\ \A x \in 1 .. j - (i + 1) + 1 : b[x] = c[(i + 1) + x - 1]
    BY <2>1, Slice, Zenon
  <2>3. j - (i + 1) + 1 = j - i /\ \A x \in 1 .. j - i : (i + 1) + x - 1 = i + x
    BY <1>1
  <2> HIDE DEF b
  <2> QED BY <2>2, <2>3
<1> HIDE DEF a, b, u
<1>5. v \in Seq(Nat) /\ Len(v) = Len(a) + Len(b)
      /\ (\A x \in 1 .. Len(a) : v[x] = a[x]) /\ \A x \in 1 .. Len(b) : v[Len(a) + x] = b[x]
  BY <1>2, <1>4, Concat, Zenon
<1> HIDE DEF v
<1>6. Len(v) = Len(u)
  BY <1>1, <1>2, <1>3, <1>4, <1>5
<1>7. ASSUME NEW x \in 1 .. Len(v) PROVE v[x] = u[x]
  <2>1. CASE x <= i
    <3>1. x \in 1 .. i /\ x \in 1 .. j
      BY <1>1, <1>3, <1>6, <2>1
    <3> QED BY <1>2, <1>3, <1>5, <3>1
  <2>2. CASE ~ (x <= i)
    <3>1. x - i \in 1 .. j - i /\ x \in 1 .. j /\ i + (x - i) = x
      BY <1>1, <1>3, <1>6, <2>2
    <3>2. x - i \in 1 .. Len(b) /\ Len(a) = i
      BY <1>2, <1>4, <3>1
    <3>3. v[Len(a) + (x - i)] = b[x - i] /\ b[x - i] = c[i + (x - i)]
      BY <1>4, <1>5, <3>1, <3>2
    <3> QED BY <1>3, <3>1, <3>2, <3>3
  <2> QED BY <2>1, <2>2
<1>8. v = u
  BY <1>3, <1>5, <1>6, <1>7, SeqEqual
<1> QED BY <1>8 DEF v, a, b, u

\* Neighbouring slices of c, the i-th up to end[i], put together.
LEMMA FlattenSlices ==
    ASSUME NEW c \in Seq(Nat), NEW n \in Nat \ {0}, NEW end \in [0 .. n -> 0 .. Len(c)],
           end[0] = 0, \A i \in 1 .. n : end[i - 1] <= end[i],
           NEW parts, Len(parts) = n,
           \A i \in 1 .. n : parts[i] = SubSeq(c, end[i - 1] + 1, end[i])
    PROVE  FlattenSeq(parts) = SubSeq(c, 1, end[n])
<1> DEFINE Eq(f) == f = [i \in 1 .. Len(parts) |-> IF i = 1 THEN parts[i] ELSE f[i - 1] \o parts[i]]
           flatten == CHOOSE f : Eq(f)
           F == [i \in 1 .. n |-> SubSeq(c, 1, end[i])]
<1>1. FlattenSeq(parts) = flatten[n]
  BY DEF FlattenSeq
<1>2. ASSUME NEW i \in 1 .. n
      PROVE  F[i] = IF i = 1 THEN parts[i] ELSE F[i - 1] \o parts[i]
  <2>1. CASE i = 1
    <3>1. parts[i] = SubSeq(c, end[i - 1] + 1, end[i])
      OBVIOUS
    <3>2. end[i - 1] = 0 /\ 0 + 1 = 1
      BY <2>1
    <3>3. F[i] = SubSeq(c, 1, end[i])
      OBVIOUS
    <3> HIDE DEF F
    <3> QED BY <2>1, <3>1, <3>2, <3>3
  <2>2. CASE i # 1
    <3>1. i - 1 \in 1 .. n /\ i - 1 \in 0 .. n /\ i \in 0 .. n
      BY <2>2
    <3>2. end[i - 1] \in 0 .. Len(c) /\ end[i] \in end[i - 1] .. Len(c)
      <4>1. end[i - 1] \in 0 .. Len(c) /\ end[i] \in 0 .. Len(c)
        BY <3>1, Zenon
      <4>2. end[i - 1] <= end[i]
        BY Zenon
      <4>3. Len(c) \in Nat
        OBVIOUS
      <4> DEFINE low == end[i - 1]
                 high == end[i]
                 top == Len(c)
      <4>4. low \in 0 .. top /\ high \in 0 .. top /\ low <= high /\ top \in Nat
        BY <4>1, <4>2, <4>3, Zenon
      <4> HIDE DEF low, high, top
      <4>5. high \in low .. top
        BY <4>4
      <4> QED BY <4>1, <4>5, Zenon DEF low, high, top
    <3>3. SubSeq(c, 1, end[i - 1]) \o SubSeq(c, end[i - 1] + 1, end[i]) = SubSeq(c, 1, end[i])
      BY <3>2, Glue, Zenon
    <3>4. F[i - 1] = SubSeq(c, 1, end[i - 1]) /\ F[i] = SubSeq(c, 1, end[i])
      BY <3>1
    <3> QED BY <2>2, <3>3, <3>4
  <2> QED BY <2>1, <2>2
<1>3. Eq(F)
  <2>1. F = [i \in 1 .. n |-> F[i]]
    OBVIOUS
  <2> HIDE DEF F
  <2> QED BY <1>2, <2>1
<1> HIDE DEF F
<1>4. Eq(flatten)
  BY <1>3, Zenon
<1> HIDE DEF flatten
<1>5. ASSUME NEW i \in 1 .. n
      PROVE  flatten[i] = IF i = 1 THEN parts[i] ELSE flatten[i - 1] \o parts[i]
  BY <1>4
<1> DEFINE T == {i \in Nat : i \in 1 .. n => flatten[i] = F[i]}
<1>6. ASSUME NEW i \in Nat, \A j \in Nat : j < i => j \in T PROVE i \in T
  <2> SUFFICES ASSUME i \in 1 .. n PROVE flatten[i] = F[i]
    OBVIOUS
  <2>1. CASE i = 1
    BY <1>2, <1>5, <2>1
  <2>2. CASE i # 1
    <3>1. i - 1 \in Nat /\ i - 1 < i /\ i - 1 \in 1 .. n
      BY <2>2
    <3>2. flatten[i - 1] = F[i - 1]
      BY <1>6, <3>1
    <3> QED BY <1>2, <1>5, <2>2, <3>2
  <2> QED BY <2>1, <2>2
<1> HIDE DEF T
<1>7. \A i \in Nat : i \in T
  BY <1>6, Induction
<1>8. n \in 1 .. n
  OBVIOUS
<1>9. flatten[n] = F[n]
  BY <1>7, <1>8 DEF T
<1> QED BY <1>1, <1>8, <1>9 DEF F

\* The ends of the frames.
LEMMA FrameEnds ==
    ASSUME NEW bytes \in Nat, bytes > MTU
    PROVE  LET n == (bytes + MTU - 1) \div MTU
           IN  /\ n \in Nat \ {0} /\ ~ (n * MTU < bytes)
               /\ \A i \in 1 .. n : (i - 1) * MTU \in Nat /\ (i - 1) * MTU < bytes /\ i * MTU \in Nat
                                    /\ (i - 1) * MTU <= i * MTU
<1> DEFINE n == (bytes + MTU - 1) \div MTU
<1>1. MTU \in Nat /\ MTU >= 1
  BY CodecAssumption
<1>2. n \in Nat /\ MTU * n <= bytes + MTU - 1 /\ bytes + MTU - 1 < MTU * n + MTU
  <2> DEFINE x == bytes + MTU - 1
  <2>1. x \in Nat
    BY <1>1
  <2> HIDE DEF x
  <2>2. x \div MTU \in Nat /\ x % MTU \in 0 .. MTU - 1
    BY <1>1, <2>1
  <2>3. \A q, r \in Nat : q = x \div MTU /\ r = x % MTU => x = MTU * q + r
    BY <1>1, <2>1
  <2>4. PICK q \in Nat : q = x \div MTU
    BY <2>2
  <2>5. PICK r \in Nat : r = x % MTU /\ r < MTU
    BY <1>1, <2>2
  <2>6. x = MTU * q + r
    BY <2>3, <2>4, <2>5
  <2>7. MTU * q \in Nat
    BY <1>1
  <2>8. MTU * q <= x /\ x < MTU * q + MTU
    BY <1>1, <2>5, <2>6, <2>7
  <2> QED BY <2>2, <2>4, <2>8 DEF x
<1> HIDE DEF n
<1>3. n * MTU = MTU * n /\ n * MTU \in Nat
  BY <1>1, <1>2
<1>4. ~ (n * MTU < bytes)
  BY <1>1, <1>2, <1>3
<1>5. n # 0
  BY <1>1, <1>4
<1>6. ASSUME NEW i \in 1 .. n
      PROVE  (i - 1) * MTU \in Nat /\ (i - 1) * MTU < bytes /\ i * MTU \in Nat
             /\ (i - 1) * MTU <= i * MTU
  <2>1. i - 1 \in Nat /\ n - i \in Nat
    BY <1>2
  <2>2. i * MTU = (i - 1) * MTU + MTU /\ n * MTU = i * MTU + (n - i) * MTU
    BY <1>1, <1>2
  <2>3. (i - 1) * MTU \in Nat /\ i * MTU \in Nat /\ (n - i) * MTU \in Nat
    BY <1>1, <2>1
  <2> QED BY <1>1, <1>2, <1>3, <2>2, <2>3
<1> QED BY <1>2, <1>4, <1>5, <1>6 DEF n

\* What arrives when the first k frames arrive is a prefix of the encoding.
LEMMA FramesCut ==
    ASSUME NEW c \in Seq(Nat), NEW k \in 1 .. Len(MTUFriendlySplit(c))
    PROVE  \E d \in 0 .. Len(c) :
              /\ FlattenSeq(SubSeq(MTUFriendlySplit(c), 1, k)) = SubSeq(c, 1, Len(c) - d)
              /\ k = Len(MTUFriendlySplit(c)) => d = 0
<1> DEFINE bytes == Len(c)
           s == MTUFriendlySplit(c)
           parts == SubSeq(s, 1, k)
<1>1. bytes \in Nat /\ MTU \in Nat
  BY CodecAssumption
<1>2. CASE bytes <= MTU
  <2>1. s = <<c>>
    BY <1>2 DEF MTUFriendlySplit
  <2>2. k = 1 /\ Len(s) = 1
    BY <2>1
  <2>3. SubSeq(<<c>>, 1, 1) = <<c>>
    <3> DEFINE one == <<c>>
    <3>1. one \in Seq(Seq(Nat)) /\ Len(one) = 1
      OBVIOUS
    <3> HIDE DEF one
    <3>2. SubSeq(one, 1, Len(one)) = one
      BY <3>1, SubSeqFull
    <3> QED BY <3>1, <3>2 DEF one
  <2>4. parts = <<c>>
    BY <2>1, <2>2, <2>3, Zenon
  <2>5. FlattenSeq(<<c>>) = SubSeq(c, 1, bytes)
    <3> DEFINE end == [i \in 0 .. 1 |-> i * bytes]
               one == <<c>>
    <3>1. end[0] = 0 /\ end[1] = bytes /\ end \in [0 .. 1 -> 0 .. bytes]
      BY <1>1
    <3>2. Len(one) = 1 /\ one[1] = c
      OBVIOUS
    <3>3. c = SubSeq(c, 1, bytes)
      OBVIOUS
    <3> HIDE DEF end, one
    <3>4. \A i \in 1 .. 1 : i = 1 /\ i - 1 = 0
      OBVIOUS
    <3>5. \A i \in 1 .. 1 : end[i - 1] <= end[i] /\ one[i] = SubSeq(c, end[i - 1] + 1, end[i])
      BY <1>1, <3>1, <3>2, <3>3, <3>4
    <3>6. 1 \in Nat \ {0}
      OBVIOUS
    <3>7. FlattenSeq(one) = SubSeq(c, 1, end[1])
      <4> DEFINE n == 1
      <4>1. /\ n \in Nat \ {0} /\ end \in [0 .. n -> 0 .. Len(c)] /\ end[0] = 0 /\ Len(one) = n
            /\ \A i \in 1 .. n : end[i - 1] <= end[i]
            /\ \A i \in 1 .. n : one[i] = SubSeq(c, end[i - 1] + 1, end[i])
        BY <3>1, <3>2, <3>5, <3>6
      <4> HIDE DEF n
      <4>2. FlattenSeq(one) = SubSeq(c, 1, end[n])
        BY <4>1, FlattenSlices, ZenonT(30)
      <4> QED BY <4>2 DEF n
    <3> QED BY <3>1, <3>7 DEF one
  <2>6. bytes - 0 = bytes /\ 0 \in 0 .. bytes
    BY <1>1
  <2> QED BY <2>4, <2>5, <2>6
<1>3. CASE ~ (bytes <= MTU)
  <2> DEFINE n == (bytes + MTU - 1) \div MTU
             stop(i) == IF i * MTU < bytes THEN i * MTU ELSE bytes
             end == [i \in 0 .. k |-> stop(i)]
  <2>1. bytes > MTU
    BY <1>1, <1>3
  <2>2. /\ n \in Nat \ {0} /\ ~ (n * MTU < bytes)
        /\ \A i \in 1 .. n : (i - 1) * MTU \in Nat /\ (i - 1) * MTU < bytes /\ i * MTU \in Nat
                             /\ (i - 1) * MTU <= i * MTU
    BY <1>1, <2>1, FrameEnds, Zenon
  <2>3. s = [i \in 1 .. n |-> SubSeq(c, (i - 1) * MTU + 1, stop(i))]
    BY <1>3 DEF MTUFriendlySplit
  <2> HIDE DEF n
  <2>4. Len(s) = n /\ k \in 1 .. n /\ k \in Nat \ {0}
    <3>1. Len(s) = n
      BY <2>2, <2>3
    <3> QED BY <2>2, <3>1
  <2>5. Len(parts) = k /\ \A i \in 1 .. k : parts[i] = s[i]
    <3>1. k \in Int /\ 1 <= k /\ k - 1 + 1 = k /\ \A i \in 1 .. k : 1 + i - 1 = i
      BY <2>4
    <3> HIDE DEF s
    <3> DEFINE S == {s[i] : i \in 1 .. k}
    <3>2. \A i \in 1 .. k : s[i] \in S
      OBVIOUS
    <3> HIDE DEF S
    <3>3. /\ SubSeq(s, 1, k) \in Seq(S)
          /\ Len(SubSeq(s, 1, k)) = IF 1 <= k THEN k - 1 + 1 ELSE 0
          /\ \A i \in 1 .. k - 1 + 1 : SubSeq(s, 1, k)[i] = s[1 + i - 1]
      BY <3>1, <3>2, SubSeqProperties
    <3> HIDE DEF parts
    <3> QED BY <3>1, <3>3 DEF parts
  <2>6. ASSUME NEW i \in 1 .. k PROVE parts[i] = SubSeq(c, (i - 1) * MTU + 1, stop(i))
    <3>1. parts[i] = s[i]
      BY <2>5
    <3>2. i \in 1 .. n
      BY <2>2, <2>4
    <3> HIDE DEF parts, s
    <3> QED BY <2>3, <3>1, <3>2
  <2> HIDE DEF s, parts, stop
  <2>7. \A i \in 1 .. k : stop(i - 1) = (i - 1) * MTU /\ stop(i - 1) <= stop(i)
                            /\ stop(i) \in 0 .. bytes
    BY <1>1, <2>2, <2>4 DEF stop
  <2>8. stop(0) = 0
    BY <1>1, <2>1 DEF stop
  <2>9. end \in [0 .. k -> 0 .. bytes] /\ end[0] = 0 /\ end[k] = stop(k)
    <3>1. \A i \in 0 .. k : i = 0 \/ i \in 1 .. k
      BY <2>4
    <3>2. \A i \in 0 .. k : stop(i) \in 0 .. bytes
      BY <1>1, <2>7, <2>8, <3>1
    <3> QED BY <2>4, <2>8, <3>2
  <2>10. ASSUME NEW i \in 1 .. k
         PROVE  end[i - 1] <= end[i] /\ parts[i] = SubSeq(c, end[i - 1] + 1, end[i])
    <3>1. i - 1 \in 0 .. k /\ i \in 0 .. k
      BY <2>4
    <3>2. end[i - 1] = stop(i - 1) /\ end[i] = stop(i)
      BY <3>1
    <3> HIDE DEF end
    <3> QED BY <2>6, <2>7, <3>2
  <2> HIDE DEF end
  <2>11. FlattenSeq(parts) = SubSeq(c, 1, end[k])
    BY <2>4, <2>5, <2>9, <2>10, FlattenSlices
  <2> DEFINE d == bytes - stop(k)
  <2>12. d \in 0 .. bytes /\ bytes - d = end[k]
    <3>1. stop(k) \in 0 .. bytes
      BY <2>4, <2>7
    <3> QED BY <1>1, <2>9, <3>1
  <2>13. k = Len(s) => d = 0
    BY <1>1, <2>2, <2>4 DEF stop
  <2> HIDE DEF d
  <2>14. FlattenSeq(parts) = SubSeq(c, 1, bytes - d)
    BY <2>11, <2>12
  <2> QED BY <2>12, <2>13, <2>14 DEF parts, s
<1> QED BY <1>2, <1>3

-----------------------------------------------------------------------------
(***************************************************************************)
(* The theorems about the codec.                                           *)
(***************************************************************************)

\* Of every message the format can carry Unmarshal gives back what Arrives says:
\* all of it but the two fields Marshal does not write, with TTL and hops clamped.
THEOREM CodecInverse ==
    \A m \in WireMessage :
        Encodable(m) => Unmarshal(Marshal(m)) = [ok |-> TRUE, msg |-> Arrives(m)]
<1> SUFFICES ASSUME NEW m \in WireMessage, Encodable(m)
             PROVE  Unmarshal(Marshal(m)) = [ok |-> TRUE, msg |-> Arrives(m)]
  OBVIOUS
<1> DEFINE c == Marshal(m)
<1>1. c \in Seq(Nat)
  BY MarshalType, Zenon
<1>2. \A d \in 0 .. Len(c) :
         d = 0 => Unmarshal(SubSeq(c, 1, Len(c) - d)) = [ok |-> TRUE, msg |-> Arrives(m)]
  BY UnmarshalCut, Zenon
<1> HIDE DEF c
<1>3. 0 \in 0 .. Len(c) /\ Len(c) - 0 = Len(c) /\ SubSeq(c, 1, Len(c)) = c
  BY <1>1, SubSeqFull
<1>4. Unmarshal(SubSeq(c, 1, Len(c) - 0)) = [ok |-> TRUE, msg |-> Arrives(m)]
  BY <1>2, <1>3, Zenon
<1> QED BY <1>3, <1>4 DEF c

\* An encoding is not taken for JSON.
LEMMA MarshalIsBinary == ASSUME NEW m \in WireMessage PROVE IsBinaryFormat(Marshal(m))
<1> DEFINE a == <<FlagsByte(m)>>
           b == AfterFlags(m)
           c == a \o b
<1>1. Marshal(m) = c /\ a \in Seq(Nat) /\ b \in Seq(Nat)
  BY MarshalFields, Zenon
<1>2. Len(a) = 1 /\ a[1] = FlagsByte(m) /\ FlagsByte(m) # Brace
  BY FlagsHalves
<1> HIDE DEF a, b
<1>3. c \in Seq(Nat) /\ Len(c) = Len(a) + Len(b) /\ \A i \in 1 .. Len(a) : c[i] = a[i]
  BY <1>1, Concat, Zenon
<1>4. Len(b) \in Nat
  BY <1>1
<1> HIDE DEF c
<1>5. c # <<>> /\ c[1] = FlagsByte(m)
  BY <1>2, <1>3, <1>4
<1> QED BY <1>1, <1>2, <1>5 DEF IsBinaryFormat

\* The frames of an encoding, all of them and some of them.
LEMMA ReceivedFrames ==
    ASSUME NEW m \in WireMessage, Encodable(m), NEW k \in 1 .. Frames(m)
    PROVE  /\ k = Frames(m) => Unmarshal(Received(m, k)) = [ok |-> TRUE, msg |-> Arrives(m)]
           /\ Preserved(Arrives(m), Unmarshal(Received(m, k)))
<1> DEFINE c == Marshal(m)
<1>1. c \in Seq(Nat)
  BY MarshalType, Zenon
<1>2. \A d \in 0 .. Len(c) :
         /\ d = 0 => Unmarshal(SubSeq(c, 1, Len(c) - d)) = [ok |-> TRUE, msg |-> Arrives(m)]
         /\ Preserved(Arrives(m), Unmarshal(SubSeq(c, 1, Len(c) - d)))
  BY UnmarshalCut, Zenon
<1>3. Frames(m) = Len(MTUFriendlySplit(c))
      /\ Received(m, k) = FlattenSeq(SubSeq(MTUFriendlySplit(c), 1, k))
  BY DEF Frames, Received
<1> HIDE DEF c
<1>4. PICK d \in 0 .. Len(c) :
         /\ FlattenSeq(SubSeq(MTUFriendlySplit(c), 1, k)) = SubSeq(c, 1, Len(c) - d)
         /\ k = Len(MTUFriendlySplit(c)) => d = 0
  BY <1>1, <1>3, FramesCut
<1> QED BY <1>2, <1>3, <1>4, Zenon

\* There is a frame.
LEMMA SomeFrame == ASSUME NEW m \in WireMessage PROVE Frames(m) \in 1 .. Frames(m)
<1> DEFINE c == Marshal(m)
           bytes == Len(c)
<1>1. c \in Seq(Nat) /\ bytes \in Nat
  BY MarshalType
<1>2. Frames(m) = Len(MTUFriendlySplit(c))
  BY DEF Frames
<1> HIDE DEF c
<1>3. CASE bytes <= MTU
  <2>1. MTUFriendlySplit(c) = <<c>>
    BY <1>3 DEF MTUFriendlySplit
  <2>2. Len(<<c>>) = 1
    OBVIOUS
  <2> QED BY <1>2, <2>1, <2>2
<1>4. CASE ~ (bytes <= MTU)
  <2> DEFINE n == (bytes + MTU - 1) \div MTU
  <2>1. bytes > MTU
    BY <1>1, <1>4, CodecAssumption
  <2>2. n \in Nat \ {0}
    BY <1>1, <2>1, FrameEnds, Zenon
  <2>3. MTUFriendlySplit(c) = [i \in 1 .. n |->
            SubSeq(c, (i - 1) * MTU + 1, IF i * MTU < Len(c) THEN i * MTU ELSE Len(c))]
    BY <1>4 DEF MTUFriendlySplit
  <2> HIDE DEF n
  <2>4. Len(MTUFriendlySplit(c)) = n
    BY <2>2, <2>3
  <2> QED BY <1>2, <2>2, <2>4
<1> QED BY <1>3, <1>4

\* The samples of the run are messages.
LEMMA SamplesAreMessages == Samples \subseteq WireMessage
<1>1. \A b, n \in Nat : Text(b, n) \in Seq(Nat)
  BY DEF Text
<1>2. Top \in Nat /\ Base \in Nat /\ Top - 1 \in Nat /\ Base + 1 \in Nat /\ Top + 1 \in Nat
      /\ Base * Base \in Nat
  BY Bytes
<1>3. <<>> \in Seq(Nat) /\ <<3>> \in Seq(Nat) /\ <<0, 1>> \in Seq(Nat) /\ <<2, 2>> \in Seq(Nat)
  OBVIOUS
<1>4. Mandatory \subseteq Seq(Nat) /\ Optional \subseteq Seq(Nat)
  BY <1>1, <1>2, <1>3 DEF Mandatory, Optional
<1>5. Text(1, 2) \in Seq(Nat) /\ Text(Top, 1) \in Seq(Nat) /\ Text(0, Base) \in Seq(Nat)
      /\ Text(0, 2) \in Seq(Nat) /\ Text(Top, 2) \in Seq(Nat) /\ Text(1, Base) \in Seq(Nat)
  BY <1>1, <1>2
<1> DEFINE Ty == {<<>>, <<3>>, <<0, 1>>, <<2, 2>>}
           Id == {<<>>, Text(1, 2)}
           Se == {<<>>, Text(Top, 1), Text(0, Base)}
           Re == {<<>>, Text(0, 2)}
           Pa == Mandatory \cup {<<>>}
           Ti == {-2, 0, 40}
           Tt == {0, Top}
           Ho == {1, Top + 1}
           Sp == {0, 3}
           Co == {0, 2}
           No == {<<>>, Text(Top, 2)}
           Ke == {<<>>, Text(1, Base)}
<1>6. /\ Ty \subseteq Seq(Nat) /\ Id \subseteq Seq(Nat) /\ Se \subseteq Seq(Nat)
      /\ Re \subseteq Seq(Nat) /\ Pa \subseteq Seq(Nat) /\ No \subseteq Seq(Nat)
      /\ Ke \subseteq Seq(Nat)
  BY <1>3, <1>4, <1>5
<1>7. /\ Ti \subseteq Int /\ Tt \subseteq Nat /\ Ho \subseteq Nat
      /\ Sp \subseteq Nat /\ Co \subseteq Nat
  BY <1>2
<1>8. Samples = [type : Ty, id : Id, sender : Se, nick : Optional, recipient : Re, payload : Pa,
                 timestamp : Ti, ttl : Tt, hops : Ho, sprayBudget : Sp, copiesMade : Co,
                 nonce : No, keyID : Ke]
  BY DEF Samples
<1> HIDE DEF Ty, Id, Se, Re, Pa, Ti, Tt, Ho, Sp, Co, No, Ke
<1> QED BY <1>4, <1>6, <1>7, <1>8 DEF WireMessage

\* A state keeps its sample.
LEMMA SampleKept == ASpec => [](sample \in Samples \cup {NoSample})
<1> DEFINE I == sample \in Samples \cup {NoSample}
<1>1. AInit => I
  BY DEF AInit
<1>2. I /\ [ANext]_<<loopVars, sample>> => I'
  BY DEF ANext
<1> QED BY <1>1, <1>2, PTL DEF ASpec

\* LooksBinary for every byte size: the first byte of an encoding is never the
\* opening brace by which IsBinaryFormat knows JSON.
THEOREM CodecLooksBinary == ASpec => []LooksBinary
<1>1. sample \in Samples \cup {NoSample} => LooksBinary
  BY SamplesAreMessages, MarshalIsBinary DEF LooksBinary
<1> QED BY <1>1, SampleKept, PTL

\* The half of RoundTrip about the messages the format can carry, for every byte
\* size and frame size: the frames of such a sample, put together again, unmarshal
\* to what Arrives says.  That all other samples are lost is left to the run.
THEOREM CodecRoundTrip == ASpec => [](sample # NoSample /\ Encodable(sample) => RoundTrip)
<1>1. sample \in Samples \cup {NoSample} => (sample # NoSample /\ Encodable(sample) => RoundTrip)
  <2> SUFFICES ASSUME sample \in WireMessage, Encodable(sample)
               PROVE  Unmarshal(Received(sample, Frames(sample)))
                        = [ok |-> TRUE, msg |-> Arrives(sample)]
    BY SamplesAreMessages DEF RoundTrip
  <2>1. Frames(sample) \in 1 .. Frames(sample)
    BY SomeFrame, Zenon
  <2> QED BY <2>1, ReceivedFrames, Zenon
<1> QED BY <1>1, SampleKept, PTL

\* TruncationNoticed for every byte size and frame size: without its last frames
\* a sample unmarshals to an error, or loses nothing but nonce and key ID.
THEOREM CodecTruncation == ASpec => []TruncationNoticed
<1>1. sample \in Samples \cup {NoSample} => TruncationNoticed
  <2> SUFFICES ASSUME sample \in WireMessage, Encodable(sample), NEW k \in 1 .. Frames(sample) - 1,
                      Unmarshal(Received(sample, k)).ok, NEW f \in DOMAIN sample
               PROVE  \/ Unmarshal(Received(sample, k)).msg[f] = Arrives(sample)[f]
                      \/ /\ f \in {"nonce", "keyID"}
                         /\ Unmarshal(Received(sample, k)).msg[f] = <<>>
    BY SamplesAreMessages DEF TruncationNoticed
  <2>1. k \in 1 .. Frames(sample)
    <3>1. Frames(sample) \in 1 .. Frames(sample)
      BY SomeFrame, Zenon
    <3> QED BY <3>1
  <2>2. Preserved(Arrives(sample), Unmarshal(Received(sample, k)))
    BY <2>1, ReceivedFrames, Zenon
  <2>3. f \in Fields \cup Copies
    BY DEF WireMessage, Fields, Copies, Texts
  <2> QED BY <2>2, <2>3, Zenon DEF Preserved
<1> QED BY <1>1, SampleKept, PTL
=============================================================================
