----------------------------- MODULE SosProofs -----------------------------
(***************************************************************************)
(* The lifetime of an SOS alert, proved for every set of nodes, every      *)
(* initial TTL and every duration.                                         *)
(***************************************************************************)
EXTENDS Sos, TLAPS

\* A copy under way was sent while its sender still had the time for it.
CopiesYoung == \A c \in air : age <= (MaxTTL - c.ttl) * ActiveDuration

\* Time is counted from the moment the alert is sent.
AgeStarts == sending \in {"no", "tracked"} => age = 0

LifeInv == TypeOK /\ AlertLifetime /\ CopiesYoung /\ AgeStarts

-----------------------------------------------------------------------------
(***************************************************************************)
(* Arithmetic: using a hop adds one duration.                              *)
(***************************************************************************)
LEMMA OneHop ==
    ASSUME NEW d \in Nat, NEW m \in Nat, NEW t \in Nat
    PROVE  (m - t + 1) * d = (m - t) * d + d
OBVIOUS

LEMMA FewerHops ==
    ASSUME NEW d \in Nat, NEW m \in Nat, NEW t \in Nat, NEW u \in Nat, u <= t, t <= m
    PROVE  (m - t) * d <= (m - u) * d
<1>1. (m - u) * d = (m - t) * d + (t - u) * d
    OBVIOUS
<1>2. (t - u) * d >= 0 /\ (m - t) * d \in Int /\ (t - u) * d \in Int
    OBVIOUS
<1> QED
    BY <1>1, <1>2

\* A copy that is accepted gives a tracked alert of the right age.
LEMMA AcceptYoung ==
    ASSUME TypeOK, CopiesYoung, NEW c \in air, NEW t \in 0..MaxTTL, t <= c.ttl
    PROVE  age + ActiveDuration <= (MaxTTL - t + 1) * ActiveDuration
<1>1. c.ttl \in 0..MaxTTL /\ MaxTTL \in Nat /\ ActiveDuration \in Nat /\ age \in Nat
    BY SosAssumption DEF TypeOK
<1>2. age <= (MaxTTL - c.ttl) * ActiveDuration
    BY DEF CopiesYoung
<1>3. (MaxTTL - c.ttl) * ActiveDuration <= (MaxTTL - t) * ActiveDuration
    BY <1>1, FewerHops
<1>4. (MaxTTL - t + 1) * ActiveDuration = (MaxTTL - t) * ActiveDuration + ActiveDuration
    BY <1>1, OneHop
<1>5. (MaxTTL - c.ttl) * ActiveDuration \in Int /\ (MaxTTL - t) * ActiveDuration \in Int
    BY <1>1
<1> HIDE DEF CopiesYoung
<1> QED
    BY <1>1, <1>2, <1>3, <1>4, <1>5

\* The hops of a relayed copy.
LEMMA TTLTypes ==
    ASSUME NEW n \in Node, NEW t \in 0..MaxTTL
    PROVE  TTLAfter(n, t) \in 0..MaxTTL /\ TTLAfter(n, t) <= t
BY SosAssumption DEF TTLAfter

\* A relayed copy has fewer hops left than the one it comes from.
LEMMA RelayedYoung ==
    ASSUME TypeOK, CopiesYoung, NEW c \in air, NEW r \in Relayed(c.to, c.ttl)
    PROVE  /\ r \in [to : Node, ttl : 0..MaxTTL]
           /\ age <= (MaxTTL - r.ttl) * ActiveDuration
<1>1. c.ttl \in 0..MaxTTL /\ MaxTTL \in Nat /\ ActiveDuration \in Nat /\ age \in Nat
    BY SosAssumption DEF TypeOK
<1>2. c.ttl > 0 /\ r.ttl = c.ttl - 1 /\ r \in [to : Node, ttl : 0..MaxTTL]
    BY <1>1 DEF Relayed, Copies, TypeOK
<1>3. age <= (MaxTTL - c.ttl) * ActiveDuration
    BY DEF CopiesYoung
<1>4. (MaxTTL - c.ttl) * ActiveDuration <= (MaxTTL - r.ttl) * ActiveDuration
    BY <1>1, <1>2, FewerHops
<1>5. (MaxTTL - c.ttl) * ActiveDuration \in Int /\ (MaxTTL - r.ttl) * ActiveDuration \in Int
    BY <1>1, <1>2
<1> QED
    BY <1>1, <1>2, <1>3, <1>4, <1>5

(***************************************************************************)
(* LifeInv is inductive.                                                   *)
(***************************************************************************)
LEMMA InitLife == Init => LifeInv
<1> SUFFICES ASSUME Init PROVE LifeInv
    OBVIOUS
<1>1. TypeOK
    BY SosAssumption DEF Init, TypeOK
<1>2. AlertLifetime /\ CopiesYoung /\ AgeStarts
    BY DEF Init, AlertLifetime, CopiesYoung, AgeStarts, Tracks
<1> QED
    BY <1>1, <1>2 DEF LifeInv

LEMMA SendKeeps ==
    ASSUME LifeInv, SendAlert \/ SendMessage \/ SendFails
    PROVE  LifeInv'
<1> USE SosAssumption DEF LifeInv
<1>1. CASE SendAlert
    <2>1. TypeOK' /\ AgeStarts' /\ CopiesYoung'
        BY <1>1 DEF SendAlert, TypeOK, AgeStarts, CopiesYoung, NewAlert, Alert
    <2>2. (MaxTTL - MaxTTL + 1) * ActiveDuration = ActiveDuration
        OBVIOUS
    <2>3. AlertLifetime'
        BY <1>1, <2>2 DEF SendAlert, TypeOK, AgeStarts, AlertLifetime, Tracks, NewAlert
    <2> QED
        BY <2>1, <2>3
<1>2. CASE SendMessage
    <2>1. TypeOK' /\ AgeStarts'
        BY <1>2 DEF SendMessage, TypeOK, AgeStarts, Copies
    <2>2. AlertLifetime'
        BY <1>2 DEF SendMessage, AlertLifetime, Tracks
    <2>3. (MaxTTL - MaxTTL) * ActiveDuration = 0
        OBVIOUS
    <2>4. CopiesYoung'
        BY <1>2, <2>3 DEF SendMessage, AgeStarts, CopiesYoung, Copies
    <2> QED
        BY <2>1, <2>2, <2>4
<1>3. CASE SendFails
    BY <1>3 DEF SendFails, TypeOK, AgeStarts, CopiesYoung, AlertLifetime, Tracks
<1> QED
    BY <1>1, <1>2, <1>3

LEMMA ReceiveKeeps == ASSUME LifeInv, NEW c \in air, Receive(c) PROVE LifeInv'
<1> USE DEF LifeInv
<1>1. CASE c.to \in seen
    BY <1>1 DEF Receive, TypeOK, AgeStarts, CopiesYoung, AlertLifetime, Tracks
<1>2. CASE c.to \notin seen
    <2>1. /\ seen' = seen \cup {c.to}
          /\ air' = (air \ {c}) \cup Relayed(c.to, c.ttl)
          /\ age' = age /\ sending' = sending /\ joined' = joined
          /\ UNCHANGED <<ackCount, rounds, pruned>>
        BY <1>2 DEF Receive
    <2>2. c.to \in Node /\ c.ttl \in 0..MaxTTL
        BY DEF TypeOK
    <2>3. air' \subseteq [to : Node, ttl : 0..MaxTTL] /\ CopiesYoung'
        BY <2>1, RelayedYoung DEF TypeOK, CopiesYoung
    <2>4. CASE Tracks(c.to)
        <3>1. UNCHANGED <<alerts, ackAir>>
            BY <1>2, <2>4 DEF Receive
        <3> QED
            BY <2>1, <2>2, <2>3, <3>1 DEF TypeOK, AgeStarts, AlertLifetime, Tracks
    <2>5. CASE ~Tracks(c.to)
        <3> DEFINE t == TTLAfter(c.to, c.ttl)
        <3>1. /\ alerts' = [alerts EXCEPT ![c.to] = NewAlert(t)]
              /\ ackAir' \in {ackAir, IF ackAir < MaxAck THEN ackAir + 1 ELSE ackAir}
            BY <1>2, <2>5 DEF Receive
        <3>2. t \in 0..MaxTTL /\ t <= c.ttl
            BY <2>2, TTLTypes
        <3>3. age + ActiveDuration <= (MaxTTL - t + 1) * ActiveDuration
            BY <3>2, AcceptYoung
        <3> HIDE DEF t
        <3>4. TypeOK'
            BY <2>1, <2>2, <2>3, <3>1, <3>2, SosAssumption DEF TypeOK, NewAlert, Alert
        <3>5. AlertLifetime'
            BY <2>1, <2>2, <3>1, <3>3 DEF TypeOK, AlertLifetime, Tracks, NewAlert
        <3> QED
            BY <2>1, <2>3, <3>4, <3>5 DEF AgeStarts
    <2> QED
        BY <2>4, <2>5
<1> QED
    BY <1>1, <1>2

LEMMA ReBroadcastKeeps == ASSUME LifeInv, NEW n \in Node, ReBroadcast(n) PROVE LifeInv'
<1> USE DEF LifeInv
<1> DEFINE t == alerts[n].ttl
           u == RebroadcastTTL(n)
<1>1. /\ alerts[n] \in Alert /\ t \in 0..MaxTTL /\ alerts[n].left \in Nat
      /\ alerts[n].left > 0 /\ age \in Nat
    BY DEF ReBroadcast, Tracks, TypeOK, Alert
<1>2. u = t - 1 /\ u \in 0..MaxTTL
    BY <1>1, SosAssumption DEF ReBroadcast, RebroadcastTTL
<1>3. age + alerts[n].left <= (MaxTTL - t + 1) * ActiveDuration
    BY DEF ReBroadcast, AlertLifetime
<1>4. (MaxTTL - t + 1) * ActiveDuration = (MaxTTL - u) * ActiveDuration
    BY <1>1, <1>2, SosAssumption
<1>5. (MaxTTL - u) * ActiveDuration \in Int
    BY <1>2, SosAssumption
<1>6. air' = air \cup Copies(u) /\ UNCHANGED <<joined, sending, alerts, seen, age>>
    BY DEF ReBroadcast
<1> HIDE DEF t, u
<1>7. age <= (MaxTTL - u) * ActiveDuration
    BY <1>1, <1>3, <1>4, <1>5
<1>8. CopiesYoung'
    BY <1>6, <1>7 DEF CopiesYoung, Copies
<1>9. TypeOK'
    BY <1>2, <1>6, SosAssumption DEF TypeOK, ReBroadcast, Copies
<1> QED
    BY <1>6, <1>8, <1>9 DEF AgeStarts, AlertLifetime, Tracks

LEMMA TickKeeps == ASSUME LifeInv, Tick PROVE LifeInv'
<1> USE DEF LifeInv
<1>1. \A n \in Node : Tracks(n) =>
        /\ alerts[n] \in Alert /\ alerts[n].left \in Nat \ {0}
        /\ alerts'[n] \in Alert
        /\ alerts'[n].left = alerts[n].left - 1 /\ alerts'[n].ttl = alerts[n].ttl
    <2> SUFFICES ASSUME NEW n \in Node, Tracks(n)
                 PROVE  /\ alerts[n] \in Alert /\ alerts[n].left \in Nat \ {0}
                        /\ alerts'[n] \in Alert
                        /\ alerts'[n].left = alerts[n].left - 1
                        /\ alerts'[n].ttl = alerts[n].ttl
        OBVIOUS
    <2>1. alerts[n] \in Alert
        BY DEF Tracks, TypeOK
    <2>2. alerts'[n] = [alerts[n] EXCEPT !.left = alerts[n].left - 1]
        BY DEF Tick, Expired
    <2>3. alerts[n].left \in 0..ActiveDuration /\ alerts[n].ttl \in 0..MaxTTL
        BY <2>1 DEF Alert
    <2>4. alerts[n].left # 0
        BY DEF Tick, Expired
    <2>5. alerts'[n].left = alerts[n].left - 1 /\ alerts'[n].ttl = alerts[n].ttl
        BY <2>1, <2>2 DEF Alert
    <2>6. alerts[n].left - 1 \in 0..ActiveDuration
        BY <2>3, <2>4, SosAssumption
    <2>7. alerts'[n] \in Alert
        BY <2>1, <2>2, <2>6 DEF Alert
    <2> QED
        BY <2>1, <2>3, <2>4, <2>5, <2>7, SosAssumption
<1>2. \A n \in Node : ~Tracks(n) => alerts'[n] = NoAlert
    BY DEF Tick, TypeOK
<1>3. age' \in 0..MaxAge /\ age' <= age + 1 /\ age \in Nat
    BY SosAssumption DEF Tick, TypeOK
<1>4. TypeOK'
    <2>1. alerts' \in [Node -> Alert \cup {NoAlert}]
        BY <1>1, <1>2 DEF Tick
    <2>2. rounds' \in [Node -> 0..MaxRound]
        BY SosAssumption DEF Tick
    <2> QED
        BY <1>3, <2>1, <2>2 DEF Tick, TypeOK
<1>5. AlertLifetime'
    <2> SUFFICES ASSUME NEW n \in Node, Tracks(n)'
                 PROVE  age' + alerts'[n].left <= (MaxTTL - alerts'[n].ttl + 1) * ActiveDuration
        BY DEF AlertLifetime
    <2>1. Tracks(n)
        BY <1>2 DEF Tracks
    <2>2. alerts'[n].left = alerts[n].left - 1 /\ alerts'[n].ttl = alerts[n].ttl
        BY <1>1, <2>1
    <2>3. age + alerts[n].left <= (MaxTTL - alerts[n].ttl + 1) * ActiveDuration
        BY <2>1 DEF AlertLifetime
    <2>4. (MaxTTL - alerts[n].ttl + 1) * ActiveDuration \in Int
        BY <1>1, <2>1, SosAssumption DEF Alert
    <2>5. age' + alerts'[n].left <= age + alerts[n].left
        BY <1>1, <1>3, <2>1, <2>2
    <2> QED
        BY <1>1, <1>3, <2>1, <2>2, <2>3, <2>4, <2>5
<1>6. CopiesYoung' /\ AgeStarts'
    BY DEF Tick, CopiesYoung, AgeStarts
<1> QED
    BY <1>4, <1>5, <1>6

\* The remaining steps remove alerts and copies, or leave both alone.
LEMMA OthersKeep ==
    ASSUME LifeInv,
           \/ HandleDeliveryAck
           \/ \E c \in air : Lose(c)
           \/ \E n \in Node : CheckExpiry(n) \/ CancelAlert(n) \/ ResetSeen(n) \/ Join(n)
    PROVE  LifeInv'
<1> USE DEF LifeInv
<1>1. /\ age' = age /\ sending' = sending /\ air' \subseteq air
      /\ alerts' \in [Node -> Alert \cup {NoAlert}]
      /\ \A n \in Node : alerts'[n] \in {alerts[n], NoAlert}
    BY DEF HandleDeliveryAck, Lose, CheckExpiry, CancelAlert, ResetSeen, Join, TypeOK
<1>2. TypeOK'
    BY <1>1, SosAssumption
       DEF HandleDeliveryAck, Lose, CheckExpiry, CancelAlert, ResetSeen, Join, TypeOK
<1>3. AlertLifetime' /\ CopiesYoung' /\ AgeStarts'
    BY <1>1 DEF AlertLifetime, CopiesYoung, AgeStarts, Tracks
<1> QED
    BY <1>2, <1>3

LEMMA NextLife == LifeInv /\ [Next]_vars => LifeInv'
<1> SUFFICES ASSUME LifeInv, [Next]_vars PROVE LifeInv'
    OBVIOUS
<1>1. CASE UNCHANGED vars
    BY <1>1 DEF vars, LifeInv, TypeOK, AlertLifetime, CopiesYoung, AgeStarts, Tracks
<1>2. CASE Next
    BY <1>2, SendKeeps, ReceiveKeeps, ReBroadcastKeeps, TickKeeps, OthersKeep
       DEF Next, Environment
<1> QED
    BY <1>1, <1>2

(***************************************************************************)
(* A re-broadcast alert outlives ActiveDuration, but never by more than    *)
(* the TTL pays for: at most MaxTTL + 1 durations after it was sent no     *)
(* node tracks it any more.                                                *)
(***************************************************************************)
THEOREM AlertsLiveBounded == Spec => []AlertLifetime
<1>1. LifeInv => AlertLifetime
    BY DEF LifeInv
<1> QED
    BY <1>1, InitLife, NextLife, PTL DEF Spec
=============================================================================
