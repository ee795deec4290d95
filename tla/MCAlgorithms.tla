---------------------------- MODULE MCAlgorithms ----------------------------
(***************************************************************************)
(* The pure algorithms of the daemon on bounded inputs: the loop of        *)
(* routeToPeers (RouteLoop), run step by step, and the binary codec on a   *)
(* sample of messages, one initial state each.                             *)
(***************************************************************************)
EXTENDS RouteLoop, Codec

CONSTANT NoSample

VARIABLE sample     \* the message of this state, or none

\* A string of n bytes b.
Text(b, n) == [i \in 1 .. n |-> b]

\* The lengths are those around the sentinel, the first of the long form and
\* the first that two bytes cannot hold; the bytes are the least, which reads as an empty string, and the greatest,
\* which reads as the sentinel.
Mandatory == {Text(0, 1), Text(Top, Top - 1), Text(1, Top), Text(Top, Base + 1),
              Text(1, Base * Base)}
Optional  == {<<>>, Text(Top, 1), Text(1, Base)}

Samples ==
    [type : {<<>>, <<3>>, <<0, 1>>, <<2, 2>>}, id : {<<>>, Text(1, 2)},
     sender : {<<>>, Text(Top, 1), Text(0, Base)}, nick : Optional,
     recipient : {<<>>, Text(0, 2)}, payload : Mandatory \cup {<<>>},
     timestamp : {-2, 0, 40}, ttl : {0, Top}, hops : {1, Top + 1},
     sprayBudget : {0, 3}, copiesMade : {0, 2},
     nonce : {<<>>, Text(Top, 2)}, keyID : {<<>>, Text(1, Base)}]

AInit ==
    \/ LoopInit /\ sample = NoSample
    \/ /\ sample \in Samples
       /\ input = [candidates |-> {}, dst |-> 1, ledger |-> {}, copies |-> 0, L |-> 1,
                   myP |-> 0, peerP |-> [p \in Peer |-> 0]]
       /\ todo = {} /\ copies = 0 /\ ledger = {} /\ wire = <<>>

ANext == LoopNext /\ UNCHANGED sample

ASpec == AInit /\ [][ANext]_<<loopVars, sample>>

-----------------------------------------------------------------------------
(***************************************************************************)
(* Marshal, split into frames and put together again, comes back from      *)
(* Unmarshal as what Arrives says (the message, with TTL and hops clamped  *)
(* and without the two fields Marshal does not write) for exactly the      *)
(* messages the format can carry: every other one is refused or misread.   *)
(***************************************************************************)
RoundTrip ==
    sample # NoSample =>
        (Encodable(sample) <=>
            Unmarshal(Received(sample, Frames(sample))) = [ok |-> TRUE, msg |-> Arrives(sample)])

(***************************************************************************)
(* When the last frames are lost, Unmarshal notices, with one exception: a *)
(* cut exactly where the nonce or the key ID begins loses those and no     *)
(* other field that would have arrived.                                    *)
(***************************************************************************)
TruncationNoticed ==
    sample # NoSample /\ Encodable(sample) =>
        \A k \in 1 .. Frames(sample) - 1 :
            LET got == Unmarshal(Received(sample, k))
            IN  got.ok => \A f \in DOMAIN sample :
                    \/ got.msg[f] = Arrives(sample)[f]
                    \/ f \in {"nonce", "keyID"} /\ got.msg[f] = <<>>

(***************************************************************************)
(* An encoded message is never taken for JSON: no type code together with  *)
(* the flags makes the byte of an opening brace.                           *)
(***************************************************************************)
LooksBinary == sample # NoSample => IsBinaryFormat(Marshal(sample))
=============================================================================
