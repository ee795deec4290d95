------------------------------- MODULE Codec -------------------------------
(***************************************************************************)
(* The compact binary format of pkg/codec/codec.go: Marshal, Unmarshal and *)
(* the split into frames for Bluetooth.                                    *)
(*                                                                         *)
(* A byte counts Base values.  The code has Base = 256; everything that is *)
(* special about 255 (the sentinel of the long form, the clamp of TTL and  *)
(* hops), 128 (the continuation bit) and 65536 (the two-byte length) is    *)
(* derived from it here, so that a small Base brings the edges within the  *)
(* reach of short strings.  The flags byte is two nibbles in any case.     *)
(***************************************************************************)
EXTENDS Integers, SequencesExt

CONSTANTS
    Base,           \* values of a byte
    MTU             \* bytes of a Bluetooth frame

ASSUME CodecAssumption == Base \in Nat /\ Base > 3 /\ Base % 2 = 0 /\ MTU \in Nat \ {0}

Top  == Base - 1        \* the greatest byte: 0xFF
Half == Base \div 2     \* the continuation bit of a varint

-----------------------------------------------------------------------------
(***************************************************************************)
(* Varints.                                                                *)
(***************************************************************************)
Zigzag(v)   == IF v >= 0 THEN 2 * v ELSE -2 * v - 1
Unzigzag(u) == IF u % 2 = 0 THEN u \div 2 ELSE -((u + 1) \div 2)

\* putUvarint: groups of one bit less than a byte, the least first; all but
\* the last have the continuation bit.
PutUvarint[v \in Nat] ==
    IF v < Half THEN <<v>> ELSE <<(v % Half) + Half>> \o PutUvarint[v \div Half]

Failed == [ok |-> FALSE]

\* The number that groups of bits stand for.
Value[s \in Seq(Nat)] == IF s = <<>> THEN 0 ELSE (s[1] % Half) + Half * Value[Tail(s)]

\* binary.Uvarint: the value and the bytes it took; fails on a truncated one.
\* (It also refuses more than 64 bits, which Marshal never writes.)
GetUvarint(data) ==
    LET ends == {i \in DOMAIN data : data[i] < Half}
        n == CHOOSE i \in ends : \A j \in ends : i <= j
    IN  IF ends = {} THEN Failed
        ELSE [ok |-> TRUE, n |-> n, v |-> Value[SubSeq(data, 1, n)]]

-----------------------------------------------------------------------------
(***************************************************************************)
(* Strings.  The empty string is not encoded at all; up to Top bytes have  *)
(* one length byte, more have the sentinel and two length bytes.           *)
(***************************************************************************)

\* Mutant of PutString: the length bytes of the long form are swapped.
PutStringSwapped(s) ==
    IF s = <<>> THEN <<>>
    ELSE IF Len(s) <= Top THEN <<Len(s)>> \o s
    ELSE <<Top, Len(s) % Base, (Len(s) \div Base) % Base>> \o s

PutString(s) ==
    IF s = <<>> THEN <<>>
    ELSE IF Len(s) <= Top THEN <<Len(s)>> \o s
    ELSE <<Top, (Len(s) \div Base) % Base, Len(s) % Base>> \o s

\* Mutant of GetString: a string cut off by the end of the data is accepted.
GetStringLax(data) ==
    LET long == data # <<>> /\ data[1] = Top
        head == IF long THEN 3 ELSE 1
        n    == IF long THEN data[2] * Base + data[3] ELSE data[1]
        took == IF Len(data) < head + n THEN Len(data) ELSE head + n
    IN  IF data = <<>> THEN [ok |-> TRUE, s |-> <<>>, n |-> 0]
        ELSE IF Len(data) < head THEN Failed
        ELSE [ok |-> TRUE, s |-> SubSeq(data, head + 1, took), n |-> took]

\* getString: the string and the bytes it took.
GetString(data) ==
    LET long == data # <<>> /\ data[1] = Top
        head == IF long THEN 3 ELSE 1
        n    == IF long THEN data[2] * Base + data[3] ELSE data[1]
    IN  IF data = <<>> THEN [ok |-> TRUE, s |-> <<>>, n |-> 0]
        ELSE IF Len(data) < head \/ Len(data) < head + n THEN Failed
        ELSE [ok |-> TRUE, s |-> SubSeq(data, head + 1, head + n), n |-> head + n]

-----------------------------------------------------------------------------
(***************************************************************************)
(* Messages.  The type is a string; these are the names that have a short  *)
(* code, in the order of the codes: chat, file, sos, delivery_ack,         *)
(* peer_info and key_exchange.  Of a message's fields Marshal leaves out   *)
(* two: sprayBudget and copiesMade.                                        *)
(***************************************************************************)
ShortType == << <<0>>, <<1>>, <<2>>, <<3>>, <<0, 0>>, <<0, 1>> >>
LongForm  == 15

IsShort(type) == type \in Range(ShortType)

\* Mutant of TypeCode: the codes leave room and reach the one of '{'.
TypeCodeSpread(type) ==
    IF IsShort(type) THEN 2 * (CHOOSE i \in DOMAIN ShortType : ShortType[i] = type) - 1
    ELSE LongForm

TypeCode(type) ==
    IF IsShort(type) THEN (CHOOSE i \in DOMAIN ShortType : ShortType[i] = type) - 1
    ELSE LongForm

\* The optional fields have a flag each; nick = 1, recipient = 2, nonce = 4,
\* keyID = 8.
Flag(s, bit) == IF s = <<>> THEN 0 ELSE bit
HasFlag(flags, bit) == (flags \div bit) % 2 = 1

FlagsByte(m) ==
    16 * TypeCode(m.type) + Flag(m.nick, 1) + Flag(m.recipient, 2)
                          + Flag(m.nonce, 4) + Flag(m.keyID, 8)

\* TTL and hops: clamped at the top and cut to a byte.
Clamp(n) == (IF n > Top THEN Top ELSE n) % Base

Marshal(m) ==
    <<FlagsByte(m)>>
        \o (IF IsShort(m.type) THEN <<>> ELSE PutString(m.type))
        \o PutString(m.id) \o PutString(m.sender) \o PutString(m.nick)
        \o PutString(m.recipient) \o PutString(m.payload)
        \o PutUvarint[Zigzag(m.timestamp)] \o <<Clamp(m.ttl), Clamp(m.hops)>>
        \o PutString(m.nonce) \o PutString(m.keyID)

(***************************************************************************)
(* Unmarshal reads field after field; the first error ends it.  A reader   *)
(* has what is left of the data and the fields read so far.                *)
(***************************************************************************)
ReadString(r, field) ==
    LET got == IF r.ok THEN GetString(r.rest) ELSE Failed
    IN  IF ~got.ok \/ (field = "id" /\ got.s = <<>>) THEN Failed
        ELSE [ok |-> TRUE, rest |-> SubSeq(r.rest, got.n + 1, Len(r.rest)),
              msg |-> [r.msg EXCEPT ![field] = got.s]]

\* A field that is there only if its flag is set.
ReadOptional(r, field, flags, bit) == IF HasFlag(flags, bit) THEN ReadString(r, field) ELSE r

\* Timestamp, TTL and hop count.
ReadNumbers(r) ==
    LET ts   == IF r.ok THEN GetUvarint(r.rest) ELSE Failed
        left == SubSeq(r.rest, ts.n + 1, Len(r.rest))
    IN  IF ~ts.ok THEN Failed
        ELSE IF Len(left) < 2 THEN Failed
        ELSE [ok |-> TRUE, rest |-> SubSeq(left, 3, Len(left)),
              msg |-> [r.msg EXCEPT !.timestamp = Unzigzag(ts.v),
                                    !.ttl = left[1], !.hops = left[2]]]

\* The message Unmarshal starts from; the budget and the copies made stay 0.
Blank == [type |-> <<>>, id |-> <<>>, sender |-> <<>>, nick |-> <<>>, recipient |-> <<>>,
          payload |-> <<>>, timestamp |-> 0, ttl |-> 0, hops |-> 0,
          sprayBudget |-> 0, copiesMade |-> 0, nonce |-> <<>>, keyID |-> <<>>]

\* The type: the code of the flags byte, or a string in long form.
ReadType(data) ==
    LET code == data[1] \div 16
        r    == [ok |-> TRUE, rest |-> Tail(data), msg |-> Blank]
    IN  IF code = LongForm THEN ReadString(r, "type")
        ELSE IF code >= Len(ShortType) THEN Failed
        ELSE [r EXCEPT !.msg.type = ShortType[code + 1]]

Unmarshal(data) ==
    LET flags     == data[1] % 16
        id        == ReadString(ReadType(data), "id")
        sender    == ReadString(id, "sender")
        nick      == ReadOptional(sender, "nick", flags, 1)
        recipient == ReadOptional(nick, "recipient", flags, 2)
        payload   == ReadString(recipient, "payload")
        nonce     == ReadOptional(ReadNumbers(payload), "nonce", flags, 4)
        all       == ReadOptional(nonce, "keyID", flags, 8)
    IN  IF Len(data) < 2 \/ ~all.ok THEN Failed ELSE [ok |-> TRUE, msg |-> all.msg]

\* IsBinaryFormat: JSON starts with '{'.
Brace == 123
IsBinaryFormat(data) == data # <<>> /\ data[1] # Brace

MTUFriendlySplit(data) ==
    IF Len(data) <= MTU THEN <<data>>
    ELSE [k \in 1 .. (Len(data) + MTU - 1) \div MTU |->
             SubSeq(data, (k - 1) * MTU + 1, IF k * MTU < Len(data) THEN k * MTU ELSE Len(data))]

-----------------------------------------------------------------------------
\* The messages the format can carry: those with the fields it does not mark
\* as absent, and without a string whose length byte is the sentinel or whose
\* length does not fit two bytes.
Encodable(m) ==
    /\ \A f \in {"type", "id", "sender", "payload"} : m[f] # <<>>
    /\ \A f \in {"type", "id", "sender", "nick", "recipient", "payload", "nonce", "keyID"} :
          Len(m[f]) # Top /\ Len(m[f]) < Base * Base

\* What is left of such a message on the other side: TTL and hops up to the
\* greatest byte, and nothing of the copies, which its carriers then count
\* from the start again.
Arrives(m) ==
    LET byte(n) == IF n > Top THEN Top ELSE n
    IN  [m EXCEPT !.ttl = byte(m.ttl), !.hops = byte(m.hops),
                  !.sprayBudget = 0, !.copiesMade = 0]

\* What arrives when the first k frames of an encoding arrive.
Received(m, k) == FlattenSeq(SubSeq(MTUFriendlySplit(Marshal(m)), 1, k))

Frames(m) == Len(MTUFriendlySplit(Marshal(m)))
=============================================================================
