----------------------------- MODULE KeysProofs -----------------------------
(***************************************************************************)
(* Proofs about Keys, for every set of daemons and every bound: a cached   *)
(* secret is the one of the current keys, and an encrypted chat is shown   *)
(* only at its recipient.                                                  *)
(***************************************************************************)
EXTENDS Keys, TLAPS

-----------------------------------------------------------------------------
(***************************************************************************)
(* The inductive invariant.  Whose key is whose: a key that somebody has   *)
(* for p, in memory, on disk, in an exchange under way or in a running     *)
(* decryption, was issued by p, and a secret that n has for p is made of a *)
(* key of n and one of p.  The box of a chat is such a secret of its       *)
(* sender and its recipient.                                               *)
(***************************************************************************)
Issued(k, p, g) == k \in Key /\ k[1] = p /\ k[2] <= g[p]

Joint(s, n, p) == s = NoSecret \/ \E a, b \in Key : a[1] = n /\ b[1] = p /\ s = {a, b}

GenInv == \A n \in Node : gen[n] <= crashes

MapInv(map) == \A n, p \in Node : map[n][p] # NoKey => Issued(map[n][p], p, gen)

CacheInv == \A n, p \in Node : Joint(sharedCache[n][p], n, p)

NetInv ==
    \A m \in net :
        /\ m.id <= count
        /\ m.type = "key_exchange" => Issued(m.key, m.from, gen)
        /\ m.type = "chat" => Joint(m.box, m.from, m.to)

SlowInv ==
    /\ slow \subseteq [node : Node, msg : Chat, key : Key \cup {NoKey}]
    /\ \A r \in slow :
          /\ r.node # r.msg.from
          /\ r.key # NoKey => Issued(r.key, r.msg.from, gen)

ShownInv ==
    \A n \in Node : \A m \in shown[n] : m.type = "chat" /\ (IsEncrypted(m) => n = m.to)

KeyInv == TypeOK /\ GenInv /\ MapInv(knownKeys) /\ MapInv(disk) /\ CacheInv
                 /\ NetInv /\ SlowInv /\ ShownInv

USE DEF keyVars

-----------------------------------------------------------------------------
(***************************************************************************)
(* Two secrets that are equal have the same owners: what n has for the     *)
(* sender of a chat opens it only if n is its recipient.                   *)
(***************************************************************************)
LEMMA JointOwners ==
    ASSUME NEW s, NEW n, NEW f, NEW t, s # NoSecret, n # f,
           Joint(s, n, f), Joint(s, f, t)
    PROVE  n = t
<1>1. PICK a \in Key, b \in Key : a[1] = n /\ b[1] = f /\ s = {a, b}
    BY DEF Joint
<1>2. PICK c \in Key, d \in Key : c[1] = f /\ d[1] = t /\ s = {c, d}
    BY DEF Joint
<1>3. a \in {c, d}
    BY <1>1, <1>2
<1>4. a # c
    BY <1>1, <1>2
<1> QED BY <1>1, <1>2, <1>3, <1>4

(***************************************************************************)
(* A daemon's own key is issued, and what it derives or has cached for p   *)
(* is a secret of the two.                                                 *)
(***************************************************************************)
LEMMA OwnKeyIssued ==
    ASSUME TypeOK, NEW n \in Node
    PROVE  Issued(OwnKey(n), n, gen)
BY KeysAssumption DEF TypeOK, Issued, OwnKey, Key

\* Two issued keys make a joint secret.
LEMMA PairJoint ==
    ASSUME NEW a, NEW b, NEW n, NEW p, Issued(a, n, gen), Issued(b, p, gen)
    PROVE  Joint({a, b}, n, p)
BY DEF Issued, Joint

\* GetSharedKey, cached or derived, returns a secret of the two nodes.
LEMMA SharedJoint ==
    ASSUME TypeOK, MapInv(knownKeys), CacheInv, NEW n \in Node, NEW p \in Node
    PROVE  Joint(GetSharedKey(n, p), n, p)
<1>1. CASE sharedCache[n][p] # NoSecret
    BY <1>1 DEF GetSharedKey, CacheInv
<1>2. CASE sharedCache[n][p] = NoSecret /\ knownKeys[n][p] = NoKey
    BY <1>2 DEF GetSharedKey, Derived, Joint
<1>3. CASE sharedCache[n][p] = NoSecret /\ knownKeys[n][p] # NoKey
    <2>1. Issued(OwnKey(n), n, gen) /\ Issued(knownKeys[n][p], p, gen)
        BY <1>3, OwnKeyIssued DEF MapInv
    <2>2. GetSharedKey(n, p) = {OwnKey(n), knownKeys[n][p]}
        BY <1>3 DEF GetSharedKey, Derived, SharedSecret
    <2> QED BY <2>1, <2>2, PairJoint
<1> QED BY <1>1, <1>2, <1>3

\* A joint secret is a secret.
LEMMA JointSecret ==
    ASSUME NEW s, NEW n, NEW p, Joint(s, n, p)
    PROVE  s \in Secret
BY DEF Joint, Secret

(***************************************************************************)
(* Storing a joint secret in the cache keeps it well-typed and joint.      *)
(***************************************************************************)
LEMMA CacheSharedInv ==
    ASSUME TypeOK, CacheInv, NEW n \in Node, NEW p \in Node, NEW s, Joint(s, n, p),
           CacheShared(n, p, s)
    PROVE  /\ sharedCache' \in [Node -> [Node -> Secret]]
           /\ CacheInv'
<1>1. s \in Secret
    BY JointSecret
<1>2. sharedCache \in [Node -> [Node -> Secret]]
    BY DEF TypeOK
<1>3. sharedCache' = [sharedCache EXCEPT ![n][p] = s]
    BY DEF CacheShared
<1>4. sharedCache' \in [Node -> [Node -> Secret]]
    BY <1>1, <1>2, <1>3
<1>5. ASSUME NEW a \in Node, NEW b \in Node
      PROVE  Joint(sharedCache'[a][b], a, b)
    <2>1. sharedCache'[a][b] = IF a = n /\ b = p THEN s ELSE sharedCache[a][b]
        BY <1>2, <1>3
    <2> QED BY <2>1 DEF CacheInv
<1> QED BY <1>4, <1>5 DEF CacheInv

(***************************************************************************)
(* What is issued stays issued when a daemon makes a new key pair.         *)
(***************************************************************************)
LEMMA IssuedLater ==
    ASSUME TypeOK, NEW k, NEW p \in Node, Issued(k, p, gen),
           NEW n \in Node, gen' = [gen EXCEPT ![n] = @ + 1]
    PROVE  Issued(k, p, gen')
<1>1. gen[p] \in Nat /\ k[2] \in Nat
    BY KeysAssumption DEF TypeOK, Issued, Key
<1>2. gen'[p] = gen[p] \/ gen'[p] = gen[p] + 1
    BY DEF TypeOK
<1> QED BY <1>1, <1>2 DEF Issued

\* KeyInv holds at the start.
LEMMA KeyInvInit == Init => KeyInv
BY KeysAssumption
   DEF Init, KeyInv, TypeOK, KeyMap, NoKeys, GenInv, MapInv, CacheInv, Joint, NetInv, SlowInv,
       ShownInv, Secret

-----------------------------------------------------------------------------
(***************************************************************************)
(* Sending: the message is new, and its key or its box is in order.        *)
(***************************************************************************)
LEMMA TransmitInv ==
    ASSUME KeyInv, NEW m \in Exchange \cup Chat, m.id = count + 1,
           m.type = "key_exchange" => Issued(m.key, m.from, gen),
           m.type = "chat" => Joint(m.box, m.from, m.to),
           Transmit(m), sharedCache' \in [Node -> [Node -> Secret]], CacheInv',
           UNCHANGED <<gen, knownKeys, disk, handled, slow, shown, slows, crashes, races>>
    PROVE  KeyInv'
<1> USE DEF KeyInv
<1>1. count \in Nat /\ count' = count + 1 /\ count' \in 0..MaxMsg /\ net' = net \cup {m}
    BY KeysAssumption DEF Transmit, TypeOK
<1>2. handled' \in [Node -> SUBSET net'] /\ shown' \in [Node -> SUBSET net']
    BY <1>1 DEF TypeOK
<1>3. TypeOK'
    BY <1>1, <1>2 DEF TypeOK
<1>4. NetInv'
    <2> SUFFICES ASSUME NEW x \in net'
                 PROVE  /\ x.id <= count'
                        /\ x.type = "key_exchange" => Issued(x.key, x.from, gen)
                        /\ x.type = "chat" => Joint(x.box, x.from, x.to)
        BY DEF NetInv
    <2>1. CASE x = m
        BY <1>1, <2>1
    <2>2. CASE x \in net
        <3>1. x.id \in Nat
            BY <2>2, KeysAssumption DEF TypeOK, Exchange, Chat
        <3> QED BY <1>1, <2>2, <3>1 DEF NetInv
    <2> QED BY <1>1, <2>1, <2>2
<1>5. GenInv' /\ MapInv(knownKeys)' /\ MapInv(disk)' /\ SlowInv' /\ ShownInv'
    BY DEF GenInv, MapInv, SlowInv, ShownInv
<1> QED BY <1>3, <1>4, <1>5

\* Announcing a key keeps KeyInv.
LEMMA SendKeyExchangeInv ==
    ASSUME KeyInv, NEW n \in Node, NEW p \in Node, SendKeyExchange(n, p)
    PROVE  KeyInv'
<1> DEFINE m == NewKeyExchange(n, p)
<1>1. count + 1 \in 1..MaxMsg
    BY KeysAssumption DEF KeyInv, TypeOK, SendKeyExchange, Transmit
<1>2. Issued(OwnKey(n), n, gen)
    BY OwnKeyIssued DEF KeyInv
<1>3. m \in Exchange /\ m.id = count + 1 /\ m.type = "key_exchange" /\ m.key = OwnKey(n)
          /\ m.from = n
    BY <1>1, <1>2 DEF NewKeyExchange, Exchange, Issued
<1>4. sharedCache' \in [Node -> [Node -> Secret]] /\ CacheInv'
    BY DEF SendKeyExchange, KeyInv, TypeOK, CacheInv
<1>5. Transmit(m)
    BY DEF SendKeyExchange
<1> HIDE DEF m
<1> QED BY <1>2, <1>3, <1>4, <1>5, TransmitInv DEF SendKeyExchange

\* Sending a chat, encrypted or not, keeps KeyInv.
LEMMA SendChatInv ==
    ASSUME KeyInv, NEW n \in Node, NEW p \in Node, SendChat(n, p) \/ SendDirect(n, p)
    PROVE  KeyInv'
<1>1. count + 1 \in 1..MaxMsg
    BY KeysAssumption DEF KeyInv, TypeOK, SendChat, SendDirect, Transmit
<1>2. CASE SendChat(n, p)
    <2> DEFINE m == EncryptMessage(n, NewChat(n, p))
    <2>1. Joint(GetSharedKey(n, p), n, p)
        BY SharedJoint DEF KeyInv
    <2>2. GetSharedKey(n, p) \in Secret
        BY <2>1, JointSecret
    <2>3. m \in Chat /\ m.id = count + 1 /\ m.type = "chat" /\ m.from = n /\ m.to = p
              /\ m.box = GetSharedKey(n, p)
        BY <1>1, <2>2 DEF EncryptMessage, NewChat, Chat
    <2>4. sharedCache' \in [Node -> [Node -> Secret]] /\ CacheInv'
        BY <1>2, <2>1, CacheSharedInv DEF SendChat, KeyInv
    <2>5. Transmit(m)
        BY <1>2 DEF SendChat
    <2> HIDE DEF m
    <2> QED BY <1>2, <2>1, <2>3, <2>4, <2>5, TransmitInv DEF SendChat
<1>3. CASE SendDirect(n, p)
    <2> DEFINE m == NewChat(n, p)
    <2>1. m \in Chat /\ m.id = count + 1 /\ m.type = "chat" /\ m.box = NoSecret
        BY <1>1 DEF NewChat, Chat, Secret
    <2>2. sharedCache' \in [Node -> [Node -> Secret]] /\ CacheInv'
        BY <1>3 DEF SendDirect, KeyInv, TypeOK, CacheInv
    <2>3. Transmit(m)
        BY <1>3 DEF SendDirect
    <2> HIDE DEF m
    <2>4. Joint(m.box, m.from, m.to)
        BY <2>1 DEF Joint
    <2> QED BY <1>3, <2>1, <2>2, <2>3, <2>4, TransmitInv DEF SendDirect
<1> QED BY <1>2, <1>3

-----------------------------------------------------------------------------
(***************************************************************************)
(* The pieces of a delivery: the message is noted as handled, a relay may  *)
(* send it on without its box, and the app may show it.                    *)
(***************************************************************************)
LEMMA HandleInv ==
    ASSUME KeyInv, NEW n \in Node, NEW m \in net, Handle(n, m), net \subseteq net'
    PROVE  handled' \in [Node -> SUBSET net']
<1>1. handled \in [Node -> SUBSET net]
    BY DEF KeyInv, TypeOK
<1>2. handled' = [handled EXCEPT ![n] = handled[n] \cup {m}]
    BY DEF Handle
<1> QED BY <1>1, <1>2

\* A relay that may race with the decryption adds only messages KeyInv allows.
LEMMA RelayInv ==
    ASSUME KeyInv, NEW m \in net, m.type = "chat", NEW d \in BOOLEAN, RelayRace(m, d),
           UNCHANGED <<gen, count>>
    PROVE  /\ net \subseteq net' /\ net' \subseteq Exchange \cup Chat
           /\ NetInv'
           /\ races' \in 0..MaxRace
<1> USE DEF KeyInv
<1> DEFINE p == [m EXCEPT !.box = NoSecret]
<1>1. m \in Chat
    BY DEF TypeOK, Exchange
<1>2. p \in Chat /\ p.id = m.id /\ p.type = "chat" /\ p.box = NoSecret
    BY <1>1 DEF Chat, Secret
<1>3. CASE UNCHANGED <<net, races>>
    BY <1>3 DEF TypeOK, NetInv
<1>4. CASE races < MaxRace /\ races' = races + 1 /\ net' = net \cup {p}
    <2>1. races' \in 0..MaxRace
        BY <1>4, KeysAssumption DEF TypeOK
    <2>2. p.id <= count /\ Joint(p.box, p.from, p.to)
        BY <1>2 DEF NetInv, Joint
    <2> HIDE DEF p
    <2>3. NetInv'
        BY <1>2, <1>4, <2>2 DEF NetInv
    <2> QED BY <1>2, <1>4, <2>1, <2>3 DEF TypeOK
<1> QED BY <1>3, <1>4 DEF RelayRace

\* Showing a message to the app adds only what ShownInv allows.
LEMMA ShowInv ==
    ASSUME KeyInv, NEW n \in Node, NEW m \in net, m.type = "chat", net \subseteq net',
           IsEncrypted(m) => n = m.to,
           Show(n, m) \/ UNCHANGED shown
    PROVE  shown' \in [Node -> SUBSET net'] /\ ShownInv'
<1>1. shown \in [Node -> SUBSET net] /\ ShownInv
    BY DEF KeyInv, TypeOK
<1>2. CASE UNCHANGED shown
    BY <1>1, <1>2 DEF ShownInv
<1>3. CASE Show(n, m)
    <2>1. shown' = [shown EXCEPT ![n] = shown[n] \cup {m}]
        BY <1>3 DEF Show
    <2>2. shown' \in [Node -> SUBSET net']
        BY <1>1, <2>1
    <2>3. ASSUME NEW a \in Node, NEW x \in shown'[a]
          PROVE  x.type = "chat" /\ (IsEncrypted(x) => a = x.to)
        <3>1. x \in shown[a] \/ (x = m /\ a = n)
            BY <1>1, <2>1
        <3> QED BY <1>1, <3>1 DEF ShownInv
    <2> QED BY <2>2, <2>3 DEF ShownInv, IsEncrypted
<1> QED BY <1>2, <1>3

(***************************************************************************)
(* What decrypts with a secret that n has for the sender is for n.         *)
(***************************************************************************)
LEMMA DecryptsForRecipient ==
    ASSUME KeyInv, NEW n \in Node, NEW m \in net, m.type = "chat", n # m.from,
           NEW s, Joint(s, n, m.from), Decrypts(m, s)
    PROVE  IsEncrypted(m) => n = m.to
<1>1. Joint(m.box, m.from, m.to) /\ s = m.box
    BY DEF KeyInv, NetInv, Decrypts
<1> QED BY <1>1, JointOwners DEF IsEncrypted

-----------------------------------------------------------------------------
(***************************************************************************)
(* The steps of the receiving side and the restarts.                       *)
(***************************************************************************)
LEMMA SetPeerKeyInv ==
    ASSUME KeyInv, NEW n \in Node, NEW p \in Node, NEW k, Issued(k, p, gen),
           SetPeerKey(n, p, k), UNCHANGED gen
    PROVE  /\ knownKeys' \in KeyMap /\ disk' \in KeyMap
           /\ MapInv(knownKeys)' /\ MapInv(disk)'
           /\ sharedCache' \in [Node -> [Node -> Secret]] /\ CacheInv'
<1>1. knownKeys \in KeyMap /\ disk \in KeyMap /\ MapInv(knownKeys) /\ MapInv(disk)
    BY DEF KeyInv, TypeOK
<1>2. knownKeys' = [knownKeys EXCEPT ![n][p] = k] /\ disk' = [disk EXCEPT ![n] = knownKeys'[n]]
          /\ CacheShared(n, p, NoSecret)
    BY DEF SetPeerKey
<1>3. k \in Key
    BY DEF Issued
<1>4. knownKeys' \in KeyMap /\ disk' \in KeyMap
    BY <1>1, <1>2, <1>3 DEF KeyMap
<1>5. MapInv(knownKeys)'
    <2> SUFFICES ASSUME NEW a \in Node, NEW b \in Node, knownKeys'[a][b] # NoKey
                 PROVE  Issued(knownKeys'[a][b], b, gen)
        BY DEF MapInv
    <2>1. knownKeys'[a][b] = IF a = n /\ b = p THEN k ELSE knownKeys[a][b]
        BY <1>1, <1>2 DEF KeyMap
    <2> QED BY <1>1, <2>1 DEF MapInv
<1>6. MapInv(disk)'
    <2> SUFFICES ASSUME NEW a \in Node, NEW b \in Node, disk'[a][b] # NoKey
                 PROVE  Issued(disk'[a][b], b, gen)
        BY DEF MapInv
    <2>1. disk'[a][b] = IF a = n THEN knownKeys'[a][b] ELSE disk[a][b]
        BY <1>1, <1>2 DEF KeyMap
    <2>2. knownKeys'[a][b] # NoKey => Issued(knownKeys'[a][b], b, gen)
        BY <1>5 DEF MapInv
    <2> QED BY <1>1, <2>1, <2>2 DEF MapInv
<1>7. Joint(NoSecret, n, p)
    BY DEF Joint
<1> QED BY <1>2, <1>4, <1>5, <1>6, <1>7, CacheSharedInv DEF KeyInv

\* Storing a key that arrives keeps KeyInv.
LEMMA ReceiveKeyExchangeInv ==
    ASSUME KeyInv, NEW n \in Node, NEW m \in net, ReceiveKeyExchange(n, m)
    PROVE  KeyInv'
<1> USE DEF ReceiveKeyExchange
<1>1. m.from \in Node /\ Issued(m.key, m.from, gen)
    BY DEF KeyInv, TypeOK, NetInv, Exchange, Chat
<1>2. handled' \in [Node -> SUBSET net']
    BY HandleInv
<1>3. /\ knownKeys' \in KeyMap /\ disk' \in KeyMap
      /\ MapInv(knownKeys)' /\ MapInv(disk)'
      /\ sharedCache' \in [Node -> [Node -> Secret]] /\ CacheInv'
    BY <1>1, SetPeerKeyInv DEF HandleKeyExchangeMessage
<1>4. TypeOK'
    BY <1>2, <1>3 DEF KeyInv, TypeOK
<1>5. GenInv' /\ NetInv' /\ SlowInv' /\ ShownInv'
    BY DEF KeyInv, GenInv, NetInv, SlowInv, ShownInv
<1> QED BY <1>3, <1>4, <1>5 DEF KeyInv

\* Receiving a plain chat keeps KeyInv.
LEMMA ReceivePlainInv ==
    ASSUME KeyInv, NEW n \in Node, NEW m \in net, ReceivePlain(n, m)
    PROVE  KeyInv'
<1> USE DEF ReceivePlain
<1>1. handled' \in [Node -> SUBSET net']
    BY HandleInv
<1>2. shown' \in [Node -> SUBSET net'] /\ ShownInv'
    BY ShowInv
<1>3. TypeOK'
    BY <1>1, <1>2 DEF KeyInv, TypeOK
<1>4. GenInv' /\ MapInv(knownKeys)' /\ MapInv(disk)' /\ CacheInv' /\ NetInv' /\ SlowInv'
    BY DEF KeyInv, GenInv, MapInv, CacheInv, NetInv, SlowInv
<1> QED BY <1>2, <1>3, <1>4 DEF KeyInv

\* Receiving an encrypted chat, decrypted or not, keeps KeyInv.
LEMMA ReceiveEncryptedInv ==
    ASSUME KeyInv, NEW n \in Node, NEW m \in net, ReceiveEncrypted(n, m)
    PROVE  KeyInv'
<1> USE DEF ReceiveEncrypted
<1> DEFINE s == GetSharedKey(n, m.from)
<1>1. m.from \in Node /\ n # m.from
    BY DEF KeyInv, TypeOK, Exchange, Chat, Handle
<1>2. Joint(s, n, m.from)
    BY <1>1, SharedJoint DEF KeyInv
<1> HIDE DEF s
<1>3. CacheShared(n, m.from, s) /\ RelayRace(m, Decrypts(m, s))
          /\ ((Decrypts(m, s) /\ Show(n, m)) \/ UNCHANGED shown)
    BY DEF s
<1>4. sharedCache' \in [Node -> [Node -> Secret]] /\ CacheInv'
    BY <1>1, <1>2, <1>3, CacheSharedInv DEF KeyInv
<1>5. net \subseteq net' /\ net' \subseteq Exchange \cup Chat /\ NetInv' /\ races' \in 0..MaxRace
    BY <1>3, RelayInv DEF Decrypts
<1>6. handled' \in [Node -> SUBSET net']
    BY <1>5, HandleInv
<1>7. shown' \in [Node -> SUBSET net'] /\ ShownInv'
    <2>1. CASE Decrypts(m, s) /\ Show(n, m)
        BY <1>1, <1>2, <1>5, <2>1, DecryptsForRecipient, ShowInv
    <2>2. CASE UNCHANGED shown
        BY <1>5, <2>2 DEF KeyInv, TypeOK, ShownInv
    <2> QED BY <1>3, <2>1, <2>2
<1>8. TypeOK'
    BY <1>4, <1>5, <1>6, <1>7 DEF KeyInv, TypeOK
<1>9. GenInv' /\ MapInv(knownKeys)' /\ MapInv(disk)' /\ SlowInv'
    BY DEF KeyInv, GenInv, MapInv, SlowInv
<1> QED BY <1>4, <1>5, <1>7, <1>8, <1>9 DEF KeyInv

\* Receiving an encrypted chat without a key keeps KeyInv.
LEMMA ReceiveNoKeyInv ==
    ASSUME KeyInv, NEW n \in Node, NEW m \in net, ReceiveNoKey(n, m) \/ MissKey(n, m)
    PROVE  KeyInv'
<1> USE DEF ReceiveNoKey, MissKey
<1>1. handled' \in [Node -> SUBSET net']
    BY HandleInv
<1>2. m \in Chat /\ n # m.from
    BY DEF KeyInv, TypeOK, Exchange, Handle
<1>3. SlowInv' /\ (\A r \in slow' : r.node \in Node /\ r.msg \in net /\ r.key \in Key \cup {NoKey})
          /\ slows' \in 0..MaxSlow
    <2>1. CASE ReceiveNoKey(n, m)
        BY <2>1 DEF KeyInv, TypeOK, SlowInv
    <2>2. CASE MissKey(n, m)
        <3> DEFINE q == [node |-> n, msg |-> m, key |-> NoKey]
        <3>1. q \in [node : Node, msg : Chat, key : Key \cup {NoKey}] /\ q.node = n /\ q.msg = m
                  /\ q.key = NoKey
            BY <1>2
        <3>2. slow' = slow \cup {q}
            BY <2>2
        <3> HIDE DEF q
        <3>3. SlowInv'
            BY <1>2, <2>2, <3>1, <3>2 DEF KeyInv, SlowInv
        <3>4. slows' \in 0..MaxSlow
            BY <2>2, KeysAssumption DEF KeyInv, TypeOK
        <3>5. ASSUME NEW r \in slow'
              PROVE  r.node \in Node /\ r.msg \in net /\ r.key \in Key \cup {NoKey}
            BY <3>1, <3>2 DEF KeyInv, TypeOK
        <3> QED BY <3>3, <3>4, <3>5
    <2> QED BY <2>1, <2>2
<1>4. TypeOK'
    BY <1>1, <1>3 DEF KeyInv, TypeOK
<1>5. GenInv' /\ MapInv(knownKeys)' /\ MapInv(disk)' /\ CacheInv' /\ NetInv' /\ ShownInv'
    BY DEF KeyInv, GenInv, MapInv, CacheInv, NetInv, ShownInv
<1> QED BY <1>3, <1>4, <1>5 DEF KeyInv

\* The second look at the known keys keeps KeyInv.
LEMMA LookAgainInv ==
    ASSUME KeyInv, NEW r \in slow, LookAgain(r)
    PROVE  KeyInv'
<1> USE DEF LookAgain
<1> DEFINE k == knownKeys[r.node][r.msg.from]
           q == [r EXCEPT !.key = k]
<1>1. r \in [node : Node, msg : Chat, key : Key \cup {NoKey}] /\ r.msg \in net
          /\ r.msg.from \in Node /\ r.node # r.msg.from
    BY DEF KeyInv, SlowInv, TypeOK, Chat
<1>2. k \in Key \cup {NoKey} /\ (k # NoKey => Issued(k, r.msg.from, gen))
    BY <1>1 DEF KeyInv, TypeOK, KeyMap, MapInv
<1>3. slow' \subseteq slow \cup {q}
    OBVIOUS
<1>4. q \in [node : Node, msg : Chat, key : Key \cup {NoKey}] /\ q.node = r.node /\ q.msg = r.msg
          /\ q.key = k
    BY <1>1, <1>2
<1> HIDE DEF q, k
<1>5. ASSUME NEW x \in slow'
      PROVE  /\ x.node \in Node /\ x.msg \in net /\ x.key \in Key \cup {NoKey}
             /\ x \in [node : Node, msg : Chat, key : Key \cup {NoKey}]
             /\ x.node # x.msg.from
             /\ x.key # NoKey => Issued(x.key, x.msg.from, gen)
    <2>1. CASE x \in slow
        BY <2>1 DEF KeyInv, TypeOK, SlowInv
    <2>2. CASE x = q
        BY <1>1, <1>2, <1>4, <2>2
    <2> QED BY <1>3, <2>1, <2>2
<1>6. SlowInv'
    BY <1>5 DEF SlowInv
<1>7. TypeOK'
    BY <1>5 DEF KeyInv, TypeOK
<1>8. GenInv' /\ MapInv(knownKeys)' /\ MapInv(disk)' /\ CacheInv' /\ NetInv' /\ ShownInv'
    BY DEF KeyInv, GenInv, MapInv, CacheInv, NetInv, ShownInv
<1> QED BY <1>6, <1>7, <1>8 DEF KeyInv

\* Storing the secret of the second look keeps KeyInv.
LEMMA StoreSharedInv ==
    ASSUME KeyInv, NEW r \in slow, StoreShared(r)
    PROVE  KeyInv'
<1> USE DEF StoreShared
<1> DEFINE s == SharedSecret(OwnKey(r.node), r.key)
           n == r.node
           m == r.msg
<1>1. n \in Node /\ m \in net /\ m.from \in Node /\ m.type = "chat" /\ n # m.from
          /\ Issued(r.key, m.from, gen)
    BY DEF KeyInv, SlowInv, TypeOK, Chat
<1>2. Joint(s, n, m.from)
    BY <1>1, OwnKeyIssued, PairJoint DEF KeyInv, SharedSecret
<1>3. CacheShared(n, m.from, s) /\ RelayRace(m, Decrypts(m, s))
          /\ ((Decrypts(m, s) /\ Show(n, m)) \/ UNCHANGED shown)
    OBVIOUS
<1> HIDE DEF s, n, m
<1>4. sharedCache' \in [Node -> [Node -> Secret]] /\ CacheInv'
    BY <1>1, <1>2, <1>3, CacheSharedInv DEF KeyInv
<1>5. net \subseteq net' /\ net' \subseteq Exchange \cup Chat /\ NetInv' /\ races' \in 0..MaxRace
    BY <1>1, <1>3, RelayInv DEF Decrypts
<1>6. handled' \in [Node -> SUBSET net']
    BY <1>5 DEF KeyInv, TypeOK
<1>7. shown' \in [Node -> SUBSET net'] /\ ShownInv'
    <2>1. CASE Decrypts(m, s) /\ Show(n, m)
        BY <1>1, <1>2, <1>5, <2>1, DecryptsForRecipient, ShowInv
    <2>2. CASE UNCHANGED shown
        BY <1>5, <2>2 DEF KeyInv, TypeOK, ShownInv
    <2> QED BY <1>3, <2>1, <2>2
<1>8. TypeOK'
    BY <1>4, <1>5, <1>6, <1>7 DEF KeyInv, TypeOK
<1>9. GenInv' /\ MapInv(knownKeys)' /\ MapInv(disk)' /\ SlowInv'
    BY DEF KeyInv, GenInv, MapInv, SlowInv
<1> QED BY <1>4, <1>5, <1>7, <1>8, <1>9 DEF KeyInv

(***************************************************************************)
(* A restart: the keys read back were issued, the cache is empty and the   *)
(* daemon's decryptions are gone.                                          *)
(***************************************************************************)
LEMMA ReloadInv ==
    ASSUME KeyInv, NEW n \in Node, NEW keys \in [Node -> Key \cup {NoKey}],
           \A p \in Node : keys[p] # NoKey => Issued(keys[p], p, gen),
           Reload(n, keys),
           disk' = disk \/ disk' = [disk EXCEPT ![n] = NoKeys],
           gen' = gen \/ gen' = [gen EXCEPT ![n] = @ + 1],
           crashes < MaxCrash, crashes' = crashes + 1,
           handled' \in [Node -> SUBSET net],
           UNCHANGED <<net, shown, count, slows, races>>
    PROVE  KeyInv'
<1> USE DEF KeyInv
<1>1. knownKeys' = [knownKeys EXCEPT ![n] = keys]
      /\ sharedCache' = [sharedCache EXCEPT ![n] = [p \in Node |-> NoSecret]]
      /\ slow' = {r \in slow : r.node # n}
    BY DEF Reload
<1>2. gen' \in [Node -> 0..MaxCrash] /\ crashes' \in 0..MaxCrash /\ GenInv'
    <2>1. gen \in [Node -> 0..MaxCrash] /\ crashes \in Nat /\ MaxCrash \in Nat
        BY KeysAssumption DEF TypeOK
    <2>2. ASSUME NEW a \in Node
          PROVE  gen'[a] \in Nat /\ gen'[a] <= crashes + 1
        <3>1. gen[a] \in Nat /\ gen[a] <= crashes
            BY <2>1 DEF GenInv
        <3>2. gen'[a] = gen[a] \/ gen'[a] = gen[a] + 1
            BY <2>1
        <3> QED BY <2>1, <3>1, <3>2
    <2>3. gen' \in [Node -> Nat]
        BY <2>1, <2>2
    <2> QED BY <2>1, <2>2, <2>3 DEF GenInv
<1>3. ASSUME NEW k, NEW p \in Node, Issued(k, p, gen)
      PROVE  Issued(k, p, gen')
    BY <1>3, IssuedLater
<1>4. knownKeys' \in KeyMap /\ disk' \in KeyMap
    <2>1. NoKeys \in [Node -> Key \cup {NoKey}]
        BY DEF NoKeys
    <2>2. knownKeys \in [Node -> [Node -> Key \cup {NoKey}]]
          /\ disk \in [Node -> [Node -> Key \cup {NoKey}]]
        BY DEF TypeOK, KeyMap
    <2>3. knownKeys' \in [Node -> [Node -> Key \cup {NoKey}]]
        BY <1>1, <2>2
    <2>4. disk' \in [Node -> [Node -> Key \cup {NoKey}]]
        BY <2>1, <2>2
    <2> QED BY <2>3, <2>4 DEF KeyMap
<1>5. MapInv(knownKeys)'
    <2> SUFFICES ASSUME NEW a \in Node, NEW b \in Node, knownKeys'[a][b] # NoKey
                 PROVE  Issued(knownKeys'[a][b], b, gen')
        BY DEF MapInv
    <2>1. knownKeys'[a][b] = IF a = n THEN keys[b] ELSE knownKeys[a][b]
        BY <1>1 DEF TypeOK, KeyMap
    <2> QED BY <1>3, <2>1 DEF MapInv
<1>6. MapInv(disk)'
    <2> SUFFICES ASSUME NEW a \in Node, NEW b \in Node, disk'[a][b] # NoKey
                 PROVE  Issued(disk'[a][b], b, gen')
        BY DEF MapInv
    <2>1. NoKeys[b] = NoKey
        BY DEF NoKeys
    <2>2. disk'[a][b] = disk[a][b]
        BY <2>1 DEF TypeOK, KeyMap
    <2> QED BY <1>3, <2>2 DEF MapInv
<1>7. sharedCache' \in [Node -> [Node -> Secret]] /\ CacheInv'
    <2>1. [p \in Node |-> NoSecret] \in [Node -> Secret]
        BY DEF Secret
    <2>2. sharedCache' \in [Node -> [Node -> Secret]]
        BY <1>1, <2>1 DEF TypeOK
    <2>3. ASSUME NEW a \in Node, NEW b \in Node
          PROVE  sharedCache'[a][b] = sharedCache[a][b] \/ sharedCache'[a][b] = NoSecret
        BY <1>1 DEF TypeOK
    <2>4. CacheInv'
        BY <2>3 DEF CacheInv, Joint
    <2> QED BY <2>2, <2>4
<1>8. NetInv'
    <2> SUFFICES ASSUME NEW m \in net
                 PROVE  m.type = "key_exchange" => Issued(m.key, m.from, gen')
        BY DEF NetInv
    <2>1. m.from \in Node
        BY DEF TypeOK, Exchange, Chat
    <2> QED BY <1>3, <2>1 DEF NetInv
<1>9. SlowInv'
    <2> SUFFICES ASSUME NEW r \in slow, r.key # NoKey
                 PROVE  Issued(r.key, r.msg.from, gen')
        BY <1>1 DEF SlowInv
    <2>1. r.msg.from \in Node
        BY DEF SlowInv, Chat
    <2> QED BY <1>3, <2>1 DEF SlowInv
<1>10. TypeOK'
    BY <1>1, <1>2, <1>4, <1>7 DEF TypeOK
<1>11. ShownInv'
    BY DEF ShownInv
<1> QED BY <1>2, <1>5, <1>6, <1>7, <1>8, <1>9, <1>10, <1>11

\* A restart, with the old key pair or a new one, keeps KeyInv.
LEMMA RestartInv ==
    ASSUME KeyInv, NEW n \in Node, Restart(n) \/ NewKeypair(n)
    PROVE  KeyInv'
<1>1. handled \in [Node -> SUBSET net] /\ disk \in KeyMap
    BY DEF KeyInv, TypeOK
<1>2. CASE Restart(n)
    <2>1. disk[n] \in [Node -> Key \cup {NoKey}]
          /\ \A p \in Node : disk[n][p] # NoKey => Issued(disk[n][p], p, gen)
        BY <1>1 DEF KeyInv, KeyMap, MapInv
    <2> QED BY <1>1, <1>2, <2>1, ReloadInv DEF Restart, LoadKnownKeys
<1>3. CASE NewKeypair(n)
    <2>1. NoKeys \in [Node -> Key \cup {NoKey}] /\ \A p \in Node : NoKeys[p] = NoKey
        BY DEF NoKeys
    <2> QED BY <1>1, <1>3, <2>1, ReloadInv DEF NewKeypair
<1> QED BY <1>2, <1>3

\* A crash inside the save of the known keys keeps KeyInv.
LEMMA CrashInSaveInv ==
    ASSUME KeyInv, NEW n \in Node, NEW m \in net, CrashInSave(n, m)
    PROVE  KeyInv'
<1>1. handled' \in [Node -> SUBSET net]
    BY HandleInv DEF CrashInSave
<1>2. NoKeys \in [Node -> Key \cup {NoKey}] /\ \A p \in Node : NoKeys[p] = NoKey
    BY DEF NoKeys
<1> QED BY <1>1, <1>2, ReloadInv DEF CrashInSave

(***************************************************************************)
(* Every step preserves the invariant.                                     *)
(***************************************************************************)
LEMMA KeyInvNext == KeyInv /\ [Next]_vars => KeyInv'
<1> SUFFICES ASSUME KeyInv, [Next]_vars
             PROVE  KeyInv'
    OBVIOUS
<1>1. CASE \E n, p \in Node : SendKeyExchange(n, p) \/ SendChat(n, p) \/ SendDirect(n, p)
    BY <1>1, SendKeyExchangeInv, SendChatInv
<1>2. CASE \E n \in Node, m \in net : Receive(n, m) \/ CrashInSave(n, m)
    BY <1>2, ReceiveKeyExchangeInv, ReceivePlainInv, ReceiveEncryptedInv, ReceiveNoKeyInv,
       CrashInSaveInv DEF Receive
<1>3. CASE \E r \in slow : LookAgain(r) \/ StoreShared(r)
    BY <1>3, LookAgainInv, StoreSharedInv
<1>4. CASE \E n \in Node : Restart(n) \/ NewKeypair(n)
    BY <1>4, RestartInv
<1>5. CASE UNCHANGED vars
    BY <1>5 DEF vars, KeyInv, TypeOK, GenInv, MapInv, CacheInv, NetInv, SlowInv, ShownInv
<1> QED BY <1>1, <1>2, <1>3, <1>4, <1>5 DEF Next

(***************************************************************************)
(* The type invariant, for any number of daemons and messages.             *)
(***************************************************************************)
THEOREM KeysTypeCorrect == Spec => []TypeOK
<1>1. KeyInv => TypeOK
    BY DEF KeyInv
<1> QED BY <1>1, KeyInvInit, KeyInvNext, PTL DEF Spec

-----------------------------------------------------------------------------
(***************************************************************************)
(* Freshness of the cache.  CacheFresh alone is not inductive: the second  *)
(* look of DecryptMessage holds a key that it read before.  While nobody   *)
(* has a new key pair that key can only be the peer's first one, and the   *)
(* known key is the same one, since only a restart forgets it and a        *)
(* restart ends the decryption too.                                        *)
(***************************************************************************)
Premise == slows = 0 \/ (\A n \in Node : gen[n] = 0)

SlowKnown == \A r \in slow : r.key # NoKey => knownKeys[r.node][r.msg.from] # NoKey

FreshInv == (slows = 0 => slow = {}) /\ SlowKnown /\ CacheFresh

\* An entry of the cache that is fresh stays so while its keys do not change.
LEMMA DerivedSame ==
    ASSUME NEW a \in Node, NEW b \in Node,
           knownKeys'[a][b] = knownKeys[a][b], gen'[a] = gen[a]
    PROVE  Derived(a, b)' = Derived(a, b)
BY DEF Derived, OwnKey, SharedSecret

\* Caching what GetSharedKey returns keeps the cache fresh.
LEMMA UseSharedFresh ==
    ASSUME KeyInv, FreshInv, NEW n \in Node, NEW p \in Node,
           CacheShared(n, p, GetSharedKey(n, p)),
           UNCHANGED <<gen, knownKeys, slow, slows>>
    PROVE  FreshInv'
<1>1. ASSUME Premise', NEW a \in Node, NEW b \in Node
      PROVE  sharedCache'[a][b] \in {NoSecret, Derived(a, b)'}
    <2>1. sharedCache[a][b] \in {NoSecret, Derived(a, b)}
        BY <1>1 DEF Premise, FreshInv, CacheFresh
    <2>2. Derived(a, b)' = Derived(a, b)
        BY DerivedSame
    <2>3. sharedCache'[a][b] = IF a = n /\ b = p THEN GetSharedKey(n, p) ELSE sharedCache[a][b]
        BY DEF CacheShared, KeyInv, TypeOK
    <2> QED BY <2>1, <2>2, <2>3 DEF GetSharedKey
<1>2. CacheFresh'
    BY <1>1 DEF CacheFresh, Premise
<1> QED BY <1>2 DEF FreshInv, SlowKnown

\* A new known key drops the secret of the old one.
LEMMA SetPeerKeyFresh ==
    ASSUME KeyInv, FreshInv, NEW n \in Node, NEW p \in Node, NEW k \in Key,
           SetPeerKey(n, p, k), UNCHANGED <<gen, slow, slows>>
    PROVE  FreshInv'
<1>1. k # NoKey
    BY KeysAssumption DEF Key
<1>2. knownKeys' = [knownKeys EXCEPT ![n][p] = k]
      /\ sharedCache' = [sharedCache EXCEPT ![n][p] = NoSecret]
    BY DEF SetPeerKey, CacheShared
<1>3. ASSUME NEW a \in Node, NEW b \in Node
      PROVE  /\ knownKeys'[a][b] = IF a = n /\ b = p THEN k ELSE knownKeys[a][b]
             /\ sharedCache'[a][b] = IF a = n /\ b = p THEN NoSecret ELSE sharedCache[a][b]
    BY <1>2 DEF KeyInv, TypeOK, KeyMap
<1>4. SlowKnown'
    <2> SUFFICES ASSUME NEW r \in slow, r.key # NoKey
                 PROVE  knownKeys'[r.node][r.msg.from] # NoKey
        BY DEF SlowKnown
    <2>1. r.node \in Node /\ r.msg.from \in Node
        BY DEF KeyInv, SlowInv, Chat
    <2> QED BY <1>1, <1>3, <2>1 DEF FreshInv, SlowKnown
<1>5. CacheFresh'
    <2> SUFFICES ASSUME Premise', NEW a \in Node, NEW b \in Node
                 PROVE  sharedCache'[a][b] \in {NoSecret, Derived(a, b)'}
        BY DEF CacheFresh, Premise
    <2>1. sharedCache[a][b] \in {NoSecret, Derived(a, b)}
        BY DEF Premise, FreshInv, CacheFresh
    <2>2. CASE a = n /\ b = p
        BY <1>3, <2>2
    <2>3. CASE ~(a = n /\ b = p)
        <3>1. knownKeys'[a][b] = knownKeys[a][b] /\ sharedCache'[a][b] = sharedCache[a][b]
            BY <1>3, <2>3
        <3> QED BY <2>1, <3>1, DerivedSame
    <2> QED BY <2>2, <2>3
<1> QED BY <1>4, <1>5 DEF FreshInv

\* Restarting a daemon empties its cache and ends its decryptions.
LEMMA ReloadFresh ==
    ASSUME KeyInv, FreshInv, NEW n \in Node, NEW keys, Reload(n, keys),
           gen' = gen \/ gen' = [gen EXCEPT ![n] = @ + 1], UNCHANGED slows
    PROVE  FreshInv'
<1>1. knownKeys' = [knownKeys EXCEPT ![n] = keys]
      /\ sharedCache' = [sharedCache EXCEPT ![n] = [p \in Node |-> NoSecret]]
      /\ slow' = {r \in slow : r.node # n}
    BY DEF Reload
<1>2. ASSUME NEW a \in Node, NEW b \in Node, a # n
      PROVE  /\ knownKeys'[a][b] = knownKeys[a][b] /\ gen'[a] = gen[a]
             /\ sharedCache'[a][b] = sharedCache[a][b]
    BY <1>1, <1>2 DEF KeyInv, TypeOK, KeyMap
<1>3. SlowKnown'
    <2> SUFFICES ASSUME NEW r \in slow, r.node # n, r.key # NoKey
                 PROVE  knownKeys'[r.node][r.msg.from] # NoKey
        BY <1>1 DEF SlowKnown
    <2>1. r.node \in Node /\ r.msg.from \in Node
        BY DEF KeyInv, SlowInv, Chat
    <2> QED BY <1>2, <2>1 DEF FreshInv, SlowKnown
<1>4. Premise' => Premise
    <2> SUFFICES ASSUME Premise'
                 PROVE  Premise
        OBVIOUS
    <2>1. gen[n] \in Nat
        BY KeysAssumption DEF KeyInv, TypeOK
    <2>2. CASE gen' = gen
        BY <2>2 DEF Premise
    <2>3. CASE gen' = [gen EXCEPT ![n] = @ + 1]
        <3>1. gen'[n] = gen[n] + 1
            BY <2>3 DEF KeyInv, TypeOK
        <3> QED BY <2>1, <3>1 DEF Premise
    <2> QED BY <2>2, <2>3
<1>5. CacheFresh'
    <2> SUFFICES ASSUME Premise', NEW a \in Node, NEW b \in Node
                 PROVE  sharedCache'[a][b] \in {NoSecret, Derived(a, b)'}
        BY DEF CacheFresh, Premise
    <2>1. sharedCache[a][b] \in {NoSecret, Derived(a, b)}
        BY <1>4 DEF Premise, FreshInv, CacheFresh
    <2>2. CASE a = n
        BY <1>1, <2>2 DEF KeyInv, TypeOK
    <2>3. CASE a # n
        BY <1>2, <2>1, <2>3, DerivedSame
    <2> QED BY <2>2, <2>3
<1> QED BY <1>1, <1>3, <1>5 DEF FreshInv

\* The second look: a decryption that has missed the key, or has read it.
LEMMA SlowFresh ==
    ASSUME KeyInv, FreshInv,
           \/ \E n \in Node, m \in net : MissKey(n, m)
           \/ \E r \in slow : LookAgain(r)
    PROVE  FreshInv'
<1>1. CASE \E n \in Node, m \in net : MissKey(n, m)
    <2> PICK n \in Node, m \in net : MissKey(n, m)
        BY <1>1
    <2>1. slows' = slows + 1 /\ slows \in Nat
        BY DEF MissKey, KeyInv, TypeOK
    <2>2. slows' # 0
        BY <2>1
    <2>3. SlowKnown'
        <3> DEFINE q == [node |-> n, msg |-> m, key |-> NoKey]
        <3>1. q.key = NoKey /\ slow' = slow \cup {q} /\ UNCHANGED knownKeys
            BY DEF MissKey
        <3> HIDE DEF q
        <3> QED BY <3>1 DEF FreshInv, SlowKnown
    <2>4. CacheFresh'
        BY <2>2 DEF FreshInv, CacheFresh, MissKey, Derived, OwnKey
    <2> QED BY <2>2, <2>3, <2>4 DEF FreshInv
<1>2. CASE \E r \in slow : LookAgain(r)
    <2> PICK r \in slow : LookAgain(r)
        BY <1>2
    <2>1. slows # 0 /\ UNCHANGED <<gen, knownKeys, sharedCache, slows>>
        BY DEF FreshInv, LookAgain
    <2>2. SlowKnown'
        <3> DEFINE k == knownKeys[r.node][r.msg.from]
                   q == [r EXCEPT !.key = k]
        <3>1. r \in [node : Node, msg : Chat, key : Key \cup {NoKey}]
            BY DEF KeyInv, SlowInv
        <3>2. q.node = r.node /\ q.msg = r.msg /\ q.key = k
            BY <3>1
        <3>3. slow' \subseteq slow \cup (IF k = NoKey THEN {} ELSE {q})
            BY DEF LookAgain
        <3> HIDE DEF q
        <3> QED BY <2>1, <3>2, <3>3 DEF FreshInv, SlowKnown
    <2>3. CacheFresh'
        BY <2>1 DEF FreshInv, CacheFresh, Derived, OwnKey
    <2> QED BY <2>1, <2>2, <2>3 DEF FreshInv
<1> QED BY <1>1, <1>2

\* The secret that the second look caches is the current one as long as there
\* is only one key of each daemon.
LEMMA StoreSharedFresh ==
    ASSUME KeyInv, FreshInv, NEW r \in slow, StoreShared(r)
    PROVE  FreshInv'
<1> DEFINE n == r.node
           p == r.msg.from
           s == SharedSecret(OwnKey(n), r.key)
<1>1. n \in Node /\ p \in Node /\ Issued(r.key, p, gen) /\ r.key # NoKey
    BY DEF StoreShared, KeyInv, SlowInv, Chat
<1>2. slows # 0 /\ UNCHANGED <<gen, knownKeys, slows>> /\ slow' = slow \ {r}
          /\ sharedCache' = [sharedCache EXCEPT ![n][p] = s]
    BY DEF FreshInv, StoreShared, CacheShared
<1>3. knownKeys[n][p] # NoKey /\ Issued(knownKeys[n][p], p, gen)
    BY <1>1 DEF FreshInv, SlowKnown, KeyInv, MapInv
<1>4. SlowKnown'
    BY <1>2 DEF FreshInv, SlowKnown
<1>5. CacheFresh'
    <2> SUFFICES ASSUME Premise', NEW a \in Node, NEW b \in Node
                 PROVE  sharedCache'[a][b] \in {NoSecret, Derived(a, b)'}
        BY DEF CacheFresh, Premise
    <2>1. gen[p] = 0 /\ sharedCache[a][b] \in {NoSecret, Derived(a, b)}
        BY <1>1, <1>2 DEF Premise, FreshInv, CacheFresh
    <2>2. r.key = <<p, 0>> /\ knownKeys[n][p] = <<p, 0>>
        BY <1>1, <1>3, <2>1, KeysAssumption DEF Issued, Key
    <2>3. Derived(n, p) = s
        BY <1>3, <2>2 DEF Derived
    <2>4. sharedCache'[a][b] = IF a = n /\ b = p THEN s ELSE sharedCache[a][b]
        BY <1>2 DEF KeyInv, TypeOK
    <2>5. Derived(a, b)' = Derived(a, b)
        BY <1>2, DerivedSame
    <2> QED BY <2>1, <2>3, <2>4, <2>5
<1> QED BY <1>2, <1>4, <1>5 DEF FreshInv

\* Every step keeps FreshInv.
LEMMA FreshInvNext == KeyInv /\ FreshInv /\ [Next]_vars => FreshInv'
<1> SUFFICES ASSUME KeyInv, FreshInv, [Next]_vars
             PROVE  FreshInv'
    OBVIOUS
<1>1. ASSUME UNCHANGED <<gen, knownKeys, sharedCache, slow, slows>>
      PROVE  FreshInv'
    BY <1>1 DEF FreshInv, SlowKnown, CacheFresh, Derived, OwnKey
<1>2. CASE \E n, p \in Node : SendKeyExchange(n, p) \/ SendChat(n, p) \/ SendDirect(n, p)
    <2> PICK n \in Node, p \in Node : SendKeyExchange(n, p) \/ SendChat(n, p) \/ SendDirect(n, p)
        BY <1>2
    <2>1. CASE SendKeyExchange(n, p) \/ SendDirect(n, p)
        BY <1>1, <2>1 DEF SendKeyExchange, SendDirect
    <2>2. CASE SendChat(n, p)
        BY <2>2, UseSharedFresh DEF SendChat
    <2> QED BY <2>1, <2>2
<1>3. CASE \E n \in Node, m \in net : Receive(n, m) \/ CrashInSave(n, m)
    <2> PICK n \in Node, m \in net : Receive(n, m) \/ CrashInSave(n, m)
        BY <1>3
    <2>1. m.from \in Node /\ (m.type = "key_exchange" => m.key \in Key)
        BY DEF KeyInv, TypeOK, Exchange, Chat
    <2>2. CASE ReceiveKeyExchange(n, m)
        BY <2>1, <2>2, SetPeerKeyFresh DEF ReceiveKeyExchange, HandleKeyExchangeMessage
    <2>3. CASE ReceivePlain(n, m) \/ ReceiveNoKey(n, m)
        BY <1>1, <2>3 DEF ReceivePlain, ReceiveNoKey
    <2>4. CASE ReceiveEncrypted(n, m)
        BY <2>1, <2>4, UseSharedFresh DEF ReceiveEncrypted
    <2>5. CASE MissKey(n, m)
        BY <2>5, SlowFresh
    <2>6. CASE CrashInSave(n, m)
        BY <2>6, ReloadFresh DEF CrashInSave
    <2> QED BY <2>2, <2>3, <2>4, <2>5, <2>6 DEF Receive
<1>4. CASE \E r \in slow : LookAgain(r) \/ StoreShared(r)
    BY <1>4, SlowFresh, StoreSharedFresh
<1>5. CASE \E n \in Node : Restart(n) \/ NewKeypair(n)
    BY <1>5, ReloadFresh DEF Restart, NewKeypair
<1>6. CASE UNCHANGED vars
    BY <1>1, <1>6 DEF vars
<1> QED BY <1>2, <1>3, <1>4, <1>5, <1>6 DEF Next

(***************************************************************************)
(* A cached secret is the one of the key pair and the known key of now     *)
(* (SetPeerKey "invalidates" it, a restart empties the cache), unless the  *)
(* second look of DecryptMessage meets a new key pair.                     *)
(***************************************************************************)
THEOREM CacheStaysFresh == Spec => []CacheFresh
<1>1. Init => FreshInv
    BY DEF Init, FreshInv, SlowKnown, CacheFresh
<1>2. FreshInv => CacheFresh
    BY DEF FreshInv
<1> QED BY <1>1, <1>2, KeyInvInit, KeyInvNext, FreshInvNext, PTL DEF Spec

-----------------------------------------------------------------------------
(***************************************************************************)
(* As long as no relay overtakes a decryption, what is on its way under an *)
(* id is the message its sender sent: there is no second, plain copy.      *)
(***************************************************************************)
UniqueInv == races = 0 => \A x, y \in net : x.id = y.id => x = y

\* Without a race, no step puts a second message under an ID.
LEMMA UniqueInvNext == KeyInv /\ UniqueInv /\ [Next]_vars => UniqueInv'
<1> SUFFICES ASSUME KeyInv, UniqueInv, [Next]_vars
             PROVE  UniqueInv'
    OBVIOUS
<1>1. ASSUME NEW m, m.id = count + 1, Transmit(m), UNCHANGED races
      PROVE  UniqueInv'
    <2>1. \A x \in net : x.id \in Nat /\ x.id <= count
        BY DEF KeyInv, TypeOK, NetInv, Exchange, Chat
    <2>2. \A x \in net : x.id # m.id
        BY <1>1, <2>1 DEF KeyInv, TypeOK
    <2> QED BY <1>1, <2>2 DEF Transmit, UniqueInv
<1>2. ASSUME NEW m, NEW d, RelayRace(m, d)
      PROVE  UniqueInv'
    <2>1. races \in Nat
        BY DEF KeyInv, TypeOK
    <2> QED BY <1>2, <2>1 DEF RelayRace, UniqueInv
<1>3. ASSUME UNCHANGED <<net, races>>
      PROVE  UniqueInv'
    BY <1>3 DEF UniqueInv
<1>4. CASE \E n, p \in Node : SendKeyExchange(n, p) \/ SendChat(n, p) \/ SendDirect(n, p)
    <2> PICK n \in Node, p \in Node : SendKeyExchange(n, p) \/ SendChat(n, p) \/ SendDirect(n, p)
        BY <1>4
    <2>1. NewKeyExchange(n, p).id = count + 1 /\ NewChat(n, p).id = count + 1
              /\ EncryptMessage(n, NewChat(n, p)).id = count + 1
        BY DEF NewKeyExchange, NewChat, EncryptMessage
    <2> QED BY <1>1, <2>1 DEF SendKeyExchange, SendChat, SendDirect
<1>5. CASE \E n \in Node, m \in net : Receive(n, m) \/ CrashInSave(n, m)
    BY <1>2, <1>3, <1>5 DEF Receive, ReceiveKeyExchange, ReceivePlain, ReceiveEncrypted,
                            ReceiveNoKey, MissKey, CrashInSave
<1>6. CASE \E r \in slow : LookAgain(r) \/ StoreShared(r)
    BY <1>2, <1>3, <1>6 DEF LookAgain, StoreShared
<1>7. CASE \E n \in Node : Restart(n) \/ NewKeypair(n)
    BY <1>3, <1>7 DEF Restart, NewKeypair
<1>8. CASE UNCHANGED vars
    BY <1>3, <1>8 DEF vars
<1> QED BY <1>4, <1>5, <1>6, <1>7, <1>8 DEF Next

(***************************************************************************)
(* A chat that left its sender encrypted is shown only at its recipient,   *)
(* however many nodes handle it and whatever keys they have exchanged.     *)
(***************************************************************************)
THEOREM RecipientOnly == Spec => []OnlyRecipientReads
<1>1. Init => UniqueInv
    BY DEF Init, UniqueInv
<1>2. KeyInv /\ UniqueInv => OnlyRecipientReads
    <2> SUFFICES ASSUME KeyInv, UniqueInv, races = 0, NEW n \in Node, NEW m \in shown[n],
                        NEW x \in net, x.id = m.id, IsEncrypted(x)
                 PROVE  n = m.to
        BY DEF OnlyRecipientReads, Overhears
    <2>1. m \in net
        BY DEF KeyInv, TypeOK
    <2>2. x = m
        BY <2>1 DEF UniqueInv
    <2> QED BY <2>2 DEF KeyInv, ShownInv
<1> QED BY <1>1, <1>2, KeyInvInit, KeyInvNext, UniqueInvNext, PTL DEF Spec
=============================================================================
