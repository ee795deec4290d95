-------------------------------- MODULE Keys --------------------------------
(***************************************************************************)
(* End-to-end encryption between daemons: the key Manager of               *)
(* pkg/crypto/box.go and its callers in pkg/wsbridge/bridge.go and         *)
(* cmd/rippled/main.go.  Key exchanges and chats travel through the mesh,  *)
(* which may delay, reorder and lose them; every node that handles a       *)
(* message does so once.                                                   *)
(*                                                                         *)
(* A key pair is its owner and a generation.  What Curve25519 derives from *)
(* a private and a public key is the set of the two pairs: both sides get  *)
(* the same secret and nobody else does.                                   *)
(***************************************************************************)
EXTENDS Naturals, FiniteSets

CONSTANTS
    Node,           \* daemons
    NoKey,          \* no entry in a map of keys
    MaxMsg,         \* bound: messages sent
    MaxSlow,        \* bound: decryptions that miss the key and look again
    MaxCrash,       \* bound: crashes and losses of a data directory
    MaxRace         \* bound: relays that serialise a message already decrypted

ASSUME KeysAssumption ==
    /\ NoKey \notin Node \X Nat
    /\ MaxMsg \in Nat /\ MaxSlow \in Nat
    /\ MaxCrash \in Nat /\ MaxRace \in Nat

VARIABLES
    gen,            \* gen[n]: generation of n's own key pair
    knownKeys,      \* knownKeys[n][p]: the public key n has for p
    sharedCache,    \* sharedCache[n][p]: the derived key n caches for p
    disk,           \* disk[n]: contents of known_keys.json
    net,            \* messages sent
    handled,        \* handled[n]: messages n has handled
    slow,           \* decryptions between GetSharedKey and the second look
    shown,          \* shown[n]: chats n's app shows
    count, slows, crashes, races

keyVars == <<gen, knownKeys, sharedCache, disk>>
vars    == <<keyVars, net, handled, slow, shown, count, slows, crashes, races>>

Key      == Node \X (0..MaxCrash)
NoKeys   == [p \in Node |-> NoKey]
NoSecret == {}
Secret   == {NoSecret} \cup {{a, b} : a \in Key, b \in Key}

OwnKey(n) == <<n, gen[n]>>

Exchange == [type : {"key_exchange"}, id : 1..MaxMsg, from : Node, to : Node, key : Key]
Chat     == [type : {"chat"}, id : 1..MaxMsg, from : Node, to : Node, box : Secret]

\* A chat that is not encrypted has no box.
IsEncrypted(m) == m.box # NoSecret

-----------------------------------------------------------------------------
(***************************************************************************)
(* The Manager.                                                            *)
(***************************************************************************)
SharedSecret(own, pub) == {own, pub}

\* GetSharedKey: the cached secret, or one derived from the known key.
Derived(n, p) == IF knownKeys[n][p] = NoKey THEN NoSecret
                 ELSE SharedSecret(OwnKey(n), knownKeys[n][p])

GetSharedKey(n, p) == IF sharedCache[n][p] # NoSecret THEN sharedCache[n][p] ELSE Derived(n, p)

CacheShared(n, p, s) == sharedCache' = [sharedCache EXCEPT ![n][p] = s]

\* Mutant of SetPeerKey: the cached secret is not invalidated.
SetPeerKeyKeepCache(n, p, k) ==
    /\ knownKeys' = [knownKeys EXCEPT ![n][p] = k]
    /\ disk' = [disk EXCEPT ![n] = knownKeys'[n]]
    /\ UNCHANGED sharedCache

SetPeerKey(n, p, k) ==
    /\ knownKeys' = [knownKeys EXCEPT ![n][p] = k]
    /\ disk' = [disk EXCEPT ![n] = knownKeys'[n]]
    /\ CacheShared(n, p, NoSecret)

-----------------------------------------------------------------------------
(***************************************************************************)
(* Sending.                                                                *)
(***************************************************************************)
Transmit(m) ==
    /\ count < MaxMsg
    /\ count' = count + 1
    /\ net' = net \cup {m}

NewKeyExchange(n, p) ==
    [type |-> "key_exchange", id |-> count + 1, from |-> n, to |-> p, key |-> OwnKey(n)]

\* handleIncomingKeyExchange: the app has scanned p's code.
SendKeyExchange(n, p) ==
    /\ n # p
    /\ Transmit(NewKeyExchange(n, p))
    /\ UNCHANGED <<keyVars, handled, slow, shown, slows, crashes, races>>

\* EncryptMessage: the message boxed with the shared secret, or left alone
\* when there is none.
EncryptMessage(n, m) == [m EXCEPT !.box = GetSharedKey(n, m.to)]

NewChat(n, p) == [type |-> "chat", id |-> count + 1, from |-> n, to |-> p, box |-> NoSecret]

\* handleIncomingChat: plain text when it cannot be encrypted.
SendChat(n, p) ==
    /\ n # p
    /\ Transmit(EncryptMessage(n, NewChat(n, p)))
    /\ CacheShared(n, p, GetSharedKey(n, p))
    /\ UNCHANGED <<gen, knownKeys, disk, handled, slow, shown, slows, crashes, races>>

\* The command line's direct message is never encrypted.
SendDirect(n, p) ==
    /\ n # p
    /\ Transmit(NewChat(n, p))
    /\ UNCHANGED <<keyVars, handled, slow, shown, slows, crashes, races>>

-----------------------------------------------------------------------------
(***************************************************************************)
(* Receiving: handleMeshMessage, on every node that the message gets to.   *)
(***************************************************************************)
Handle(n, m) ==
    /\ m \in net /\ n # m.from /\ \A x \in handled[n] : x.id # m.id
    /\ handled' = [handled EXCEPT ![n] = @ \cup {m}]

HandleKeyExchangeMessage(n, m) == SetPeerKey(n, m.from, m.key)

\* handleKeyExchange.
ReceiveKeyExchange(n, m) ==
    /\ m.type = "key_exchange" /\ Handle(n, m)
    /\ HandleKeyExchangeMessage(n, m)
    /\ UNCHANGED <<gen, net, slow, shown, count, slows, crashes, races>>

\* Mutant of Decrypts: what fails to decrypt is forwarded all the same.
DecryptsAnyway(m, s) == TRUE

\* Decrypt succeeds with the secret that encrypted, and only with that.
Decrypts(m, s) == s = m.box

\* A flooding node relays what it delivers: a goroutine serialises the same
\* message object that OnMessage decrypts in place, in either order.  (The
\* orders in between send a payload that nobody can decrypt.)
RelayRace(m, decrypted) ==
    \/ UNCHANGED <<net, races>>
    \/ /\ decrypted /\ races < MaxRace
       /\ races' = races + 1
       /\ net' = net \cup {[m EXCEPT !.box = NoSecret]}

Show(n, m) == shown' = [shown EXCEPT ![n] = @ \cup {m}]

ReceivePlain(n, m) ==
    /\ m.type = "chat" /\ ~IsEncrypted(m) /\ Handle(n, m)
    /\ Show(n, m)
    /\ UNCHANGED <<keyVars, net, slow, count, slows, crashes, races>>

\* DecryptMessage when GetSharedKey succeeds: an undecryptable chat is dropped.
ReceiveEncrypted(n, m) ==
    /\ m.type = "chat" /\ IsEncrypted(m) /\ Handle(n, m)
    /\ LET s == GetSharedKey(n, m.from) IN
         /\ s # NoSecret
         /\ CacheShared(n, m.from, s)
         /\ IF Decrypts(m, s) THEN Show(n, m) ELSE UNCHANGED shown
         /\ RelayRace(m, Decrypts(m, s))
    /\ UNCHANGED <<gen, knownKeys, disk, slow, count, slows, crashes>>

\* GetSharedKey fails and the second look finds no key either.
ReceiveNoKey(n, m) ==
    /\ m.type = "chat" /\ IsEncrypted(m) /\ Handle(n, m)
    /\ GetSharedKey(n, m.from) = NoSecret
    /\ UNCHANGED <<keyVars, net, slow, shown, count, slows, crashes, races>>

\* GetSharedKey fails; the lock is released before the second look.
MissKey(n, m) ==
    /\ m.type = "chat" /\ IsEncrypted(m) /\ Handle(n, m)
    /\ GetSharedKey(n, m.from) = NoSecret
    /\ slows < MaxSlow /\ slows' = slows + 1
    /\ slow' = slow \cup {[node |-> n, msg |-> m, key |-> NoKey]}
    /\ UNCHANGED <<keyVars, net, shown, count, crashes, races>>

\* The second look: GetPeerKey, and again the lock is released.
LookAgain(r) ==
    /\ r \in slow /\ r.key = NoKey
    /\ slow' = (slow \ {r}) \cup
         (IF knownKeys[r.node][r.msg.from] = NoKey THEN {}
          ELSE {[r EXCEPT !.key = knownKeys[r.node][r.msg.from]]})
    /\ UNCHANGED <<keyVars, net, handled, shown, count, slows, crashes, races>>

\* The derived secret goes into the cache, whatever the cache and the known
\* key are by now.
StoreShared(r) ==
    /\ r \in slow /\ r.key # NoKey
    /\ slow' = slow \ {r}
    /\ LET s == SharedSecret(OwnKey(r.node), r.key) IN
         /\ CacheShared(r.node, r.msg.from, s)
         /\ IF Decrypts(r.msg, s) THEN Show(r.node, r.msg) ELSE UNCHANGED shown
         /\ RelayRace(r.msg, Decrypts(r.msg, s))
    /\ UNCHANGED <<gen, knownKeys, disk, handled, count, slows, crashes>>

-----------------------------------------------------------------------------
(***************************************************************************)
(* Restarts.                                                               *)
(***************************************************************************)
Reload(n, keys) ==
    /\ knownKeys' = [knownKeys EXCEPT ![n] = keys]
    /\ sharedCache' = [sharedCache EXCEPT ![n] = [p \in Node |-> NoSecret]]
    /\ slow' = {r \in slow : r.node # n}

LoadKnownKeys(n) == disk[n]

Restart(n) ==
    /\ crashes < MaxCrash /\ crashes' = crashes + 1
    /\ Reload(n, LoadKnownKeys(n))
    /\ UNCHANGED <<gen, disk, net, handled, shown, count, slows, races>>

\* The process ends while os.WriteFile rewrites known_keys.json in place: the
\* file cannot be parsed and the manager goes on without any known key.
CrashInSave(n, m) ==
    /\ m.type = "key_exchange" /\ Handle(n, m)
    /\ crashes < MaxCrash /\ crashes' = crashes + 1
    /\ disk' = [disk EXCEPT ![n] = NoKeys]
    /\ Reload(n, NoKeys)
    /\ UNCHANGED <<gen, net, shown, count, slows, races>>

\* The data directory is lost: LoadOrCreateKeypair makes a new key pair.
NewKeypair(n) ==
    /\ crashes < MaxCrash /\ crashes' = crashes + 1
    /\ gen' = [gen EXCEPT ![n] = @ + 1]
    /\ disk' = [disk EXCEPT ![n] = NoKeys]
    /\ Reload(n, NoKeys)
    /\ UNCHANGED <<net, handled, shown, count, slows, races>>

-----------------------------------------------------------------------------
Init ==
    /\ gen = [n \in Node |-> 0]
    /\ knownKeys = [n \in Node |-> NoKeys]
    /\ sharedCache = [n \in Node |-> [p \in Node |-> NoSecret]]
    /\ disk = [n \in Node |-> NoKeys]
    /\ net = {} /\ slow = {}
    /\ handled = [n \in Node |-> {}] /\ shown = [n \in Node |-> {}]
    /\ count = 0 /\ slows = 0 /\ crashes = 0 /\ races = 0

Receive(n, m) ==
    \/ ReceiveKeyExchange(n, m) \/ ReceivePlain(n, m) \/ ReceiveEncrypted(n, m)
    \/ ReceiveNoKey(n, m) \/ MissKey(n, m)

Next ==
    \/ \E n, p \in Node : SendKeyExchange(n, p) \/ SendChat(n, p) \/ SendDirect(n, p)
    \/ \E n \in Node, m \in net : Receive(n, m) \/ CrashInSave(n, m)
    \/ \E r \in slow : LookAgain(r) \/ StoreShared(r)
    \/ \E n \in Node : Restart(n) \/ NewKeypair(n)

Spec == Init /\ [][Next]_vars

-----------------------------------------------------------------------------
KeyMap == [Node -> [Node -> Key \cup {NoKey}]]

\* Type invariant: only secrets of two real key pairs are derived and cached,
\* and only messages that were sent are handled and shown.
TypeOK ==
    /\ gen \in [Node -> 0..MaxCrash]
    /\ knownKeys \in KeyMap /\ disk \in KeyMap
    /\ sharedCache \in [Node -> [Node -> Secret]]
    /\ net \subseteq Exchange \cup Chat
    /\ handled \in [Node -> SUBSET net] /\ shown \in [Node -> SUBSET net]
    /\ \A r \in slow : r.node \in Node /\ r.msg \in net /\ r.key \in Key \cup {NoKey}
    /\ count \in 0..MaxMsg /\ slows \in 0..MaxSlow /\ crashes \in 0..MaxCrash
    /\ races \in 0..MaxRace

(***************************************************************************)
(* "Invalidate shared cache for this peer": a cached secret is the one of  *)
(* the key pair and the known key of now, through key exchanges, new key   *)
(* pairs and restarts: what is stale can neither encrypt nor decrypt.  The *)
(* second look of DecryptMessage can cache the secret of a key replaced    *)
(* meanwhile; as long as nobody has a new key pair even that cannot.       *)
(***************************************************************************)
CacheFresh ==
    slows = 0 \/ (\A n \in Node : gen[n] = 0) =>
        \A n, p \in Node : sharedCache[n][p] \in {NoSecret, Derived(n, p)}

\* n is not the recipient of a chat it shows that left its sender encrypted.
Overhears(n, m) == n # m.to /\ \E x \in net : x.id = m.id /\ IsEncrypted(x)

(***************************************************************************)
(* A chat that its sender encrypted is shown only at its recipient,        *)
(* although every node on the way handles it and all of them store the key *)
(* exchanges, as long as no relay overtakes its decryption.                *)
(***************************************************************************)
OnlyRecipientReads ==
    races = 0 => \A n \in Node : \A m \in shown[n] : ~Overhears(n, m)

(***************************************************************************)
(* "end-to-end encryption": the same without the proviso.                  *)
(***************************************************************************)
EndToEnd == \A n \in Node : \A m \in shown[n] : ~Overhears(n, m)
=============================================================================
