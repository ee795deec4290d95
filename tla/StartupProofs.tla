---------------------------- MODULE StartupProofs ---------------------------
(***************************************************************************)
(* Proofs about Startup, for any number of processes on a data directory:  *)
(* a saved secret is never replaced silently, every phrase the user was    *)
(* shown is of a saved identity and the last one of the identity on disk,  *)
(* and the saved key pair stays on disk and is the only one in use.        *)
(***************************************************************************)
EXTENDS Startup, TLAPS

-----------------------------------------------------------------------------
(***************************************************************************)
(* The inductive invariant: types, what a process has at which step, and   *)
(* what is on disk.                                                        *)
(***************************************************************************)
TypeInv ==
    /\ mode \in [Proc -> {"none", "daemon", "export", "import"}]
    /\ pc \in [Proc -> {"idle", "load", "open", "write", "run"}]
    /\ on \in [Proc -> File]
    /\ mem \in [Proc -> [File -> Key \cup {None}]]
    /\ file \in [File -> Key \cup {NoFile, Torn}]
    /\ flushed \in [File -> Key \cup {NoFile, Torn}]
    /\ next \in [File -> Nat \ {0}]
    /\ shown \subseteq Key
    /\ used \in [File -> Key \cup {None}] /\ phrase \in Key \cup {None}
    /\ outdated \subseteq Proc
    /\ doubt \in [File -> BOOLEAN] /\ stale \in BOOLEAN

\* What a process has at which step.
Idle(p) == /\ mode[p] = "none" /\ on[p] = "identity" /\ p \notin outdated
           /\ mem[p]["identity"] = None /\ mem[p]["keypair"] = None

Good(p) ==
    /\ pc[p] = "idle" => Idle(p)
    /\ pc[p] # "idle" => mode[p] # "none"
    /\ on[p] = "identity" => mem[p]["keypair"] = None /\ pc[p] # "run"
    /\ on[p] = "keypair" => mode[p] = "daemon" /\ mem[p]["identity"] # None
    /\ pc[p] \in {"open", "write"} => mem[p][on[p]] # None
    /\ pc[p] = "load" => mem[p][on[p]] = None
    /\ mode[p] = "import" => pc[p] \in {"open", "write"}

ProcInv == \A p \in Proc : Good(p)

\* The file is the key last saved, nothing before the first save, or torn;
\* one process at a time creates it, and what it found is still true.
FileInv ==
    \A f \in File : ~doubt[f] =>
        /\ file[f] = NoFile => used[f] = None
        /\ file[f] \in Key => used[f] = file[f]
        /\ \A p, q \in Creating(f) : p = q
        /\ \A p \in Creating(f) : /\ pc[p] = "write" => file[f] = Torn
                                  /\ pc[p] = "open" /\ mode[p] # "import" => file[f] = NoFile

\* A process whose identity no import has replaced has the one on disk.
PhraseInv ==
    ~doubt["identity"] =>
        /\ phrase # None /\ ~stale => file["identity"] = phrase
        /\ \A p \in Proc \ outdated :
              mem[p]["identity"] # None /\ p \notin Creating("identity")
              => file["identity"] = mem[p]["identity"]

\* Whoever creates the key pair creates the first one.
EncryptInv == ~doubt["keypair"] /\ Creating("keypair") # {} => used["keypair"] = None

StartInv == TypeInv /\ ProcInv /\ FileInv /\ PhraseInv /\ EncryptInv /\ EncryptionKept

USE DEF procVars, diskVars, userVars

\* There are two files.
LEMMA Names == \A f : f \in File <=> f = "identity" \/ f = "keypair"
BY DEF File

\* A missing or torn file is not a key.
LEMMA NoClash == NoFile \notin Key /\ Torn \notin Key /\ None \notin Key /\ NoFile # Torn
BY StartupAssumption

(***************************************************************************)
(* The first state.                                                        *)
(***************************************************************************)
LEMMA StartInvInit == Init => StartInv
<1> SUFFICES ASSUME Init
             PROVE  StartInv
    OBVIOUS
<1>1. TypeInv
    <2>1. Blank \in [File -> Key \cup {None}] /\ "identity" \in File
        BY DEF Blank, File
    <2>2. mem \in [Proc -> [File -> Key \cup {None}]] /\ used \in [File -> Key \cup {None}]
              /\ on \in [Proc -> File]
        BY <2>1 DEF Init
    <2>3. doubt \in [File -> BOOLEAN] /\ stale \in BOOLEAN
        BY DEF Init
    <2> QED BY <2>2, <2>3 DEF Init, TypeInv
<1>2. ProcInv
    BY DEF Init, ProcInv, Good, Idle, Blank, File
<1>3. \A f \in File : Creating(f) = {} /\ file[f] = NoFile /\ used[f] = None
    BY DEF Init, Creating, Blank
<1>4. FileInv /\ PhraseInv /\ EncryptInv
    BY <1>3, NoClash DEF Init, FileInv, PhraseInv, EncryptInv, Blank, File
<1>5. EncryptionKept
    BY DEF Init, EncryptionKept, Blank, File
<1> QED BY <1>1, <1>2, <1>4, <1>5 DEF StartInv

-----------------------------------------------------------------------------
(***************************************************************************)
(* What a step of p leaves alone, and the ways a step of p can end.        *)
(***************************************************************************)
Others(p) ==
    \A q \in Proc \ {p} :
        /\ mode'[q] = mode[q] /\ pc'[q] = pc[q] /\ on'[q] = on[q] /\ mem'[q] = mem[q]
        /\ q \in outdated' <=> q \in outdated

ProcType ==
    /\ mode \in [Proc -> {"none", "daemon", "export", "import"}]
    /\ pc \in [Proc -> {"idle", "load", "open", "write", "run"}]
    /\ on \in [Proc -> File]
    /\ mem \in [Proc -> [File -> Key \cup {None}]]
    /\ outdated \subseteq Proc

UserType == shown \subseteq Key /\ phrase \in Key \cup {None} /\ stale \in BOOLEAN

Ended(p) == pc'[p] = "idle" /\ Idle(p)'

Becomes(p, step, f, id, kp) ==
    /\ mode'[p] = mode[p] /\ pc'[p] = step /\ on'[p] = f
    /\ mem'[p]["identity"] = id /\ mem'[p]["keypair"] = kp
    /\ p \in outdated' <=> p \in outdated

\* What the end of a process changes.
LEMMA GoneFacts ==
    ASSUME TypeInv, NEW p \in Proc, Gone(p)
    PROVE  ProcType' /\ Others(p) /\ Ended(p)
<1>1. Blank \in [File -> Key \cup {None}] /\ Blank["identity"] = None /\ Blank["keypair"] = None
    BY DEF Blank, File
<1>2. mode' \in [Proc -> {"none", "daemon", "export", "import"}] /\ mode'[p] = "none"
          /\ \A q \in Proc \ {p} : mode'[q] = mode[q]
    BY DEF Gone, TypeInv
<1>3. pc' \in [Proc -> {"idle", "load", "open", "write", "run"}] /\ pc'[p] = "idle"
          /\ \A q \in Proc \ {p} : pc'[q] = pc[q]
    BY DEF Gone, TypeInv
<1>4. on' \in [Proc -> File] /\ on'[p] = "identity"
          /\ \A q \in Proc \ {p} : on'[q] = on[q]
    BY DEF Gone, TypeInv, File
<1>5. mem' \in [Proc -> [File -> Key \cup {None}]] /\ mem'[p] = Blank
          /\ \A q \in Proc \ {p} : mem'[q] = mem[q]
    BY <1>1 DEF Gone, TypeInv
<1>6. outdated' = outdated \ {p} /\ outdated \subseteq Proc
    BY DEF Gone, TypeInv
<1> QED BY <1>1, <1>2, <1>3, <1>4, <1>5, <1>6 DEF ProcType, Others, Ended, Idle

\* What a process going on to another step changes.
LEMMA GoToFacts ==
    ASSUME TypeInv, NEW p \in Proc, NEW step \in {"load", "open", "run"}, NEW f \in File,
           NEW g \in File, NEW k \in Key \cup {None}, GoTo(p, step, f), Holds(p, g, k)
    PROVE  /\ ProcType' /\ Others(p)
           /\ Becomes(p, step, f, IF g = "identity" THEN k ELSE mem[p]["identity"],
                                  IF g = "keypair" THEN k ELSE mem[p]["keypair"])
<1>1. UNCHANGED <<mode, outdated>>
    BY DEF GoTo
<1>2. pc' \in [Proc -> {"idle", "load", "open", "write", "run"}] /\ pc'[p] = step
          /\ \A q \in Proc \ {p} : pc'[q] = pc[q]
    BY DEF GoTo, TypeInv
<1>3. on' \in [Proc -> File] /\ on'[p] = f
          /\ \A q \in Proc \ {p} : on'[q] = on[q]
    BY DEF GoTo, TypeInv
<1>4. mem' \in [Proc -> [File -> Key \cup {None}]]
          /\ \A q \in Proc \ {p} : mem'[q] = mem[q]
    BY DEF Holds, TypeInv
<1>5. \A h \in File : mem'[p][h] = IF h = g THEN k ELSE mem[p][h]
    BY DEF Holds, TypeInv
<1>6. mode \in [Proc -> {"none", "daemon", "export", "import"}] /\ outdated \subseteq Proc
    BY DEF TypeInv
<1> QED BY <1>1, <1>2, <1>3, <1>4, <1>5, <1>6, Names DEF ProcType, Others, Becomes

\* Where a process that has got a key goes on, by its mode.
LEMMA ReadyFacts ==
    ASSUME TypeInv, NEW p \in Proc, NEW f \in File, NEW k \in Key, Ready(p, f, k)
    PROVE  /\ ProcType' /\ Others(p) /\ UserType' /\ shown' \subseteq shown \cup {k}
           /\ \/ /\ mode[p] = "daemon" /\ f = "identity" /\ Hide
                 /\ Becomes(p, "load", "keypair", k, mem[p]["keypair"])
              \/ /\ mode[p] = "daemon" /\ f = "keypair" /\ Hide
                 /\ Becomes(p, "run", "keypair", mem[p]["identity"], k)
              \/ mode[p] = "export" /\ Ended(p) /\ phrase' = k
              \/ mode[p] = "import" /\ Ended(p) /\ Hide
<1>1. UserType
    BY DEF TypeInv, UserType
<1>2. CASE mode[p] = "daemon" /\ f = "identity" /\ GoTo(p, "load", "keypair") /\ Holds(p, f, k)
                /\ Hide
    BY <1>1, <1>2, GoToFacts, Names DEF Hide, UserType
<1>3. CASE mode[p] = "daemon" /\ f = "keypair"  /\ GoTo(p, "run", f) /\ Holds(p, f, k) /\ Hide
    BY <1>1, <1>3, GoToFacts, Names DEF Hide, UserType
<1>4. CASE mode[p] = "export" /\ Gone(p) /\ Show(k, p)
    BY <1>1, <1>4, GoneFacts DEF Show, UserType
<1>5. CASE mode[p] = "import" /\ Gone(p) /\ Hide
    BY <1>1, <1>5, GoneFacts DEF Hide, UserType
<1> QED BY <1>2, <1>3, <1>4, <1>5 DEF Ready

\* What a process does that cannot get a key: end, or run without encryption.
LEMMA UnavailableFacts ==
    ASSUME TypeInv, NEW p \in Proc, NEW f \in File, Unavailable(p, f)
    PROVE  /\ ProcType' /\ Others(p) /\ Hide
           /\ \/ f = "identity" /\ Ended(p)
              \/ f = "keypair" /\ Becomes(p, "run", "keypair", mem[p]["identity"], None)
<1>1. Hide
    BY DEF Unavailable
<1>2. CASE f = "identity" /\ Gone(p)
    BY <1>1, <1>2, GoneFacts
<1>3. CASE f = "keypair" /\ GoTo(p, "run", f) /\ Holds(p, f, None)
    BY <1>1, <1>3, GoToFacts, Names
<1> QED BY <1>2, <1>3 DEF Unavailable

\* A step of one process leaves the others good.
LEMMA OthersGood ==
    ASSUME ProcInv, NEW p \in Proc, Others(p), Good(p)'
    PROVE  ProcInv'
<1> SUFFICES ASSUME NEW q \in Proc, q # p
             PROVE  Good(q)'
    BY DEF ProcInv
<1>1. Good(q)
    BY DEF ProcInv
<1> QED BY <1>1 DEF Others, Good, Idle

\* A step that leaves no doubt was taken by the only process on the file.
LEMMA DoubtsFacts ==
    ASSUME TypeInv, NEW p \in Proc, NEW f \in File, Doubts(f, Creating(f) \cup {p})
    PROVE  /\ doubt' \in [File -> BOOLEAN]
           /\ ~doubt'[f] => ~doubt[f] /\ \A q \in Creating(f) : q = p
           /\ \A g \in File \ {f} : doubt'[g] = doubt[g]
<1>1. doubt \in [File -> BOOLEAN]
    BY DEF TypeInv
<1>2. doubt' = [doubt EXCEPT ![f] = doubt[f] \/ \E a, b \in Creating(f) \cup {p} : a # b]
    BY DEF Doubts
<1>3. doubt' \in [File -> BOOLEAN] /\ (\A g \in File \ {f} : doubt'[g] = doubt[g])
          /\ doubt'[f] = (doubt[f] \/ \E a, b \in Creating(f) \cup {p} : a # b)
    BY <1>1, <1>2
<1> QED BY <1>3

-----------------------------------------------------------------------------
(***************************************************************************)
(* Load: the file is missing and a key is generated, it cannot be read or  *)
(* parsed, or its key is taken.                                            *)
(***************************************************************************)
LEMMA LoadCreates ==
    ASSUME StartInv, NEW p \in Proc, NEW f \in File, f = on[p], pc[p] = "load",
           Missing(f), next[f] <= MaxKey, Holds(p, f, next[f]),
           next' = [next EXCEPT ![f] = @ + 1],
           GoTo(p, "open", f), Hide, Doubts(f, Creating(f) \cup {p}),
           UNCHANGED <<diskVars, used>>
    PROVE  StartInv'
<1> USE DEF StartInv
<1>1. Good(p) /\ \A g \in File : p \notin Creating(g)
    BY DEF ProcInv, Creating
<1>2. f = "identity" \/ f = "keypair"
    BY Names
<1>3. /\ doubt' \in [File -> BOOLEAN]
      /\ ~doubt'[f] => ~doubt[f] /\ Creating(f) = {}
      /\ \A g \in File \ {f} : doubt'[g] = doubt[g]
    BY <1>1, DoubtsFacts
<1>4. next[f] \in Key /\ next' \in [File -> Nat \ {0}]
    BY DEF TypeInv, Key
<1>5. /\ ProcType' /\ Others(p)
      /\ Becomes(p, "open", f, IF f = "identity" THEN next[f] ELSE mem[p]["identity"],
                               IF f = "keypair" THEN next[f] ELSE mem[p]["keypair"])
    BY <1>4, GoToFacts
<1>6. TypeInv'
    BY <1>3, <1>4, <1>5 DEF TypeInv, ProcType, Hide
<1>7. Good(p)'
    BY <1>1, <1>2, <1>4, <1>5, NoClash DEF Good, Becomes
<1>8. ProcInv'
    BY <1>5, <1>7, OthersGood
<1>9. \A g \in File : Creating(g)' = IF g = f THEN Creating(g) \cup {p} ELSE Creating(g)
    BY <1>1, <1>5 DEF Creating, Others, Becomes
<1>10. FileInv'
    BY <1>1, <1>3, <1>5, <1>9 DEF FileInv, Missing, Others, Becomes, Creating
<1>11. PhraseInv'
    BY <1>1, <1>2, <1>3, <1>5, <1>9, Names DEF PhraseInv, Hide, Others, Becomes
<1>12. EncryptInv'
    BY <1>1, <1>2, <1>3, <1>5, <1>9, Names DEF EncryptInv, FileInv, Missing, Others, Becomes
<1>13. EncryptionKept'
    BY <1>2, <1>3, <1>5, Names DEF EncryptionKept, Others, Becomes
<1> QED BY <1>6, <1>8, <1>10, <1>11, <1>12, <1>13

\* A load that fails costs the process, or its encryption.
LEMMA LoadFails ==
    ASSUME StartInv, NEW p \in Proc, NEW f \in File, f = on[p], pc[p] = "load",
           Unavailable(p, f), UNCHANGED <<next, doubt, diskVars, used>>
    PROVE  StartInv'
<1> USE DEF StartInv
<1>1. Good(p) /\ (\A g \in File : p \notin Creating(g)) /\ (f = "identity" \/ f = "keypair")
    BY Names DEF ProcInv, Creating
<1>2. /\ ProcType' /\ Others(p) /\ Hide
      /\ \/ f = "identity" /\ Ended(p)
         \/ f = "keypair" /\ Becomes(p, "run", "keypair", mem[p]["identity"], None)
    BY UnavailableFacts
<1>3. TypeInv'
    BY <1>2 DEF TypeInv, ProcType, Hide
<1>4. Good(p)'
    BY <1>1, <1>2 DEF Good, Becomes, Ended, Idle
<1>5. ProcInv'
    BY <1>2, <1>4, OthersGood
<1>6. \A g \in File : Creating(g)' = Creating(g)
    BY <1>1, <1>2 DEF Creating, Others, Becomes, Ended
<1>7. FileInv'
    BY <1>1, <1>2, <1>6 DEF FileInv, Others, Creating
<1>8. PhraseInv'
    BY <1>1, <1>2, <1>6, Names DEF PhraseInv, Hide, Others, Becomes, Ended, Idle
<1>9. EncryptInv'
    BY <1>6, Names DEF EncryptInv
<1>10. EncryptionKept'
    BY <1>1, <1>2, Names DEF EncryptionKept, Others, Becomes, Ended
<1> QED BY <1>3, <1>5, <1>7, <1>8, <1>9, <1>10

\* A load that finds a key takes it.
LEMMA LoadTakes ==
    ASSUME StartInv, NEW p \in Proc, NEW f \in File, f = on[p], pc[p] = "load",
           file[f] \in Key, Ready(p, f, file[f]), UNCHANGED <<next, doubt, diskVars, used>>
    PROVE  StartInv'
<1> USE DEF StartInv
<1> DEFINE k == file[f]
<1>1. Good(p) /\ (\A g \in File : p \notin Creating(g)) /\ (f = "identity" \/ f = "keypair")
    BY Names DEF ProcInv, Creating
<1>2. /\ ProcType' /\ Others(p) /\ UserType'
      /\ \/ /\ mode[p] = "daemon" /\ f = "identity" /\ Hide
            /\ Becomes(p, "load", "keypair", k, mem[p]["keypair"])
         \/ /\ mode[p] = "daemon" /\ f = "keypair" /\ Hide
            /\ Becomes(p, "run", "keypair", mem[p]["identity"], k)
         \/ mode[p] = "export" /\ Ended(p) /\ phrase' = k
         \/ mode[p] = "import" /\ Ended(p) /\ Hide
    BY ReadyFacts
<1>3. TypeInv'
    BY <1>2 DEF TypeInv, ProcType, UserType
<1>4. Good(p)'
    BY <1>1, <1>2, NoClash DEF Good, Becomes, Ended, Idle
<1>5. ProcInv'
    BY <1>2, <1>4, OthersGood
<1>6. \A g \in File : Creating(g)' = Creating(g)
    BY <1>1, <1>2 DEF Creating, Others, Becomes, Ended
<1>7. FileInv'
    BY <1>1, <1>2, <1>6 DEF FileInv, Others, Creating
<1>8. mode[p] \in {"export", "import"} => f = "identity"
    BY <1>1 DEF Good
<1>9. PhraseInv'
    BY <1>1, <1>2, <1>6, <1>8, Names DEF PhraseInv, Hide, Others, Becomes, Ended, Idle
<1>10. EncryptInv'
    BY <1>6, Names DEF EncryptInv
<1>11. EncryptionKept'
    BY <1>1, <1>2, <1>8, Names DEF EncryptionKept, FileInv, Others, Becomes, Ended
<1> QED BY <1>3, <1>5, <1>7, <1>9, <1>10, <1>11

\* Loading keeps the invariant, however it goes.
LEMMA LoadInv ==
    ASSUME StartInv, NEW p \in Proc, Load(p)
    PROVE  StartInv'
<1>1. on[p] \in File
    BY DEF StartInv, TypeInv
<1> QED BY <1>1, LoadCreates, LoadFails, LoadTakes DEF Load

-----------------------------------------------------------------------------
(***************************************************************************)
(* Start and ImportSeed: from nothing to the first step.                   *)
(***************************************************************************)
LEMMA StartStepInv ==
    ASSUME StartInv, NEW p \in Proc, NEW m \in {"daemon", "export"}, Start(p, m)
    PROVE  StartInv'
<1> USE DEF StartInv
<1>1. pc[p] = "idle" /\ Idle(p) /\ \A f \in File : p \notin Creating(f)
    BY DEF Start, ProcInv, Good, Creating
<1>2. mode' \in [Proc -> {"none", "daemon", "export", "import"}] /\ mode'[p] = m
          /\ \A q \in Proc \ {p} : mode'[q] = mode[q]
    BY DEF Start, TypeInv
<1>3. pc' \in [Proc -> {"idle", "load", "open", "write", "run"}] /\ pc'[p] = "load"
          /\ \A q \in Proc \ {p} : pc'[q] = pc[q]
    BY DEF Start, TypeInv
<1>4. UNCHANGED <<on, mem, diskVars, userVars, next, used, outdated, doubt>>
    BY DEF Start
<1>5. TypeInv'
    BY <1>2, <1>3, <1>4 DEF TypeInv
<1>6. Good(p)' /\ Others(p)
    BY <1>1, <1>2, <1>3, <1>4 DEF Good, Idle, Others
<1>7. ProcInv'
    BY <1>6, OthersGood
<1>8. \A f \in File : Creating(f)' = Creating(f)
    BY <1>1, <1>3, <1>4 DEF Creating
<1>9. FileInv'
    BY <1>1, <1>2, <1>3, <1>4, <1>8 DEF FileInv, Creating
<1>10. PhraseInv' /\ EncryptInv'
    BY <1>1, <1>3, <1>4, <1>8, Names DEF PhraseInv, EncryptInv
<1>11. EncryptionKept'
    BY <1>3, <1>4 DEF EncryptionKept
<1> QED BY <1>5, <1>7, <1>9, <1>10, <1>11

\* Importing a phrase keeps the invariant.
LEMMA ImportSeedInv ==
    ASSUME StartInv, NEW p \in Proc, NEW k \in shown \cup {Foreign}, ImportSeed(p, k)
    PROVE  StartInv'
<1> USE DEF StartInv
<1>1. pc[p] = "idle" /\ Idle(p) /\ (\A f \in File : p \notin Creating(f)) /\ k \in Key
          /\ "identity" \in File
    BY DEF ImportSeed, ProcInv, Good, Creating, TypeInv, Key, File
<1>2. mode' \in [Proc -> {"none", "daemon", "export", "import"}] /\ mode'[p] = "import"
          /\ \A q \in Proc \ {p} : mode'[q] = mode[q]
    BY DEF ImportSeed, TypeInv
<1>3. pc' \in [Proc -> {"idle", "load", "open", "write", "run"}] /\ pc'[p] = "open"
          /\ \A q \in Proc \ {p} : pc'[q] = pc[q]
    BY DEF ImportSeed, TypeInv
<1>4. UNCHANGED <<on, diskVars, userVars, next, used, outdated>>
    BY DEF ImportSeed
<1>5. mem' \in [Proc -> [File -> Key \cup {None}]]
          /\ \A q \in Proc \ {p} : mem'[q] = mem[q]
    BY <1>1 DEF ImportSeed, Holds, TypeInv
<1>6. \A h \in File : mem'[p][h] = IF h = "identity" THEN k ELSE mem[p][h]
    BY <1>1 DEF ImportSeed, Holds, TypeInv
<1>7. /\ doubt' \in [File -> BOOLEAN]
      /\ ~doubt'["identity"] => ~doubt["identity"] /\ Creating("identity") = {}
      /\ \A g \in File \ {"identity"} : doubt'[g] = doubt[g]
    BY <1>1, DoubtsFacts DEF ImportSeed
<1>8. TypeInv'
    BY <1>2, <1>3, <1>4, <1>5, <1>7 DEF TypeInv
<1>9. Good(p)' /\ Others(p)
    BY <1>1, <1>2, <1>3, <1>4, <1>5, <1>6, NoClash, Names DEF Good, Idle, Others
<1>10. ProcInv'
    BY <1>9, OthersGood
<1>11. \A f \in File : Creating(f)' = IF f = "identity" THEN Creating(f) \cup {p} ELSE Creating(f)
    BY <1>1, <1>3, <1>4 DEF Creating, Idle
<1>12. FileInv'
    BY <1>1, <1>2, <1>3, <1>4, <1>7, <1>11 DEF FileInv, Creating
<1>13. PhraseInv'
    BY <1>1, <1>4, <1>5, <1>7, <1>11 DEF PhraseInv
<1>14. EncryptInv'
    BY <1>1, <1>3, <1>4, <1>7, <1>11, Names DEF EncryptInv
<1>15. EncryptionKept'
    BY <1>3, <1>4, <1>5, <1>7, Names DEF EncryptionKept
<1> QED BY <1>8, <1>10, <1>12, <1>13, <1>14, <1>15

-----------------------------------------------------------------------------
(***************************************************************************)
(* Open and Write: the only process that creates the file, or a doubt.     *)
(***************************************************************************)
LEMMA OpenInv ==
    ASSUME StartInv, NEW p \in Proc, Open(p)
    PROVE  StartInv'
<1> USE DEF StartInv
<1> DEFINE f == on[p]
<1>1. /\ pc[p] = "open" /\ file' = [file EXCEPT ![f] = Torn]
      /\ pc' = [pc EXCEPT ![p] = "write"]
      /\ outdated' = IF mode[p] = "import" THEN {q \in Proc \ {p} : mem[q]["identity"] # None}
                     ELSE outdated
      /\ phrase' = IF mode[p] = "import" THEN None ELSE phrase
      /\ UNCHANGED <<mode, on, mem, flushed, next, shown, stale, starts, used, doubt>>
    BY DEF Open
<1>2. f \in File /\ Good(p) /\ p \in Creating(f)
    BY <1>1 DEF TypeInv, ProcInv, Creating
<1>3. f = "identity" \/ f = "keypair"
    BY <1>2, Names
<1> HIDE DEF f
<1>4. pc' \in [Proc -> {"idle", "load", "open", "write", "run"}] /\ pc'[p] = "write"
          /\ \A q \in Proc \ {p} : pc'[q] = pc[q]
    BY <1>1 DEF TypeInv
<1>5. file' \in [File -> Key \cup {NoFile, Torn}] /\ file'[f] = Torn
          /\ \A g \in File \ {f} : file'[g] = file[g]
    BY <1>1, <1>2 DEF TypeInv
<1>6. TypeInv'
    BY <1>1, <1>4, <1>5 DEF TypeInv
<1>7. ProcInv'
    <2> SUFFICES ASSUME NEW q \in Proc
                 PROVE  Good(q)'
        BY DEF ProcInv
    <2>1. Good(q) /\ (q \in outdated' => q \in outdated \/ (q # p /\ mem[q]["identity"] # None))
        BY <1>1 DEF ProcInv
    <2> QED BY <1>1, <1>4, <2>1 DEF Good, Idle
<1>8. \A g \in File : Creating(g)' = Creating(g)
    BY <1>1, <1>2, <1>4 DEF Creating
<1>9. FileInv'
    BY <1>1, <1>2, <1>4, <1>5, <1>8, NoClash DEF FileInv, Creating
<1>10. PhraseInv'
    <2> SUFFICES ASSUME ~doubt["identity"]
                 PROVE  /\ phrase' # None /\ ~stale => file'["identity"] = phrase'
                        /\ \A q \in Proc \ outdated' :
                              mem[q]["identity"] # None /\ q \notin Creating("identity")
                              => file'["identity"] = mem[q]["identity"]
        BY <1>1, <1>8, Names DEF PhraseInv
    <2>1. CASE f = "keypair"
        <3>1. mode[p] = "daemon"
            BY <1>2, <2>1 DEF Good, f
        <3> QED BY <1>1, <1>5, <2>1, <3>1, Names DEF PhraseInv
    <2>2. CASE f = "identity" /\ mode[p] = "import"
        BY <1>1, <1>2, <2>2
    <2>3. CASE f = "identity" /\ mode[p] # "import"
        <3>1. file["identity"] = NoFile
            BY <1>1, <1>2, <2>3 DEF FileInv
        <3>2. \A x \in Key \cup {None} : x # NoFile \/ x = None
            BY NoClash
        <3>3. phrase = None \/ stale
            BY <3>1, <3>2 DEF PhraseInv, TypeInv
        <3>4. \A q \in Proc \ outdated : q \notin Creating("identity") => mem[q]["identity"] = None
            BY <1>2, <2>3, <3>1, <3>2 DEF PhraseInv, TypeInv
        <3> QED BY <1>1, <2>3, <3>3, <3>4
    <2> QED BY <1>3, <2>1, <2>2, <2>3
<1>11. EncryptInv'
    BY <1>1, <1>8, Names DEF EncryptInv
<1>12. EncryptionKept'
    BY <1>1, <1>2, <1>3, <1>4, <1>5, Names DEF EncryptionKept, EncryptInv
<1> QED BY <1>6, <1>7, <1>9, <1>10, <1>11, <1>12

\* The write that completes a file keeps the invariant.
LEMMA WriteInv ==
    ASSUME StartInv, NEW p \in Proc, Write(p)
    PROVE  StartInv'
<1> USE DEF StartInv
<1> DEFINE f == on[p]
           k == mem[p][f]
<1>1. /\ pc[p] = "write" /\ file' = [file EXCEPT ![f] = k] /\ used' = [used EXCEPT ![f] = k]
      /\ Ready(p, f, k)
      /\ UNCHANGED <<flushed, next, starts, doubt>>
    BY DEF Write
<1>2. f \in File /\ Good(p) /\ p \in Creating(f)
    BY <1>1 DEF TypeInv, ProcInv, Creating
<1>3. f = "identity" \/ f = "keypair"
    BY <1>2, Names
<1>4. k \in Key
    BY <1>1, <1>2 DEF Good, TypeInv
<1>5. mode[p] \in {"export", "import"} => f = "identity"
    BY <1>2, <1>3 DEF Good
<1>6. k = IF f = "identity" THEN mem[p]["identity"] ELSE mem[p]["keypair"]
    BY <1>3
<1> HIDE DEF f, k
<1>7. /\ ProcType' /\ Others(p) /\ UserType'
      /\ \/ /\ mode[p] = "daemon" /\ f = "identity" /\ Hide
            /\ Becomes(p, "load", "keypair", k, mem[p]["keypair"])
         \/ /\ mode[p] = "daemon" /\ f = "keypair" /\ Hide
            /\ Becomes(p, "run", "keypair", mem[p]["identity"], k)
         \/ mode[p] = "export" /\ Ended(p) /\ phrase' = k
         \/ mode[p] = "import" /\ Ended(p) /\ Hide
    BY <1>1, <1>2, <1>4, ReadyFacts
<1>8. file' \in [File -> Key \cup {NoFile, Torn}] /\ file'[f] = k
          /\ \A g \in File \ {f} : file'[g] = file[g]
    BY <1>1, <1>2, <1>4 DEF TypeInv
<1>9. used' \in [File -> Key \cup {None}] /\ used'[f] = k
          /\ \A g \in File \ {f} : used'[g] = used[g]
    BY <1>1, <1>2, <1>4 DEF TypeInv
<1>10. TypeInv'
    BY <1>1, <1>7, <1>8, <1>9 DEF TypeInv, ProcType, UserType
<1>11. Good(p)'
    BY <1>2, <1>3, <1>4, <1>7, NoClash DEF Good, Becomes, Ended, Idle, f
<1>12. ProcInv'
    BY <1>7, <1>11, OthersGood
<1>13. \A g \in File : Creating(g)' = Creating(g) \ {p}
    BY <1>7 DEF Creating, Others, Becomes, Ended
<1>14. \A g \in File \ {f} : p \notin Creating(g)
    BY DEF Creating, f
<1>15. FileInv'
    BY <1>1, <1>2, <1>4, <1>7, <1>8, <1>9, <1>13, <1>14, NoClash DEF FileInv, Creating, Others
<1>16. PhraseInv'
    <2> SUFFICES ASSUME ~doubt["identity"]
                 PROVE  PhraseInv'
        BY <1>1 DEF PhraseInv
    <2>1. CASE f = "keypair"
        BY <1>1, <1>3, <1>5, <1>7, <1>8, <1>13, <1>14, <2>1, Names
           DEF PhraseInv, Hide, Others, Becomes, Ended, Idle
    <2>2. CASE f = "identity"
        <3>1. file["identity"] = Torn
            BY <1>1, <1>2, <2>2 DEF FileInv
        <3>2. phrase = None \/ stale
            BY <3>1, NoClash DEF PhraseInv, TypeInv
        <3>3. ASSUME NEW q \in Proc \ outdated, q # p
              PROVE  mem[q]["identity"] = None
            <4>1. q \notin Creating("identity")
                BY <1>2, <2>2, <3>3 DEF FileInv
            <4>2. mem[q]["identity"] \in Key \cup {None}
                BY <1>2, <2>2 DEF TypeInv
            <4> QED BY <3>1, <4>1, <4>2, NoClash DEF PhraseInv
        <3>4. phrase' \in {None, k} \/ stale'
            BY <1>7, <3>2, <2>2 DEF Hide
        <3>5. ASSUME NEW q \in Proc \ outdated', mem'[q]["identity"] # None
              PROVE  mem'[q]["identity"] = k
            BY <1>7, <3>3, <3>5, <2>2 DEF Others, Becomes, Ended, Idle
        <3> QED BY <1>8, <2>2, <3>4, <3>5 DEF PhraseInv
    <2> QED BY <1>3, <2>1, <2>2
<1>17. EncryptInv'
    BY <1>1, <1>2, <1>3, <1>9, <1>13, <1>14, Names DEF EncryptInv, FileInv
<1>18. EncryptionKept'
    BY <1>1, <1>2, <1>3, <1>4, <1>5, <1>7, <1>8, <1>9, NoClash, Names
       DEF EncryptionKept, EncryptInv, Others, Becomes, Ended
<1> QED BY <1>10, <1>12, <1>15, <1>16, <1>17, <1>18

-----------------------------------------------------------------------------
(***************************************************************************)
(* A save that fails, the end of a process, and the phrase for the app.    *)
(***************************************************************************)
LEMMA SaveFailsInv ==
    ASSUME StartInv, NEW p \in Proc, SaveFails(p)
    PROVE  StartInv'
<1> USE DEF StartInv
<1> DEFINE f == on[p]
<1>1. /\ pc[p] \in {"open", "write"} /\ Unavailable(p, f)
      /\ UNCHANGED <<diskVars, next, starts, used, doubt>>
    BY DEF SaveFails
<1>2. f \in File /\ Good(p) /\ p \in Creating(f)
    BY <1>1 DEF TypeInv, ProcInv, Creating
<1>3. f = "identity" \/ f = "keypair"
    BY <1>2, Names
<1> HIDE DEF f
<1>4. /\ ProcType' /\ Others(p) /\ Hide
      /\ \/ f = "identity" /\ Ended(p)
         \/ f = "keypair" /\ Becomes(p, "run", "keypair", mem[p]["identity"], None)
    BY <1>1, <1>2, UnavailableFacts
<1>6. TypeInv'
    BY <1>1, <1>4 DEF TypeInv, ProcType, Hide
<1>7. Good(p)'
    BY <1>2, <1>4 DEF Good, Becomes, Ended, Idle, f
<1>8. ProcInv'
    BY <1>4, <1>7, OthersGood
<1>9. \A g \in File : Creating(g)' = Creating(g) \ {p}
    BY <1>4 DEF Creating, Others, Becomes, Ended
<1>10. FileInv'
    BY <1>1, <1>4, <1>9 DEF FileInv, Creating, Others
<1>11. p \in Creating("identity") <=> f = "identity"
    BY <1>2 DEF Creating, f
<1>12. PhraseInv'
    BY <1>1, <1>4, <1>9, <1>11, Names DEF PhraseInv, Hide, Others, Becomes, Ended, Idle
<1>13. EncryptInv'
    BY <1>1, <1>9, Names DEF EncryptInv
<1>14. EncryptionKept'
    BY <1>1, <1>4, Names DEF EncryptionKept, Others, Becomes, Ended
<1> QED BY <1>6, <1>8, <1>10, <1>12, <1>13, <1>14

\* A process that ends at any step keeps the invariant.
LEMMA ExitInv ==
    ASSUME StartInv, NEW p \in Proc, Exit(p)
    PROVE  StartInv'
<1> USE DEF StartInv
<1>1. Gone(p) /\ UNCHANGED <<diskVars, userVars, next, starts, used, doubt>>
    BY DEF Exit
<1>2. ProcType' /\ Others(p) /\ Ended(p)
    BY <1>1, GoneFacts
<1>4. TypeInv'
    BY <1>1, <1>2 DEF TypeInv, ProcType
<1>5. Good(p)'
    BY <1>2 DEF Good, Ended, Idle
<1>6. ProcInv'
    BY <1>2, <1>5, OthersGood
<1>7. \A g \in File : Creating(g)' = Creating(g) \ {p}
    BY <1>2 DEF Creating, Others, Ended
<1>8. FileInv'
    BY <1>1, <1>2, <1>7 DEF FileInv, Creating, Others
<1>9. PhraseInv'
    BY <1>1, <1>2, <1>7, Names DEF PhraseInv, Others, Ended, Idle
<1>10. EncryptInv'
    BY <1>1, <1>2, <1>7, Names DEF EncryptInv, Others, Ended
<1>11. EncryptionKept'
    BY <1>1, <1>2, Names DEF EncryptionKept, Others, Ended
<1> QED BY <1>4, <1>6, <1>8, <1>9, <1>10, <1>11

\* Showing the phrase of a running daemon keeps the invariant.
LEMMA SeedExportInv ==
    ASSUME StartInv, NEW p \in Proc, SeedExport(p)
    PROVE  StartInv'
<1> USE DEF StartInv
<1>1. /\ pc[p] = "run" /\ shown' = shown \cup {mem[p]["identity"]}
      /\ phrase' = mem[p]["identity"] /\ stale' = (p \in outdated)
      /\ UNCHANGED <<procVars, diskVars, next, starts, used, outdated, doubt>>
    BY DEF SeedExport, Show
<1>2. mem[p]["identity"] \in Key /\ p \notin Creating("identity")
    BY <1>1, Names DEF TypeInv, ProcInv, Good, Creating
<1>3. TypeInv'
    BY <1>1, <1>2 DEF TypeInv
<1>4. ProcInv'
    BY <1>1 DEF ProcInv, Good, Idle
<1>5. \A g \in File : Creating(g)' = Creating(g)
    BY <1>1 DEF Creating
<1>6. FileInv'
    BY <1>1, <1>5 DEF FileInv
<1>7. PhraseInv'
    BY <1>1, <1>2, <1>5, NoClash, Names DEF PhraseInv
<1>8. EncryptInv' /\ EncryptionKept'
    BY <1>1, <1>5, Names DEF EncryptInv, EncryptionKept
<1> QED BY <1>3, <1>4, <1>6, <1>7, <1>8

-----------------------------------------------------------------------------
(***************************************************************************)
(* The machine: a power cut that changes a file is noted as a doubt.       *)
(***************************************************************************)
LEMMA PowerLossInv == ASSUME StartInv, PowerLoss PROVE StartInv'
<1> USE DEF StartInv
<1>1. PICK i \in Survivors("identity"), k \in Survivors("keypair") :
          file' = [f \in File |-> IF f = "identity" THEN i ELSE k]
    BY DEF PowerLoss
<1>2. /\ flushed' = file'
      /\ mode' = [p \in Proc |-> "none"] /\ pc' = [p \in Proc |-> "idle"]
      /\ on' = [p \in Proc |-> "identity"] /\ mem' = [p \in Proc |-> Blank] /\ outdated' = {}
      /\ doubt' = [f \in File |-> doubt[f] \/ file'[f] # file[f]]
      /\ UNCHANGED <<userVars, next, starts, used>>
    BY DEF PowerLoss
<1>3. i \in Key \cup {NoFile, Torn} /\ k \in Key \cup {NoFile, Torn}
    BY Names DEF Survivors, TypeInv
<1>4. file' \in [File -> Key \cup {NoFile, Torn}]
    BY <1>1, <1>3
<1>5. Blank \in [File -> Key \cup {None}] /\ Blank["identity"] = None /\ Blank["keypair"] = None
          /\ "identity" \in File
    BY DEF Blank, File
<1>6. mem' \in [Proc -> [File -> Key \cup {None}]] /\ on' \in [Proc -> File]
    BY <1>2, <1>5
<1>7. doubt' \in [File -> BOOLEAN]
    <2>1. \A f \in File : (doubt[f] \/ file'[f] # file[f]) \in BOOLEAN
        BY DEF TypeInv
    <2> QED BY <1>2, <2>1 DEF TypeInv
<1>8. TypeInv'
    BY <1>2, <1>4, <1>6, <1>7 DEF TypeInv
<1>9. ProcInv'
    BY <1>2, <1>5 DEF ProcInv, Good, Idle
<1>10. \A f \in File : Creating(f)' = {}
    BY <1>2 DEF Creating
<1>11. \A f \in File : ~doubt'[f] => ~doubt[f] /\ file'[f] = file[f]
    BY <1>2
<1>12. FileInv'
    BY <1>2, <1>10, <1>11 DEF FileInv
<1>13. PhraseInv'
    BY <1>2, <1>5, <1>11, Names DEF PhraseInv
<1>14. EncryptInv' /\ EncryptionKept'
    BY <1>2, <1>10, <1>11, Names DEF EncryptInv, EncryptionKept
<1> QED BY <1>8, <1>9, <1>12, <1>13, <1>14

\* A flush to the disk keeps the invariant.
LEMMA FlushInv == ASSUME StartInv, NEW f \in File, Flush(f) PROVE StartInv'
<1> USE DEF StartInv
<1>1. UNCHANGED <<mode, pc, on, mem, file, userVars, next, starts, used, outdated, doubt>>
    BY DEF Flush
<1>2. TypeInv'
    BY <1>1 DEF Flush, TypeInv
<1>3. ProcInv'
    BY <1>1 DEF ProcInv, Good, Idle
<1>4. FileInv' /\ PhraseInv' /\ EncryptInv' /\ EncryptionKept'
    BY <1>1 DEF FileInv, PhraseInv, EncryptInv, EncryptionKept, Creating
<1> QED BY <1>2, <1>3, <1>4

(***************************************************************************)
(* Every step preserves the invariant.                                     *)
(***************************************************************************)
LEMMA StartInvNext == StartInv /\ [Next]_vars => StartInv'
<1> SUFFICES ASSUME StartInv, [Next]_vars
             PROVE  StartInv'
    OBVIOUS
<1>1. CASE UNCHANGED vars
    BY <1>1 DEF vars, StartInv, TypeInv, ProcInv, Good, Idle, FileInv, PhraseInv, EncryptInv,
                EncryptionKept, Creating
<1> QED BY <1>1, StartStepInv, ImportSeedInv, LoadInv, OpenInv, WriteInv, SaveFailsInv,
           SeedExportInv, ExitInv, PowerLossInv, FlushInv DEF Next

-----------------------------------------------------------------------------
(***************************************************************************)
(* Where phrases come from: an identity on disk, flushed to it, or in the  *)
(* memory of a process that is not about to save it, was saved.            *)
(***************************************************************************)
SavedInv ==
    /\ shown \subseteq saved
    /\ {file["identity"], flushed["identity"]} \cap Key \subseteq saved
    /\ \A p \in Proc : mem[p]["identity"] # None /\ p \notin Creating("identity")
                          => mem[p]["identity"] \in saved

\* A step that writes no identity and shows only what its process has.
LEMMA SavedStep ==
    ASSUME SavedInv, NEW p \in Proc, Others(p), UNCHANGED <<file, flushed, saved>>,
           shown' \subseteq saved,
           p \notin Creating("identity")' => mem'[p]["identity"] \in saved \cup {None}
    PROVE  SavedInv'
<1>1. \A q \in Proc \ {p} : q \in Creating("identity")' <=> q \in Creating("identity")
    BY DEF Creating, Others
<1> QED BY <1>1 DEF SavedInv, Others

\* Loading: a generated identity is about to be saved, a loaded one was.
LEMMA SavedLoad ==
    ASSUME StartInv, SavedInv, NEW p \in Proc, Load(p)
    PROVE  SavedInv'
<1> DEFINE f == on[p]
<1>1. /\ f \in File /\ pc[p] = "load" /\ Good(p) /\ p \notin Creating("identity")
      /\ mem[p]["identity"] \in saved \cup {None} /\ UNCHANGED <<file, flushed, saved>>
    BY DEF Load, StartInv, TypeInv, ProcInv, Creating, SavedInv
<1>2. f = "identity" \/ f = "keypair"
    BY <1>1, Names
<1>3. CASE Missing(f) /\ next[f] <= MaxKey /\ Holds(p, f, next[f]) /\ GoTo(p, "open", f) /\ Hide
    <2>1. next[f] \in Key
        BY <1>1, <1>3 DEF StartInv, TypeInv, Key
    <2>2. Others(p) /\ Becomes(p, "open", f, IF f = "identity" THEN next[f] ELSE mem[p]["identity"],
                                             IF f = "keypair" THEN next[f] ELSE mem[p]["keypair"])
        BY <1>1, <1>3, <2>1, GoToFacts DEF StartInv
    <2>3. p \notin Creating("identity")' => mem'[p]["identity"] \in saved \cup {None}
        BY <1>1, <1>2, <2>2 DEF Creating, Becomes
    <2> QED BY <1>1, <1>3, <2>2, <2>3, SavedStep DEF SavedInv, Hide
<1>4. CASE Unavailable(p, f)
    <2>1. /\ Others(p) /\ Hide
          /\ \/ Ended(p)
             \/ Becomes(p, "run", "keypair", mem[p]["identity"], None)
        BY <1>1, <1>4, UnavailableFacts DEF StartInv
    <2>2. mem'[p]["identity"] \in saved \cup {None}
        BY <1>1, <2>1 DEF Ended, Idle, Becomes
    <2> QED BY <1>1, <2>1, <2>2, SavedStep DEF SavedInv, Hide
<1>5. CASE file[f] \in Key /\ Ready(p, f, file[f])
    <2>1. /\ Others(p) /\ shown' \subseteq shown \cup {file[f]}
          /\ \/ f = "identity" /\ Becomes(p, "load", "keypair", file[f], mem[p]["keypair"])
             \/ f = "keypair" /\ Becomes(p, "run", "keypair", mem[p]["identity"], file[f]) /\ Hide
             \/ mode[p] \in {"export", "import"} /\ Ended(p)
        BY <1>1, <1>5, ReadyFacts DEF StartInv
    <2>2. f = "identity" => file[f] \in saved
        BY <1>5 DEF SavedInv
    <2>3. mode[p] \in {"export", "import"} => f = "identity"
        BY <1>1, <1>2 DEF Good
    <2>4. shown' \subseteq saved /\ mem'[p]["identity"] \in saved \cup {None}
        BY <1>1, <2>1, <2>2, <2>3 DEF SavedInv, Hide, Ended, Idle, Becomes
    <2> QED BY <1>1, <2>1, <2>4, SavedStep
<1> QED BY <1>3, <1>4, <1>5 DEF Load

\* Opening the file leaves no identity in it.
LEMMA SavedOpen ==
    ASSUME StartInv, SavedInv, NEW p \in Proc, Open(p)
    PROVE  SavedInv'
<1>1. /\ UNCHANGED <<on, mem, flushed, shown, saved>> /\ pc' = [pc EXCEPT ![p] = "write"]
      /\ file' = [file EXCEPT ![on[p]] = Torn] /\ pc[p] = "open"
    BY DEF Open
<1>2. Creating("identity")' = Creating("identity")
    BY <1>1 DEF Creating, StartInv, TypeInv
<1>3. file'["identity"] \in {file["identity"], Torn}
    BY <1>1, Names DEF StartInv, TypeInv
<1> QED BY <1>1, <1>2, <1>3, NoClash DEF SavedInv

\* The write saves the identity its process goes on with, or shows.
LEMMA SavedWrite ==
    ASSUME StartInv, SavedInv, NEW p \in Proc, Write(p)
    PROVE  SavedInv'
<1> DEFINE f == on[p]
           k == mem[p][f]
<1>1. /\ pc[p] = "write" /\ file' = [file EXCEPT ![f] = k] /\ UNCHANGED flushed
      /\ saved' = (IF f = "identity" THEN saved \cup {k} ELSE saved) /\ Ready(p, f, k)
    BY DEF Write
<1>2. f \in File /\ Good(p) /\ k \in Key
    BY <1>1 DEF StartInv, TypeInv, ProcInv, Good
<1>3. f = "identity" \/ f = "keypair"
    BY <1>2, Names
<1>4. f = "keypair" => mem[p]["identity"] \in saved \cup {None}
    BY DEF SavedInv, Creating
<1>5. mode[p] \in {"export", "import"} => f = "identity"
    BY <1>2, <1>3 DEF Good
<1> HIDE DEF k, f
<1>6. /\ Others(p) /\ shown' \subseteq shown \cup {k}
      /\ \/ f = "identity" /\ Becomes(p, "load", "keypair", k, mem[p]["keypair"])
         \/ f = "keypair" /\ Becomes(p, "run", "keypair", mem[p]["identity"], k) /\ Hide
         \/ mode[p] \in {"export", "import"} /\ Ended(p)
    BY <1>1, <1>2, ReadyFacts DEF StartInv
<1>7. shown' \subseteq saved'
    BY <1>1, <1>5, <1>6 DEF SavedInv, Hide
<1>8. {file'["identity"], flushed'["identity"]} \cap Key \subseteq saved'
    <2>1. file'["identity"] = IF f = "identity" THEN k ELSE file["identity"]
        BY <1>1, <1>2, Names DEF StartInv, TypeInv
    <2> QED BY <1>1, <2>1 DEF SavedInv
<1>9. ASSUME NEW q \in Proc, mem'[q]["identity"] # None, q \notin Creating("identity")'
      PROVE  mem'[q]["identity"] \in saved'
    <2>1. CASE q = p
        BY <1>1, <1>4, <1>6, <1>9, <2>1 DEF Ended, Idle, Becomes
    <2>2. CASE q # p
        BY <1>1, <1>6, <1>9, <2>2 DEF SavedInv, Others, Creating
    <2> QED BY <2>1, <2>2
<1> QED BY <1>7, <1>8, <1>9 DEF SavedInv

\* No step shows, loads or keeps an identity that was never saved.
LEMMA SavedNext == StartInv /\ SavedInv /\ [Next]_vars => SavedInv'
<1> SUFFICES ASSUME StartInv, SavedInv, [Next]_vars
             PROVE  SavedInv'
    OBVIOUS
<1>1. ASSUME NEW p \in Proc, NEW m, Start(p, m)
      PROVE  SavedInv'
    <2>1. UNCHANGED <<mem, on, file, flushed, shown, saved>> /\ pc' = [pc EXCEPT ![p] = "load"]
              /\ pc[p] = "idle"
        BY <1>1 DEF Start
    <2>2. Creating("identity")' = Creating("identity")
        BY <2>1 DEF Creating, StartInv, TypeInv
    <2> QED BY <2>1, <2>2 DEF SavedInv
<1>2. ASSUME NEW p \in Proc, NEW k \in shown \cup {Foreign}, ImportSeed(p, k)
      PROVE  SavedInv'
    <2>1. /\ UNCHANGED <<on, file, flushed, shown, saved>> /\ pc' = [pc EXCEPT ![p] = "open"]
          /\ \A q \in Proc \ {p} : mem'[q] = mem[q]
          /\ on[p] = "identity"
        BY <1>2 DEF ImportSeed, Holds, StartInv, TypeInv, ProcInv, Good, Idle
    <2>2. /\ p \in Creating("identity")'
          /\ \A q \in Proc \ {p} : q \in Creating("identity")' <=> q \in Creating("identity")
        BY <2>1 DEF Creating, StartInv, TypeInv
    <2> QED BY <2>1, <2>2 DEF SavedInv
<1>3. ASSUME NEW p \in Proc, SaveFails(p)
      PROVE  SavedInv'
    <2>1. /\ Others(p) /\ Hide /\ UNCHANGED <<file, flushed, saved>>
          /\ \/ Ended(p)
             \/ on[p] = "keypair" /\ Becomes(p, "run", "keypair", mem[p]["identity"], None)
        BY <1>3, UnavailableFacts DEF SaveFails, StartInv, TypeInv
    <2>2. mem'[p]["identity"] \in saved \cup {None}
        BY <2>1 DEF Ended, Idle, Becomes, SavedInv, Creating
    <2> QED BY <2>1, <2>2, SavedStep DEF SavedInv, Hide
<1>4. ASSUME NEW p \in Proc, Exit(p)
      PROVE  SavedInv'
    <2>1. Others(p) /\ Ended(p) /\ UNCHANGED <<file, flushed, shown, saved>>
        BY <1>4, GoneFacts DEF Exit, StartInv
    <2> QED BY <2>1, SavedStep DEF SavedInv, Ended, Idle
<1>5. ASSUME NEW p \in Proc, SeedExport(p)
      PROVE  SavedInv'
    <2>1. mem[p]["identity"] # None /\ p \notin Creating("identity")
        BY <1>5, Names DEF SeedExport, StartInv, TypeInv, ProcInv, Good, Creating
    <2>2. Creating("identity")' = Creating("identity")
        BY <1>5 DEF SeedExport, Creating
    <2> QED BY <1>5, <2>1, <2>2 DEF SeedExport, Show, SavedInv
<1>6. CASE PowerLoss
    <2>1. /\ mem' = [p \in Proc |-> Blank] /\ UNCHANGED <<shown, saved>> /\ flushed' = file'
          /\ file'["identity"] \in Survivors("identity")
        BY <1>6 DEF PowerLoss, File
    <2>2. Blank["identity"] = None
        BY DEF Blank, File
    <2>3. file'["identity"] \in {file["identity"], flushed["identity"], Torn}
        BY <2>1 DEF Survivors
    <2> QED BY <2>1, <2>2, <2>3, NoClash DEF SavedInv
<1>7. ASSUME NEW f \in File, Flush(f)
      PROVE  SavedInv'
    <2>1. flushed'["identity"] \in {file["identity"], flushed["identity"]}
        BY <1>7, Names DEF Flush, StartInv, TypeInv
    <2>2. UNCHANGED <<mem, file, shown, saved>> /\ Creating("identity")' = Creating("identity")
        BY <1>7 DEF Flush, Creating
    <2> QED BY <2>1, <2>2 DEF SavedInv
<1>8. CASE UNCHANGED vars
    BY <1>8 DEF vars, SavedInv, Creating
<1> QED BY <1>1, <1>2, <1>3, <1>4, <1>5, <1>6, <1>7, <1>8, SavedLoad, SavedOpen, SavedWrite DEF Next

(***************************************************************************)
(* Every phrase the user is shown is of an identity that was saved, and    *)
(* the last one is of the identity on disk until an import replaces it, or *)
(* it was asked of a daemon that ran on through one.                       *)
(***************************************************************************)
THEOREM PhraseAlwaysRestores == Spec => []PhraseRestores
<1>1. StartInv /\ SavedInv => PhraseRestores
    BY DEF StartInv, PhraseInv, SavedInv, PhraseRestores
<1>2. Init => SavedInv
    BY NoClash DEF Init, SavedInv, Blank, File
<1> QED BY <1>1, <1>2, StartInvInit, StartInvNext, SavedNext, PTL DEF Spec

(***************************************************************************)
(* The saved key pair stays on disk and is the one all daemons encrypt     *)
(* with, whatever loads and saves fail and wherever processes end.         *)
(***************************************************************************)
THEOREM EncryptionAlwaysKept == Spec => []EncryptionKept
<1>1. StartInv => EncryptionKept
    BY DEF StartInv
<1> QED BY <1>1, StartInvInit, StartInvNext, PTL DEF Spec

-----------------------------------------------------------------------------
(***************************************************************************)
(* The step of KeysKept.  Only Load gives a key to a process that had none *)
(* and is not an import, and it finds the saved key or a torn file.        *)
(***************************************************************************)
KeptStep ==
    \A p \in Proc, f \in File :
        /\ mode'[p] # "import" /\ mem[p][f] = None /\ mem'[p][f] # None
        /\ used[f] # None /\ ~doubt'[f]
        => mem'[p][f] = used[f]

\* Every step from a state of StartInv keeps a saved key.
LEMMA KeptNext == StartInv /\ [Next]_vars => KeptStep
<1> SUFFICES ASSUME StartInv, [Next]_vars, NEW p \in Proc, NEW f \in File,
                    mode'[p] # "import", mem[p][f] = None, mem'[p][f] # None,
                    used[f] # None, ~doubt'[f]
             PROVE  mem'[p][f] = used[f]
    BY DEF KeptStep
<1> USE DEF StartInv
<1>1. CASE Load(p)
    <2> DEFINE g == on[p]
    <2>1. g \in File /\ pc[p] = "load"
              /\ (Doubts(g, Creating(g) \cup {p}) \/ UNCHANGED doubt)
        BY <1>1 DEF Load, TypeInv
    <2>2. ~doubt[f]
        BY <2>1, DoubtsFacts
    <2>3. file[f] # NoFile /\ (file[f] \in Key => file[f] = used[f])
        BY <2>2 DEF FileInv
    <2>4. CASE /\ Missing(g) /\ next[g] <= MaxKey /\ Holds(p, g, next[g]) /\ GoTo(p, "open", g)
        <3>1. f = g
            BY <2>1, <2>4 DEF Holds, TypeInv
        <3> QED BY <2>3, <2>4, <3>1 DEF Missing
    <2>5. CASE Unavailable(p, g)
        <3>1. \/ Ended(p)
              \/ Becomes(p, "run", "keypair", mem[p]["identity"], None)
            BY <2>1, <2>5, UnavailableFacts
        <3> QED BY <3>1, Names DEF Ended, Idle, Becomes
    <2>6. CASE file[g] \in Key /\ Ready(p, g, file[g])
        <3>1. \/ g = "identity" /\ Becomes(p, "load", "keypair", file[g], mem[p]["keypair"])
              \/ g = "keypair" /\ Becomes(p, "run", "keypair", mem[p]["identity"], file[g])
              \/ Ended(p)
            BY <2>1, <2>6, ReadyFacts
        <3> QED BY <2>3, <2>6, <3>1, Names DEF Becomes, Ended, Idle
    <2> QED BY <1>1, <2>4, <2>5, <2>6 DEF Load
<1>2. CASE Write(p)
    <2> DEFINE g == on[p]
    <2>1. g \in File /\ Good(p) /\ mem[p][g] # None /\ mem[p][g] \in Key /\ Ready(p, g, mem[p][g])
        BY <1>2 DEF Write, TypeInv, ProcInv, Good
    <2>2. \/ g = "identity" /\ Becomes(p, "load", "keypair", mem[p][g], mem[p]["keypair"])
          \/ g = "keypair" /\ Becomes(p, "run", "keypair", mem[p]["identity"], mem[p][g])
          \/ Ended(p)
        BY <2>1, ReadyFacts
    <2> QED BY <2>1, <2>2, Names DEF Becomes, Ended, Idle
<1>3. CASE SaveFails(p)
    <2>1. on[p] \in File
        BY DEF TypeInv
    <2>2. \/ Ended(p)
          \/ Becomes(p, "run", "keypair", mem[p]["identity"], None)
        BY <1>3, <2>1, UnavailableFacts DEF SaveFails
    <2> QED BY <2>2, Names DEF Ended, Idle, Becomes
<1>4. CASE Exit(p)
    BY <1>4, GoneFacts, Names DEF Exit, Ended, Idle
<1>5. CASE \E k \in shown \cup {Foreign} : ImportSeed(p, k)
    BY <1>5 DEF ImportSeed, TypeInv
<1>6. ASSUME NEW q \in Proc, q # p,
             \/ \E k \in shown \cup {Foreign} : ImportSeed(q, k)
             \/ Load(q) \/ Write(q) \/ SaveFails(q) \/ Exit(q)
      PROVE  mem'[p] = mem[p]
    <2>1. on[q] \in File
        BY DEF TypeInv
    <2>2. CASE \E k \in shown \cup {Foreign} : ImportSeed(q, k)
        BY <1>6, <2>2 DEF ImportSeed, Holds, TypeInv
    <2>3. CASE Load(q)
        BY <1>6, <2>1, <2>3, UnavailableFacts, ReadyFacts DEF Load, Holds, Others, TypeInv
    <2>4. CASE Write(q)
        <3>1. mem[q][on[q]] \in Key
            BY <2>1, <2>4 DEF Write, TypeInv, ProcInv, Good
        <3> QED BY <1>6, <2>1, <2>4, <3>1, ReadyFacts DEF Write, Others
    <2>5. CASE SaveFails(q)
        BY <1>6, <2>1, <2>5, UnavailableFacts DEF SaveFails, Others
    <2>6. CASE Exit(q)
        BY <1>6, <2>6, GoneFacts DEF Exit, Others
    <2> QED BY <1>6, <2>2, <2>3, <2>4, <2>5, <2>6
<1>7. CASE PowerLoss
    BY <1>7 DEF PowerLoss, Blank
<1>8. ASSUME UNCHANGED mem
      PROVE  FALSE
    BY <1>8
<1> QED BY <1>1, <1>2, <1>3, <1>4, <1>5, <1>6, <1>7, <1>8
        DEF Next, Start, Open, SeedExport, Flush, vars

(***************************************************************************)
(* A secret is never replaced silently: who gets a key for a file that was *)
(* saved before gets the saved one, unless it imports a phrase.            *)
(***************************************************************************)
THEOREM KeysAreKept == Spec => KeysKept
<1>1. [][Next]_vars /\ []StartInv => [][KeptStep]_vars
    <2>1. StartInv /\ [Next]_vars => [KeptStep]_vars
        BY KeptNext
    <2> QED BY <2>1, PTL
<1>2. Spec => []StartInv
    BY StartInvInit, StartInvNext, PTL DEF Spec
<1> QED BY <1>1, <1>2, PTL DEF Spec, KeysKept, KeptStep
=============================================================================
