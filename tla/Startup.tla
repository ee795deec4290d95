------------------------------ MODULE Startup ------------------------------
(***************************************************************************)
(* The two secrets a daemon keeps on disk and how processes that share a   *)
(* data directory start up on them: the identity (pkg/identity) and the    *)
(* key pair of the encryption (pkg/crypto), both loaded or created by main *)
(* of cmd/rippled/main.go, and the backup phrase that is exported and      *)
(* imported by a process of its own or asked for by the app.               *)
(*                                                                         *)
(* Both files are written in place by os.WriteFile, without a lock, a      *)
(* temporary file or a sync, so every load, open and write is a step, a    *)
(* process may end between any two of them, and when the power goes a file *)
(* not yet flushed is what it was before, what it is now, or torn.         *)
(*                                                                         *)
(* A key is named by its seed, which determines it (FromMnemonic rebuilds  *)
(* the public half) and which is what the phrase encodes.                  *)
(***************************************************************************)
EXTENDS Naturals

CONSTANTS
    Proc,           \* processes on one data directory
    MaxKey,         \* bound: keys generated per file
    MaxStart,       \* bound: processes started
    Foreign,        \* a seed the user has a phrase of from another device
    NoFile, Torn,   \* no file; a file that does not parse
    None            \* no key

File == {"identity", "keypair"}
Key  == 1 .. MaxKey \cup {Foreign}

ASSUME StartupAssumption ==
    /\ MaxKey \in Nat /\ MaxStart \in Nat /\ Foreign \notin 1 .. MaxKey
    /\ {NoFile, Torn, None} \cap Key = {} /\ NoFile # Torn

VARIABLES
    mode,           \* mode[p]: what main was started for
    pc, on,         \* pc[p]: the next step of p, and the file it is about
    mem,            \* mem[p][f]: the key of f that p has
    file,           \* contents of the files
    flushed, clean, \* contents last flushed to the disk; nothing written since
    next,           \* next[f]: the key the next Generate returns
    shown,          \* phrases the user has seen
    starts,         \* processes started so far
    \* History, for the properties:
    used,           \* used[f]: the key last written to f with success
    saved,          \* identities ever written with success
    phrase, stale,  \* the phrase last shown since an import; it was shown by
                    \* a process that had its identity before the import
    outdated,       \* processes whose identity an import has replaced
    doubt           \* doubt[f]: two processes were creating f at once, or a
                    \* power cut took back what was written to it

procVars == <<mode, pc, on, mem>>
diskVars == <<file, flushed, clean>>
userVars == <<shown, phrase, stale>>
vars == <<procVars, diskVars, userVars, next, starts, used, saved, outdated, doubt>>

Blank == [f \in File |-> None]

Init ==
    /\ mode = [p \in Proc |-> "none"]
    /\ pc = [p \in Proc |-> "idle"] /\ on = [p \in Proc |-> "identity"]
    /\ mem = [p \in Proc |-> Blank]
    /\ file = [f \in File |-> NoFile] /\ flushed = file /\ clean = [f \in File |-> TRUE]
    /\ next = [f \in File |-> 1]
    /\ shown = {} /\ phrase = None /\ stale = FALSE
    /\ starts = 0 /\ used = Blank /\ saved = {} /\ outdated = {}
    /\ doubt = [f \in File |-> FALSE]

\* Processes inside Save on f, or about to enter it with a key of their own.
Creating(f) == {p \in Proc : on[p] = f /\ pc[p] \in {"open", "write"}}

\* The history of a step after which S are creating f.
Doubts(f, S) == doubt' = [doubt EXCEPT ![f] = @ \/ \E p, q \in S : p # q]

-----------------------------------------------------------------------------
(***************************************************************************)
(* What a process does when it has its key for f, and when it could not    *)
(* get one: without an identity main exits, without a key pair the daemon  *)
(* runs and sends plain text.                                              *)
(***************************************************************************)
GoTo(p, step, f) ==
    /\ pc' = [pc EXCEPT ![p] = step] /\ on' = [on EXCEPT ![p] = f]
    /\ UNCHANGED <<mode, outdated>>

\* The process is gone, and all it had in memory.
Gone(p) ==
    /\ mode' = [mode EXCEPT ![p] = "none"]
    /\ pc' = [pc EXCEPT ![p] = "idle"] /\ on' = [on EXCEPT ![p] = "identity"]
    /\ mem' = [mem EXCEPT ![p] = Blank]
    /\ outdated' = outdated \ {p}

\* The process has key k for f.
Holds(p, f, k) == mem' = [mem EXCEPT ![p][f] = k]

Show(k, p) ==
    /\ shown' = shown \cup {k}
    /\ phrase' = k /\ stale' = (p \in outdated)

Hide == UNCHANGED userVars

Ready(p, f, k) ==
    \/ mode[p] = "daemon" /\ f = "identity" /\ GoTo(p, "load", "keypair") /\ Holds(p, f, k) /\ Hide
    \/ mode[p] = "daemon" /\ f = "keypair"  /\ GoTo(p, "run", f) /\ Holds(p, f, k) /\ Hide
    \/ mode[p] = "export" /\ Gone(p) /\ Show(k, p)
    \/ mode[p] = "import" /\ Gone(p) /\ Hide

\* Mutant of Unavailable: the error of Save is dropped.
UnavailableIgnored(p, f) ==
    \/ mem[p][f] # None /\ Ready(p, f, mem[p][f])
    \/ mem[p][f] = None /\ Gone(p) /\ Hide

Unavailable(p, f) ==
    /\ \/ f = "identity" /\ Gone(p)
       \/ f = "keypair" /\ GoTo(p, "run", f) /\ Holds(p, f, None)
    /\ Hide

-----------------------------------------------------------------------------
(***************************************************************************)
(* Processes.                                                              *)
(***************************************************************************)
Start(p, m) ==
    /\ pc[p] = "idle" /\ starts < MaxStart /\ starts' = starts + 1
    /\ mode' = [mode EXCEPT ![p] = m]
    /\ pc' = [pc EXCEPT ![p] = "load"]
    /\ UNCHANGED <<on, mem, diskVars, userVars, next, used, saved, outdated, doubt>>

\* -import-seed with a valid phrase.  (One that fails its checksum ends the
\* process before it touches anything.)
ImportSeed(p, k) ==
    /\ pc[p] = "idle" /\ starts < MaxStart /\ starts' = starts + 1
    /\ mode' = [mode EXCEPT ![p] = "import"]
    /\ pc' = [pc EXCEPT ![p] = "open"]
    /\ Holds(p, "identity", k)
    /\ Doubts("identity", Creating("identity") \cup {p})
    /\ UNCHANGED <<on, diskVars, userVars, next, used, saved, outdated>>

\* Mutant of Missing: a file that does not parse is created anew as well.
MissingOrTorn(f) == file[f] \in {NoFile, Torn}

\* Mutant of Missing: any error of the load makes LoadOrCreate create a file.
MissingOrUnread(f) == file[f] \in Key \cup {NoFile, Torn}

\* Only the error for a file that is not there makes LoadOrCreate create one.
Missing(f) == file[f] = NoFile

\* Load, and Generate if there is nothing to load.  What does not parse, and
\* what cannot be read although it is there, is an error.
Load(p) ==
    LET f == on[p]
    IN  /\ pc[p] = "load"
        /\ \/ /\ Missing(f) /\ next[f] <= MaxKey
              /\ Holds(p, f, next[f])
              /\ next' = [next EXCEPT ![f] = @ + 1]
              /\ GoTo(p, "open", f) /\ Hide
              /\ Doubts(f, Creating(f) \cup {p})
           \/ /\ Unavailable(p, f)
              /\ UNCHANGED <<next, doubt>>
           \/ /\ file[f] \in Key
              /\ Ready(p, f, file[f])
              /\ UNCHANGED <<next, doubt>>
        /\ UNCHANGED <<diskVars, starts, used, saved>>

\* os.WriteFile opens the file and truncates it ...
Open(p) ==
    LET f == on[p]
        import == mode[p] = "import"
    IN  /\ pc[p] = "open"
        /\ file' = [file EXCEPT ![f] = Torn]
        /\ clean' = [clean EXCEPT ![f] = FALSE]
        /\ pc' = [pc EXCEPT ![p] = "write"]
        /\ outdated' = IF import THEN {q \in Proc \ {p} : mem[q]["identity"] # None} ELSE outdated
        /\ phrase' = IF import THEN None ELSE phrase
        /\ UNCHANGED <<mode, on, mem, flushed, next, shown, stale, starts, used, saved, doubt>>

\* ... and then writes it.
Write(p) ==
    LET f == on[p]
        k == mem[p][f]
    IN  /\ pc[p] = "write"
        /\ file' = [file EXCEPT ![f] = k]
        /\ clean' = [clean EXCEPT ![f] = FALSE]
        /\ used' = [used EXCEPT ![f] = k]
        /\ saved' = IF f = "identity" THEN saved \cup {k} ELSE saved
        /\ Ready(p, f, k)
        /\ UNCHANGED <<flushed, next, starts, doubt>>

\* The directory, the open or the write fails: what was truncated stays so.
SaveFails(p) ==
    /\ pc[p] \in {"open", "write"}
    /\ Unavailable(p, on[p])
    /\ UNCHANGED <<diskVars, next, starts, used, saved, doubt>>

\* handleSeedExport: the app of a running daemon asks for the phrase.
SeedExport(p) ==
    /\ pc[p] = "run"
    /\ Show(mem[p]["identity"], p)
    /\ UNCHANGED <<procVars, diskVars, next, starts, used, saved, outdated, doubt>>

\* The process ends, at any moment: a signal, a crash, a port that is taken.
Exit(p) ==
    /\ pc[p] # "idle"
    /\ Gone(p)
    /\ UNCHANGED <<diskVars, userVars, next, starts, used, saved, doubt>>

\* What f may be when the machine comes back.
Survivors(f) == IF clean[f] THEN {file[f]} ELSE {flushed[f], Torn, file[f]}

PowerLoss ==
    /\ \E i \in Survivors("identity"), k \in Survivors("keypair") :
          file' = [f \in File |-> IF f = "identity" THEN i ELSE k]
    /\ flushed' = file' /\ clean' = [f \in File |-> TRUE]
    /\ mode' = [p \in Proc |-> "none"]
    /\ pc' = [p \in Proc |-> "idle"] /\ on' = [p \in Proc |-> "identity"]
    /\ mem' = [p \in Proc |-> Blank] /\ outdated' = {}
    /\ doubt' = [f \in File |-> doubt[f] \/ file'[f] # file[f]]
    /\ UNCHANGED <<userVars, next, starts, used, saved>>

\* The operating system writes the file back, whenever it likes.
Flush(f) ==
    /\ flushed' = [flushed EXCEPT ![f] = file[f]]
    /\ clean' = [clean EXCEPT ![f] = TRUE]
    /\ UNCHANGED <<procVars, file, userVars, next, starts, used, saved, outdated, doubt>>

Next ==
    \/ \E p \in Proc :
          \/ \E m \in {"daemon", "export"} : Start(p, m)
          \/ \E k \in shown \cup {Foreign} : ImportSeed(p, k)
          \/ Load(p) \/ Open(p) \/ Write(p) \/ SaveFails(p)
          \/ SeedExport(p) \/ Exit(p)
    \/ PowerLoss
    \/ \E f \in File : Flush(f)

Spec == Init /\ [][Next]_vars

-----------------------------------------------------------------------------
(***************************************************************************)
(* A secret is never replaced silently.  Once a key was saved, a process   *)
(* that loads the file gets this key or, when the file is torn or cannot   *)
(* be read, none: it never makes a new one.  Only an import changes it,    *)
(* the exceptions being two processes that created the file at once and a  *)
(* power cut before the file was flushed.                                  *)
(***************************************************************************)
KeysKept ==
    [][\A p \in Proc, f \in File :
          /\ mode'[p] # "import" /\ mem[p][f] = None /\ mem'[p][f] # None
          /\ used[f] # None /\ ~doubt'[f]
          => mem'[p][f] = used[f]]_vars

(***************************************************************************)
(* Every phrase the user is ever shown, by the tool or by the app, is of   *)
(* an identity that was saved here: nobody notes down the phrase of one    *)
(* that never got to the disk.  And the phrase shown last is of the        *)
(* identity on disk, until an import replaces it: what a later start runs  *)
(* under is what the phrase restores.  Same exceptions, and one more: a    *)
(* daemon that runs on through an import still shows the phrase it has.    *)
(***************************************************************************)
PhraseRestores ==
    /\ shown \subseteq saved
    /\ phrase # None /\ ~stale /\ ~doubt["identity"] => file["identity"] = phrase

(***************************************************************************)
(* The saved key pair stays on disk, and all daemons that encrypt do so    *)
(* with it.  A read error, a key pair that is just being written, a save   *)
(* that fails or a process that ends in it may each cost a process its     *)
(* encryption (main.go carries on in plain text), but never the file: the  *)
(* next start finds the pair again.  Same exceptions.                      *)
(***************************************************************************)
EncryptionKept ==
    ~doubt["keypair"] =>
        /\ used["keypair"] # None => file["keypair"] = used["keypair"]
        /\ \A p \in Proc : pc[p] = "run" /\ mem[p]["keypair"] # None =>
              mem[p]["keypair"] = used["keypair"]
=============================================================================
