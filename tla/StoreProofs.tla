---------------------------- MODULE StoreProofs ----------------------------
(***************************************************************************)
(* What SaveToJSON promises, proved for every set of messages, every bound *)
(* on faults and crashes, and one saver.  With two savers it is false: the *)
(* run store_two_savers of the project shows how.  The types hold with any *)
(* number of them.                                                         *)
(***************************************************************************)
EXTENDS Store, TLAPS

\* Only one goroutine saves: the autosave ticker, before the shutdown.
OneSaver == \A s, t \in Saver : s = t

\* Where a saver is decides what is known of its files; the read lock keeps
\* its snapshot current.
SaverInv ==
    \A s \in Saver :
      /\ pc[s] \in {"idle", "create", "rename"} => fd[s] = NoFile
      /\ pc[s] \in {"write", "sync", "close"} => fd[s] = tmp
      /\ pc[s] \in {"write", "sync", "close", "rename"} => tmp # NoFile
      /\ pc[s] \in {"sync", "close", "rename"} => data[tmp] = snap[s]
      /\ pc[s] \in {"close", "rename"} => durable[tmp] = TRUE
      /\ pc[s] # "idle" => up = TRUE /\ snap[s] = mem

\* The temporary path never names a backup, the one on the disk included, so
\* that no save writes over one.
PathInv ==
    /\ tmp # NoFile => tmp # target /\ tmp # disk.target
    /\ disk.tmp # NoFile => disk.tmp # disk.target

\* The backup that a power cut would bring back is intact too.
KeptIntact ==
    disk.target # NoFile => data[disk.target] # Torn /\ durable[disk.target]

\* What the backup holds, the memory of a process that restored it holds too.
GrowInv == target # NoFile /\ up = TRUE /\ blind = FALSE => Leq(data[target], mem)

BackupInv ==
    TypeOK /\ SaverInv /\ PathInv /\ BackupIntact /\ KeptIntact /\ GrowInv

-----------------------------------------------------------------------------
\* Snapshots are ordered by what they contain.
LEMMA LeqReflexive == ASSUME NEW a \in Snapshot PROVE Leq(a, a)
BY DEF Leq, Snapshot

\* Containment of snapshots is transitive.
LEMMA LeqTransitive ==
    ASSUME NEW a \in Snapshot, NEW b \in Snapshot, NEW c \in Snapshot,
           Leq(a, b), Leq(b, c)
    PROVE  Leq(a, c)
BY DEF Leq, Snapshot

\* SaveMessage only adds.
LEMMA SaveMessageGrows ==
    ASSUME mem \in Snapshot, NEW i \in Id, SaveMessage(i)
    PROVE  mem' \in Snapshot /\ Leq(mem, mem')
BY DEF SaveMessage, Snapshot, Leq

\* The empty store is a snapshot.
LEMMA EmptySnapshot == Empty \in Snapshot
BY DEF Empty, Snapshot

\* A file with a snapshot in it is not torn.
LEMMA NotTorn == ASSUME NEW a \in Snapshot PROVE a # Torn
BY StoreAssumption

(***************************************************************************)
(* BackupInv is inductive when one goroutine saves.                        *)
(***************************************************************************)
LEMMA InitBackup == Init => BackupInv
<1> SUFFICES ASSUME Init PROVE BackupInv
    OBVIOUS
<1>1. TypeOK
    BY EmptySnapshot DEF Init, TypeOK, Snapshot, Empty, Step, Directory
<1>2. SaverInv /\ PathInv /\ BackupIntact /\ KeptIntact /\ GrowInv
    BY DEF Init, SaverInv, PathInv, BackupIntact, KeptIntact, GrowInv, Directory
<1> QED
    BY <1>1, <1>2 DEF BackupInv

\* The steps of the callers change nothing that a save depends on.
LEMMA CallersKeep ==
    ASSUME BackupInv, NEW i \in Id,
           Broadcast(i) \/ SaveSent(i) \/ Incoming(i) \/ SaveIncoming(i)
    PROVE  BackupInv'
<1> USE DEF BackupInv
<1>1. /\ UNCHANGED <<up, saveVars, diskVars, blind, fault, crash>>
      /\ mem' \in Snapshot /\ Leq(mem, mem')
      /\ mem' = mem \/ Unlocked
    <2>1. CASE Broadcast(i) \/ Incoming(i)
        BY <2>1, LeqReflexive DEF Broadcast, Incoming, TypeOK
    <2>2. CASE SaveSent(i) \/ SaveIncoming(i)
        BY <2>2, SaveMessageGrows DEF SaveSent, SaveIncoming, SaveMessage, TypeOK
    <2> QED
        BY <2>1, <2>2
<1>2. sent' \subseteq Own /\ unsaved' \subseteq Own
    BY DEF Broadcast, Incoming, SaveSent, SaveIncoming, TypeOK
<1>3. arrived' \in [Id -> Nat] /\ checked' \in [Id -> Nat]
    BY DEF Broadcast, Incoming, SaveSent, SaveIncoming, TypeOK
<1>4. TypeOK'
    BY <1>1, <1>2, <1>3 DEF TypeOK, saveVars, diskVars
<1>5. SaverInv' /\ PathInv' /\ BackupIntact' /\ KeptIntact'
    BY <1>1 DEF SaverInv, PathInv, BackupIntact, KeptIntact, Unlocked, saveVars, diskVars
<1>6. GrowInv'
    <2> SUFFICES ASSUME target # NoFile, up = TRUE, blind = FALSE PROVE Leq(data[target], mem')
        BY <1>1 DEF GrowInv, saveVars, diskVars
    <2>1. data[target] \in Snapshot /\ Leq(data[target], mem)
        BY DEF TypeOK, BackupIntact, GrowInv
    <2> QED
        BY <2>1, <1>1, LeqTransitive DEF TypeOK
<1> QED
    BY <1>4, <1>5, <1>6

\* Every system call of a save, and its failure, keeps BackupInv.
LEMMA SaverKeeps ==
    ASSUME OneSaver, BackupInv, NEW s \in Saver, SaveStep(s) \/ SaveFails(s)
    PROVE  BackupInv'
<1> USE DEF BackupInv
<1>0. \A t \in Saver : t = s
    BY DEF OneSaver
<1>1. CASE BeginSave(s)
    <2> USE <1>1 DEF BeginSave, Goto
    <2>1. TypeOK'
        BY DEF TypeOK, Step, memVars, diskVars
    <2>2. SaverInv' /\ PathInv' /\ BackupIntact' /\ KeptIntact'
        BY DEF TypeOK, SaverInv, PathInv, BackupIntact, KeptIntact, memVars, diskVars
    <2>3. GrowInv'
        BY <1>0 DEF TypeOK, GrowInv, memVars, diskVars
    <2> QED
        BY <2>1, <2>2, <2>3
<1>2. CASE Create(s)
    <2> USE <1>2 DEF Create, Goto
    <2>1. PICK f \in Inode :
            /\ IF tmp = NoFile THEN Unused(f) /\ f = Fresh ELSE f = tmp
            /\ fd' = [fd EXCEPT ![s] = f]
            /\ tmp' = f
            /\ data' = [data EXCEPT ![f] = Torn]
            /\ durable' = [durable EXCEPT ![f] = FALSE]
        OBVIOUS
    <2>2. f # target /\ f # disk.target /\ f # NoFile
        BY <2>1, StoreAssumption DEF PathInv, Unused, Referenced
    <2>3. TypeOK'
        BY <2>1 DEF TypeOK, Step, memVars
    <2>4. /\ target # NoFile => data'[target] = data[target] /\ durable'[target] = durable[target]
          /\ disk.target # NoFile =>
               data'[disk.target] = data[disk.target] /\ durable'[disk.target] = durable[disk.target]
        BY <2>1, <2>2 DEF TypeOK
    <2>5. SaverInv' /\ PathInv'
        BY <2>1, <2>2, <1>0 DEF TypeOK, SaverInv, PathInv, memVars
    <2>6. BackupIntact' /\ KeptIntact' /\ GrowInv'
        BY <2>4, <1>0 DEF TypeOK, BackupIntact, KeptIntact, GrowInv, memVars
    <2> QED
        BY <2>3, <2>5, <2>6
<1>3. CASE Write(s)
    <2> USE <1>3 DEF Write, Goto
    <2>1. fd[s] = tmp /\ tmp \in Inode /\ tmp # target /\ tmp # disk.target
        BY DEF TypeOK, SaverInv, PathInv
    <2>2. TypeOK'
        BY <2>1 DEF TypeOK, Step, memVars
    <2>3. /\ target # NoFile => data'[target] = data[target] /\ durable'[target] = durable[target]
          /\ disk.target # NoFile =>
               data'[disk.target] = data[disk.target] /\ durable'[disk.target] = durable[disk.target]
        BY <2>1 DEF TypeOK
    <2>4. SaverInv' /\ PathInv'
        BY <2>1, <1>0 DEF TypeOK, SaverInv, PathInv, memVars
    <2>5. BackupIntact' /\ KeptIntact' /\ GrowInv'
        BY <2>3, <1>0 DEF TypeOK, BackupIntact, KeptIntact, GrowInv, memVars
    <2> QED
        BY <2>2, <2>4, <2>5
<1>4. CASE Sync(s)
    <2> USE <1>4 DEF Sync, Goto
    <2>1. fd[s] = tmp /\ tmp \in Inode /\ tmp # target /\ tmp # disk.target
        BY DEF TypeOK, SaverInv, PathInv
    <2>2. TypeOK'
        BY <2>1 DEF TypeOK, Step, memVars
    <2>3. /\ target # NoFile => data'[target] = data[target] /\ durable'[target] = durable[target]
          /\ disk.target # NoFile =>
               data'[disk.target] = data[disk.target] /\ durable'[disk.target] = durable[disk.target]
        BY <2>1 DEF TypeOK
    <2>4. SaverInv' /\ PathInv'
        BY <2>1, <1>0 DEF TypeOK, SaverInv, PathInv, memVars
    <2>5. BackupIntact' /\ KeptIntact' /\ GrowInv'
        BY <2>3, <1>0 DEF TypeOK, BackupIntact, KeptIntact, GrowInv, memVars
    <2> QED
        BY <2>2, <2>4, <2>5
<1>5. CASE Close(s)
    <2> USE <1>5 DEF Close, Goto
    <2>1. TypeOK'
        BY DEF TypeOK, Step, memVars, diskVars
    <2>2. SaverInv' /\ PathInv' /\ BackupIntact' /\ KeptIntact'
        BY <1>0 DEF TypeOK, SaverInv, PathInv, BackupIntact, KeptIntact, memVars, diskVars
    <2>3. GrowInv'
        BY <1>0 DEF TypeOK, GrowInv, memVars, diskVars
    <2> QED
        BY <2>1, <2>2, <2>3
<1>6. CASE Rename(s)
    <2> USE <1>6 DEF Rename, Return, Goto
    <2>1. tmp \in Inode /\ data[tmp] = snap[s] /\ durable[tmp] = TRUE /\ up = TRUE
        BY DEF TypeOK, SaverInv
    <2>2. target' = tmp /\ tmp' = NoFile /\ snap[s] \in Snapshot
        BY <2>1, StoreAssumption DEF TypeOK
    <2>3. TypeOK'
        BY <2>1, <2>2, EmptySnapshot DEF TypeOK, Step, memVars
    <2>4. SaverInv' /\ PathInv'
        BY <2>2, <1>0 DEF TypeOK, SaverInv, PathInv, memVars
    <2>5. BackupIntact' /\ KeptIntact'
        BY <2>1, <2>2, NotTorn DEF BackupIntact, KeptIntact
    <2>6. GrowInv'
        BY <2>1, <2>2, LeqReflexive DEF SaverInv, GrowInv, memVars
    <2> QED
        BY <2>3, <2>4, <2>5, <2>6
<1>7. CASE SaveFails(s)
    <2> USE <1>7 DEF SaveFails, Return, Goto
    <2>1. TypeOK'
        BY EmptySnapshot DEF TypeOK, Step, memVars
    <2>2. SaverInv' /\ PathInv' /\ BackupIntact' /\ KeptIntact'
        BY <1>0 DEF TypeOK, SaverInv, PathInv, BackupIntact, KeptIntact, memVars
    <2>3. GrowInv'
        BY <1>0 DEF TypeOK, GrowInv, memVars
    <2> QED
        BY <2>1, <2>2, <2>3
<1> QED
    BY <1>1, <1>2, <1>3, <1>4, <1>5, <1>6, <1>7 DEF SaveStep

\* The end of a process keeps the types.
LEMMA LoseMemoryTypes ==
    ASSUME TypeOK, LoseMemory
    PROVE  /\ up' = FALSE /\ blind' = FALSE /\ mem' \in Snapshot
           /\ sent' \subseteq Own /\ unsaved' \subseteq Own
           /\ arrived' \in [Id -> Nat] /\ checked' \in [Id -> Nat]
           /\ pc' \in [Saver -> Step] /\ snap' \in [Saver -> Snapshot]
           /\ fd' \in [Saver -> Inode \cup {NoFile}]
           /\ fault' \in Nat /\ crash' \in Nat
<1>1. mem' \in Snapshot /\ checked' \in [Id -> Nat] /\ snap' \in [Saver -> Snapshot]
    BY EmptySnapshot DEF LoseMemory, Snapshot
<1>2. pc' \in [Saver -> Step] /\ fd' \in [Saver -> Inode \cup {NoFile}]
    BY DEF LoseMemory, Step
<1>3. crash' \in Nat
    BY DEF LoseMemory, TypeOK
<1> QED
    BY <1>1, <1>2, <1>3 DEF LoseMemory, TypeOK

\* A kill keeps the types.
LEMMA TypeKill == ASSUME TypeOK, Kill PROVE TypeOK'
BY LoseMemoryTypes DEF Kill, TypeOK, diskVars

\* A power cut keeps the types.
LEMMA TypePowerLoss == ASSUME TypeOK, PowerLoss PROVE TypeOK'
<1>1. PICK lost \in SUBSET {f \in Inode : ~durable[f]} :
        data' = [f \in Inode |-> IF f \in lost \/ f \notin {tmp', target'} THEN Torn ELSE data[f]]
    BY DEF PowerLoss
<1>2. data' \in [Inode -> Snapshot \cup {Torn}] /\ durable' \in [Inode -> BOOLEAN]
    BY <1>1 DEF PowerLoss, TypeOK
<1>3. /\ tmp' \in Inode \cup {NoFile} /\ target' \in Inode \cup {NoFile}
      /\ disk' = disk
    BY DEF PowerLoss, TypeOK
<1> QED
    BY <1>2, <1>3, LoseMemoryTypes DEF PowerLoss, TypeOK

\* The write-back of the directory keeps the types.
LEMMA TypeCommit == ASSUME TypeOK, Commit PROVE TypeOK'
<1>1. data' \in [Inode -> Snapshot \cup {Torn}] /\ durable' \in [Inode -> BOOLEAN]
    BY DEF Commit, TypeOK
<1>2. disk' \in [tmp : Inode \cup {NoFile}, target : Inode \cup {NoFile}]
    BY DEF Commit, Directory, TypeOK
<1> QED
    BY <1>1, <1>2 DEF Commit, TypeOK, memVars, saveVars

\* What a start restores is a snapshot.
LEMMA ParsedSnapshot ==
    ASSUME TypeOK, NEW f \in Inode \cup {NoFile}
    PROVE  Parsed(f) \in Snapshot
BY EmptySnapshot DEF Parsed, TypeOK

\* A start keeps the types, whether it can read the backup or not.
LEMMA TypeBoot == ASSUME TypeOK, Boot \/ BootUnread PROVE TypeOK'
<1>1. Loaded \in Snapshot
    BY ParsedSnapshot DEF Loaded, TypeOK
<1>2. CASE Boot
    BY <1>1, <1>2 DEF Boot, TypeOK, saveVars, diskVars
<1>3. CASE BootUnread
    BY <1>3, EmptySnapshot DEF BootUnread, TypeOK, saveVars, diskVars
<1> QED
    BY <1>2, <1>3

-----------------------------------------------------------------------------
\* A kill leaves the files as they are and no saver behind.
LEMMA KillKeeps == ASSUME BackupInv, Kill PROVE BackupInv'
<1> USE DEF BackupInv
<1>1. TypeOK'
    BY TypeKill
<1>2. SaverInv' /\ GrowInv'
    BY DEF Kill, LoseMemory, SaverInv, GrowInv
<1>3. PathInv' /\ BackupIntact' /\ KeptIntact'
    BY DEF Kill, PathInv, BackupIntact, KeptIntact, diskVars
<1> QED
    BY <1>1, <1>2, <1>3

\* A power cut leaves the backup the disk has, whose contents are fsynced.
LEMMA PowerLossKeeps == ASSUME BackupInv, PowerLoss PROVE BackupInv'
<1> USE DEF BackupInv
<1>1. PICK lost \in SUBSET {f \in Inode : ~durable[f]} :
        data' = [f \in Inode |-> IF f \in lost \/ f \notin {tmp', target'} THEN Torn ELSE data[f]]
    BY DEF PowerLoss
<1>2. tmp' = disk.tmp /\ target' = disk.target /\ disk' = disk
    BY DEF PowerLoss
<1>3. TypeOK'
    BY TypePowerLoss
<1>4. SaverInv' /\ GrowInv'
    BY DEF PowerLoss, LoseMemory, SaverInv, GrowInv
<1>5. PathInv'
    BY <1>2 DEF PathInv
<1>6. ASSUME disk.target # NoFile
      PROVE  data'[disk.target] # Torn /\ durable'[disk.target]
    <2>1. disk.target \in Inode /\ disk.target \notin lost
        BY <1>1, <1>6 DEF TypeOK, KeptIntact
    <2> QED
        BY <2>1, <1>1, <1>2, <1>6 DEF PowerLoss, KeptIntact
<1>7. BackupIntact' /\ KeptIntact'
    BY <1>2, <1>6 DEF BackupIntact, KeptIntact
<1> QED
    BY <1>3, <1>4, <1>5, <1>7

\* The write-back frees no file that a path or a saver refers to.
LEMMA CommitLeaves ==
    ASSUME TypeOK, Commit, NEW f \in Inode, f \in Referenced
    PROVE  data'[f] = data[f] /\ durable'[f] = durable[f]
BY DEF Commit

\* The write-back of the directory makes the backup the one that stays.
LEMMA CommitKeeps == ASSUME BackupInv, Commit PROVE BackupInv'
<1> USE DEF BackupInv
<1>1. /\ UNCHANGED <<up, mem, pc, snap, fd, tmp, target, blind>>
      /\ disk'.tmp = tmp /\ disk'.target = target
    BY DEF Commit, Directory, memVars, saveVars
<1>2. tmp # NoFile => data'[tmp] = data[tmp] /\ durable'[tmp] = durable[tmp]
    BY CommitLeaves DEF Referenced, TypeOK
<1>3. target # NoFile => data'[target] = data[target] /\ durable'[target] = durable[target]
    BY CommitLeaves DEF Referenced, TypeOK
<1>4. TypeOK'
    BY TypeCommit
<1>5. SaverInv'
    BY <1>1, <1>2 DEF SaverInv
<1>6. PathInv' /\ BackupIntact' /\ KeptIntact' /\ GrowInv'
    BY <1>1, <1>3 DEF PathInv, BackupIntact, KeptIntact, GrowInv
<1> QED
    BY <1>4, <1>5, <1>6

\* A start keeps BackupInv: it restores the backup, or is blind.
LEMMA BootKeeps == ASSUME BackupInv, Boot \/ BootUnread PROVE BackupInv'
<1> USE DEF BackupInv
<1>1. TypeOK'
    BY TypeBoot
<1>2. SaverInv' /\ PathInv' /\ BackupIntact' /\ KeptIntact'
    BY DEF Boot, BootUnread, SaverInv, PathInv, BackupIntact, KeptIntact, saveVars, diskVars
<1>3. CASE Boot
    <2>1. Loaded \in Snapshot
        BY ParsedSnapshot DEF Loaded, TypeOK
    <2>2. target # NoFile => Leq(data[target], Loaded)
        BY <2>1, LeqReflexive DEF Loaded, Parsed, BackupIntact
    <2> QED
        BY <1>1, <1>2, <1>3, <2>2 DEF Boot, GrowInv, diskVars
<1>4. CASE BootUnread
    BY <1>1, <1>2, <1>4 DEF BootUnread, GrowInv
<1> QED
    BY <1>3, <1>4

\* Every step keeps BackupInv.
LEMMA NextKeeps == OneSaver /\ BackupInv /\ [Next]_vars => BackupInv'
<1> SUFFICES ASSUME OneSaver, BackupInv, [Next]_vars PROVE BackupInv'
    OBVIOUS
<1>1. CASE UNCHANGED vars
    BY <1>1 DEF vars, memVars, saveVars, diskVars, BackupInv, TypeOK, SaverInv,
                PathInv, BackupIntact, KeptIntact, GrowInv
<1>2. CASE Next
    BY <1>2, CallersKeep, SaverKeeps, CommitKeeps, KillKeeps, PowerLossKeeps, BootKeeps
       DEF Next, StoreStep
<1> QED
    BY <1>1, <1>2

\* With one saver BackupInv is an invariant.
LEMMA BackupInvariant == ASSUME OneSaver PROVE Spec => []BackupInv
BY InitBackup, NextKeeps, PTL DEF Spec

-----------------------------------------------------------------------------
(***************************************************************************)
(* The types hold with any number of savers.                               *)
(***************************************************************************)
LEMMA TypeCallers ==
    ASSUME TypeOK, NEW i \in Id, Broadcast(i) \/ Incoming(i) \/ StoreStep(i)
    PROVE  TypeOK'
<1> USE DEF saveVars, diskVars
<1>1. CASE Broadcast(i)
    BY <1>1 DEF Broadcast, TypeOK
<1>2. CASE Incoming(i)
    <2>1. arrived' \in [Id -> Nat] /\ checked' \in [Id -> Nat]
        BY <1>2 DEF Incoming, TypeOK
    <2> QED BY <1>2, <2>1 DEF Incoming, TypeOK
<1>3. CASE SaveSent(i)
    <2>1. mem' \in Snapshot
        BY <1>3, SaveMessageGrows DEF SaveSent, TypeOK
    <2> QED BY <1>3, <2>1 DEF SaveSent, TypeOK
<1>4. CASE SaveIncoming(i)
    <2>1. mem' \in Snapshot
        BY <1>4, SaveMessageGrows DEF SaveIncoming, TypeOK
    <2>2. checked' \in [Id -> Nat]
        BY <1>4 DEF SaveIncoming, TypeOK
    <2> QED BY <1>4, <2>1, <2>2 DEF SaveIncoming, TypeOK
<1> QED BY <1>1, <1>2, <1>3, <1>4 DEF StoreStep

\* Every system call of a save, and its failure, keeps the types.
LEMMA TypeSaver ==
    ASSUME TypeOK, NEW s \in Saver, SaveStep(s) \/ SaveFails(s)
    PROVE  TypeOK'
<1> USE DEF memVars, diskVars
<1>1. pc' \in [Saver -> Step]
    BY DEF SaveStep, SaveFails, BeginSave, Create, Write, Sync, Close, Rename, Return, Goto,
           TypeOK, Step
<1>2. CASE BeginSave(s)
    BY <1>1, <1>2 DEF BeginSave, TypeOK
<1>3. CASE Create(s)
    BY <1>1, <1>3 DEF Create, TypeOK
<1>4. CASE Write(s)
    <2>1. data' \in [Inode -> Snapshot \cup {Torn}] /\ durable' \in [Inode -> BOOLEAN]
        BY <1>4 DEF Write, TypeOK
    <2> QED BY <1>1, <1>4, <2>1 DEF Write, TypeOK
<1>5. CASE Sync(s)
    BY <1>1, <1>5 DEF Sync, TypeOK
<1>6. CASE Close(s)
    BY <1>1, <1>6 DEF Close, TypeOK
<1>7. CASE Rename(s)
    BY <1>1, <1>7, EmptySnapshot DEF Rename, Return, TypeOK
<1>8. CASE SaveFails(s)
    BY <1>1, <1>8, EmptySnapshot DEF SaveFails, Return, TypeOK
<1> QED BY <1>2, <1>3, <1>4, <1>5, <1>6, <1>7, <1>8 DEF SaveStep

(***************************************************************************)
(* Whatever the savers do to each other's files, what a start loads and    *)
(* what a save writes is a snapshot, never torn contents.                  *)
(***************************************************************************)
THEOREM StoreTypeCorrect == Spec => []TypeOK
<1>1. Init => TypeOK
    BY InitBackup DEF BackupInv
<1>2. TypeOK /\ [Next]_vars => TypeOK'
    <2> SUFFICES ASSUME TypeOK, [Next]_vars
                 PROVE  TypeOK'
        OBVIOUS
    <2>1. CASE UNCHANGED vars
        BY <2>1 DEF vars, memVars, saveVars, diskVars, TypeOK
    <2>2. CASE Next
        BY <2>2, TypeCallers, TypeSaver, TypeCommit, TypeKill, TypePowerLoss, TypeBoot
           DEF Next
    <2> QED BY <2>1, <2>2
<1> QED BY <1>1, <1>2, PTL DEF Spec

-----------------------------------------------------------------------------
(***************************************************************************)
(* With one saver, a kill, a power cut, a failed write or a restart at any *)
(* point of SaveToJSON leaves a complete, fsynced backup or, as long as no *)
(* rename has got to the disk, none.                                       *)
(***************************************************************************)
THEOREM OneSaverKeepsBackup == ASSUME OneSaver PROVE Spec => []BackupIntact
<1>1. BackupInv => BackupIntact
    BY DEF BackupInv
<1> QED
    BY <1>1, BackupInvariant, PTL

\* What the files give to a start depends on the two targets only.
LEMMA SameBackups ==
    ASSUME target' = target, disk' = disk,
           target # NoFile => data'[target] = data[target],
           disk.target # NoFile => data'[disk.target] = data[disk.target]
    PROVE  Loaded' = Loaded /\ Kept' = Kept
BY DEF Loaded, Kept, Parsed

\* The calls before the rename, and a failed one, leave both backups alone.
LEMMA SaverLeavesBackups ==
    ASSUME BackupInv, NEW s \in Saver,
           BeginSave(s) \/ Create(s) \/ Write(s) \/ Sync(s) \/ Close(s) \/ SaveFails(s)
    PROVE  UNCHANGED <<up, mem>> /\ Loaded' = Loaded /\ Kept' = Kept
<1>1. UNCHANGED <<up, mem>> /\ target' = target /\ disk' = disk
    BY DEF BeginSave, Create, Write, Sync, Close, SaveFails, memVars, diskVars
<1>2. /\ target # NoFile => data'[target] = data[target]
      /\ disk.target # NoFile => data'[disk.target] = data[disk.target]
    <2>1. CASE Create(s)
        <3>1. PICK f \in Inode :
                /\ IF tmp = NoFile THEN Unused(f) /\ f = Fresh ELSE f = tmp
                /\ data' = [data EXCEPT ![f] = Torn]
            BY <2>1 DEF Create
        <3>2. f # target /\ f # disk.target
            BY <3>1, StoreAssumption DEF BackupInv, PathInv, Unused, Referenced
        <3> QED
            BY <3>1, <3>2 DEF BackupInv, TypeOK
    <2>2. CASE Write(s)
        BY <2>2 DEF Write, BackupInv, TypeOK, SaverInv, PathInv
    <2>3. CASE BeginSave(s) \/ Sync(s) \/ Close(s) \/ SaveFails(s)
        BY <2>3 DEF BeginSave, Sync, Close, SaveFails, diskVars
    <2> QED
        BY <2>1, <2>2, <2>3
<1> QED
    BY <1>1, <1>2, SameBackups

\* The rename puts the memory as it is into the backup.
LEMMA RenameBacksUp ==
    ASSUME BackupInv, NEW s \in Saver, Rename(s)
    PROVE  up = TRUE /\ UNCHANGED <<up, mem>> /\ Loaded' = mem /\ Kept' = Kept
<1>1. up = TRUE /\ data[tmp] = mem /\ tmp # NoFile /\ mem \in Snapshot
    BY DEF Rename, BackupInv, SaverInv, TypeOK
<1>2. target' = tmp /\ data' = data /\ disk' = disk /\ UNCHANGED <<up, mem>>
    BY <1>1 DEF Rename, memVars
<1>3. Loaded' = mem
    BY <1>1, <1>2, NotTorn DEF Loaded, Parsed
<1>4. Kept' = Kept
    BY <1>2 DEF Kept, Parsed
<1> QED
    BY <1>1, <1>2, <1>3, <1>4

\* The write-back changes the backup of a power cut only.
LEMMA CommitBackups ==
    ASSUME BackupInv, Commit
    PROVE  UNCHANGED <<up, mem>> /\ Loaded' = Loaded /\ Kept' = Loaded
<1>1. UNCHANGED <<up, mem, target>> /\ disk'.target = target
    BY DEF Commit, Directory, memVars
<1>2. target # NoFile => data'[target] = data[target]
    BY CommitLeaves DEF Referenced, BackupInv, TypeOK
<1> QED
    BY <1>1, <1>2 DEF Loaded, Kept, Parsed

\* A power cut brings back the backup the disk has.
LEMMA PowerLossBackups ==
    ASSUME BackupInv, PowerLoss
    PROVE  up' = FALSE /\ mem' = Empty /\ Loaded' = Kept /\ Kept' = Kept
<1>1. PICK lost \in SUBSET {f \in Inode : ~durable[f]} :
        data' = [f \in Inode |-> IF f \in lost \/ f \notin {tmp', target'} THEN Torn ELSE data[f]]
    BY DEF PowerLoss
<1>2. target' = disk.target /\ disk' = disk
    BY DEF PowerLoss
<1>3. disk.target # NoFile => data'[disk.target] = data[disk.target]
    <2> SUFFICES ASSUME disk.target # NoFile
                 PROVE  data'[disk.target] = data[disk.target]
        OBVIOUS
    <2>1. disk.target \in Inode /\ disk.target \notin lost
        BY DEF BackupInv, TypeOK, KeptIntact
    <2> QED
        BY <2>1, <1>1, <1>2
<1> QED
    BY <1>2, <1>3 DEF Loaded, Kept, Parsed, PowerLoss, LoseMemory

\* The callers, a kill and a start leave the files alone.
LEMMA FilesAlone ==
    ASSUME UNCHANGED diskVars
    PROVE  Loaded' = Loaded /\ Kept' = Kept
BY DEF diskVars, Loaded, Kept, Parsed

(***************************************************************************)
(* With one saver, the backup forgets a message it held only through a     *)
(* power cut that undoes a rename, or when a process that could not read   *)
(* it saves over it.                                                       *)
(***************************************************************************)
THEOREM OneSaverBackupGrows == ASSUME OneSaver PROVE Spec => BackupGrows
<1> DEFINE Grows == Leq(Loaded, Loaded') \/ blind \/ (~up' /\ Loaded' = Kept)
<1>1. BackupInv /\ [Next]_vars => [Grows]_vars
    <2> SUFFICES ASSUME BackupInv, Next PROVE Grows
        OBVIOUS
    <2>1. Loaded \in Snapshot
        BY ParsedSnapshot DEF Loaded, BackupInv, TypeOK
    <2>2. Loaded' = Loaded => Grows
        BY <2>1, LeqReflexive
    <2>3. ASSUME NEW i \in Id, Broadcast(i) \/ Incoming(i) \/ StoreStep(i)
          PROVE  Grows
        <3>1. UNCHANGED diskVars
            BY <2>3 DEF Broadcast, Incoming, StoreStep, SaveSent, SaveIncoming
        <3> QED
            BY <3>1, <2>2, FilesAlone
    <2>4. ASSUME NEW s \in Saver, Rename(s), blind = FALSE
          PROVE  Grows
        <3>1. Loaded' = mem /\ up = TRUE /\ mem \in Snapshot
            BY <2>4, RenameBacksUp DEF BackupInv, TypeOK
        <3>2. Leq(Loaded, mem)
            <4>1. CASE target # NoFile /\ data[target] # Torn
                BY <4>1, <3>1, <2>4 DEF Loaded, Parsed, BackupInv, GrowInv
            <4>2. CASE ~(target # NoFile /\ data[target] # Torn)
                BY <4>2, <3>1 DEF Loaded, Parsed, Empty, Leq, Snapshot
            <4> QED BY <4>1, <4>2
        <3> QED
            BY <3>1, <3>2
    <2>5. ASSUME NEW s \in Saver, SaveStep(s) \/ SaveFails(s)
          PROVE  Grows
        <3>1. CASE Rename(s)
            <4>1. blind \in BOOLEAN
                BY DEF BackupInv, TypeOK
            <4> QED
                BY <3>1, <2>4, <4>1
        <3>2. CASE ~Rename(s)
            BY <3>2, <2>5, <2>2, SaverLeavesBackups DEF SaveStep
        <3> QED
            BY <3>1, <3>2
    <2>6. CASE Commit
        BY <2>6, <2>2, CommitBackups
    <2>7. CASE Kill \/ Boot \/ BootUnread
        BY <2>7, <2>2, FilesAlone DEF Kill, Boot, BootUnread
    <2>8. CASE PowerLoss
        BY <2>8, PowerLossBackups
    <2> QED
        BY <2>3, <2>5, <2>6, <2>7, <2>8 DEF Next
<1> QED
    BY <1>1, BackupInvariant, PTL DEF Spec, BackupGrows

-----------------------------------------------------------------------------
\* The callers add one message or nothing.
LEMMA CallersAdd ==
    ASSUME NEW i \in Id, Broadcast(i) \/ Incoming(i) \/ StoreStep(i)
    PROVE  Atomic!Add(i) \/ UNCHANGED Atomic!vars
<1>1. Loaded' = Loaded /\ Kept' = Kept
    BY FilesAlone DEF Broadcast, Incoming, StoreStep, SaveSent, SaveIncoming
<1>2. CASE Broadcast(i) \/ Incoming(i)
    BY <1>1, <1>2 DEF Broadcast, Incoming, Atomic!vars
<1>3. CASE StoreStep(i)
    BY <1>1, <1>3 DEF StoreStep, SaveSent, SaveIncoming, SaveMessage, Atomic!Add
<1> QED
    BY <1>2, <1>3

\* A saver saves the whole memory with its rename, and nothing before it.
LEMMA SaverSaves ==
    ASSUME BackupInv, NEW s \in Saver, SaveStep(s) \/ SaveFails(s)
    PROVE  Atomic!Save \/ UNCHANGED Atomic!vars
<1>1. CASE Rename(s)
    BY <1>1, RenameBacksUp DEF Atomic!Save
<1>2. CASE ~Rename(s)
    BY <1>2, SaverLeavesBackups DEF SaveStep, Atomic!vars
<1> QED
    BY <1>1, <1>2

\* A start takes the backup for the memory, or nothing.
LEMMA BootStarts == ASSUME Boot \/ BootUnread PROVE Atomic!Start
<1>1. Loaded' = Loaded /\ Kept' = Kept
    BY FilesAlone DEF Boot, BootUnread
<1> QED
    BY <1>1 DEF Boot, BootUnread, Atomic!Start, Atomic!Nothing, Empty

(***************************************************************************)
(* With one saver the store implements Backup, the store without files:    *)
(* SaveToJSON is atomic, whatever fails on the way, and a power cut takes  *)
(* the store back to the last save that got to the disk.                   *)
(***************************************************************************)
THEOREM OneSaverIsAtomic == ASSUME OneSaver PROVE Spec => ImplementsBackup
<1>1. Init => Atomic!Init
    BY DEF Init, Atomic!Init, Atomic!Nothing, Loaded, Kept, Parsed, Directory, Empty
<1>2. BackupInv /\ [Next]_vars => [Atomic!Next]_(Atomic!vars)
    <2> SUFFICES ASSUME BackupInv, [Next]_vars
                 PROVE  Atomic!Next \/ UNCHANGED Atomic!vars
        OBVIOUS
    <2>1. ASSUME NEW i \in Id, Broadcast(i) \/ Incoming(i) \/ StoreStep(i)
          PROVE  Atomic!Next \/ UNCHANGED Atomic!vars
        BY <2>1, CallersAdd DEF Atomic!Next
    <2>2. ASSUME NEW s \in Saver, SaveStep(s) \/ SaveFails(s)
          PROVE  Atomic!Next \/ UNCHANGED Atomic!vars
        BY <2>2, SaverSaves DEF Atomic!Next
    <2>3. CASE Commit
        BY <2>3, CommitBackups DEF Atomic!Commit, Atomic!Next
    <2>4. CASE Kill
        BY <2>4, FilesAlone DEF Kill, LoseMemory, Empty, Atomic!Crash, Atomic!Nothing, Atomic!Next
    <2>5. CASE PowerLoss
        BY <2>5, PowerLossBackups DEF Empty, Atomic!PowerLoss, Atomic!Nothing, Atomic!Next
    <2>6. CASE Boot \/ BootUnread
        BY <2>6, BootStarts DEF Atomic!Next
    <2>7. CASE UNCHANGED vars
        BY <2>7, FilesAlone DEF vars, memVars, Atomic!vars
    <2> QED
        BY <2>1, <2>2, <2>3, <2>4, <2>5, <2>6, <2>7 DEF Next
<1> QED
    BY <1>1, <1>2, BackupInvariant, PTL DEF Spec, ImplementsBackup, Atomic!Spec
=============================================================================
