------------------------------- MODULE Store -------------------------------
(***************************************************************************)
(* The message store and its JSON backup (pkg/store/store.go), with the    *)
(* callers of cmd/rippled/main.go: concurrent savers (the autosave ticker  *)
(* and Close at shutdown), handleIncomingMessage, broadcastMessage, and    *)
(* crashes at any point followed by a restart from the backup, if it can   *)
(* be read.                                                                *)
(*                                                                         *)
(* The backup file is modelled down to inodes: SaveToJSON opens one fixed  *)
(* temporary path, so two savers may hold the same file open, and a rename *)
(* publishes whatever the file contains by then.  The directory is never   *)
(* fsynced: a power cut takes it back to what the disk has of it.          *)
(***************************************************************************)
EXTENDS Naturals, FiniteSets

CONSTANTS
    Id,             \* message IDs
    Own,            \* the ones this daemon sends itself
    Saver,          \* goroutines that call Autosave
    Inode,          \* files the disk can hold (bound)
    NoFile,         \* no file at a path
    Torn,           \* contents that are not valid JSON: empty or partial
    MaxArrive,      \* bound: calls of handleIncomingMessage per message
    MaxFault,       \* bound: failed creates, writes, syncs, closes, renames, reads
    MaxCrash        \* bound: crashes of the process or the machine

Snapshot == [Id -> Nat]

ASSUME StoreAssumption ==
    /\ Own \subseteq Id /\ NoFile \notin Inode
    /\ Torn \notin Snapshot
    /\ MaxArrive \in Nat /\ MaxFault \in Nat /\ MaxCrash \in Nat

VARIABLES
    up,             \* the process runs
    mem,            \* Store.messages: how often each message is stored
    sent,           \* own messages handed to SendMessage
    unsaved,        \* own messages sent but not yet stored (broadcastMessage)
    arrived,        \* calls of handleIncomingMessage per message
    checked,        \* calls past HasMessage and before SaveMessage
    pc,             \* pc[s]: the next step of saver s in SaveToJSON
    snap,           \* snap[s]: the JSON saver s marshalled
    fd,             \* fd[s]: the file saver s has open
    tmp, target,    \* the files at <path>.json.tmp and <path>.json
    data, durable,  \* contents of a file, and whether they are fsynced
    disk,           \* the two paths as the directory on the disk has them
    blind,          \* history: this process could not read the backup
    fault, crash    \* faults and crashes so far

memVars  == <<mem, sent, unsaved, arrived, checked>>
saveVars == <<pc, snap, fd>>
diskVars == <<tmp, target, data, durable, disk>>
vars     == <<up, memVars, saveVars, diskVars, blind, fault, crash>>

\* What a directory says of the two paths.
Directory(t, b) == [tmp |-> t, target |-> b]

Step == {"idle", "create", "write", "sync", "close", "rename"}

Empty == [i \in Id |-> 0]

\* The savers hold the read lock from the snapshot to the end of the save.
Unlocked == \A s \in Saver : pc[s] = "idle"

-----------------------------------------------------------------------------
\* Mutant of SaveMessage: a save lets go of the lock once it has its snapshot.
SaveMessageUnlocked(i) == mem' = [mem EXCEPT ![i] = @ + 1]

(***************************************************************************)
(* The callers.  SaveMessage appends under the write lock.                 *)
(***************************************************************************)
SaveMessage(i) ==
    /\ Unlocked
    /\ mem' = [mem EXCEPT ![i] = @ + 1]

\* broadcastMessage: SendMessage, then SaveMessage whatever has arrived.  When
\* SendMessage fails nothing is stored and nothing here changes.
Broadcast(i) ==
    /\ up /\ i \in Own \ sent
    /\ sent' = sent \cup {i}
    /\ unsaved' = unsaved \cup {i}
    /\ UNCHANGED <<up, mem, arrived, checked, saveVars, diskVars, blind, fault, crash>>

SaveSent(i) ==
    /\ up /\ i \in unsaved
    /\ SaveMessage(i)
    /\ unsaved' = unsaved \ {i}
    /\ UNCHANGED <<up, sent, arrived, checked, saveVars, diskVars, blind, fault, crash>>

HasMessage(i) == mem[i] > 0

\* handleIncomingMessage: HasMessage and SaveMessage are two critical
\* sections.  A message may come again once the mesh has cleared its seen
\* set, and peers relay our own messages back to us.
Incoming(i) ==
    /\ up /\ arrived[i] < MaxArrive
    /\ i \in Own => i \in sent
    /\ arrived' = [arrived EXCEPT ![i] = @ + 1]
    /\ checked' = [checked EXCEPT ![i] = IF HasMessage(i) THEN @ ELSE @ + 1]
    /\ UNCHANGED <<up, mem, sent, unsaved, saveVars, diskVars, blind, fault, crash>>

SaveIncoming(i) ==
    /\ up /\ checked[i] > 0
    /\ SaveMessage(i)
    /\ checked' = [checked EXCEPT ![i] = @ - 1]
    /\ UNCHANGED <<up, sent, unsaved, arrived, saveVars, diskVars, blind, fault, crash>>

-----------------------------------------------------------------------------
(***************************************************************************)
(* SaveToJSON, one system call per step.                                   *)
(***************************************************************************)
Goto(s, next) == pc' = [pc EXCEPT ![s] = next]
Return(s) == Goto(s, "idle") /\ snap' = [snap EXCEPT ![s] = Empty]

BeginSave(s) ==
    /\ up /\ pc[s] = "idle"
    /\ snap' = [snap EXCEPT ![s] = mem]
    /\ Goto(s, "create")
    /\ UNCHANGED <<up, memVars, fd, diskVars, blind, fault, crash>>

\* The files a path or a saver refers to, and those no one does, nor the
\* directory on the disk.
Referenced == {tmp, target} \cup {fd[s] : s \in Saver}
Unused(f)  == f \notin Referenced \cup {disk.tmp, disk.target}

\* The one the file system takes; which one does not matter.
Fresh == CHOOSE f \in Inode : Unused(f)

\* os.Create truncates the file at the path, or makes a new one.
Create(s) ==
    /\ pc[s] = "create"
    /\ \E f \in Inode :
         /\ IF tmp = NoFile THEN Unused(f) /\ f = Fresh ELSE f = tmp
         /\ fd' = [fd EXCEPT ![s] = f]
         /\ tmp' = f
         /\ data' = [data EXCEPT ![f] = Torn]
         /\ durable' = [durable EXCEPT ![f] = FALSE]
    /\ Goto(s, "write")
    /\ UNCHANGED <<up, memVars, snap, target, disk, blind, fault, crash>>

Write(s) ==
    /\ pc[s] = "write"
    /\ data' = [data EXCEPT ![fd[s]] = snap[s]]
    /\ durable' = [durable EXCEPT ![fd[s]] = FALSE]
    /\ Goto(s, "sync")
    /\ UNCHANGED <<up, memVars, snap, fd, tmp, target, disk, blind, fault, crash>>

\* Mutant of Sync: the file is renamed without fsync.
SyncSkipped(s) ==
    /\ pc[s] = "sync"
    /\ Goto(s, "close")
    /\ UNCHANGED <<up, memVars, snap, fd, diskVars, blind, fault, crash>>

Sync(s) ==
    /\ pc[s] = "sync"
    /\ durable' = [durable EXCEPT ![fd[s]] = TRUE]
    /\ Goto(s, "close")
    /\ UNCHANGED <<up, memVars, snap, fd, tmp, target, data, disk, blind, fault, crash>>

Close(s) ==
    /\ pc[s] = "close"
    /\ fd' = [fd EXCEPT ![s] = NoFile]
    /\ Goto(s, "rename")
    /\ UNCHANGED <<up, memVars, snap, diskVars, blind, fault, crash>>

\* Mutant of Rename: the temporary file is removed, never renamed.
RenameDropped(s) ==
    /\ pc[s] = "rename"
    /\ tmp' = NoFile
    /\ Return(s)
    /\ UNCHANGED <<up, memVars, fd, target, data, durable, disk, blind, fault, crash>>

\* os.Rename; when another saver has already renamed the file, it fails and
\* the removal of the temporary path has nothing to remove.
Rename(s) ==
    /\ pc[s] = "rename"
    /\ target' = IF tmp = NoFile THEN target ELSE tmp
    /\ tmp' = NoFile
    /\ Return(s)
    /\ UNCHANGED <<up, memVars, fd, data, durable, disk, blind, fault, crash>>

\* A step fails: the temporary file is removed, unless it is os.Create that
\* failed, and the error is returned (and logged).
SaveFails(s) ==
    /\ pc[s] # "idle" /\ fault < MaxFault
    /\ fault' = fault + 1
    /\ fd' = [fd EXCEPT ![s] = NoFile]
    /\ tmp' = IF pc[s] = "create" THEN tmp ELSE NoFile
    /\ Return(s)
    /\ UNCHANGED <<up, memVars, target, data, durable, disk, blind, crash>>

-----------------------------------------------------------------------------
\* The operating system writes the directory back, whenever it likes.
Commit ==
    /\ disk # Directory(tmp, target)
    /\ disk' = Directory(tmp, target)
    /\ data' = [f \in Inode |-> IF f \in Referenced THEN data[f] ELSE Torn]
    /\ durable' = [f \in Inode |-> IF f \in Referenced THEN durable[f] ELSE TRUE]
    /\ UNCHANGED <<up, memVars, saveVars, tmp, target, blind, fault, crash>>

\* The process is gone, and all it had in memory.
LoseMemory ==
    /\ crash < MaxCrash /\ crash' = crash + 1
    /\ up' = FALSE /\ blind' = FALSE
    /\ mem' = Empty /\ unsaved' = {} /\ checked' = Empty
    /\ pc' = [s \in Saver |-> "idle"]
    /\ snap' = [s \in Saver |-> Empty] /\ fd' = [s \in Saver |-> NoFile]
    /\ UNCHANGED <<sent, arrived, fault>>

\* The process ends at any point: a kill, /quit, or the end of main while the
\* autosave goroutine is inside SaveToJSON.  The files stay as they are.
Kill == up /\ LoseMemory /\ UNCHANGED diskVars

\* The machine ends at any point.  The directory is what the disk has of it,
\* and contents that were not fsynced may be lost.
PowerLoss ==
    /\ LoseMemory
    /\ tmp' = disk.tmp /\ target' = disk.target
    /\ \E lost \in SUBSET {f \in Inode : ~durable[f]} :
         data' = [f \in Inode |-> IF f \in lost \/ f \notin {tmp', target'} THEN Torn ELSE data[f]]
    /\ durable' = [f \in Inode |-> TRUE]
    /\ UNCHANGED disk

\* Mutant of Loaded: a left-over temporary file is taken for the backup.
LoadedTmp == IF tmp # NoFile THEN data[tmp] ELSE Empty

\* What LoadFromJSON makes of the file at a path.
Parsed(f) == IF f # NoFile /\ data[f] # Torn THEN data[f] ELSE Empty

\* What a start restores when it can read the backup.
Loaded == Parsed(target)

\* Mutant of Boot: the backup is not restored.
BootForgets ==
    /\ ~up
    /\ up' = TRUE
    /\ UNCHANGED <<memVars, saveVars, diskVars, blind, fault, crash>>

\* NewWithDB restores the backup ...
Boot ==
    /\ ~up
    /\ up' = TRUE
    /\ mem' = Loaded
    /\ UNCHANGED <<sent, unsaved, arrived, checked, saveVars, diskVars, blind, fault, crash>>

\* ... and ignores the error when it cannot be read: it starts empty.
BootUnread ==
    /\ ~up /\ target # NoFile /\ fault < MaxFault
    /\ fault' = fault + 1
    /\ up' = TRUE /\ blind' = TRUE
    /\ mem' = Empty
    /\ UNCHANGED <<sent, unsaved, arrived, checked, saveVars, diskVars, crash>>

-----------------------------------------------------------------------------
Init ==
    /\ up = TRUE
    /\ mem = Empty
    /\ sent = {} /\ unsaved = {} /\ arrived = Empty /\ checked = Empty
    /\ pc = [s \in Saver |-> "idle"]
    /\ snap = [s \in Saver |-> Empty]
    /\ fd = [s \in Saver |-> NoFile]
    /\ tmp = NoFile /\ target = NoFile
    /\ data = [f \in Inode |-> Torn]
    /\ durable = [f \in Inode |-> TRUE]
    /\ disk = Directory(NoFile, NoFile)
    /\ blind = FALSE /\ fault = 0 /\ crash = 0

SaveStep(s) ==
    BeginSave(s) \/ Create(s) \/ Write(s) \/ Sync(s) \/ Close(s) \/ Rename(s)

StoreStep(i) == SaveSent(i) \/ SaveIncoming(i)

Next ==
    \/ \E i \in Id : Broadcast(i) \/ Incoming(i) \/ StoreStep(i)
    \/ \E s \in Saver : SaveStep(s) \/ SaveFails(s)
    \/ Commit \/ Kill \/ PowerLoss
    \/ Boot \/ BootUnread

Spec == Init /\ [][Next]_vars

\* The ticker fires again and again and a save that has begun runs on.
FairSpec == Spec /\ \A s \in Saver : WF_vars(SaveStep(s))

-----------------------------------------------------------------------------
\* Type invariant: what is loaded at startup and what a save writes is a
\* snapshot; torn contents never get into the memory of the store.
TypeOK ==
    /\ up \in BOOLEAN
    /\ mem \in Snapshot
    /\ sent \subseteq Own /\ unsaved \subseteq Own
    /\ arrived \in [Id -> Nat] /\ checked \in [Id -> Nat]
    /\ pc \in [Saver -> Step]
    /\ snap \in [Saver -> Snapshot]
    /\ fd \in [Saver -> Inode \cup {NoFile}]
    /\ tmp \in Inode \cup {NoFile} /\ target \in Inode \cup {NoFile}
    /\ data \in [Inode -> Snapshot \cup {Torn}]
    /\ durable \in [Inode -> BOOLEAN]
    /\ disk \in [tmp : Inode \cup {NoFile}, target : Inode \cup {NoFile}]
    /\ blind \in BOOLEAN
    /\ fault \in Nat /\ crash \in Nat

Leq(a, b) == \A i \in Id : a[i] <= b[i]

(***************************************************************************)
(* The promise of SaveToJSON: once there is a backup, the file at the      *)
(* backup path is a complete snapshot that a crash cannot damage.          *)
(***************************************************************************)
BackupIntact ==
    target # NoFile => data[target] # Torn /\ durable[target]

\* What a start restores when the power goes now.
Kept == Parsed(disk.target)

(***************************************************************************)
(* How the backup can lose what it held.  Over saves, failed saves, kills  *)
(* and restarts it only grows, but for two cases: a power cut brings back  *)
(* the backup the directory on the disk has, since the rename is never     *)
(* fsynced, and a process that could not read the backup at its start, an  *)
(* error NewWithDB ignores, saves its own messages over it.                *)
(***************************************************************************)
BackupGrows ==
    [][Leq(Loaded, Loaded') \/ blind \/ (~up' /\ Loaded' = Kept)]_vars

(***************************************************************************)
(* The autosave bounds what a crash can lose: a stored message gets into   *)
(* the backup unless the process ends first.                               *)
(***************************************************************************)
EventuallyBackedUp ==
    \A i \in Id : mem[i] > 0 ~>
        \/ mem[i] = 0
        \/ target # NoFile /\ data[target] # Torn /\ data[target][i] > 0

-----------------------------------------------------------------------------
\* The store as its users see it: the backup is what a start would load.
Atomic == INSTANCE Backup WITH backup <- Loaded, kept <- Kept

(***************************************************************************)
(* The store implements Backup: every system call of SaveToJSON is         *)
(* invisible except the rename, which saves the whole memory as it is at   *)
(* that moment; no failed call, kill or left-over temporary file, and no   *)
(* start that could not read the backup, changes what the next start will  *)
(* load; and a power cut changes it to the last one that got to the disk.  *)
(***************************************************************************)
ImplementsBackup == Atomic!Spec
=============================================================================
