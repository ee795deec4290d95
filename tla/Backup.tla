------------------------------ MODULE Backup -------------------------------
(***************************************************************************)
(* What the message store promises its users, without files: a memory of   *)
(* messages and a backup of it.  A save puts the whole memory into the     *)
(* backup at one instant or does nothing, and some time later the disk has *)
(* it; a crash loses the memory, a power cut also what the disk does not   *)
(* have yet; a start takes the backup for the memory or, when it cannot    *)
(* read it, nothing.  Store, with its temporary file, system calls that    *)
(* fail one by one, contents that a power cut can tear and a directory     *)
(* that is never fsynced, implements it.                                   *)
(***************************************************************************)
EXTENDS Naturals

CONSTANT Id         \* message IDs

VARIABLES
    up, mem,        \* the process runs; its messages
    backup,         \* what the next start finds
    kept            \* what it finds after a power cut

vars == <<up, mem, backup, kept>>

Nothing == [i \in Id |-> 0]

Init == up = TRUE /\ mem = Nothing /\ backup = Nothing /\ kept = Nothing

Add(i) ==
    /\ up
    /\ mem' = [mem EXCEPT ![i] = @ + 1]
    /\ UNCHANGED <<up, backup, kept>>

Save ==
    /\ up
    /\ backup' = mem
    /\ UNCHANGED <<up, mem, kept>>

Commit ==
    /\ kept' = backup
    /\ UNCHANGED <<up, mem, backup>>

Crash ==
    /\ up' = FALSE
    /\ mem' = Nothing
    /\ UNCHANGED <<backup, kept>>

PowerLoss ==
    /\ up' = FALSE
    /\ mem' = Nothing
    /\ backup' = kept
    /\ UNCHANGED kept

Start ==
    /\ ~up
    /\ up' = TRUE
    /\ mem' \in {backup, Nothing}
    /\ UNCHANGED <<backup, kept>>

Next == (\E i \in Id : Add(i)) \/ Save \/ Commit \/ Crash \/ PowerLoss \/ Start

Spec == Init /\ [][Next]_vars
=============================================================================
