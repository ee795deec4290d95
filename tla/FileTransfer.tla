---------------------------- MODULE FileTransfer ----------------------------
(***************************************************************************)
(* One file sent from a daemon to another (pkg/filetransfer/transfer.go):  *)
(* SendFile and sendFileStream on one side, handleStream on the other, the *)
(* libp2p stream between them, and the transfer as the two apps show it    *)
(* after merging the frames their bridges send (app_state.dart).           *)
(*                                                                         *)
(* Bytes are file offsets: the data of a chunk is the interval of offsets  *)
(* it was read from, and the output file is the sequence of the intervals  *)
(* written to it.                                                          *)
(***************************************************************************)
EXTENDS Integers, Sequences

CONSTANTS
    ChunkSize,      \* DefaultChunkSize, in bytes
    MaxSize,        \* bound: size of the file
    Window,         \* bound: packets the stream buffers
    MaxFault,       \* bound: I/O errors, timeouts and connection losses
    MaxResize,      \* bound: times the user truncates or extends the file
    MaxCancel,      \* bound: calls of CancelTransfer
    MaxMissed       \* bound: frames that do not reach an app

ASSUME FileAssumption ==
    /\ ChunkSize \in Nat \ {0} /\ Window \in Nat \ {0}
    /\ MaxSize \in Nat /\ MaxFault \in Nat
    /\ MaxResize \in Nat /\ MaxCancel \in Nat /\ MaxMissed \in Nat

VARIABLES
    fileLen, pos,   \* the source file: its length, and the read offset
    nameOk,         \* the receiver accepts the file's name
    meta,           \* size and chunk count announced
    spc, sIdx,      \* the sending goroutine: its step and its loop index
    sstatus,        \* Transfer.Status at the sender
    conn, wire,     \* the stream and the packets in it
    rpc, rIdx,      \* the receiving handler: its step and its loop index
    rstatus,        \* Transfer.Status at the receiver
    chunks,         \* Transfer.Chunks at the receiver
    out,            \* the output file
    sapp, rapp,     \* the transfer's status in the two apps
    faults, resized, cancelled, missed

sendVars == <<fileLen, pos, nameOk, meta, spc, sIdx, sstatus>>
recvVars == <<rpc, rIdx, rstatus, chunks, out>>
bounds   == <<faults, resized, cancelled, missed>>
vars     == <<sendVars, recvVars, conn, wire, sapp, rapp, bounds>>

\* Mutant of ChunkCount: the last, partial chunk is forgotten.
ChunkCountFloor(size) == size \div ChunkSize

ChunkCount(size) == (size + ChunkSize - 1) \div ChunkSize

MaxCount == (MaxSize + ChunkSize - 1) \div ChunkSize

Interval == [from : 0..MaxSize, to : 0..MaxSize]
NoData   == [from |-> 0, to |-> 0]

Status == {"none", "pending", "sending", "receiving", "complete", "failed", "cancelled"}

-----------------------------------------------------------------------------
(***************************************************************************)
(* The app's view.  A frame with a final status sets it; any other frame   *)
(* creates the entry or gives a pending one a direction, and only the      *)
(* started frame names the sender, by which an incoming file is told.      *)
(***************************************************************************)
\* Mutant of Merge: the sender of a new transfer is not looked at.
MergeBlind(a, frame) ==
    CASE frame = "complete"                    -> "complete"
      [] a = "none" /\ frame # "complete"      -> "pending"
      [] a = "pending" /\ frame # "complete"   -> "sending"
      [] OTHER                                 -> a

\* Mutant of Merge: an active transfer keeps its status.
MergeKeeps(a, frame) ==
    IF a \in {"sending", "receiving"} THEN a
    ELSE IF frame = "started" THEN "receiving" ELSE frame

Merge(a, frame) ==
    CASE frame = "complete"                    -> "complete"
      [] a = "none" /\ frame = "started"       -> "receiving"
      [] a = "none" /\ frame = "progress"      -> "pending"
      [] a = "pending" /\ frame # "complete"   -> "sending"
      [] OTHER                                 -> a

\* The bridge skips an app that is not connected or whose buffer is full.
NotifySender(frame) ==
    /\ UNCHANGED rapp
    /\ \/ sapp' = Merge(sapp, frame) /\ UNCHANGED missed
       \/ missed < MaxMissed /\ missed' = missed + 1 /\ UNCHANGED sapp

NotifyReceiver(frame) ==
    /\ UNCHANGED sapp
    /\ \/ rapp' = Merge(rapp, frame) /\ UNCHANGED missed
       \/ missed < MaxMissed /\ missed' = missed + 1 /\ UNCHANGED rapp

NoNotice == UNCHANGED <<sapp, rapp, missed>>

\* An error that the environment chooses.
Fault == faults < MaxFault /\ faults' = faults + 1

-----------------------------------------------------------------------------
(***************************************************************************)
(* The sender.                                                             *)
(***************************************************************************)
\* AppState.sendFile, then the bridge's handleIncomingFile and SendFile.
SendFile ==
    /\ spc = "idle"
    /\ meta' = [size |-> fileLen, count |-> ChunkCount(fileLen)]
    /\ sstatus' = "pending"
    /\ spc' = "start"
    /\ sapp' = Merge("sending", "started")
    /\ UNCHANGED <<fileLen, pos, nameOk, sIdx, recvVars, conn, wire, rapp, bounds>>

\* The file cannot be opened: the bridge answers with an error frame, which
\* the app does not relate to the transfer it already shows.
SendFileFails ==
    /\ spc = "idle" /\ Fault
    /\ spc' = "done"
    /\ sapp' = "sending"
    /\ UNCHANGED <<fileLen, pos, nameOk, meta, sIdx, sstatus, recvVars, conn, wire, rapp,
                   resized, cancelled, missed>>

StartSending ==
    /\ spc = "start"
    /\ sstatus' = "sending"
    /\ spc' = "open"
    /\ UNCHANGED <<fileLen, pos, nameOk, meta, sIdx, recvVars, conn, wire, sapp, rapp, bounds>>

OpenStream ==
    /\ spc = "open"
    /\ conn' = "open"
    /\ spc' = "meta"
    /\ UNCHANGED <<fileLen, pos, nameOk, meta, sIdx, sstatus, recvVars, wire, sapp, rapp, bounds>>

CanWrite == conn = "open" /\ Len(wire) < Window

\* What was written after the receiver went away is lost.
WritePacket(p) == wire' = IF rpc = "done" THEN wire ELSE Append(wire, p)

SendMeta ==
    /\ spc = "meta" /\ CanWrite
    /\ WritePacket([type |-> "meta"])
    /\ spc' = "chunks"
    /\ UNCHANGED <<fileLen, pos, nameOk, meta, sIdx, sstatus, recvVars, conn, sapp, rapp, bounds>>

\* file.Read fills the buffer or reaches the end of the file.
ReadUpTo == IF pos + ChunkSize <= fileLen THEN pos + ChunkSize ELSE fileLen

\* Mutant of AtEnd: the loop runs to the end of the file.
AtEndByBytes == pos >= fileLen

AtEnd == sIdx = meta.count \/ pos >= fileLen

SendChunk ==
    /\ spc = "chunks" /\ ~AtEnd /\ CanWrite
    /\ WritePacket([type |-> "chunk", idx |-> sIdx, data |-> [from |-> pos, to |-> ReadUpTo]])
    /\ pos' = ReadUpTo
    /\ sIdx' = sIdx + 1
    /\ NotifySender("progress")
    /\ UNCHANGED <<fileLen, nameOk, meta, spc, sstatus, recvVars, conn, faults, resized, cancelled>>

\* stream.Close: the receiver still reads what is in the stream.
CloseStream == conn' = IF conn = "open" THEN "eof" ELSE conn

FinishSend ==
    /\ spc = "chunks" /\ AtEnd
    /\ sstatus' = "complete"
    /\ spc' = "done"
    /\ CloseStream
    /\ NotifySender("complete")
    /\ UNCHANGED <<fileLen, pos, nameOk, meta, sIdx, recvVars, wire, faults, resized, cancelled>>

\* failTransfer: no stream, a failed read, or a failed write.  Nothing is
\* sent to the app.
SendFails ==
    /\ \/ spc \in {"open", "meta"}
       \/ spc = "chunks" /\ ~AtEnd
    /\ \/ conn = "reset" /\ UNCHANGED faults
       \/ rpc = "done" /\ UNCHANGED faults
       \/ Fault
    /\ sstatus' = "failed"
    /\ spc' = "done"
    /\ CloseStream
    /\ NoNotice
    /\ UNCHANGED <<fileLen, pos, nameOk, meta, sIdx, recvVars, wire, resized, cancelled>>

-----------------------------------------------------------------------------
(***************************************************************************)
(* The receiver.                                                           *)
(***************************************************************************)
Readable == conn \in {"open", "eof"} /\ wire # << >>

\* handleStream up to the loop; a name it does not accept ends it.
ReadMeta ==
    /\ rpc = "none" /\ Readable
    /\ wire' = Tail(wire)
    /\ IF nameOk
       THEN rpc' = "read" /\ rstatus' = "receiving" /\ NotifyReceiver("started")
       ELSE rpc' = "done" /\ UNCHANGED rstatus /\ NoNotice
    /\ UNCHANGED <<sendVars, rIdx, chunks, out, conn, faults, resized, cancelled>>

ReadChunk ==
    /\ rpc = "read" /\ rIdx < meta.count /\ Readable
    /\ wire' = Tail(wire)
    /\ chunks' = [chunks EXCEPT ![Head(wire).idx] = Head(wire).data]
    /\ rIdx' = rIdx + 1
    /\ NotifyReceiver("progress")
    /\ UNCHANGED <<sendVars, rpc, rstatus, out, conn, faults, resized, cancelled>>


\* No further packet can come.
Broken == conn = "reset" \/ (conn = "eof" /\ wire = << >>)

\* A read fails, or the deadline passes.
ReadFails ==
    /\ \/ rpc = "none" /\ conn # "none"
       \/ rpc = "read" /\ rIdx < meta.count
    /\ (Broken /\ UNCHANGED faults) \/ Fault
    /\ rpc' = "done"
    /\ rstatus' = IF rpc = "read" THEN "failed" ELSE rstatus
    /\ NoNotice
    /\ UNCHANGED <<sendVars, rIdx, chunks, out, conn, wire, resized, cancelled>>

Reassemble ==
    /\ rpc = "read" /\ rIdx = meta.count
    /\ \A i \in 0..meta.count - 1 : chunks[i] # NoData
    /\ out' = [i \in 1..meta.count |-> chunks[i - 1]]
    /\ rstatus' = "complete"
    /\ rpc' = "done"
    /\ NotifyReceiver("complete")
    /\ UNCHANGED <<sendVars, rIdx, chunks, conn, wire, faults, resized, cancelled>>

\* The output file cannot be created or written in full.
ReassembleFails ==
    /\ rpc = "read" /\ rIdx = meta.count
    /\ Fault
    /\ \E n \in 0..meta.count : out' = [i \in 1..n |-> chunks[i - 1]]
    /\ rstatus' = "failed"
    /\ rpc' = "done"
    /\ NoNotice
    /\ UNCHANGED <<sendVars, rIdx, chunks, conn, wire, resized, cancelled>>

-----------------------------------------------------------------------------
\* The connection breaks: what is in the stream is lost.
LoseConnection ==
    /\ conn \in {"open", "eof"} /\ Fault
    /\ conn' = "reset"
    /\ wire' = << >>
    /\ UNCHANGED <<sendVars, recvVars, sapp, rapp, resized, cancelled, missed>>

\* The user changes the length of the file while it is read.
ResizeFile ==
    /\ spc # "idle" /\ resized < MaxResize
    /\ resized' = resized + 1
    /\ fileLen' \in 0..MaxSize
    /\ UNCHANGED <<pos, nameOk, meta, spc, sIdx, sstatus, recvVars, conn, wire, sapp, rapp,
                   faults, cancelled, missed>>

\* CancelTransfer sets the status; no goroutine looks at it.
Cancellable(status) == status \notin {"none", "complete"}

CancelSend ==
    /\ Cancellable(sstatus) /\ cancelled < MaxCancel
    /\ cancelled' = cancelled + 1
    /\ sstatus' = "cancelled"
    /\ UNCHANGED <<fileLen, pos, nameOk, meta, spc, sIdx, recvVars, conn, wire, sapp, rapp,
                   faults, resized, missed>>

CancelReceive ==
    /\ Cancellable(rstatus) /\ cancelled < MaxCancel
    /\ cancelled' = cancelled + 1
    /\ rstatus' = "cancelled"
    /\ UNCHANGED <<sendVars, rpc, rIdx, chunks, out, conn, wire, sapp, rapp,
                   faults, resized, missed>>

-----------------------------------------------------------------------------
Init ==
    /\ fileLen \in 0..MaxSize /\ pos = 0
    /\ nameOk \in BOOLEAN
    /\ meta = [size |-> 0, count |-> 0]
    /\ spc = "idle" /\ sIdx = 0 /\ sstatus = "none"
    /\ conn = "none" /\ wire = << >>
    /\ rpc = "none" /\ rIdx = 0 /\ rstatus = "none"
    /\ chunks = [i \in 0..MaxCount - 1 |-> NoData]
    /\ out = << >>
    /\ sapp = "none" /\ rapp = "none"
    /\ faults = 0 /\ resized = 0 /\ cancelled = 0 /\ missed = 0

SenderStep ==
    StartSending \/ OpenStream \/ SendMeta \/ SendChunk \/ FinishSend \/ SendFails

ReceiverStep == ReadMeta \/ ReadChunk \/ ReadFails \/ Reassemble

Next ==
    \/ SendFile \/ SendFileFails \/ SenderStep
    \/ ReceiverStep \/ ReassembleFails
    \/ LoseConnection \/ ResizeFile \/ CancelSend \/ CancelReceive

Spec == Init /\ [][Next]_vars

\* The two goroutines run on; a fault is never owed.
FairSpec == Spec /\ WF_vars(SenderStep) /\ WF_vars(ReceiverStep)

-----------------------------------------------------------------------------
\* Type invariant: read offsets stay in the file, loop indices in the
\* announced count, and the stream in its window.
TypeOK ==
    /\ fileLen \in 0..MaxSize /\ pos \in 0..MaxSize
    /\ nameOk \in BOOLEAN
    /\ meta \in [size : 0..MaxSize, count : 0..MaxCount]
    /\ spc \in {"idle", "start", "open", "meta", "chunks", "done"}
    /\ rpc \in {"none", "read", "done"}
    /\ sIdx \in 0..meta.count /\ rIdx \in 0..meta.count
    /\ sstatus \in Status /\ rstatus \in Status
    /\ sapp \in Status /\ rapp \in Status
    /\ conn \in {"none", "open", "eof", "reset"}
    /\ Len(wire) <= Window
    /\ chunks \in [0..MaxCount - 1 -> Interval]
    /\ \A i \in 1..Len(out) : out[i] \in Interval

(***************************************************************************)
(* A file the receiver reports as complete has every announced chunk, in   *)
(* order, without a gap or an overlap, whatever happened to the stream and *)
(* even when the source changed its length meanwhile; when it did not, the *)
(* file is as long as announced.                                           *)
(***************************************************************************)
OutputIntact ==
    rstatus = "complete" =>
      /\ Len(out) = meta.count
      /\ \A i \in 1..Len(out) :
           /\ out[i].from = IF i = 1 THEN 0 ELSE out[i - 1].to
           /\ out[i].from < out[i].to
      /\ resized = 0 /\ meta.size > 0 => out # << >> /\ out[Len(out)].to = meta.size


(***************************************************************************)
(* When the receiver has the file, the sender does not end up reporting a  *)
(* failure: it says complete, whatever breaks after the last chunk.        *)
(***************************************************************************)
ReceivedMeansSent == [](rstatus = "complete" => <>[](sstatus = "complete"))

(***************************************************************************)
(* A transfer that completes is shown as complete in the end, at both      *)
(* sides, unless a frame is missed.                                        *)
(***************************************************************************)
AppsSeeComplete ==
    /\ rstatus = "complete" ~> rapp = "complete" \/ missed > 0
    /\ sstatus = "complete" ~> sapp = "complete" \/ missed > 0

(***************************************************************************)
(* "A brand-new transfer: from the wire it can only be incoming": as long  *)
(* as no frame is missed, the receiver's app never shows the file as one   *)
(* that it sends.                                                          *)
(***************************************************************************)
OnlyIncoming == missed = 0 => rapp # "sending"
=============================================================================
