------------------------- MODULE FileTransferProofs -------------------------
(***************************************************************************)
(* Proofs about FileTransfer, for files, chunks and windows of any size: a *)
(* file that is reported as complete is the file that was sent, a file     *)
(* that comes from the wire is never shown as one that is sent, and the    *)
(* sender and the apps agree with a receiver that has the file.            *)
(***************************************************************************)
EXTENDS FileTransfer, TLAPS

-----------------------------------------------------------------------------
(***************************************************************************)
(* The inductive invariant.  Types, with what the stream carries.          *)
(***************************************************************************)
Packet == [type : {"meta"}]
            \cup [type : {"chunk"}, idx : 0..MaxCount - 1, data : Interval]

TypeInv ==
    /\ TypeOK
    /\ wire \in Seq(Packet)
    /\ resized \in Nat /\ missed \in Nat
    /\ meta.count = ChunkCount(meta.size)

\* The steps of the two goroutines that go together with the stream.
ControlInv ==
    /\ spc \in {"idle", "start", "open"} => conn = "none"
    /\ spc \in {"idle", "start", "open", "meta"} => sIdx = 0 /\ pos = 0 /\ wire = << >>
    /\ spc = "idle" => resized = 0
    /\ conn = "none" => wire = << >> /\ rpc = "none"
    /\ conn = "reset" => wire = << >>
    /\ rpc = "none" => rIdx = 0
    /\ rpc = "read" => spc # "meta"
    /\ rpc = "none" /\ conn \in {"open", "eof"} /\ spc = "chunks" => wire # << >>
    /\ rstatus = "complete" => rpc = "done"

\* Packets in front of the first chunk in the stream.
Lead == IF rpc = "none" /\ wire # << >> THEN 1 ELSE 0

\* Where the chunk with the receiver's index has to begin.
Front == IF rIdx = 0 THEN 0 ELSE chunks[rIdx - 1].to

\* The chunks in the stream continue what the receiver has, one after the
\* other, up to the sender's index and read offset.
StreamInv ==
    conn # "reset" /\ rpc # "done" =>
        /\ sIdx = rIdx + Len(wire) - Lead
        /\ \A j \in Lead + 1..Len(wire) :
              /\ wire[j].type = "chunk" /\ wire[j].idx = rIdx + j - Lead - 1
              /\ wire[j].data.from < wire[j].data.to
              /\ wire[j].data.from = IF j = Lead + 1 THEN Front ELSE wire[j - 1].data.to
        /\ pos = IF Len(wire) > Lead THEN wire[Len(wire)].data.to ELSE Front

\* The chunks received are adjacent.
ChunksInv ==
    \A i \in 0..rIdx - 1 :
        /\ chunks[i].from < chunks[i].to
        /\ chunks[i].from = IF i = 0 THEN 0 ELSE chunks[i - 1].to

\* Where chunk i begins in a file that keeps its length.
Edge(i) == IF i * ChunkSize <= meta.size THEN i * ChunkSize ELSE meta.size

SizeInv ==
    resized = 0 =>
        /\ spc \in {"start", "open", "meta", "chunks"} => fileLen = meta.size /\ pos = Edge(sIdx)
        /\ \A j \in 1..Len(wire) : wire[j].type = "chunk" =>
              wire[j].data.to = Edge(wire[j].idx + 1)
        /\ \A i \in 0..rIdx - 1 : chunks[i].to = Edge(i + 1)

FileInv == TypeInv /\ ControlInv /\ StreamInv /\ ChunksInv /\ SizeInv /\ OutputIntact

\* As long as no frame is missed, the app hears of the start first.
IncomingInv ==
    missed = 0 => /\ rpc = "none" => rapp = "none"
                  /\ rpc = "read" => rapp = "receiving"
                  /\ rapp # "sending"

USE DEF sendVars, recvVars, bounds

-----------------------------------------------------------------------------
(***************************************************************************)
(* Arithmetic: the announced chunks cover the file and fit the bound.      *)
(***************************************************************************)
LEMMA DivFacts ==
    ASSUME NEW a \in Nat, NEW b \in Nat \ {0}
    PROVE  /\ a \div b \in Nat
           /\ (a \div b) * b <= a /\ a < (a \div b) * b + b
OBVIOUS

\* Multiplication is monotonic.
LEMMA MultMono ==
    ASSUME NEW a \in Nat, NEW b \in Nat, NEW c \in Nat, a <= b
    PROVE  a * c \in Nat /\ b * c \in Nat /\ a * c <= b * c
OBVIOUS

\* One chunk more is ChunkSize bytes more.
LEMMA Distribute ==
    ASSUME NEW i \in Nat
    PROVE  (i + 1) * ChunkSize = i * ChunkSize + ChunkSize /\ i * ChunkSize \in Nat
BY FileAssumption

\* The rounded-up count: the chunks cover the file, and an empty file has none.
LEMMA ChunkCountFacts ==
    ASSUME NEW size \in Nat
    PROVE  /\ ChunkCount(size) \in Nat
           /\ size <= ChunkCount(size) * ChunkSize
           /\ size = 0 <=> ChunkCount(size) = 0
           /\ size <= MaxSize => ChunkCount(size) <= MaxCount
<1> DEFINE q == ChunkCount(size)
<1>1. ChunkSize \in Nat \ {0} /\ MaxSize \in Nat
    BY FileAssumption
<1>2. /\ q \in Nat /\ q * ChunkSize <= size + ChunkSize - 1
      /\ size + ChunkSize - 1 < q * ChunkSize + ChunkSize
    BY <1>1, DivFacts DEF ChunkCount
<1>3. q * ChunkSize \in Nat
    BY <1>1, <1>2
<1>4. size <= q * ChunkSize
    BY <1>1, <1>2, <1>3
<1>5. size > 0 => q # 0
    BY <1>1, <1>4
<1>6. size = 0 => q = 0
    <2> SUFFICES ASSUME size = 0, q >= 1
                 PROVE  FALSE
        BY <1>2
    <2>1. 1 * ChunkSize <= q * ChunkSize
        BY <1>1, <1>2, MultMono
    <2> QED BY <1>1, <1>2, <1>3, <2>1
<1>7. size <= MaxSize => q <= MaxCount
    <2> SUFFICES ASSUME size <= MaxSize, ~(q <= MaxCount)
                 PROVE  FALSE
        OBVIOUS
    <2>1. MaxCount \in Nat /\ MaxSize + ChunkSize - 1 < MaxCount * ChunkSize + ChunkSize
        BY <1>1, DivFacts DEF MaxCount
    <2>2. MaxCount + 1 <= q
        BY <1>2, <2>1
    <2>3. (MaxCount + 1) * ChunkSize <= q * ChunkSize
        BY <1>1, <1>2, <2>1, <2>2, MultMono
    <2>4. (MaxCount + 1) * ChunkSize = MaxCount * ChunkSize + ChunkSize
              /\ MaxCount * ChunkSize \in Nat
        BY <2>1, Distribute
    <2> QED BY <1>1, <1>2, <1>3, <2>1, <2>3, <2>4
<1> QED BY <1>2, <1>4, <1>5, <1>6, <1>7

\* The largest number of chunks is a number.
LEMMA MaxCountType == MaxCount \in Nat
BY ChunkCountFacts, FileAssumption DEF MaxCount, ChunkCount

\* Where the chunks begin and end: in steps of ChunkSize, the last one cut at the size.
LEMMA EdgeFacts ==
    ASSUME TypeInv
    PROVE  /\ \A i \in Nat : Edge(i) \in Nat /\ Edge(i) <= meta.size
           /\ Edge(0) = 0 /\ Edge(meta.count) = meta.size
           /\ \A i \in Nat : Edge(i) < meta.size =>
                 Edge(i + 1) = IF Edge(i) + ChunkSize <= meta.size THEN Edge(i) + ChunkSize
                               ELSE meta.size
<1>1. meta.size \in Nat /\ ChunkSize \in Nat \ {0} /\ meta.count = ChunkCount(meta.size)
    BY FileAssumption DEF TypeInv, TypeOK
<1>2. \A i \in Nat : i * ChunkSize \in Nat /\ (i + 1) * ChunkSize = i * ChunkSize + ChunkSize
    BY Distribute
<1>3. 0 * ChunkSize = 0
    BY <1>1
<1>4. meta.size <= meta.count * ChunkSize /\ meta.count * ChunkSize \in Nat
    BY <1>1, <1>2, ChunkCountFacts
<1> QED BY <1>1, <1>2, <1>3, <1>4 DEF Edge

\* What the app makes of a frame is a status.
LEMMA MergeType ==
    ASSUME NEW a \in Status, NEW frame
    PROVE  Merge(a, frame) \in Status
BY DEF Merge, Status

\* A notification, missed or not, leaves the apps with a status.
LEMMA NotifyFacts ==
    ASSUME TypeInv, NEW frame, NotifySender(frame) \/ NotifyReceiver(frame) \/ NoNotice
    PROVE  sapp' \in Status /\ rapp' \in Status /\ missed' \in Nat
BY MergeType DEF NotifySender, NotifyReceiver, NoNotice, TypeInv, TypeOK

(***************************************************************************)
(* The first state.                                                        *)
(***************************************************************************)
LEMMA FileInvInit == Init => FileInv
<1> SUFFICES ASSUME Init
             PROVE  FileInv
    OBVIOUS
<1>1. MaxCount \in Nat /\ ChunkCount(0) = 0 /\ ChunkSize \in Nat \ {0} /\ MaxSize \in Nat
    BY FileAssumption, ChunkCountFacts DEF MaxCount, ChunkCount
<1>2. meta \in [size : 0..MaxSize, count : 0..MaxCount] /\ meta.count = 0 /\ meta.size = 0
    BY <1>1 DEF Init
<1>3. chunks \in [0..MaxCount - 1 -> Interval]
    BY <1>1 DEF Init, NoData, Interval
<1>4. wire \in Seq(Packet) /\ Len(wire) = 0
    BY DEF Init
<1>5. TypeOK
    BY <1>1, <1>2, <1>3, <1>4, FileAssumption DEF Init, TypeOK, Status
<1>6. TypeInv
    BY <1>1, <1>2, <1>4, <1>5 DEF TypeInv, Init
<1>7. ControlInv /\ StreamInv /\ ChunksInv /\ SizeInv /\ OutputIntact
    BY <1>4 DEF Init, ControlInv, StreamInv, Lead, Front, ChunksInv, SizeInv, OutputIntact
<1> QED BY <1>6, <1>7 DEF FileInv

-----------------------------------------------------------------------------
(***************************************************************************)
(* Steps that move no data: only the control state has to be looked at.    *)
(***************************************************************************)
LEMMA ControlStep ==
    ASSUME FileInv, UNCHANGED <<fileLen, pos, nameOk, meta, sIdx, wire, rIdx, chunks, resized>>,
           spc' \in {"idle", "start", "open", "meta", "chunks", "done"},
           rpc' \in {"none", "read", "done"},
           conn' \in {"none", "open", "eof", "reset"},
           {sstatus', rstatus', sapp', rapp'} \subseteq Status, missed' \in Nat,
           \A i \in 1..Len(out') : out'[i] \in Interval,
           ControlInv',
           conn' # "reset" /\ rpc' # "done" => conn # "reset" /\ rpc' = rpc,
           spc' \in {"start", "open", "meta", "chunks"} =>
               spc \in {"start", "open", "meta", "chunks"},
           OutputIntact'
    PROVE  FileInv'
<1>1. TypeInv'
    BY DEF FileInv, TypeInv, TypeOK
<1>2. StreamInv'
    BY DEF FileInv, StreamInv, Lead, Front
<1>3. ChunksInv' /\ SizeInv'
    BY DEF FileInv, ChunksInv, SizeInv, Edge
<1> QED BY <1>1, <1>2, <1>3 DEF FileInv

\* OutputIntact is kept by a step that completes nothing.
LEMMA OutputSame ==
    ASSUME OutputIntact, UNCHANGED <<meta, out, resized>>, rstatus' = "complete" => rstatus = "complete"
    PROVE  OutputIntact'
BY DEF OutputIntact

\* The sender steps that move no data keep the invariant.
LEMMA SenderControl ==
    ASSUME FileInv, StartSending \/ OpenStream \/ FinishSend \/ SendFails \/ SendFileFails \/ CancelSend
    PROVE  FileInv'
<1>1. UNCHANGED <<fileLen, pos, nameOk, meta, sIdx, wire, resized, rpc, rIdx, rstatus, chunks, out>>
    BY DEF StartSending, OpenStream, FinishSend, SendFails, SendFileFails, CancelSend
<1>2. sapp' \in Status /\ rapp' \in Status /\ missed' \in Nat
    <2>1. CASE FinishSend \/ SendFails
        BY <2>1, NotifyFacts DEF FinishSend, SendFails, FileInv
    <2>2. CASE StartSending \/ OpenStream \/ SendFileFails \/ CancelSend
        BY <2>2 DEF StartSending, OpenStream, SendFileFails, CancelSend, FileInv, TypeInv, TypeOK, Status
    <2> QED BY <2>1, <2>2
<1>3. /\ spc' \in {"open", "meta", "done", spc} /\ sstatus' \in Status
      /\ spc' \in {"start", "open", "meta", "chunks"} => spc \in {"start", "open", "meta", "chunks"}
      /\ conn' \in {"none", "open", "eof", "reset"} /\ (conn' # "reset" => conn # "reset")
    BY DEF StartSending, OpenStream, FinishSend, SendFails, SendFileFails, CancelSend, CloseStream,
           FileInv, ControlInv, TypeInv, TypeOK, Status
<1>4. ControlInv'
    <2>1. CASE StartSending \/ OpenStream
        BY <1>1, <2>1 DEF StartSending, OpenStream, FileInv, ControlInv
    <2>2. CASE FinishSend \/ SendFails
        BY <1>1, <2>2 DEF FinishSend, SendFails, CloseStream, FileInv, ControlInv
    <2>3. CASE SendFileFails \/ CancelSend
        BY <1>1, <2>3 DEF SendFileFails, CancelSend, FileInv, ControlInv
    <2> QED BY <2>1, <2>2, <2>3
<1>5. OutputIntact'
    BY <1>1, OutputSame DEF FileInv
<1>6. rstatus' \in Status /\ (\A i \in 1..Len(out') : out'[i] \in Interval)
          /\ spc' \in {"idle", "start", "open", "meta", "chunks", "done"}
          /\ rpc' \in {"none", "read", "done"}
    BY <1>1, <1>3 DEF FileInv, TypeInv, TypeOK
<1> QED BY <1>1, <1>2, <1>3, <1>4, <1>5, <1>6, ControlStep

\* The receiver steps that move no data keep the invariant.
LEMMA ReceiverControl ==
    ASSUME FileInv, ReadFails \/ ReassembleFails \/ CancelReceive
    PROVE  FileInv'
<1>1. UNCHANGED <<fileLen, pos, nameOk, meta, spc, sIdx, sstatus, wire, resized, rIdx, chunks, conn,
                  sapp, rapp, missed>>
    BY DEF ReadFails, ReassembleFails, CancelReceive, NoNotice
<1>2. rpc' \in {"done", rpc} /\ rstatus' \in Status /\ (rstatus' = "complete" => rstatus = "complete")
          /\ (rpc' # "done" => rpc' = rpc)
    BY DEF ReadFails, ReassembleFails, CancelReceive, FileInv, TypeInv, TypeOK, Status
<1>3. ControlInv'
    BY <1>1, <1>2 DEF ReadFails, ReassembleFails, CancelReceive, Cancellable, FileInv, ControlInv,
                      TypeInv, TypeOK
<1>4. (\A i \in 1..Len(out') : out'[i] \in Interval) /\ OutputIntact'
    <2>1. CASE ReadFails \/ CancelReceive
        BY <1>1, <1>2, <2>1, OutputSame DEF ReadFails, CancelReceive, FileInv, TypeInv, TypeOK
    <2>2. CASE ReassembleFails
        <3>1. PICK n \in 0..meta.count : out' = [i \in 1..n |-> chunks[i - 1]]
            BY <2>2 DEF ReassembleFails
        <3>2. meta.count \in 0..MaxCount /\ chunks \in [0..MaxCount - 1 -> Interval] /\ MaxCount \in Nat
            BY FileAssumption, ChunkCountFacts DEF FileInv, TypeInv, TypeOK, MaxCount, ChunkCount
        <3>3. n \in Nat /\ Len(out') = n /\ \A i \in 1..n : i - 1 \in 0..MaxCount - 1
            BY <3>1, <3>2
        <3>4. rstatus' # "complete"
            BY <2>2 DEF ReassembleFails
        <3> QED BY <3>1, <3>2, <3>3, <3>4 DEF OutputIntact
    <2> QED BY <2>1, <2>2
<1>5. /\ spc' \in {"idle", "start", "open", "meta", "chunks", "done"}
      /\ rpc' \in {"none", "read", "done"} /\ conn' \in {"none", "open", "eof", "reset"}
      /\ sstatus' \in Status /\ sapp' \in Status /\ rapp' \in Status /\ missed' \in Nat
    BY <1>1, <1>2 DEF FileInv, TypeInv, TypeOK
<1> QED BY <1>1, <1>2, <1>3, <1>4, <1>5, ControlStep

-----------------------------------------------------------------------------
(***************************************************************************)
(* The beginning of a transfer, and what happens to the file and stream.   *)
(***************************************************************************)
LEMMA SendFileInv == ASSUME FileInv, SendFile PROVE FileInv'
<1> USE DEF FileInv
<1>1. /\ spc = "idle" /\ spc' = "start" /\ sstatus' = "pending"
      /\ meta' = [size |-> fileLen, count |-> ChunkCount(fileLen)]
      /\ sapp' = Merge("sending", "started")
      /\ UNCHANGED <<fileLen, pos, nameOk, sIdx, recvVars, conn, wire, rapp, bounds>>
    BY DEF SendFile
<1>2. /\ conn = "none" /\ sIdx = 0 /\ pos = 0 /\ wire = << >> /\ rpc = "none" /\ rIdx = 0
      /\ rstatus # "complete" /\ resized = 0
    BY <1>1 DEF ControlInv
<1>3. fileLen \in Nat /\ fileLen <= MaxSize /\ MaxSize \in Nat
    BY FileAssumption DEF TypeInv, TypeOK
<1>4. ChunkCount(fileLen) \in 0..MaxCount /\ MaxCount \in Nat
    BY <1>3, ChunkCountFacts, FileAssumption DEF MaxCount, ChunkCount
<1>5. /\ meta' \in [size : 0..MaxSize, count : 0..MaxCount]
      /\ meta'.size = fileLen /\ meta'.count = ChunkCount(meta'.size)
    BY <1>1, <1>3, <1>4
<1>6. sapp' \in Status
    BY <1>1 DEF Merge, Status
<1>7. TypeInv'
    BY <1>1, <1>2, <1>4, <1>5, <1>6 DEF TypeInv, TypeOK, Status
<1>8. ControlInv' /\ StreamInv' /\ ChunksInv' /\ OutputIntact'
    BY <1>1, <1>2 DEF ControlInv, StreamInv, Lead, Front, ChunksInv, OutputIntact
<1>9. Edge(0)' = 0
    BY <1>3, <1>5, FileAssumption DEF Edge
<1>10. SizeInv'
    BY <1>1, <1>2, <1>5, <1>9 DEF SizeInv
<1> QED BY <1>7, <1>8, <1>10

\* A source that changes its length keeps the invariant.
LEMMA ResizeFileInv == ASSUME FileInv, ResizeFile PROVE FileInv'
<1> USE DEF FileInv
<1>1. /\ spc # "idle" /\ resized' = resized + 1 /\ fileLen' \in 0..MaxSize
      /\ UNCHANGED <<pos, nameOk, meta, spc, sIdx, sstatus, recvVars, conn, wire, sapp, rapp,
                     faults, cancelled, missed>>
    BY DEF ResizeFile
<1>2. resized' \in Nat /\ resized' # 0
    BY <1>1 DEF TypeInv
<1>3. TypeInv'
    BY <1>1, <1>2 DEF TypeInv, TypeOK
<1>4. ControlInv' /\ StreamInv' /\ ChunksInv'
    BY <1>1 DEF ControlInv, StreamInv, Lead, Front, ChunksInv
<1>5. SizeInv' /\ OutputIntact'
    BY <1>1, <1>2 DEF SizeInv, OutputIntact
<1> QED BY <1>3, <1>4, <1>5

\* A lost connection keeps the invariant.
LEMMA LoseConnectionInv == ASSUME FileInv, LoseConnection PROVE FileInv'
<1> USE DEF FileInv
<1>1. /\ conn \in {"open", "eof"} /\ conn' = "reset" /\ wire' = << >>
      /\ UNCHANGED <<sendVars, recvVars, sapp, rapp, resized, cancelled, missed>>
    BY DEF LoseConnection
<1>2. wire' \in Seq(Packet) /\ Len(wire') = 0 /\ Window \in Nat
    BY <1>1, FileAssumption
<1>3. TypeInv'
    BY <1>1, <1>2 DEF TypeInv, TypeOK
<1>4. ControlInv' /\ StreamInv' /\ ChunksInv'
    BY <1>1 DEF ControlInv, StreamInv, ChunksInv
<1>5. SizeInv' /\ OutputIntact'
    BY <1>1, <1>2 DEF SizeInv, OutputIntact, Edge
<1> QED BY <1>3, <1>4, <1>5

-----------------------------------------------------------------------------
(***************************************************************************)
(* Packets.  A chunk goes into the stream behind the others ...            *)
(***************************************************************************)
LEMMA SendMetaInv == ASSUME FileInv, SendMeta PROVE FileInv'
<1> USE DEF FileInv
<1> DEFINE m == [type |-> "meta"]
<1>1. /\ spc = "meta" /\ spc' = "chunks" /\ conn = "open" /\ Len(wire) < Window
      /\ wire' = IF rpc = "done" THEN wire ELSE Append(wire, m)
      /\ UNCHANGED <<fileLen, pos, nameOk, meta, sIdx, sstatus, recvVars, conn, sapp, rapp, bounds>>
    BY DEF SendMeta, CanWrite, WritePacket
<1>2. sIdx = 0 /\ pos = 0 /\ wire = << >> /\ rpc # "read"
    BY <1>1 DEF ControlInv
<1>3. m \in Packet /\ m.type = "meta"
    BY DEF Packet
<1>4. wire' = << >> \/ wire' = <<m>>
    BY <1>1, <1>2
<1>5. rpc = "none" => wire' = <<m>>
    BY <1>1, <1>2
<1> HIDE DEF m
<1>6. wire' \in Seq(Packet) /\ Len(wire') <= Window /\ Len(wire') \in {0, 1}
    <2>1. << >> \in Seq(Packet) /\ Len(<< >>) = 0 /\ <<m>> \in Seq(Packet) /\ Len(<<m>>) = 1
        BY <1>3
    <2>2. 0 <= Window /\ 1 <= Window
        BY FileAssumption
    <2> QED BY <1>4, <2>1, <2>2
<1>7. TypeInv'
    BY <1>1, <1>6 DEF TypeInv, TypeOK
<1>8. ControlInv'
    BY <1>1, <1>2, <1>5 DEF ControlInv, TypeInv, TypeOK
<1>9. StreamInv'
    <2> SUFFICES ASSUME rpc = "none"
                 PROVE  StreamInv'
        BY <1>1, <1>2 DEF StreamInv, TypeInv, TypeOK
    <2>1. wire' = <<m>> /\ rIdx = 0 /\ Len(<<m>>) = 1
        BY <1>5 DEF ControlInv
    <2> QED BY <1>1, <1>2, <2>1 DEF StreamInv, Lead, Front
<1>10. ChunksInv' /\ OutputIntact'
    BY <1>1 DEF ChunksInv, OutputIntact
<1>11. \A j \in 1..Len(wire') : wire'[j].type = "meta"
    BY <1>3, <1>4
<1>12. SizeInv'
    BY <1>1, <1>11 DEF SizeInv, Edge
<1> QED BY <1>7, <1>8, <1>9, <1>10, <1>12

\* A chunk read and written to the stream keeps the invariant.
LEMMA SendChunkInv == ASSUME FileInv, SendChunk PROVE FileInv'
<1> USE DEF FileInv
<1> DEFINE c == [type |-> "chunk", idx |-> sIdx, data |-> [from |-> pos, to |-> ReadUpTo]]
           n == Len(wire)
<1>1. /\ spc = "chunks" /\ sIdx # meta.count /\ ~(pos >= fileLen) /\ conn = "open"
      /\ n < Window /\ wire' = IF rpc = "done" THEN wire ELSE Append(wire, c)
      /\ pos' = ReadUpTo /\ sIdx' = sIdx + 1 /\ NotifySender("progress")
      /\ UNCHANGED <<fileLen, nameOk, meta, spc, sstatus, recvVars, conn, faults, resized, cancelled>>
    BY DEF SendChunk, CanWrite, WritePacket, AtEnd
<1>2. /\ fileLen \in Nat /\ fileLen <= MaxSize /\ pos \in Nat /\ pos < fileLen
      /\ ChunkSize \in Nat \ {0} /\ MaxSize \in Nat
      /\ sIdx \in Nat /\ rIdx \in Nat /\ sIdx < meta.count /\ meta.count \in Nat
      /\ meta.count <= MaxCount /\ MaxCount \in Nat
      /\ n \in Nat /\ wire \in Seq(Packet) /\ Window \in Nat
    <2>1. MaxCount \in Nat
        BY MaxCountType
    <2> QED BY <1>1, <2>1, FileAssumption DEF TypeInv, TypeOK
<1>3. ReadUpTo \in 0..MaxSize /\ pos < ReadUpTo
    BY <1>2 DEF ReadUpTo
<1>4. /\ c \in Packet /\ c.type = "chunk" /\ c.idx = sIdx
      /\ c.data.from = pos /\ c.data.to = ReadUpTo
    BY <1>2, <1>3 DEF Packet, Interval
<1> HIDE DEF c
<1>5. wire' \in Seq(Packet) /\ Len(wire') <= Window
    BY <1>1, <1>2, <1>4
<1>6. sapp' \in Status /\ rapp' \in Status /\ missed' \in Nat
    BY <1>1, NotifyFacts
<1>7. pos' \in 0..MaxSize /\ sIdx' \in 0..meta.count
    BY <1>1, <1>2, <1>3
<1>8. TypeInv'
    BY <1>1, <1>5, <1>6, <1>7 DEF TypeInv, TypeOK
<1>9. ControlInv'
    BY <1>1, <1>2 DEF ControlInv
<1>10. ASSUME rpc # "done"
       PROVE  /\ Len(wire') = n + 1 /\ wire'[n + 1] = c
              /\ \A j \in 1..n : wire'[j] = wire[j]
              /\ Lead' = Lead /\ Lead \in {0, 1} /\ Lead <= n
    <2>1. Len(wire') = n + 1 /\ wire'[n + 1] = c /\ \A j \in 1..n : wire'[j] = wire[j]
        BY <1>1, <1>2, <1>10
    <2>2. rpc = "none" => wire # << >>
        BY <1>1 DEF ControlInv
    <2>3. wire' # << >> /\ (wire # << >> => n >= 1)
        BY <1>2, <2>1
    <2> QED BY <1>1, <1>2, <2>1, <2>2, <2>3 DEF Lead
<1>11. StreamInv'
    <2> SUFFICES ASSUME rpc # "done"
                 PROVE  StreamInv'
        BY <1>1 DEF StreamInv
    <2>1. /\ sIdx = rIdx + n - Lead
          /\ \A j \in Lead + 1..n :
                /\ wire[j].type = "chunk" /\ wire[j].idx = rIdx + j - Lead - 1
                /\ wire[j].data.from < wire[j].data.to
                /\ wire[j].data.from = IF j = Lead + 1 THEN Front ELSE wire[j - 1].data.to
          /\ pos = IF n > Lead THEN wire[n].data.to ELSE Front
        BY <1>1 DEF StreamInv
    <2>2. Front' = Front
        BY <1>1 DEF Front
    <2>3. ASSUME NEW j \in Lead + 1..n + 1
          PROVE  /\ wire'[j].type = "chunk" /\ wire'[j].idx = rIdx + j - Lead - 1
                 /\ wire'[j].data.from < wire'[j].data.to
                 /\ wire'[j].data.from = IF j = Lead + 1 THEN Front ELSE wire'[j - 1].data.to
        <3>1. CASE j = n + 1
            <4>1. j # Lead + 1 => n > Lead /\ wire'[j - 1] = wire[n]
                BY <1>2, <1>10, <3>1
            <4>2. j = Lead + 1 => ~(n > Lead)
                BY <1>2, <1>10, <3>1
            <4>3. wire'[j] = c
                BY <1>10, <3>1
            <4>4. c.idx = rIdx + j - Lead - 1 /\ c.data.from < c.data.to
                BY <1>2, <1>3, <1>4, <1>10, <2>1, <3>1
            <4>5. c.data.from = IF j = Lead + 1 THEN Front ELSE wire'[j - 1].data.to
                BY <1>4, <2>1, <4>1, <4>2
            <4> QED BY <1>4, <4>3, <4>4, <4>5
        <3>2. CASE j # n + 1
            <4>1. j \in Lead + 1..n /\ wire'[j] = wire[j]
                BY <1>2, <1>10, <3>2
            <4>2. j # Lead + 1 => wire'[j - 1] = wire[j - 1]
                BY <1>2, <1>10, <3>2
            <4> QED BY <2>1, <4>1, <4>2
        <3> QED BY <3>1, <3>2
    <2>4. sIdx' = rIdx + Len(wire') - Lead
        <3>1. Lead \in Nat /\ Len(wire') = n + 1
            BY <1>10
        <3> HIDE DEF n
        <3> QED BY <1>1, <1>2, <2>1, <3>1
    <2>5. pos' = wire'[Len(wire')].data.to /\ Len(wire') > Lead
        BY <1>1, <1>2, <1>4, <1>10
    <2>6. rIdx' = rIdx /\ Lead' = Lead /\ Len(wire') = n + 1
        BY <1>1, <1>10
    <2> HIDE DEF n
    <2> QED BY <2>2, <2>3, <2>4, <2>5, <2>6 DEF StreamInv
<1>12. ChunksInv' /\ OutputIntact'
    BY <1>1 DEF ChunksInv, OutputIntact
<1>13. SizeInv'
    <2> SUFFICES ASSUME resized = 0
                 PROVE  SizeInv'
        BY <1>1 DEF SizeInv
    <2>1. fileLen = meta.size /\ pos = Edge(sIdx)
        BY <1>1 DEF SizeInv
    <2>2. ReadUpTo = Edge(sIdx + 1)
        BY <1>2, <2>1, EdgeFacts DEF ReadUpTo
    <2>3. \A i : Edge(i)' = Edge(i)
        BY <1>1 DEF Edge
    <2>4. ASSUME NEW j \in 1..Len(wire'), wire'[j].type = "chunk"
          PROVE  wire'[j].data.to = Edge(wire'[j].idx + 1)
        <3>1. (j \in 1..n /\ wire'[j] = wire[j]) \/ wire'[j] = c
            BY <1>1, <1>2, <1>10
        <3> QED BY <1>4, <2>2, <2>4, <3>1 DEF SizeInv
    <2> QED BY <1>1, <2>1, <2>2, <2>3, <2>4 DEF SizeInv
<1> QED BY <1>8, <1>9, <1>11, <1>12, <1>13

(***************************************************************************)
(* ... is taken from its front ...                                         *)
(***************************************************************************)
LEMMA TailFacts ==
    ASSUME TypeInv, wire # << >>, wire' = Tail(wire)
    PROVE  /\ wire' \in Seq(Packet) /\ Len(wire) \in Nat /\ Len(wire) >= 1
           /\ Len(wire') = Len(wire) - 1 /\ Len(wire') <= Window
           /\ \A j \in 1..Len(wire) - 1 : wire'[j] = wire[j + 1]
<1>1. wire \in Seq(Packet) /\ Len(wire) \in Nat /\ Len(wire) >= 1 /\ Len(wire) <= Window
    BY DEF TypeInv, TypeOK
<1>2. Window \in Nat
    BY FileAssumption
<1>3. Tail(wire) \in Seq(Packet) /\ Len(Tail(wire)) = Len(wire) - 1
    BY <1>1
<1>4. \A j \in 1..Len(wire) - 1 : Tail(wire)[j] = wire[j + 1]
    BY <1>1
<1> QED BY <1>1, <1>2, <1>3, <1>4

\* The header, read first, keeps the invariant.
LEMMA ReadMetaInv == ASSUME FileInv, ReadMeta PROVE FileInv'
<1> USE DEF FileInv
<1> DEFINE n == Len(wire)
<1>1. /\ rpc = "none" /\ conn \in {"open", "eof"} /\ wire # << >> /\ wire' = Tail(wire)
      /\ rpc' \in {"read", "done"} /\ rstatus' \in {"receiving", rstatus}
      /\ UNCHANGED <<sendVars, rIdx, chunks, out, conn, faults, resized, cancelled>>
    BY DEF ReadMeta, Readable
<1>2. sapp' \in Status /\ rapp' \in Status /\ missed' \in Nat
    <2>1. NotifyReceiver("started") \/ NoNotice
        BY DEF ReadMeta
    <2> QED BY <2>1, NotifyFacts
<1>3. /\ wire' \in Seq(Packet) /\ n \in Nat /\ n >= 1 /\ Len(wire') = n - 1
      /\ Len(wire') <= Window /\ \A j \in 1..n - 1 : wire'[j] = wire[j + 1]
    BY <1>1, TailFacts
<1> HIDE DEF n
<1>4. TypeInv'
    BY <1>1, <1>2, <1>3 DEF TypeInv, TypeOK, Status
<1>5. rIdx = 0 /\ spc \notin {"idle", "start", "open", "meta"} /\ rstatus' # "complete"
    BY <1>1 DEF ControlInv
<1>6. ControlInv'
    BY <1>1, <1>5 DEF ControlInv
<1>7. Lead = 1 /\ Lead' = 0
    BY <1>1 DEF Lead
<1>8. StreamInv'
    <2>1. /\ sIdx = rIdx + n - 1
          /\ \A j \in 2..n :
                /\ wire[j].type = "chunk" /\ wire[j].idx = rIdx + j - 2
                /\ wire[j].data.from < wire[j].data.to
                /\ wire[j].data.from = IF j = 2 THEN Front ELSE wire[j - 1].data.to
          /\ pos = IF n > 1 THEN wire[n].data.to ELSE Front
        BY <1>1, <1>7 DEF StreamInv, n
    <2>2. Front' = Front
        BY <1>1 DEF Front
    <2>3. ASSUME NEW j \in 1..n - 1
          PROVE  /\ wire'[j].type = "chunk" /\ wire'[j].idx = rIdx + j - 1
                 /\ wire'[j].data.from < wire'[j].data.to
                 /\ wire'[j].data.from = IF j = 1 THEN Front ELSE wire'[j - 1].data.to
        <3>1. j + 1 \in 2..n /\ wire'[j] = wire[j + 1] /\ rIdx + (j + 1) - 2 = rIdx + j - 1
            BY <1>3, <1>5
        <3>2. j # 1 => j + 1 # 2 /\ wire'[j - 1] = wire[(j + 1) - 1]
            BY <1>3
        <3> QED BY <2>1, <3>1, <3>2
    <2>4. sIdx' = rIdx' + Len(wire') - 0
        BY <1>1, <1>3, <1>5, <2>1
    <2>5. pos' = IF Len(wire') > 0 THEN wire'[Len(wire')].data.to ELSE Front
        <3>1. n > 1 => wire'[n - 1] = wire[n] /\ Len(wire') > 0
            BY <1>3
        <3>2. ~(n > 1) => ~(Len(wire') > 0)
            BY <1>3
        <3> QED BY <1>1, <1>3, <2>1, <3>1, <3>2
    <2>6. \A j \in 0 + 1..Len(wire') :
              /\ wire'[j].type = "chunk" /\ wire'[j].idx = rIdx' + j - 0 - 1
              /\ wire'[j].data.from < wire'[j].data.to
              /\ wire'[j].data.from = IF j = 0 + 1 THEN Front' ELSE wire'[j - 1].data.to
        BY <1>1, <1>3, <1>5, <2>2, <2>3
    <2> QED BY <1>7, <2>2, <2>4, <2>5, <2>6 DEF StreamInv
<1>9. ChunksInv' /\ OutputIntact'
    BY <1>1, <1>5 DEF ChunksInv, OutputIntact
<1>10. SizeInv'
    <2>1. \A i : Edge(i)' = Edge(i)
        BY <1>1 DEF Edge
    <2>2. \A j \in 1..Len(wire') : j + 1 \in 1..n /\ wire'[j] = wire[j + 1]
        BY <1>3
    <2> QED BY <1>1, <2>1, <2>2 DEF SizeInv, n
<1> QED BY <1>4, <1>6, <1>8, <1>9, <1>10

\* A chunk taken from the stream keeps the invariant.
LEMMA ReadChunkInv == ASSUME FileInv, ReadChunk PROVE FileInv'
<1> USE DEF FileInv
<1> DEFINE n == Len(wire)
           d == wire[1].data
<1>1. /\ rpc = "read" /\ rIdx < meta.count /\ conn \in {"open", "eof"} /\ wire # << >>
      /\ wire' = Tail(wire) /\ chunks' = [chunks EXCEPT ![Head(wire).idx] = Head(wire).data]
      /\ rIdx' = rIdx + 1 /\ NotifyReceiver("progress")
      /\ UNCHANGED <<sendVars, rpc, rstatus, out, conn, faults, resized, cancelled>>
    BY DEF ReadChunk, Readable
<1>2. sapp' \in Status /\ rapp' \in Status /\ missed' \in Nat
    BY <1>1, NotifyFacts
<1>3. /\ wire' \in Seq(Packet) /\ n \in Nat /\ n >= 1 /\ Len(wire') = n - 1
      /\ Len(wire') <= Window /\ \A j \in 1..n - 1 : wire'[j] = wire[j + 1]
    BY <1>1, TailFacts
<1>4. /\ rIdx \in Nat /\ meta.count \in 0..MaxCount /\ MaxCount \in Nat
      /\ chunks \in [0..MaxCount - 1 -> Interval] /\ wire \in Seq(Packet)
    <2>1. MaxCount \in Nat
        BY MaxCountType
    <2> QED BY <2>1 DEF TypeInv, TypeOK
<1>5. Lead = 0 /\ Lead' = 0
    BY <1>1 DEF Lead
<1>6. /\ sIdx = rIdx + n
      /\ \A j \in 1..n :
            /\ wire[j].type = "chunk" /\ wire[j].idx = rIdx + j - 1
            /\ wire[j].data.from < wire[j].data.to
            /\ wire[j].data.from = IF j = 1 THEN Front ELSE wire[j - 1].data.to
      /\ pos = wire[n].data.to
    <2>1. /\ sIdx = rIdx + n - 0
          /\ \A j \in 0 + 1..n :
                /\ wire[j].type = "chunk" /\ wire[j].idx = rIdx + j - 0 - 1
                /\ wire[j].data.from < wire[j].data.to
                /\ wire[j].data.from = IF j = 0 + 1 THEN Front ELSE wire[j - 1].data.to
          /\ pos = IF n > 0 THEN wire[n].data.to ELSE Front
        BY <1>1, <1>5 DEF StreamInv
    <2> HIDE DEF n
    <2> QED BY <1>3, <1>4, <2>1
<1>7. Head(wire) = wire[1] /\ wire[1].idx = rIdx /\ d \in Interval
    <2>1. 1 \in 1..n /\ wire[1] \in Packet /\ Head(wire) = wire[1]
        BY <1>1, <1>3, <1>4
    <2>2. wire[1].type = "chunk" /\ wire[1].idx = rIdx + 1 - 1
        BY <1>6, <2>1
    <2>3. wire[1] \in [type : {"chunk"}, idx : 0..MaxCount - 1, data : Interval]
        BY <2>1, <2>2 DEF Packet
    <2> QED BY <1>4, <2>1, <2>2, <2>3
<1>8. chunks' = [chunks EXCEPT ![rIdx] = d] /\ rIdx \in 0..MaxCount - 1
    <2>1. rIdx \in 0..MaxCount - 1
        BY <1>1, <1>4
    <2>2. chunks' = [chunks EXCEPT ![rIdx] = d]
        BY <1>1, <1>7, Zenon
    <2> QED BY <2>1, <2>2
<1> HIDE DEF n, d
<1>9. /\ chunks' \in [0..MaxCount - 1 -> Interval] /\ chunks'[rIdx] = d
      /\ \A i \in 0..rIdx - 1 : chunks'[i] = chunks[i]
    BY <1>4, <1>7, <1>8
<1>10. TypeInv'
    <2>1. rIdx' \in 0..meta'.count
        BY <1>1, <1>4
    <2> QED BY <1>1, <1>2, <1>3, <1>9, <2>1 DEF TypeInv, TypeOK
<1>11. ControlInv'
    <2>1. spc \notin {"idle", "start", "open", "meta"}
        BY <1>1 DEF ControlInv
    <2> QED BY <1>1, <2>1 DEF ControlInv
<1>12. Front' = d.to /\ d.from < d.to /\ d.from = Front
    <2>1. rIdx' - 1 = rIdx /\ rIdx' # 0 /\ 1 \in 1..n
        BY <1>1, <1>3, <1>4
    <2> QED BY <1>6, <1>9, <2>1 DEF Front, d
<1>13. StreamInv'
    <2>1. ASSUME NEW j \in 1..n - 1
          PROVE  /\ wire'[j].type = "chunk" /\ wire'[j].idx = rIdx' + j - 1
                 /\ wire'[j].data.from < wire'[j].data.to
                 /\ wire'[j].data.from = IF j = 1 THEN Front' ELSE wire'[j - 1].data.to
        <3>1. j + 1 \in 1..n /\ j + 1 # 1 /\ wire'[j] = wire[j + 1] /\ (j + 1) - 1 = j
                  /\ rIdx + (j + 1) - 1 = rIdx' + j - 1
            BY <1>1, <1>3, <1>4
        <3>2. j # 1 => wire'[j - 1] = wire[j]
            BY <1>3
        <3>3. j = 1 => wire[j].data.to = Front'
            BY <1>12 DEF d
        <3> QED BY <1>6, <3>1, <3>2, <3>3
    <2>2. sIdx' = rIdx' + Len(wire') - 0
        <3>1. sIdx' = rIdx + n /\ rIdx' = rIdx + 1
            BY <1>1, <1>6
        <3> QED BY <1>3, <1>4, <3>1
    <2>3. pos' = IF Len(wire') > 0 THEN wire'[Len(wire')].data.to ELSE Front'
        <3>1. n > 1 => wire'[n - 1] = wire[n] /\ Len(wire') > 0
            BY <1>3
        <3>2. ~(n > 1) => ~(Len(wire') > 0) /\ n = 1
            BY <1>3
        <3> QED BY <1>1, <1>3, <1>6, <1>12, <3>1, <3>2 DEF d
    <2>4. \A j \in 0 + 1..Len(wire') :
              /\ wire'[j].type = "chunk" /\ wire'[j].idx = rIdx' + j - 0 - 1
              /\ wire'[j].data.from < wire'[j].data.to
              /\ wire'[j].data.from = IF j = 0 + 1 THEN Front' ELSE wire'[j - 1].data.to
        <3> TAKE j \in 0 + 1..Len(wire')
        <3>1. j \in Nat /\ j \in 1..n - 1 /\ rIdx' \in Int
            BY <1>1, <1>3, <1>4
        <3>2. rIdx' + j - 0 - 1 = rIdx' + j - 1
            BY <3>1
        <3>3. /\ wire'[j].type = "chunk" /\ wire'[j].idx = rIdx' + j - 1
              /\ wire'[j].data.from < wire'[j].data.to
              /\ wire'[j].data.from = IF j = 1 THEN Front' ELSE wire'[j - 1].data.to
            BY <2>1, <3>1
        <3> QED BY <3>2, <3>3
    <2> QED BY <1>5, <2>2, <2>3, <2>4 DEF StreamInv
<1>14. ChunksInv'
    <2> SUFFICES ASSUME NEW i \in 0..rIdx' - 1
                 PROVE  /\ chunks'[i].from < chunks'[i].to
                        /\ chunks'[i].from = IF i = 0 THEN 0 ELSE chunks'[i - 1].to
        BY DEF ChunksInv
    <2>1. CASE i = rIdx
        <3>1. i # 0 => chunks'[i - 1] = chunks[i - 1]
            BY <1>4, <1>9, <2>1
        <3> QED BY <1>9, <1>12, <2>1, <3>1 DEF Front
    <2>2. CASE i # rIdx
        <3>1. i \in 0..rIdx - 1 /\ (i # 0 => i - 1 \in 0..rIdx - 1)
            BY <1>1, <1>4, <2>2
        <3> QED BY <1>9, <3>1 DEF ChunksInv
    <2> QED BY <2>1, <2>2
<1>15. OutputIntact'
    BY <1>1, OutputSame
<1>16. SizeInv'
    <2> SUFFICES ASSUME resized = 0
                 PROVE  SizeInv'
        BY <1>1 DEF SizeInv
    <2>1. \A i : Edge(i)' = Edge(i)
        BY <1>1 DEF Edge
    <2>2. \A j \in 1..Len(wire') : j + 1 \in 1..n /\ wire'[j] = wire[j + 1]
        BY <1>3
    <2>3. \A j \in 1..n : wire[j].type = "chunk" => wire[j].data.to = Edge(wire[j].idx + 1)
        BY DEF SizeInv, n
    <2>4. d.to = Edge(rIdx + 1)
        BY <1>3, <1>6, <1>7, <2>3 DEF d
    <2>5. \A i \in 0..rIdx' - 1 : chunks'[i].to = Edge(i + 1)
        <3> SUFFICES ASSUME NEW i \in 0..rIdx' - 1
                     PROVE  chunks'[i].to = Edge(i + 1)
            OBVIOUS
        <3>1. i = rIdx \/ i \in 0..rIdx - 1
            BY <1>1, <1>4
        <3> QED BY <1>9, <2>4, <3>1 DEF SizeInv
    <2> QED BY <1>1, <2>1, <2>2, <2>3, <2>5 DEF SizeInv
<1> QED BY <1>10, <1>11, <1>13, <1>14, <1>15, <1>16

(***************************************************************************)
(* ... and, once all have arrived, they are written one after the other.   *)
(***************************************************************************)
LEMMA ReassembleInv == ASSUME FileInv, Reassemble PROVE FileInv'
<1> USE DEF FileInv
<1> DEFINE k == meta.count
<1>1. /\ rpc = "read" /\ rIdx = k /\ out' = [i \in 1..k |-> chunks[i - 1]]
      /\ rstatus' = "complete" /\ rpc' = "done" /\ NotifyReceiver("complete")
      /\ UNCHANGED <<sendVars, rIdx, chunks, conn, wire, faults, resized, cancelled>>
    BY DEF Reassemble
<1>2. /\ k \in Nat /\ k <= MaxCount /\ MaxCount \in Nat /\ meta.size \in Nat
      /\ chunks \in [0..MaxCount - 1 -> Interval] /\ k = ChunkCount(meta.size)
    BY MaxCountType DEF TypeInv, TypeOK
<1>3. Len(out') = k /\ \A i \in 1..k : i - 1 \in 0..k - 1 /\ out'[i] = chunks[i - 1]
    BY <1>1, <1>2
<1>4. \A i \in 1..Len(out') : out'[i] \in Interval
    BY <1>2, <1>3
<1>5. sapp' \in Status /\ rapp' \in Status /\ missed' \in Nat
    BY <1>1, NotifyFacts
<1>6. ControlInv'
    BY <1>1 DEF ControlInv
<1>7. OutputIntact'
    <2>1. ASSUME NEW i \in 1..k
          PROVE  /\ out'[i].from = IF i = 1 THEN 0 ELSE out'[i - 1].to
                 /\ out'[i].from < out'[i].to
        <3>1. i - 1 \in 0..rIdx - 1 /\ out'[i] = chunks[i - 1]
            BY <1>1, <1>3
        <3>2. i # 1 => i - 1 # 0 /\ out'[i - 1] = chunks[(i - 1) - 1]
            BY <1>2, <1>3
        <3> QED BY <3>1, <3>2 DEF ChunksInv
    <2>2. ASSUME resized = 0, meta.size > 0
          PROVE  out' # << >> /\ out'[k].to = meta.size
        <3>1. k > 0
            BY <1>2, <2>2, ChunkCountFacts
        <3>2. k - 1 \in 0..rIdx - 1 /\ out'[k] = chunks[k - 1] /\ (k - 1) + 1 = k
            BY <1>1, <1>2, <1>3, <3>1
        <3>3. chunks[k - 1].to = Edge(k)
            BY <2>2, <3>2 DEF SizeInv
        <3>4. Edge(k) = meta.size
            BY EdgeFacts
        <3> QED BY <1>3, <3>1, <3>2, <3>3, <3>4
    <2>3. meta' = meta /\ resized' = resized
        BY <1>1
    <2> HIDE DEF k
    <2>4. meta'.count = k /\ k \in Nat
        BY <1>2, <2>3 DEF k
    <2> QED BY <1>3, <2>1, <2>2, <2>3, <2>4 DEF OutputIntact
<1>8. UNCHANGED <<fileLen, pos, nameOk, meta, sIdx, wire, rIdx, chunks, resized, spc, conn, sstatus>>
    BY <1>1
<1>9. /\ spc' \in {"idle", "start", "open", "meta", "chunks", "done"}
      /\ rpc' \in {"none", "read", "done"} /\ conn' \in {"none", "open", "eof", "reset"}
      /\ {sstatus', rstatus', sapp', rapp'} \subseteq Status
    BY <1>1, <1>5, <1>8 DEF TypeInv, TypeOK, Status
<1> QED BY <1>1, <1>4, <1>5, <1>6, <1>7, <1>8, <1>9, ControlStep

-----------------------------------------------------------------------------
\* Every step keeps the invariant.
LEMMA FileInvNext == FileInv /\ [Next]_vars => FileInv'
<1> SUFFICES ASSUME FileInv, [Next]_vars
             PROVE  FileInv'
    OBVIOUS
<1>1. CASE SendFile
    BY <1>1, SendFileInv
<1>2. CASE SendFileFails \/ CancelSend
    BY <1>2, SenderControl
<1>3. CASE SenderStep
    BY <1>3, SenderControl, SendMetaInv, SendChunkInv DEF SenderStep
<1>4. CASE ReceiverStep
    BY <1>4, ReceiverControl, ReadMetaInv, ReadChunkInv, ReassembleInv DEF ReceiverStep
<1>5. CASE ReassembleFails \/ CancelReceive
    BY <1>5, ReceiverControl
<1>6. CASE LoseConnection
    BY <1>6, LoseConnectionInv
<1>7. CASE ResizeFile
    BY <1>7, ResizeFileInv
<1>8. CASE UNCHANGED vars
    BY <1>8 DEF vars, FileInv, TypeInv, TypeOK, ControlInv, StreamInv, Lead, Front, ChunksInv,
                SizeInv, Edge, OutputIntact
<1> QED BY <1>1, <1>2, <1>3, <1>4, <1>5, <1>6, <1>7, <1>8 DEF Next

\* Read offsets, loop indices and the stream stay in their bounds.
THEOREM FileTypeCorrect == Spec => []TypeOK
<1>1. FileInv => TypeOK
    BY DEF FileInv, TypeInv
<1> QED BY <1>1, FileInvInit, FileInvNext, PTL DEF Spec

(***************************************************************************)
(* A file that the receiver reports as complete has all the announced      *)
(* chunks in order without a gap, for every file, chunk and window size,   *)
(* every cut of the stream and every change of the source's length.        *)
(***************************************************************************)
THEOREM OutputAlwaysIntact == Spec => []OutputIntact
<1>1. FileInv => OutputIntact
    BY DEF FileInv
<1> QED BY <1>1, FileInvInit, FileInvNext, PTL DEF Spec

-----------------------------------------------------------------------------
\* At the start the receiving app knows of no transfer.
LEMMA IncomingInit == Init => IncomingInv
BY DEF Init, IncomingInv

\* A step that leaves the receiver alone.
LEMMA IncomingSame ==
    ASSUME IncomingInv, UNCHANGED <<rapp, rpc>>, missed' = 0 => missed = 0
    PROVE  IncomingInv'
BY DEF IncomingInv

\* Every step keeps IncomingInv.
LEMMA IncomingNext ==
    ASSUME IncomingInv, missed \in Nat, [Next]_vars
    PROVE  IncomingInv'
<1>1. CASE SendFile \/ SendFileFails \/ LoseConnection \/ ResizeFile \/ CancelSend \/ CancelReceive
    BY <1>1, IncomingSame DEF SendFile, SendFileFails, LoseConnection, ResizeFile, CancelSend,
                              CancelReceive
<1>2. CASE SenderStep
    <2>1. CASE SendChunk
        BY <2>1, IncomingSame DEF SendChunk, NotifySender
    <2>2. CASE FinishSend
        BY <2>2, IncomingSame DEF FinishSend, NotifySender
    <2>3. CASE StartSending \/ OpenStream \/ SendMeta \/ SendFails
        BY <2>3, IncomingSame DEF StartSending, OpenStream, SendMeta, SendFails, NoNotice
    <2> QED BY <1>2, <2>1, <2>2, <2>3 DEF SenderStep
<1>3. CASE ReadMeta
    BY <1>3 DEF ReadMeta, NotifyReceiver, NoNotice, Merge, IncomingInv
<1>4. CASE ReadChunk
    BY <1>4 DEF ReadChunk, NotifyReceiver, Merge, IncomingInv
<1>5. CASE ReadFails \/ ReassembleFails
    BY <1>5 DEF ReadFails, ReassembleFails, NoNotice, IncomingInv
<1>6. CASE Reassemble
    BY <1>6 DEF Reassemble, NotifyReceiver, Merge, IncomingInv
<1>7. CASE UNCHANGED vars
    BY <1>7, IncomingSame DEF vars
<1> QED BY <1>1, <1>2, <1>3, <1>4, <1>5, <1>6, <1>7 DEF Next, ReceiverStep

(***************************************************************************)
(* The receiver's app never shows the file as one that it sends, as long   *)
(* as no frame is missed.                                                  *)
(***************************************************************************)
THEOREM AlwaysIncoming == Spec => []OnlyIncoming
<1>1. FileInv => missed \in Nat
    BY DEF FileInv, TypeInv
<1>2. IncomingInv => OnlyIncoming
    BY DEF IncomingInv, OnlyIncoming
<1>3. FileInv /\ IncomingInv /\ [Next]_vars => IncomingInv'
    BY <1>1, IncomingNext
<1> QED BY <1>2, <1>3, IncomingInit, FileInvInit, FileInvNext, PTL DEF Spec

-----------------------------------------------------------------------------
(***************************************************************************)
(* What the sender reports once the receiver has the file.  The receiver   *)
(* has the header, or will read it.                                        *)
(***************************************************************************)
Announced == rpc = "read" \/ (rpc = "none" /\ wire # << >>) \/ rstatus = "complete"

\* A sender that ended in another way than complete did not send everything.
SenderInv ==
    /\ rIdx <= sIdx
    /\ spc # "done" => sstatus # "failed"
    /\ Announced => spc \in {"chunks", "done"}
    /\ Announced /\ spc = "done" => sstatus = "complete" \/ sIdx < meta.count
    /\ rstatus = "complete" => rpc = "done" /\ sIdx = meta.count

\* The sender has said complete, or is at the end of its loop, where nothing
\* is left that can fail.
SenderAgrees ==
    rstatus = "complete" =>
        sstatus = "complete" \/ (spc = "chunks" /\ AtEnd /\ sstatus # "failed")

\* At the start nothing is announced.
LEMMA SenderInit == Init => SenderInv
BY DEF Init, SenderInv, Announced

\* Every step keeps SenderInv.
LEMMA SenderNext ==
    ASSUME FileInv, SenderInv, [Next]_vars
    PROVE  SenderInv'
<1>1. /\ sIdx \in 0..meta.count /\ rIdx \in 0..meta.count /\ meta.count \in Nat
      /\ wire \in Seq(Packet)
    BY MaxCountType DEF FileInv, TypeInv, TypeOK
<1> USE DEF SenderInv, Announced
<1>2. CASE SendFile \/ SendFileFails \/ StartSending \/ OpenStream
    BY <1>2 DEF SendFile, SendFileFails, StartSending, OpenStream
<1>3. CASE SendMeta
    BY <1>3 DEF SendMeta, WritePacket
<1>4. CASE SendChunk
    <2>1. sIdx' = sIdx + 1 /\ sIdx # meta.count /\ spc = "chunks" /\ spc' = "chunks"
        BY <1>4 DEF SendChunk, AtEnd
    <2>2. UNCHANGED <<meta, sstatus, rpc, rIdx, rstatus>>
        BY <1>4 DEF SendChunk
    <2> QED BY <1>1, <2>1, <2>2
<1>5. CASE FinishSend
    BY <1>5 DEF FinishSend
<1>6. CASE SendFails
    BY <1>1, <1>6 DEF SendFails, AtEnd
<1>7. CASE ReadMeta
    BY <1>7 DEF ReadMeta, Readable
<1>8. CASE ReadChunk
    <2>1. sIdx = rIdx + Len(wire) /\ Len(wire) >= 1
        <3>1. conn # "reset" /\ rpc = "read" /\ wire # << >>
            BY <1>8 DEF ReadChunk, Readable
        <3>2. sIdx = rIdx + Len(wire) - Lead /\ Lead = 0
            BY <3>1 DEF FileInv, StreamInv, Lead
        <3> QED BY <1>1, <3>1, <3>2
    <2>2. /\ rIdx' = rIdx + 1 /\ rpc = "read"
          /\ UNCHANGED <<meta, spc, sIdx, sstatus, rpc, rstatus>>
        BY <1>8 DEF ReadChunk
    <2> QED BY <1>1, <2>1, <2>2
<1>9. CASE ReadFails \/ ReassembleFails
    BY <1>9 DEF ReadFails, ReassembleFails
<1>10. CASE Reassemble
    BY <1>1, <1>10 DEF Reassemble
<1>11. CASE LoseConnection \/ ResizeFile
    BY <1>11 DEF LoseConnection, ResizeFile
<1>12. CASE CancelSend \/ CancelReceive
    BY <1>12 DEF CancelSend, CancelReceive, Cancellable
<1>13. CASE UNCHANGED vars
    BY <1>13 DEF vars
<1> QED BY <1>2, <1>3, <1>4, <1>5, <1>6, <1>7, <1>8, <1>9, <1>10, <1>11, <1>12, <1>13
        DEF Next, SenderStep, ReceiverStep

(***************************************************************************)
(* Once the receiver has reassembled the file, no error of the connection, *)
(* no deadline and no change of the source makes the sender report a       *)
(* failure: failTransfer is out of reach, and the only step sendFileStream *)
(* has left is the one to complete.  With the fairness of the sender this  *)
(* is ReceivedMeansSent.                                                   *)
(***************************************************************************)
THEOREM SenderNeverDisagrees == Spec => []SenderAgrees
<1>1. FileInv /\ SenderInv => SenderAgrees
    <2>1. FileInv => sIdx \in Nat
        BY MaxCountType DEF FileInv, TypeInv, TypeOK
    <2> QED BY <2>1 DEF SenderInv, Announced, SenderAgrees, AtEnd
<1>2. FileInv /\ SenderInv /\ [Next]_vars => SenderInv'
    BY SenderNext
<1> QED BY <1>1, <1>2, SenderInit, FileInvInit, FileInvNext, PTL DEF Spec

-----------------------------------------------------------------------------
\* The complete frame goes out with the status, and no later frame of the
\* transfer takes it back in the app.
ShownInv ==
    /\ rstatus = "complete" => rpc = "done" /\ (rapp = "complete" \/ missed > 0)
    /\ sstatus = "complete" => spc = "done" /\ (sapp = "complete" \/ missed > 0)

\* At the start neither side is complete.
LEMMA ShownInit == Init => ShownInv
BY DEF Init, ShownInv

\* Whatever the app shows, the complete frame makes it complete.
LEMMA CompleteShown == ASSUME NEW a PROVE Merge(a, "complete") = "complete"
BY DEF Merge

\* Every step keeps ShownInv.
LEMMA ShownNext ==
    ASSUME ShownInv, missed \in Nat, [Next]_vars
    PROVE  ShownInv'
<1> USE DEF ShownInv
<1>1. CASE SendFile \/ SendFileFails \/ StartSending \/ OpenStream \/ SendMeta
    BY <1>1 DEF SendFile, SendFileFails, StartSending, OpenStream, SendMeta
<1>2. CASE SendChunk
    BY <1>2 DEF SendChunk, NotifySender
<1>3. CASE FinishSend
    <2>1. sapp' = "complete" \/ missed' > 0
        BY <1>3, CompleteShown DEF FinishSend, NotifySender
    <2>2. spc' = "done" /\ UNCHANGED <<rpc, rstatus, rapp>> /\ (missed > 0 => missed' > 0)
        BY <1>3 DEF FinishSend, NotifySender
    <2> QED BY <2>1, <2>2
<1>4. CASE SendFails
    BY <1>4 DEF SendFails, NoNotice
<1>5. CASE ReadMeta \/ ReadChunk
    BY <1>5 DEF ReadMeta, ReadChunk, NotifyReceiver, NoNotice
<1>6. CASE Reassemble
    <2>1. rapp' = "complete" \/ missed' > 0
        BY <1>6, CompleteShown DEF Reassemble, NotifyReceiver
    <2>2. rpc' = "done" /\ UNCHANGED <<spc, sstatus, sapp>> /\ (missed > 0 => missed' > 0)
        BY <1>6 DEF Reassemble, NotifyReceiver
    <2> QED BY <2>1, <2>2
<1>7. CASE ReadFails \/ ReassembleFails
    BY <1>7 DEF ReadFails, ReassembleFails, NoNotice
<1>8. CASE LoseConnection \/ ResizeFile \/ CancelSend \/ CancelReceive
    BY <1>8 DEF LoseConnection, ResizeFile, CancelSend, CancelReceive, Cancellable
<1>9. CASE UNCHANGED vars
    BY <1>9 DEF vars
<1> QED BY <1>1, <1>2, <1>3, <1>4, <1>5, <1>6, <1>7, <1>8, <1>9
        DEF Next, SenderStep, ReceiverStep

(***************************************************************************)
(* A completed transfer is shown as complete at both sides, unless a frame *)
(* is missed: the app that merges the frames knows it as soon as it has    *)
(* the complete frame, so this leads-to holds without any fairness.        *)
(***************************************************************************)
THEOREM AppsAgree == Spec => AppsSeeComplete
<1>1. FileInv /\ ShownInv /\ [Next]_vars => ShownInv'
    BY ShownNext DEF FileInv, TypeInv
<1>2. ShownInv => /\ rstatus = "complete" => rapp = "complete" \/ missed > 0
                  /\ sstatus = "complete" => sapp = "complete" \/ missed > 0
    BY DEF ShownInv
<1> QED BY <1>1, <1>2, ShownInit, FileInvInit, FileInvNext, PTL DEF Spec, AppsSeeComplete
=============================================================================
