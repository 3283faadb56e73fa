----------------------------- MODULE BlockImage -----------------------------
(***************************************************************************)
(* Block mode: a device or a sparse image is captured extent by extent     *)
(* (chunking/block_device.rs, backup_block_device in commands/backup.rs),  *)
(* its manifest kept in BlockExtents and BlockExtentChunks, and written    *)
(* back to a file or a device (commands/restore.rs).                       *)
(*                                                                         *)
(* A unit of the device stands for a block; a chunk is its units, and so   *)
(* is its hash.  Chunk files are sound here: damage to them is treated in  *)
(* TreeRestore, and read_verified_chunk is the same.                       *)
(***************************************************************************)
EXTENDS Naturals, Sequences, FiniteSets, Functions

CONSTANTS
  Size,         \* of the device
  Unit,         \* what a block may hold, 0 among it
  MaxExtent,    \* max_extent_len
  ChunkSize,    \* CHUNK_SIZE
  Depth,        \* pipeline_depth
  MaxEdits,     \* bound: writes to the device while it is captured
  MaxRestores   \* bound: restores started

ASSUME BlockAssumption ==
  /\ {Size, MaxExtent, ChunkSize} \subseteq Nat \ {0}
  /\ 0 \in Unit
  /\ Depth \in Nat \ {0, 1}
  /\ {MaxEdits, MaxRestores} \subseteq Nat

Blocks == 0 .. Size - 1
Chunks == UNION {[1 .. n -> Unit] : n \in 1 .. ChunkSize}

VARIABLES
  device,      \* content of the source
  alloc,       \* its allocated blocks; a hole reads as zeros
  edits,
  pc,          \* where the capture is
  extents,     \* used_extents, taken once
  scanned,     \* history: the blocks they were taken from
  current,     \* extents begun
  data, rel,   \* the extent in memory, how much of it is scheduled
  piece,       \* chunk_idx of the next piece
  inflight,    \* pieces handed to a worker and not recorded yet
  extentRows,  \* BlockExtents, by extent_idx
  chunkRows,   \* BlockExtentChunks
  image,       \* history: what was read, zeros elsewhere
  rpc,         \* where the restore is
  target,      \* its target: absent, or [kind, content]
  blank,       \* history: did the target hold zeros before?
  outExtent,   \* extent and chunk of the layout to be written next
  outChunk,
  restores

source == <<device, alloc, edits>>
capture == <<pc, extents, scanned, current, data, rel, piece, inflight, extentRows, chunkRows, image>>
restore == <<rpc, target, blank, outExtent, outChunk, restores>>
vars == <<source, capture, restore>>

Pieces == [extent : Nat \ {0}, idx : Nat, rel : Nat, chunk : Chunks]
Rows == [extent : Nat \ {0}, idx : Nat, hash : Chunks, rel : Nat, len : 1 .. ChunkSize]
Extent == [offset : Blocks, length : 1 .. Size]
Contents == UNION {[0 .. n - 1 -> Unit] : n \in (Size - 1) .. (Size + 1)}
Targets == [kind : {"absent", "file", "device"}, content : Contents \union {<<>>}]
Absent == [kind |-> "absent", content |-> <<>>]

TypeOK ==
  /\ device \in [Blocks -> Unit]
  /\ alloc \subseteq Blocks
  /\ \A b \in Blocks \ alloc : device[b] = 0
  /\ edits \in 0 .. MaxEdits
  /\ pc \in {"start", "extents", "drain", "listed", "failed"}
  /\ extents \in Seq(Extent)
  /\ scanned \subseteq Blocks
  /\ current \in 0 .. Len(extents)
  /\ data \in Seq(Unit)
  /\ rel \in 0 .. Len(data)
  /\ piece \in Nat
  /\ inflight \subseteq Pieces
  /\ Cardinality(inflight) <= Depth
  /\ extentRows \in Seq(Extent)
  /\ chunkRows \subseteq Rows
  /\ image \in [Blocks -> Unit]
  /\ rpc \in {"idle", "write", "ok", "refused", "killed"}
  /\ target \in Targets
  /\ blank \in BOOLEAN
  /\ {outExtent, outChunk} \subseteq Nat \ {0}
  /\ restores \in 0 .. MaxRestores

\* A device that answers SEEK_DATA, filled in any way.
Init ==
  /\ alloc \in SUBSET Blocks
  /\ device \in [Blocks -> Unit]
  /\ \A b \in Blocks \ alloc : device[b] = 0
  /\ edits = 0
  /\ pc = "start"
  /\ extents = <<>>
  /\ scanned = {}
  /\ current = 0
  /\ data = <<>>
  /\ rel = 0
  /\ piece = 0
  /\ inflight = {}
  /\ extentRows = <<>>
  /\ chunkRows = {}
  /\ image = [b \in Blocks |-> 0]
  /\ rpc = "idle"
  /\ target = Absent
  /\ blank = TRUE
  /\ outExtent = 1
  /\ outChunk = 1
  /\ restores = 0

-----------------------------------------------------------------------------
(* Extents.                                                                *)

\* The elements of a finite set by ascending key.
InOrder(S, key) ==
  CHOOSE s \in Injection(1 .. Cardinality(S), S) :
    \A i, j \in 1 .. Cardinality(S) : i < j => key[s[i]] <= key[s[j]]

\* seek_data_extents: the runs of a set of blocks.
RunFrom(S, b) ==
  [offset |-> b, length |-> CHOOSE n \in 1 .. Size : b .. b + n - 1 \subseteq S /\ b + n \notin S]

DataRuns(S) == {RunFrom(S, b) : b \in {b \in S : b = 0 \/ b - 1 \notin S}}

\* split_extents: no piece is longer than MaxExtent.
Split(e) ==
  {[offset |-> e.offset + k * MaxExtent,
    length |-> IF MaxExtent <= e.length - k * MaxExtent
               THEN MaxExtent ELSE e.length - k * MaxExtent]
     : k \in 0 .. (e.length - 1) \div MaxExtent}

UsedExtents(S) ==
  LET all == UNION {Split(e) : e \in DataRuns(S)}
  IN InOrder(all, [e \in all |-> e.offset])

-----------------------------------------------------------------------------
(* The capture.                                                            *)

\* open, used_extents, create_object.  A kernel that cannot tell data from
\* holes makes the whole device one run.
Scan ==
  /\ pc = "start"
  /\ scanned' \in {alloc, Blocks}
  /\ extents' = UsedExtents(scanned')
  /\ pc' = "extents"
  /\ UNCHANGED <<source, current, data, rel, piece, inflight, extentRows, chunkRows,
                 image, restore>>

\* add_block_extent, read_extent.
ReadExtent ==
  /\ pc = "extents"
  /\ rel = Len(data)
  /\ current < Len(extents)
  /\ current' = current + 1
  /\ LET e == extents[current + 1]
     IN /\ extentRows' = Append(extentRows, e)
        /\ data' = [k \in 1 .. e.length |-> device[e.offset + k - 1]]
        /\ image' = [b \in Blocks |-> IF b \in e.offset .. e.offset + e.length - 1
                                      THEN device[b] ELSE image[b]]
  /\ rel' = 0
  /\ piece' = 0
  /\ UNCHANGED <<source, pc, extents, scanned, inflight, chunkRows, restore>>

\* Defect: one piece too many.
FullAndOne == Cardinality(inflight) > Depth

Full == Cardinality(inflight) >= Depth

\* The next len units, with the place they go to (BlockChunkPosition).
Position(len) ==
  [extent |-> current, idx |-> piece, rel |-> rel, chunk |-> SubSeq(data, rel + 1, rel + len)]

SchedulePiece ==
  /\ pc = "extents"
  /\ rel < Len(data)
  /\ ~ Full
  /\ LET len == IF ChunkSize <= Len(data) - rel THEN ChunkSize ELSE Len(data) - rel
     IN /\ inflight' = inflight \union {Position(len)}
        /\ rel' = rel + len
  /\ piece' = piece + 1
  /\ UNCHANGED <<source, pc, extents, scanned, current, data, extentRows, chunkRows,
                 image, restore>>

\* Defect: the piece is filed under the extent that is being read now.
RowOfCurrent(p) ==
  [extent |-> current, idx |-> p.idx, hash |-> p.chunk, rel |-> p.rel, len |-> Len(p.chunk)]

RowOf(p) ==
  [extent |-> p.extent, idx |-> p.idx, hash |-> p.chunk, rel |-> p.rel, len |-> Len(p.chunk)]

\* Defect: results are only awaited to make room.
RecordPieceWhenFull(p) ==
  /\ pc = "extents" /\ rel < Len(data) /\ Full
  /\ p \in inflight
  /\ inflight' = inflight \ {p}
  /\ chunkRows' = chunkRows \union {RowOf(p)}
  /\ UNCHANGED <<source, pc, extents, scanned, current, data, rel, piece, extentRows,
                 image, restore>>

\* A worker has finished, in any order: handle_processed_chunk stores the
\* chunk, record_block_chunk_manifest its place.  Results are awaited when the
\* window is full and a piece is waiting, and at the end.
RecordPiece(p) ==
  /\ \/ pc = "extents" /\ rel < Len(data) /\ Full
     \/ pc = "drain"
  /\ p \in inflight
  /\ inflight' = inflight \ {p}
  /\ chunkRows' = chunkRows \union {RowOf(p)}
  /\ UNCHANGED <<source, pc, extents, scanned, current, data, rel, piece, extentRows,
                 image, restore>>

LastExtent ==
  /\ pc = "extents"
  /\ rel = Len(data)
  /\ current = Len(extents)
  /\ pc' = "drain"
  /\ UNCHANGED <<source, extents, scanned, current, data, rel, piece, inflight,
                 extentRows, chunkRows, image, restore>>

CreateSnapshot ==
  /\ pc = "drain"
  /\ inflight = {}
  /\ pc' = "listed"
  /\ UNCHANGED <<source, extents, scanned, current, data, rel, piece, inflight,
                 extentRows, chunkRows, image, restore>>

\* A read, a worker or a statement fails, or the process is killed.
Fail ==
  /\ pc \in {"start", "extents", "drain"}
  /\ pc' = "failed"
  /\ inflight' = {}
  /\ UNCHANGED <<source, extents, scanned, current, data, rel, piece,
                 extentRows, chunkRows, image, restore>>

\* Someone writes to a live device, or punches a hole.
Edit(b) ==
  /\ pc \in {"extents", "drain"}
  /\ edits < MaxEdits
  /\ edits' = edits + 1
  /\ \/ \E u \in Unit : /\ u # device[b]
                        /\ device' = [device EXCEPT ![b] = u]
                        /\ alloc' = alloc \union {b}
     \/ /\ b \in alloc
        /\ device' = [device EXCEPT ![b] = 0]
        /\ alloc' = alloc \ {b}
  /\ UNCHANGED <<capture, restore>>

-----------------------------------------------------------------------------
(* The way back.                                                           *)

\* get_block_layout: extents by index, their chunks by index.
RowsOf(k) == {r \in chunkRows : r.extent = k}
ChunksOf(k) == InOrder(RowsOf(k), [r \in RowsOf(k) |-> r.idx])
Layout == [k \in 1 .. Len(extentRows) |-> [extent |-> extentRows[k], chunks |-> ChunksOf(k)]]

EndOf(e) == e.offset + e.length

\* Where the first n chunks end when they follow each other (expected_rel).
ExpectedRel(chunks, n) == IF n = 0 THEN 0 ELSE chunks[n].rel + chunks[n].len

\* validate_block_layout.
ValidLayout(layout) ==
  \A k \in DOMAIN layout :
    LET e == layout[k].extent
        chunks == layout[k].chunks
    IN /\ k > 1 => e.offset >= EndOf(layout[k - 1].extent)
       /\ EndOf(e) <= Size
       /\ \A j \in DOMAIN chunks : chunks[j].rel = ExpectedRel(chunks, j - 1)
       /\ ExpectedRel(chunks, Len(chunks)) = e.length

Refuse(t) ==
  /\ rpc' = "refused"
  /\ target' = t
  /\ UNCHANGED <<outExtent, outChunk, source, capture>>

\* Defect: a file that is replaced keeps its content.
OpenFileKeeps(t) ==
  [b \in Blocks |-> IF b \in DOMAIN t.content THEN t.content[b] ELSE 0]

\* A file is created or truncated, then set_len: all of it is a hole.
OpenFile(t) == [b \in Blocks |-> 0]

\* restore_block_device up to its loop.  The operator names a target: a file,
\* new or (perhaps with --allow-overwrite) there already, or a device, whose
\* size and content are what they are.
StartRestore(t, overwrite) ==
  /\ pc = "listed"
  /\ rpc # "write"
  /\ restores < MaxRestores
  /\ restores' = restores + 1
  /\ blank' = (t.kind # "device" \/ \A b \in DOMAIN t.content : t.content[b] = 0)
  /\ IF \/ ~ ValidLayout(Layout)
        \/ t.kind = "file" /\ ~ overwrite
        \/ t.kind = "device" /\ Cardinality(DOMAIN t.content) < Size
     THEN Refuse(t)
     ELSE /\ rpc' = "write"
          /\ target' = IF t.kind = "device" THEN t ELSE [kind |-> "file", content |-> OpenFile(t)]
          /\ outExtent' = 1
          /\ outChunk' = 1
          /\ UNCHANGED <<source, capture>>

Offset(row) == extentRows[row.extent].offset + row.rel

\* read_verified_chunk, seek, write.
WriteChunk ==
  /\ rpc = "write"
  /\ outExtent \in DOMAIN Layout
  /\ outChunk \in DOMAIN Layout[outExtent].chunks
  /\ LET row == Layout[outExtent].chunks[outChunk]
     IN target' = [target EXCEPT !.content =
          [b \in DOMAIN @ |-> IF b \in Offset(row) .. Offset(row) + row.len - 1
                              THEN row.hash[b - Offset(row) + 1] ELSE @[b]]]
  /\ outChunk' = outChunk + 1
  /\ UNCHANGED <<source, capture, rpc, blank, outExtent, restores>>

NextExtent ==
  /\ rpc = "write"
  /\ outExtent \in DOMAIN Layout
  /\ outChunk \notin DOMAIN Layout[outExtent].chunks
  /\ outExtent' = outExtent + 1
  /\ outChunk' = 1
  /\ UNCHANGED <<source, capture, rpc, target, blank, restores>>

FinishRestore ==
  /\ rpc = "write"
  /\ outExtent \notin DOMAIN Layout
  /\ rpc' = "ok"
  /\ UNCHANGED <<source, capture, target, blank, outExtent, outChunk, restores>>

KillRestore ==
  /\ rpc = "write"
  /\ rpc' = "killed"
  /\ outExtent' = 1
  /\ outChunk' = 1
  /\ UNCHANGED <<source, capture, target, blank, restores>>

\* What the operator may name: nothing, what an earlier restore has left, a
\* file or a device with something else on it.
Candidates ==
  {Absent, target}
    \union {[kind |-> kind, content |-> [b \in 0 .. n - 1 |-> u]]
              : kind \in {"file", "device"}, n \in {Size - 1, Size, Size + 1}, u \in Unit}

Step ==
  \/ Scan
  \/ ReadExtent
  \/ SchedulePiece
  \/ \E p \in inflight : RecordPiece(p)
  \/ LastExtent
  \/ CreateSnapshot
  \/ WriteChunk
  \/ NextExtent
  \/ FinishRestore

Next ==
  \/ Step
  \/ Fail
  \/ \E b \in Blocks : Edit(b)
  \/ \E t \in Candidates, overwrite \in BOOLEAN : StartRestore(t, overwrite)
  \/ KillRestore

Spec == Init /\ [][Next]_vars /\ WF_vars(Step)

-----------------------------------------------------------------------------
(* Properties.                                                             *)

Covered(es) == UNION {es[k].offset .. EndOf(es[k]) - 1 : k \in DOMAIN es}

\* The extents cover what was found allocated, each block once, in order and
\* in pieces no longer than allowed (used_extents, split_extents).
ExtentsCover ==
  pc # "start" =>
    /\ Covered(extents) = scanned
    /\ \A k \in DOMAIN extents : extents[k].length <= MaxExtent
    /\ \A k \in 2 .. Len(extents) : extents[k].offset >= EndOf(extents[k - 1])

\* Whatever order the workers finish in, a manifest row names the units that
\* were read at its place, also while the device is written to
\* (BlockChunkPosition, record_block_chunk_manifest).
ManifestFaithful ==
  \A r \in chunkRows :
    /\ Offset(r) + r.len <= Size
    /\ r.hash = [k \in 1 .. r.len |-> image[Offset(r) + k - 1]]

\* What a finished capture has recorded is a layout restore accepts.
ManifestAccepted == pc = "listed" => ValidLayout(Layout)

\* The image of a device nobody wrote to is the device, holes included.
SteadyImage == pc = "listed" /\ edits = 0 => image = device

\* A restore that reports success to a file, new or replaced, or to a device
\* that held zeros, has made the image, whatever an interrupted restore had
\* left there.
ImageRestored ==
  rpc = "ok" /\ blank => \A b \in Blocks : target.content[b] = image[b]

\* The manifest is what restore needs: it covers what was allocated, names what
\* was read, and passes restore's own checks.
ManifestSound == ExtentsCover /\ ManifestFaithful /\ ManifestAccepted

\* What comes back is the device.
ImageSound == SteadyImage /\ ImageRestored

\* Both commands end (the drain loops wait for no worker in vain).
CommandsEnd ==
  /\ <>(pc \in {"listed", "failed"})
  /\ []<>(rpc # "write")

=============================================================================
