---------------------------- MODULE TreeBackup ----------------------------
(***************************************************************************)
(* How a backup turns a file tree into an object tree: the recursive walk  *)
(* of backup_directory and the chunk pipeline of backup_file               *)
(* (commands/backup.rs), which reads ahead, lets worker tasks hash, encode *)
(* and encrypt the chunks, and records them in the order they finish.      *)
(*                                                                         *)
(* A chunk is its bytes, and so is its hash.  One command runs here; what  *)
(* other commands do to the chunk files and rows it relies on is           *)
(* Repository's subject, so storing a chunk and its row is one step.       *)
(***************************************************************************)
EXTENDS Naturals, Sequences, FiniteSets

CONSTANTS
  Dirs, Files,  \* the source tree ...
  Root,         \* ... the path given to the command ...
  Parent,       \* ... and the directory of every other node
  Byte,
  Contents,     \* bound: what a file may hold
  Earlier,      \* chunks that earlier backups have stored
  ChunkSize,    \* size of the read buffer
  Depth,        \* pipeline_depth
  MaxEdits      \* bound: writes to the source while it is backed up

Nodes == Dirs \union Files

ASSUME TreeAssumption ==
  /\ Root \in Nodes
  /\ Dirs \intersect Files = {}
  /\ Parent \in [Nodes \ {Root} -> Dirs]

\* No directory is its own ancestor: whatever holds Root, and with a directory
\* all its entries, holds every node.
ASSUME RootedAssumption ==
  \A S \in SUBSET Nodes :
    Root \in S /\ (\A n \in Nodes \ {Root} : Parent[n] \in S => n \in S) => S = Nodes

Chunks == UNION {[1 .. n -> Byte] : n \in 1 .. ChunkSize}
Children(d) == {n \in Nodes \ {Root} : Parent[n] = d}

ASSUME PipelineAssumption ==
  /\ ChunkSize \in Nat \ {0}
  /\ Depth \in Nat \ {0, 1}
  /\ Contents \subseteq Seq(Byte)
  /\ Earlier \subseteq Chunks
  /\ MaxEdits \in Nat

VARIABLES
  source,     \* what each file holds now
  edits,      \* writes to the source so far
  objects,    \* nodes that have an Objects row
  tree,       \* nodes with a Tree row under their directory
  rows,       \* FileChunks
  stored,     \* chunks with a file and a Chunks row
  chunkSet,   \* chunk_set: what the snapshot will reference
  pc,         \* where the command is
  open,       \* directories being walked, the innermost last
  left,       \* their entries not visited yet
  file,       \* the file being read
  pos, eof,   \* how far
  scheduled,  \* scheduled_chunks
  inflight,   \* chunks handed to a worker and not recorded yet
  reads       \* history: the chunks read from each file, in order

walk == <<pc, open, left>>
pipe == <<file, pos, eof, scheduled, inflight>>
catalog == <<objects, tree, rows, stored, chunkSet>>
vars == <<source, edits, catalog, walk, pipe, reads>>

Tasks == [order : Nat, chunk : Chunks]
Rows == [file : Files, order : Nat, chunk : Chunks]

TypeOK ==
  /\ source \in [Files -> Contents]
  /\ edits \in 0 .. MaxEdits
  /\ objects \subseteq Nodes
  /\ tree \subseteq objects \ {Root}
  /\ rows \subseteq Rows
  /\ stored \subseteq Chunks
  /\ chunkSet \subseteq stored
  /\ pc \in {"start", "walk", "file", "captured", "listed", "failed"}
  /\ open \in Seq(Dirs)
  /\ left \in [Dirs -> SUBSET Nodes]
  /\ file \in Files \union {Root}
  /\ pos \in Nat
  /\ eof \in BOOLEAN
  /\ scheduled \in Nat
  /\ inflight \subseteq Tasks
  /\ reads \in [Files -> Seq(Chunks)]

\* backup_file's and backup_directory's local variables, unset.
NoPipe == /\ file' = Root
          /\ pos' = 0
          /\ eof' = FALSE
          /\ scheduled' = 0
          /\ inflight' = {}

NoWalk == /\ open' = <<>>
          /\ left' = [d \in Dirs |-> {}]

Init ==
  /\ source \in [Files -> Contents]
  /\ edits = 0
  /\ objects = {}
  /\ tree = {}
  /\ rows = {}
  /\ stored = Earlier
  /\ chunkSet = {}
  /\ pc = "start"
  /\ open = <<>>
  /\ left = [d \in Dirs |-> {}]
  /\ file = Root
  /\ pos = 0
  /\ eof = FALSE
  /\ scheduled = 0
  /\ inflight = {}
  /\ reads = [f \in Files |-> <<>>]

-----------------------------------------------------------------------------
(* The walk.  read_dir lists a directory in an order of its own.           *)

Current == open[Len(open)]

\* Is the command about to visit node n?
At(n) ==
  \/ pc = "start" /\ n = Root
  \/ pc = "walk" /\ n # Root /\ n \in left[Current]

\* backup_directory: create the object, list the entries.
EnterDirectory(d) ==
  /\ At(d)
  /\ objects' = objects \union {d}
  /\ open' = Append(open, d)
  /\ left' = [left EXCEPT ![d] = Children(d)]
  /\ pc' = "walk"
  /\ UNCHANGED <<source, edits, tree, rows, stored, chunkSet, pipe, reads>>

\* backup_file: create the object, open the file.
OpenFile(f) ==
  /\ At(f)
  /\ objects' = objects \union {f}
  /\ file' = f
  /\ pos' = 0
  /\ eof' = FALSE
  /\ scheduled' = 0
  /\ pc' = "file"
  /\ UNCHANGED <<source, edits, tree, rows, stored, chunkSet, open, left,
                 inflight, reads>>

\* The call for node n returns: its parent links it, or it was the root.
Return(n) ==
  IF n = Root
  THEN /\ pc' = "captured"
       /\ UNCHANGED <<tree, left>>
  ELSE /\ tree' = tree \union {n}
       /\ left' = [left EXCEPT ![Parent[n]] = @ \ {n}]
       /\ pc' = "walk"

\* All entries are visited: the parent links the directory on the way out.
LeaveDirectory ==
  /\ pc = "walk"
  /\ left[Current] = {}
  /\ open' = SubSeq(open, 1, Len(open) - 1)
  /\ Return(Current)
  /\ UNCHANGED <<source, edits, objects, rows, stored, chunkSet, pipe, reads>>

-----------------------------------------------------------------------------
(* The pipeline.  The loop fills the window before it waits for a worker.  *)

Window == Cardinality(inflight) < Depth

\* next_chunk returns what one read gives, which may be less than a buffer.
ReadChunk ==
  /\ pc = "file"
  /\ Window
  /\ ~ eof
  /\ \E n \in 1 .. ChunkSize :
       /\ pos + n <= Len(source[file])
       /\ LET chunk == SubSeq(source[file], pos + 1, pos + n)
          IN /\ inflight' = inflight \union {[order |-> scheduled, chunk |-> chunk]}
             /\ reads' = [reads EXCEPT ![file] = Append(@, chunk)]
       /\ pos' = pos + n
  /\ scheduled' = scheduled + 1
  /\ UNCHANGED <<source, edits, catalog, walk, file, eof>>

ReadEnd ==
  /\ pc = "file"
  /\ Window
  /\ ~ eof
  /\ pos >= Len(source[file])
  /\ eof' = TRUE
  /\ UNCHANGED <<source, edits, catalog, walk, file, pos, scheduled, inflight, reads>>

\* Defect: a chunk's place is the number of chunks recorded before it.
RowForFinished(task) ==
  [file |-> file, order |-> Cardinality({r \in rows : r.file = file}), chunk |-> task.chunk]

RowFor(task) == [file |-> file, order |-> task.order, chunk |-> task.chunk]

\* Defect: results are only awaited while the window is full.
RecordChunkWhenFull(task) ==
  /\ pc = "file"
  /\ ~ Window
  /\ task \in inflight
  /\ inflight' = inflight \ {task}
  /\ stored' = stored \union {task.chunk}
  /\ rows' = rows \union {RowFor(task)}
  /\ chunkSet' = chunkSet \union {task.chunk}
  /\ UNCHANGED <<source, edits, objects, tree, walk, file, pos, eof, scheduled, reads>>

\* A worker has finished, in any order: handle_processed_chunk.
RecordChunk(task) ==
  /\ pc = "file"
  /\ ~ Window \/ eof
  /\ task \in inflight
  /\ inflight' = inflight \ {task}
  /\ stored' = stored \union {task.chunk}
  /\ \A r \in rows : r.file # file \/ r.order # RowFor(task).order
  /\ rows' = rows \union {RowFor(task)}
  /\ chunkSet' = chunkSet \union {task.chunk}
  /\ UNCHANGED <<source, edits, objects, tree, walk, file, pos, eof, scheduled, reads>>

CloseFile ==
  /\ pc = "file"
  /\ eof
  /\ inflight = {}
  /\ Return(file)
  /\ NoPipe
  /\ UNCHANGED <<source, edits, objects, rows, stored, chunkSet, open, reads>>

-----------------------------------------------------------------------------

\* create_snapshot: the tree gets a name.
CreateSnapshot ==
  /\ pc = "captured"
  /\ pc' = "listed"
  /\ UNCHANGED <<source, edits, catalog, open, left, pipe, reads>>

\* An entry vanishes, a worker panics, a read or a statement fails: the error
\* ends the command, its workers are left to finish unheard.
Fail ==
  /\ pc \notin {"listed", "failed"}
  /\ pc' = "failed"
  /\ NoPipe
  /\ NoWalk
  /\ UNCHANGED <<source, edits, catalog, reads>>

\* Someone writes to a file of the source.
Edit(f) ==
  /\ edits < MaxEdits
  /\ pc \in {"walk", "file"}
  /\ \E c \in Contents : c # source[f] /\ source' = [source EXCEPT ![f] = c]
  /\ edits' = edits + 1
  /\ UNCHANGED <<catalog, walk, pipe, reads>>

Step ==
  \/ \E d \in Dirs : EnterDirectory(d)
  \/ \E f \in Files : OpenFile(f)
  \/ LeaveDirectory
  \/ ReadChunk
  \/ ReadEnd
  \/ \E task \in inflight : RecordChunk(task)
  \/ CloseFile
  \/ CreateSnapshot

Next ==
  \/ Step
  \/ Fail
  \/ \E f \in Files : Edit(f)

Spec == Init /\ [][Next]_vars

-----------------------------------------------------------------------------
(* Properties.                                                             *)

RowsOf(f) == {r \in rows : r.file = f}

\* Has the call for node n returned?
Returned(n) == n \in tree \/ (n = Root /\ pc \in {"captured", "listed"})

\* Workers finish in any order, yet every FileChunks row names the chunk that
\* was read in its place (spawn_chunk_processing's order, add_file_chunk).
RowsInOrder ==
  \A r \in rows :
    /\ r.order < Len(reads[r.file])
    /\ r.chunk = reads[r.file][r.order + 1]

\* A file is only left when every chunk read from it is recorded: backup_file
\* ends at the end of the file with no worker outstanding.
FilesComplete ==
  \A f \in Files :
    Returned(f) => {r.order : r \in RowsOf(f)} = 0 .. Len(reads[f]) - 1

\* A directory is linked after all it contains, so a snapshot's tree has no
\* gap however the walk went (backup_directory).
LinkedWhole ==
  \A d \in Dirs :
    Returned(d) => /\ d \in objects
                   /\ Children(d) \subseteq tree

\* What the snapshot will reference is what its rows link, neither more nor
\* less (chunk_set, handed to add_references_batch).
SetMatchesRows == chunkSet = {r.chunk : r \in rows}

\* What a backup records is what it read: rows, tree and reference set.
BackupFaithful == RowsInOrder /\ FilesComplete /\ LinkedWhole /\ SetMatchesRows

\* The walk.  Entries still to visit have no row yet, but for those on the way
\* to where the command is; what is visited and done is linked.
OnPath ==
  /\ \A n \in objects \ {Root} : Parent[n] \in objects
  /\ \A i \in 1 .. Len(open) : open[i] \in objects
  /\ \A i, j \in 1 .. Len(open) : open[i] = open[j] => i = j
  /\ open # <<>> => open[1] = Root
  /\ \A i \in 1 .. Len(open) - 1 : open[i + 1] \in left[open[i]]
  /\ \A d \in Dirs : left[d] \subseteq Children(d) \ tree
  /\ \A d \in Dirs : \A n \in left[d] \intersect objects :
       \/ pc = "file" /\ n = file
       \/ \E i \in 1 .. Len(open) - 1 : open[i] = d /\ open[i + 1] = n
  /\ pc # "failed" => \A d \in Dirs \intersect objects : Children(d) \subseteq left[d] \union tree
  /\ pc = "start" => objects = {} /\ open = <<>>
  /\ pc = "walk" => open # <<>>
  /\ pc = "file" => /\ file \in Files \intersect objects
                    /\ IF open = <<>> THEN file = Root ELSE file \in left[Current]

\* The pipeline.  Every chunk read from the current file is either recorded or
\* in flight, under the number of its read.
Accounted ==
  /\ pc # "file" => inflight = {}
  /\ \A f \in Files \ objects : reads[f] = <<>> /\ RowsOf(f) = {}
  /\ pc = "file" =>
       /\ scheduled = Len(reads[file])
       /\ {r.order : r \in RowsOf(file)} \union {t.order : t \in inflight} = 0 .. scheduled - 1
  /\ \A t \in inflight : /\ t.order < Len(reads[file])
                         /\ t.chunk = reads[file][t.order + 1]

\* However slow the workers are, no more than pipeline_depth chunks are in
\* memory (the loops of backup_file).
MemoryBounded == Cardinality(inflight) <= Depth

=============================================================================
