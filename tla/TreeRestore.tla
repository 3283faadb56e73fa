---------------------------- MODULE TreeRestore ----------------------------
(***************************************************************************)
(* What comes back: the restore command (commands/restore.rs) run on the   *)
(* snapshot a TreeBackup has made, possibly more than once and onto what   *)
(* an earlier, interrupted restore has left, from chunk files that may     *)
(* have been damaged since.                                                *)
(***************************************************************************)
EXTENDS TreeBackup, SequencesExt

CONSTANTS
  Place,        \* where the stored name of a node puts it (to_string_lossy)
  Modes,        \* which nodes a mode may forbid their owner to write
  MaxRestores,  \* bound: restores started
  MaxDamage,    \* bound: chunk files damaged
  Rot           \* bound: what a damaged chunk file may decode to

\* What a chunk file decodes to when it decodes to nothing.
Garbled == <<>>

Places == {Place[n] : n \in Nodes}

ASSUME RestoreAssumption ==
  /\ DOMAIN Place = Nodes
  /\ Modes \subseteq SUBSET Nodes
  /\ MaxRestores \in Nat
  /\ MaxDamage \in Nat
  /\ Rot \subseteq Chunks \union {Garbled}

VARIABLES
  blob,        \* what each chunk file decodes to; garbled if to nothing
  damage,      \* chunk files damaged so far
  readOnly,    \* the captured nodes their owner may not write
  privileged,  \* is the restore run by root?
  dest,        \* the destination
  rpc,         \* where the restore is
  ropen,       \* directories being restored, the innermost last
  rleft,       \* their Tree rows not restored yet
  rfile, next, \* the file being restored, the chunks written to it
  restores     \* restores started

storage == <<blob, damage, readOnly, privileged>>
rvars == <<dest, rpc, ropen, rleft, rfile, next, restores>>
allvars == <<vars, storage, rvars>>

Nothing == [kind |-> "none", data |-> <<>>, sealed |-> FALSE, dated |-> FALSE]

Entry == [kind : {"none", "file", "dir"}, data : Seq(Chunks), sealed : BOOLEAN, dated : BOOLEAN]

RestoreTypeOK ==
  /\ TypeOK
  /\ blob \in [Chunks -> Chunks \union {Garbled}]
  /\ damage \in 0 .. MaxDamage
  /\ readOnly \in Modes
  /\ privileged \in BOOLEAN
  /\ dest \in [Places -> Entry]
  /\ \A p \in Places : dest[p].kind # "file" => dest[p].data = <<>>
  /\ rpc \in {"idle", "start", "walk", "file", "ok", "failed", "killed"}
  /\ ropen \in Seq(Dirs)
  /\ rleft \in [Dirs -> SUBSET Nodes]
  /\ rfile \in Files \union {Root}
  /\ next \in Nat
  /\ rpc = "file" => /\ dest[Place[rfile]].kind = "file"
                     /\ next = Len(dest[Place[rfile]].data)
  /\ restores \in 0 .. MaxRestores

RestoreInit ==
  /\ Init
  /\ blob = [c \in Chunks |-> c]
  /\ damage = 0
  /\ readOnly \in Modes
  /\ privileged \in BOOLEAN
  /\ dest = [p \in Places |-> Nothing]
  /\ rpc = "idle"
  /\ ropen = <<>>
  /\ rleft = [d \in Dirs |-> {}]
  /\ rfile = Root
  /\ next = 0
  /\ restores = 0

-----------------------------------------------------------------------------
(* The destination's file system.                                          *)

\* The directory a node's place is made in; the destination's own parent is
\* the operator's and writable.
Above(n) == IF n = Root THEN Nothing ELSE dest[Place[Parent[n]]]

\* May an entry be made where node n goes?
CanCreate(n) == privileged \/ ~ Above(n).sealed

\* Making an entry changes its directory's times.
Put(n, entry) ==
  IF n # Root /\ dest[Place[n]].kind = "none"
  THEN [dest EXCEPT ![Place[n]] = entry, ![Place[Parent[n]]].dated = FALSE]
  ELSE [dest EXCEPT ![Place[n]] = entry]

\* apply_metadata: mode, owner and times, each at best effort.
WithMetadata(n, entry) ==
  [entry EXCEPT !.sealed = (n \in readOnly), !.dated = TRUE]

-----------------------------------------------------------------------------

StartRestore ==
  /\ pc = "listed"
  /\ rpc \in {"idle", "ok", "failed", "killed"}
  /\ restores < MaxRestores
  /\ restores' = restores + 1
  /\ rpc' = "start"
  /\ UNCHANGED <<vars, storage, dest, ropen, rleft, rfile, next>>

RCurrent == ropen[Len(ropen)]

RAt(n) ==
  \/ rpc = "start" /\ n = Root
  \/ rpc = "walk" /\ n # Root /\ n \in rleft[RCurrent]

\* restore_file's and restore_directory's local variables, unset.
NoFile == rfile' = Root /\ next' = 0
NoRWalk == ropen' = <<>> /\ rleft' = [d \in Dirs |-> {}]

RFail ==
  /\ rpc' = "failed"
  /\ NoFile
  /\ NoRWalk
  /\ UNCHANGED <<vars, storage, dest, restores>>

\* restore_directory: create_dir_all, apply_metadata, then the children.
RestoreDirectory(d) ==
  LET old == dest[Place[d]]
      new == [Nothing EXCEPT !.kind = "dir"]
  IN
  /\ RAt(d)
  /\ old.kind = "dir" \/ (old.kind = "none" /\ CanCreate(d))
  /\ dest' = Put(d, WithMetadata(d, new))
  /\ rpc' = "walk"
  /\ ropen' = Append(ropen, d)
  /\ rleft' = [rleft EXCEPT ![d] = tree \intersect Children(d)]
  /\ UNCHANGED <<vars, storage, rfile, next, restores>>

\* It is there as a file, or may not be made.
DirectoryRefused(d) ==
  LET old == dest[Place[d]]
  IN
  /\ RAt(d)
  /\ old.kind = "file" \/ (old.kind = "none" /\ ~ CanCreate(d))
  /\ RFail

\* Defect: the file must be new.
CanOpenNew(f) == dest[Place[f]].kind = "none" /\ CanCreate(f)

\* File::create truncates a file that is there and may be written.
CanOpen(f) ==
  LET old == dest[Place[f]]
  IN \/ old.kind = "none" /\ CanCreate(f)
     \/ old.kind = "file" /\ (privileged \/ ~ old.sealed)

\* Defect: the file is opened without being truncated.
CreateFileKeeps(f) ==
  LET old == dest[Place[f]]
      new == [old EXCEPT !.kind = "file", !.dated = FALSE]
  IN
  /\ RAt(f)
  /\ CanOpen(f)
  /\ dest' = Put(f, new)
  /\ rpc' = "file"
  /\ rfile' = f
  /\ next' = 0
  /\ UNCHANGED <<vars, storage, ropen, rleft, restores>>

\* restore_file: get_file_chunks, then create the file.
CreateFile(f) ==
  LET old == dest[Place[f]]
      new == [Nothing EXCEPT !.kind = "file", !.sealed = old.sealed]
  IN
  /\ RAt(f)
  /\ CanOpen(f)
  /\ dest' = Put(f, new)
  /\ rpc' = "file"
  /\ rfile' = f
  /\ next' = 0
  /\ UNCHANGED <<vars, storage, ropen, rleft, restores>>

FileRefused(f) ==
  /\ RAt(f)
  /\ ~ CanOpen(f)
  /\ RFail

\* get_file_chunks: ORDER BY chunk_order.
FileChunks(f) ==
  LET before(r) == {q \in RowsOf(f) : q.order < r.order}
  IN [k \in 1 .. Cardinality(RowsOf(f)) |->
        (CHOOSE r \in RowsOf(f) : Cardinality(before(r)) = k - 1).chunk]

\* Defect: whatever can be decrypted is believed.
VerifiedByKey(c) == blob[c] # Garbled

\* read_verified_chunk: decrypt, decode, compare the hash.
Verified(c) == blob[c] # Garbled /\ blob[c] = c

WriteChunk ==
  /\ rpc = "file"
  /\ next < Len(FileChunks(rfile))
  /\ LET chunk == FileChunks(rfile)[next + 1]
     IN /\ Verified(chunk)
        /\ dest' = [dest EXCEPT ![Place[rfile]].data = Append(@, blob[chunk]),
                                ![Place[rfile]].dated = FALSE]
  /\ next' = next + 1
  /\ UNCHANGED <<vars, storage, rpc, ropen, rleft, rfile, restores>>

ChunkRefused ==
  /\ rpc = "file"
  /\ next < Len(FileChunks(rfile))
  /\ ~ Verified(FileChunks(rfile)[next + 1])
  /\ RFail

\* The call for node n returns.
RReturn(n) ==
  IF n = Root
  THEN rpc' = "ok" /\ UNCHANGED rleft
  ELSE /\ rpc' = "walk"
       /\ rleft' = [rleft EXCEPT ![Parent[n]] = @ \ {n}]

FinishFile ==
  /\ rpc = "file"
  /\ next = Len(FileChunks(rfile))
  /\ dest' = [dest EXCEPT ![Place[rfile]] = WithMetadata(rfile, @)]
  /\ RReturn(rfile)
  /\ NoFile
  /\ UNCHANGED <<vars, storage, ropen, restores>>

FinishDirectory ==
  /\ rpc = "walk"
  /\ rleft[RCurrent] = {}
  /\ ropen' = SubSeq(ropen, 1, Len(ropen) - 1)
  /\ RReturn(RCurrent)
  /\ UNCHANGED <<vars, storage, dest, rfile, next, restores>>

KillRestore ==
  /\ rpc \in {"start", "walk", "file"}
  /\ rpc' = "killed"
  /\ NoFile
  /\ NoRWalk
  /\ UNCHANGED <<vars, storage, dest, restores>>

\* A chunk file rots, or is replaced by another chunk's.  A backup reads no
\* chunk file, so nothing tells damage before its end from damage after it.
Damage(c) ==
  /\ pc = "listed"
  /\ damage < MaxDamage
  /\ c \in stored
  /\ \E other \in Rot \ {c} : blob' = [blob EXCEPT ![c] = other]
  /\ damage' = damage + 1
  /\ UNCHANGED <<vars, readOnly, privileged, rvars>>

RestoreStep ==
  \/ \E d \in Dirs : RestoreDirectory(d) \/ DirectoryRefused(d)
  \/ \E f \in Files : CreateFile(f) \/ FileRefused(f)
  \/ WriteChunk
  \/ ChunkRefused
  \/ FinishFile
  \/ FinishDirectory

RestoreNext ==
  \/ Next /\ UNCHANGED <<storage, rvars>>
  \/ StartRestore
  \/ RestoreStep
  \/ KillRestore
  \/ \E c \in stored : Damage(c)

RestoreSpec ==
  /\ RestoreInit
  /\ [][RestoreNext]_allvars
  /\ WF_allvars(Step /\ UNCHANGED <<storage, rvars>>)
  /\ WF_allvars(RestoreStep)

-----------------------------------------------------------------------------
(* Properties.                                                             *)

\* At no time does the destination hold a byte that was not read from the
\* source in that place: what is written is a prefix of what was read, also
\* while chunk files are damaged and restores are cut short and repeated
\* (restore_file, read_verified_chunk).
OnlyWhatWasRead ==
  \A f \in Files : IsPrefix(dest[Place[f]].data, reads[f])

\* A restore that reports success has restored everything that was captured.
RestoredWhole ==
  rpc = "ok" =>
    \A n \in Nodes :
      /\ dest[Place[n]].kind = IF n \in Dirs THEN "dir" ELSE "file"
      /\ n \in Files => dest[Place[n]].data = reads[n]

\* If nobody wrote to the source meanwhile, the files come back byte for byte,
\* wherever the reads have cut them into chunks.
RoundTrip ==
  rpc = "ok" /\ edits = 0 =>
    \A f \in Files : FlattenSeq(dest[Place[f]].data) = source[f]

\* A restored file has its own mode and times: they are applied after the last
\* write, and nothing writes to it later.
FilesKeepMetadata ==
  rpc = "ok" =>
    \A f \in Files : /\ dest[Place[f]].dated
                     /\ dest[Place[f]].sealed = (f \in readOnly)

\* What a restore makes is what the backup read, at every moment a prefix of it
\* and in the end the whole, with its metadata.
RestoreFaithful == OnlyWhatWasRead /\ RestoredWhole /\ RoundTrip /\ FilesKeepMetadata

\* A restore fails for a damaged chunk or for want of permission; what an
\* interrupted restore has left is never in the way of the next one.
FailsForCause ==
  rpc = "failed" => damage > 0 \/ (~ privileged /\ readOnly # {})

\* No two names come out the same.  What to_string_lossy cannot express may:
\* then one node is restored over another, whatever else holds.
FaithfulNames == \A m, n \in Nodes : Place[m] = Place[n] => m = n

\* Where the restore is.  It runs on a finished backup; the way to the current
\* directory leads through entries that are still to be done.
OnRestorePath ==
  /\ rpc # "idle" \/ damage > 0 => pc = "listed"
  /\ rpc = "walk" => ropen # <<>>
  /\ rpc \notin {"walk", "file"} => ropen = <<>>
  /\ \A i, j \in 1 .. Len(ropen) : ropen[i] = ropen[j] => i = j
  /\ ropen # <<>> => ropen[1] = Root
  /\ \A i \in 1 .. Len(ropen) - 1 : ropen[i + 1] \in rleft[ropen[i]]
  /\ \A d \in Dirs : rleft[d] \subseteq Children(d)
  /\ rpc = "file" => /\ rfile \in Files
                     /\ IF ropen = <<>> THEN rfile = Root ELSE rfile \in rleft[RCurrent]

OwnKind(n) == IF n \in Dirs THEN "dir" ELSE "file"

\* What is at the place of a node: it is of the node's kind, sealed only where
\* the node was, and starts as the node did.
AtPlace ==
  /\ rpc = "idle" => dest = [p \in Places |-> Nothing]
  /\ damage = 0 => blob = [c \in Chunks |-> c]
  /\ \A n \in Nodes : /\ dest[Place[n]].kind \in {"none", OwnKind(n)}
                      /\ dest[Place[n]].sealed => n \in readOnly
  /\ \A f \in Files : LET data == dest[Place[f]].data
                      IN /\ Len(data) <= Len(reads[f])
                         /\ \A i \in 1 .. Len(data) : data[i] = reads[f][i]

\* All that lies below a node, the node included.
Below(n) ==
  {m \in Nodes : \A S \in SUBSET Nodes :
     n \in S /\ (\A k \in Nodes \ {Root} : Parent[k] \in S => k \in S) => m \in S}

\* Node n is restored.
Whole(n) ==
  /\ dest[Place[n]].kind = OwnKind(n)
  /\ n \in Files => /\ dest[Place[n]].data = reads[n]
                    /\ dest[Place[n]].dated
                    /\ dest[Place[n]].sealed = (n \in readOnly)

\* Node n is still ahead of the restore.
Pending(n) ==
  \/ rpc = "start"
  \/ rpc = "file" /\ ropen = <<>>
  \/ \E i \in 1 .. Len(ropen) : \E m \in rleft[ropen[i]] :
       /\ i < Len(ropen) => m # ropen[i + 1]
       /\ n \in Below(m)

\* No node is forgotten.
Progress ==
  /\ rpc \in {"start", "walk", "file"} => \A n \in Nodes : Whole(n) \/ Pending(n)
  /\ rpc = "ok" => \A n \in Nodes : Whole(n)

\* As long as nobody writes to the source, what was read of a file is what it
\* holds, so far.
ReadsSource ==
  edits = 0 =>
    /\ pc = "file" => /\ pos <= Len(source[file])
                      /\ FlattenSeq(reads[file]) = SubSeq(source[file], 1, pos)
                      /\ eof => pos = Len(source[file])
    /\ \A f \in Files : Returned(f) => FlattenSeq(reads[f]) = source[f]

\* Both commands come to an end: neither waits for a worker that is not there
\* or walks a directory twice.
CommandsEnd ==
  /\ <>(pc \in {"listed", "failed"})
  /\ []<>(rpc \in {"idle", "ok", "failed", "killed"})

=============================================================================
