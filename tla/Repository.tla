----------------------------- MODULE Repository -----------------------------
(***************************************************************************)
(* A Lazarus repository as the lazarus-cli commands use it: a directory of *)
(* chunk files (data/), the SQLite catalog (Chunks, FileChunks, Snapshots, *)
(* ChunkRefs) and the snapshot metadata sidecar.  `backup' and             *)
(* `system-snapshot' add snapshots, `prune' removes them.  Every file      *)
(* operation and every SQLite statement that commits on its own is one     *)
(* action, since a second command, a crash or an error can come between    *)
(* any two of them: the commands take no repository lock.                  *)
(*                                                                         *)
(* A command is an element of Writer or Pruner and runs at most once.  The *)
(* tree of catalog objects a backup creates is abstracted to its root, and *)
(* the root is named by the command that created it.                       *)
(***************************************************************************)
EXTENDS Integers, FiniteSets

CONSTANTS
    Writer,        \* backup and system-snapshot commands
    Pruner,        \* prune commands
    Chunk,         \* BLAKE3 hashes of plaintexts
    FileContents,  \* the chunk sets a file backup may find at its source
    FpContents,    \* the blob sets a system fingerprint may consist of
    MaxSeconds,    \* bound: snapshot ids are seconds 1..MaxSeconds
    Retention,     \* the repository has a local retention lock (chattr +i)
    Overlap,       \* what may run at the same time: "writers", "prune"
    Faults,        \* what may go wrong: a "writer" or a "pruner" that ends
                   \* at any step, a "delete" of a file
    NoRoot,        \* no Snapshots row
    NoChunk        \* no chunk at hand

ASSUME ContentsAssumption ==
    /\ FileContents \subseteq SUBSET Chunk
    /\ FpContents \subseteq (SUBSET Chunk) \ {{}}
    /\ NoChunk \notin Chunk
ASSUME CommandAssumption ==
    /\ NoRoot \notin Writer
    /\ MaxSeconds \in Nat
    /\ Retention \in BOOLEAN
    /\ Overlap \subseteq {"writers", "prune"}
    /\ Faults \subseteq {"writer", "pruner", "delete"}

VARIABLES
    blob,       \* data/<hash>: absent, an encoded file chunk or a raw blob
    locked,     \* files that carry the immutable flag
    chunkRow,   \* Chunks
    links,      \* FileChunks and BlockExtentChunks below each root object
    snapshots,  \* Snapshots: id -> root object
    refs,       \* ChunkRefs
    sidecar,    \* ids whose sidecar entry names a system fingerprint
    now         \* second of the latest command start
repoVars == <<blob, locked, chunkRow, links, snapshots, refs, sidecar, now>>

VARIABLES
    wpc,        \* where each writer is
    kind,       \* "backup" or "capture"
    sid,        \* the snapshot id a writer uses
    files,      \* chunks of the source a backup reads
    fp,         \* blobs of the fingerprint a writer captures
    todo,       \* chunks or blobs still to be handled
    cur         \* chunk or blob at hand
writerVars == <<wpc, kind, sid, files, fp, todo, cur>>

VARIABLES
    ppc,        \* where each pruner is
    keep,       \* ids the retention rule keeps
    drop,       \* ids to drop whose rows are still there
    active,     \* chunks marked from the kept roots
    reclaim,    \* catalog chunks still to be deleted
    unref,      \* dropped ids whose references are still there
    cand,       \* chunks of the id whose references were just removed
    freed,      \* chunks whose last reference went away
    pcur        \* chunk being deleted
prunerVars == <<ppc, keep, drop, active, reclaim, unref, cand, freed, pcur>>

vars == <<repoVars, writerVars, prunerVars>>

SnapId == 1..MaxSeconds
Listed == {s \in SnapId : snapshots[s] # NoRoot}

WriterSteps == {"chunks", "write", "lock", "upsert", "link", "refs", "blobs",
                "register", "sidecar"}
PrunerSteps == {"mark", "scan", "unref", "count", "sweep", "unlink", "unrow",
                "free", "rows"}
Ended == {"idle", "done", "failed"}

WriterRuns == \E w \in Writer : wpc[w] \notin Ended
PrunerRuns == \E p \in Pruner : ppc[p] \notin Ended

(* The commands take no lock; what the operator leaves to overlap does.    *)
MayStartWriter ==
    /\ "writers" \in Overlap \/ ~WriterRuns
    /\ "prune" \in Overlap \/ ~PrunerRuns
MayStartPruner == "prune" \in Overlap \/ ~(WriterRuns \/ PrunerRuns)

RepoTypeOK ==
    /\ blob \in [Chunk -> {"none", "encoded", "raw"}]
    /\ locked \subseteq Chunk
    /\ chunkRow \subseteq Chunk
    /\ links \in [Writer -> SUBSET Chunk]
    /\ snapshots \in [SnapId -> Writer \cup {NoRoot}]
    /\ refs \subseteq Chunk \X SnapId
    /\ sidecar \subseteq SnapId
    /\ now \in 0..MaxSeconds

WriterTypeOK ==
    /\ wpc \in [Writer -> WriterSteps \cup Ended]
    /\ kind \in [Writer -> {"backup", "capture"}]
    /\ sid \in [Writer -> 0..MaxSeconds]
    /\ files \in [Writer -> SUBSET Chunk]
    /\ fp \in [Writer -> SUBSET Chunk]
    /\ todo \in [Writer -> SUBSET Chunk]
    /\ cur \in [Writer -> Chunk \cup {NoChunk}]
    /\ \A w \in Writer : wpc[w] # "idle" => sid[w] \in SnapId
    /\ \A w \in Writer :
           wpc[w] \in {"write", "lock", "upsert", "link", "register"} => cur[w] \in Chunk

PrunerTypeOK ==
    /\ ppc \in [Pruner -> PrunerSteps \cup Ended]
    /\ keep \in [Pruner -> SUBSET SnapId]
    /\ drop \in [Pruner -> SUBSET SnapId]
    /\ active \in [Pruner -> SUBSET Chunk]
    /\ reclaim \in [Pruner -> SUBSET Chunk]
    /\ unref \in [Pruner -> SUBSET SnapId]
    /\ cand \in [Pruner -> SUBSET Chunk]
    /\ freed \in [Pruner -> SUBSET Chunk]
    /\ pcur \in [Pruner -> Chunk \cup {NoChunk}]
    /\ \A p \in Pruner : ppc[p] \in {"unlink", "unrow"} => pcur[p] \in Chunk

TypeOK == RepoTypeOK /\ WriterTypeOK /\ PrunerTypeOK

Init ==
    /\ blob = [c \in Chunk |-> "none"]
    /\ locked = {} /\ chunkRow = {}
    /\ links = [w \in Writer |-> {}]
    /\ snapshots = [s \in SnapId |-> NoRoot]
    /\ refs = {} /\ sidecar = {} /\ now = 0
    /\ wpc = [w \in Writer |-> "idle"]
    /\ kind = [w \in Writer |-> "backup"]
    /\ sid = [w \in Writer |-> 0]
    /\ files = [w \in Writer |-> {}]
    /\ fp = [w \in Writer |-> {}]
    /\ todo = [w \in Writer |-> {}]
    /\ cur = [w \in Writer |-> NoChunk]
    /\ ppc = [p \in Pruner |-> "idle"]
    /\ keep = [p \in Pruner |-> {}]
    /\ drop = [p \in Pruner |-> {}]
    /\ active = [p \in Pruner |-> {}]
    /\ reclaim = [p \in Pruner |-> {}]
    /\ unref = [p \in Pruner |-> {}]
    /\ cand = [p \in Pruner |-> {}]
    /\ freed = [p \in Pruner |-> {}]
    /\ pcur = [p \in Pruner |-> NoChunk]

-----------------------------------------------------------------------------
(* Writers: backup and system-snapshot.                                    *)

WriterGoto(w, step) == wpc' = [wpc EXCEPT ![w] = step]

(* A command starts in the second of the previous start or in a later one; *)
(* that second is its snapshot id.  Abstraction: the clock is never set    *)
(* back.                                                                   *)
TakeId(w) ==
    \E t \in {now, now + 1} \cap SnapId :
        /\ now' = t
        /\ sid' = [sid EXCEPT ![w] = t]

(* `backup', with or without --capture-system (no blobs: without).         *)
StartBackup(w) ==
    /\ wpc[w] = "idle"
    /\ MayStartWriter
    /\ TakeId(w)
    /\ \E contents \in FileContents, blobs \in FpContents \cup {{}} :
           /\ files' = [files EXCEPT ![w] = contents]
           /\ todo' = [todo EXCEPT ![w] = contents]
           /\ fp' = [fp EXCEPT ![w] = blobs]
    /\ WriterGoto(w, "chunks")
    /\ UNCHANGED <<blob, locked, chunkRow, links, snapshots, refs, sidecar,
                   kind, cur, prunerVars>>

(* `system-snapshot': the fingerprint is stored before its snapshot row.   *)
StartCapture(w) ==
    /\ wpc[w] = "idle"
    /\ MayStartWriter
    /\ TakeId(w)
    /\ kind' = [kind EXCEPT ![w] = "capture"]
    /\ \E blobs \in FpContents :
           /\ fp' = [fp EXCEPT ![w] = blobs]
           /\ todo' = [todo EXCEPT ![w] = blobs]
    /\ WriterGoto(w, "blobs")
    /\ UNCHANGED <<blob, locked, chunkRow, links, snapshots, refs, sidecar,
                   files, cur, prunerVars>>

\* Mutant: the Chunks row is inserted before the chunk is written.
ChunkExistsRowFirst(w, c) ==
    /\ wpc[w] = "chunks" /\ c \in todo[w]
    /\ WriterGoto(w, IF c \in chunkRow THEN "link" ELSE "write")
    /\ cur' = [cur EXCEPT ![w] = c]
    /\ chunkRow' = chunkRow \cup {c}
    /\ UNCHANGED <<blob, locked, links, snapshots, refs, sidecar, now,
                   kind, sid, files, fp, todo, prunerVars>>

(* handle_processed_chunk, chunk by chunk in any order (the encryption     *)
(* tasks complete in any order): chunk_exists decides whether to write.    *)
ChunkExists(w, c) ==
    /\ wpc[w] = "chunks" /\ c \in todo[w]
    /\ WriterGoto(w, IF c \in chunkRow THEN "link" ELSE "write")
    /\ cur' = [cur EXCEPT ![w] = c]
    /\ UNCHANGED <<repoVars, kind, sid, files, fp, todo, prunerVars>>

(* write_once, first half: put renames the new file over data/<hash>.      *)
PutChunk(w) ==
    /\ wpc[w] = "write" /\ cur[w] \notin locked
    /\ blob' = [blob EXCEPT ![cur[w]] = "encoded"]
    /\ WriterGoto(w, IF Retention THEN "lock" ELSE "upsert")
    /\ UNCHANGED <<locked, chunkRow, links, snapshots, refs, sidecar, now,
                   kind, sid, files, fp, todo, cur, prunerVars>>

(* An immutable target refuses the rename and the command ends in an error. *)
PutRefused(w) ==
    /\ wpc[w] = "write" /\ cur[w] \in locked
    /\ WriterGoto(w, "failed")
    /\ UNCHANGED <<repoVars, kind, sid, files, fp, todo, cur, prunerVars>>

(* write_once, second half: chattr +i on the file just renamed.            *)
LockChunk(w) ==
    /\ wpc[w] = "lock"
    /\ locked' = locked \cup {cur[w]}
    /\ WriterGoto(w, "upsert")
    /\ UNCHANGED <<blob, chunkRow, links, snapshots, refs, sidecar, now,
                   kind, sid, files, fp, todo, cur, prunerVars>>

UpsertChunk(w) ==
    /\ wpc[w] = "upsert"
    /\ chunkRow' = chunkRow \cup {cur[w]}
    /\ WriterGoto(w, "link")
    /\ UNCHANGED <<blob, locked, links, snapshots, refs, sidecar, now,
                   kind, sid, files, fp, todo, cur, prunerVars>>

(* add_file_chunk or add_block_extent_chunk; the foreign key on            *)
(* Chunks(hash) makes it an error when the row is gone.                    *)
LinkChunk(w) ==
    /\ wpc[w] = "link"
    /\ IF cur[w] \in chunkRow
       THEN /\ links' = [links EXCEPT ![w] = @ \cup {cur[w]}]
            /\ todo' = [todo EXCEPT ![w] = @ \ {cur[w]}]
            /\ WriterGoto(w, "chunks")
       ELSE /\ WriterGoto(w, "failed")
            /\ UNCHANGED <<links, todo>>
    /\ UNCHANGED <<blob, locked, chunkRow, snapshots, refs, sidecar, now,
                   kind, sid, files, fp, cur, prunerVars>>

(* create_snapshot, once every chunk of a backup or every blob of a        *)
(* capture is stored.  snapshot_id is the primary key: the second command  *)
(* of one second fails here.                                               *)
CreateSnapshot(w) ==
    /\ todo[w] = {}
    /\ \/ wpc[w] = "chunks"
       \/ wpc[w] = "blobs" /\ kind[w] = "capture"
    /\ IF snapshots[sid[w]] = NoRoot
       THEN /\ snapshots' = [snapshots EXCEPT ![sid[w]] = w]
            /\ WriterGoto(w, IF kind[w] = "backup" THEN "refs" ELSE "sidecar")
       ELSE /\ WriterGoto(w, "failed")
            /\ UNCHANGED snapshots
    /\ UNCHANGED <<blob, locked, chunkRow, links, refs, sidecar, now,
                   kind, sid, files, fp, todo, cur, prunerVars>>

(* add_references_batch: one transaction for all chunks of the snapshot.   *)
AddReferences(w) ==
    /\ wpc[w] = "refs"
    /\ refs' = refs \cup (files[w] \X {sid[w]})
    /\ todo' = [todo EXCEPT ![w] = fp[w]]
    /\ WriterGoto(w, IF fp[w] = {} THEN "done" ELSE "blobs")
    /\ UNCHANGED <<blob, locked, chunkRow, links, snapshots, sidecar, now,
                   kind, sid, files, fp, cur, prunerVars>>

\* Mutant: the hash at hand is not remembered for register_ref.
PutBlobForgetsHash(w, c) ==
    /\ wpc[w] = "blobs" /\ c \in todo[w] /\ c \notin locked
    /\ blob' = [blob EXCEPT ![c] = "raw"]
    /\ WriterGoto(w, "register")
    /\ UNCHANGED <<locked, chunkRow, links, snapshots, refs, sidecar, now,
                   kind, sid, files, fp, todo, cur, prunerVars>>

(* FingerprintPersister: a plain put, whatever the catalog knows of the    *)
(* hash.                                                                   *)
PutBlob(w, c) ==
    /\ wpc[w] = "blobs" /\ c \in todo[w] /\ c \notin locked
    /\ blob' = [blob EXCEPT ![c] = "raw"]
    /\ cur' = [cur EXCEPT ![w] = c]
    /\ WriterGoto(w, "register")
    /\ UNCHANGED <<locked, chunkRow, links, snapshots, refs, sidecar, now,
                   kind, sid, files, fp, todo, prunerVars>>

(* A blob that cannot be written is left out of the fingerprint.           *)
SkipBlob(w, c) ==
    /\ wpc[w] = "blobs" /\ c \in todo[w] /\ c \in locked
    /\ fp' = [fp EXCEPT ![w] = @ \ {c}]
    /\ todo' = [todo EXCEPT ![w] = @ \ {c}]
    /\ UNCHANGED <<repoVars, wpc, kind, sid, files, cur, prunerVars>>

RegisterRef(w) ==
    /\ wpc[w] = "register"
    /\ refs' = refs \cup {<<cur[w], sid[w]>>}
    /\ todo' = [todo EXCEPT ![w] = @ \ {cur[w]}]
    /\ WriterGoto(w, "blobs")
    /\ UNCHANGED <<blob, locked, chunkRow, links, snapshots, sidecar, now,
                   kind, sid, files, fp, cur, prunerVars>>

(* The sidecar entry that names the fingerprint is written last.           *)
PutSidecar(w) ==
    /\ \/ wpc[w] = "sidecar"
       \/ wpc[w] = "blobs" /\ kind[w] = "backup" /\ todo[w] = {}
    /\ sidecar' = sidecar \cup {sid[w]}
    /\ WriterGoto(w, "done")
    /\ UNCHANGED <<blob, locked, chunkRow, links, snapshots, refs, now,
                   kind, sid, files, fp, todo, cur, prunerVars>>

(* A crash, or an I/O or database error that ends the command: what was    *)
(* written stays, nothing is undone.                                       *)
AbortWriter(w) ==
    /\ "writer" \in Faults
    /\ wpc[w] \notin Ended
    /\ todo' = [todo EXCEPT ![w] = {}]
    /\ cur' = [cur EXCEPT ![w] = NoChunk]
    /\ WriterGoto(w, "failed")
    /\ UNCHANGED <<repoVars, kind, sid, files, fp, prunerVars>>

WriterStep(w) ==
    \/ StartBackup(w) \/ StartCapture(w)
    \/ \E c \in Chunk : ChunkExists(w, c) \/ PutBlob(w, c) \/ SkipBlob(w, c)
    \/ PutChunk(w) \/ PutRefused(w) \/ LockChunk(w) \/ UpsertChunk(w) \/ LinkChunk(w)
    \/ CreateSnapshot(w) \/ AddReferences(w) \/ RegisterRef(w) \/ PutSidecar(w)

-----------------------------------------------------------------------------
(* Pruners.                                                                *)

PrunerGoto(p, step) == ppc' = [ppc EXCEPT ![p] = step]

(* select_snapshots_to_keep: the keepLast newest and those not older than  *)
(* cutoff; without --keep-days there is no cutoff (0).  The code orders by *)
(* timestamp, which is the id as long as the clock is not set back.        *)
SelectToKeep(ids, keepLast, cutoff) ==
    {s \in ids : \/ Cardinality({t \in ids : t > s}) < keepLast
                 \/ cutoff # 0 /\ s >= cutoff}

(* list_snapshots and the retention rule.                                  *)
StartPrune(p) ==
    /\ ppc[p] = "idle"
    /\ MayStartPruner
    /\ Listed # {}
    /\ \E keepLast \in 0..Cardinality(Listed), cutoff \in 0..MaxSeconds :
           LET kept == SelectToKeep(Listed, keepLast, cutoff)
           IN  /\ keep' = [keep EXCEPT ![p] = kept]
               /\ drop' = [drop EXCEPT ![p] = Listed \ kept]
               /\ unref' = [unref EXCEPT ![p] = Listed \ kept]
    /\ PrunerGoto(p, "mark")
    /\ UNCHANGED <<repoVars, writerVars, active, reclaim, cand, freed, pcur>>

\* Mutant: only the newest of the ids is marked.
ActiveChunksOfNewest(ids) ==
    UNION {links[snapshots[s]] : s \in {t \in ids \cap Listed : \A u \in ids : u <= t}}

\* Mutant: every object is marked, reachable from a listed snapshot or not.
ActiveChunksOfAll(ids) == UNION {links[w] : w \in Writer}

(* mark_object_chunks from the roots of ids that are still there.          *)
ActiveChunks(ids) == UNION {links[snapshots[s]] : s \in ids \cap Listed}

MarkActive(p) ==
    /\ ppc[p] = "mark"
    /\ active' = [active EXCEPT ![p] = ActiveChunks(keep[p])]
    /\ PrunerGoto(p, "scan")
    /\ UNCHANGED <<repoVars, writerVars, keep, drop, reclaim, unref, cand, freed, pcur>>

\* Mutant: whatever a dropped snapshot links is reclaimed.
ReclaimOfDropped(p) == chunkRow \cap ActiveChunks(drop[p])

(* list_all_chunk_hashes, filtered by the active set.                      *)
Reclaimable(p) == chunkRow \ active[p]

ScanChunks(p) ==
    /\ ppc[p] = "scan"
    /\ reclaim' = [reclaim EXCEPT ![p] = Reclaimable(p)]
    /\ PrunerGoto(p, "unref")
    /\ UNCHANGED <<repoVars, writerVars, keep, drop, active, unref, cand, freed, pcur>>

\* Mutant: DELETE by chunk instead of by snapshot.
RefsWithoutChunksOf(s) == {r \in refs : <<r[1], s>> \notin refs}

(* drop_snapshot.                                                          *)
RefsWithout(s) == {r \in refs : r[2] # s}

(* remove_snapshot_references, first half: read and delete the rows of one *)
(* dropped id.                                                             *)
RemoveReferences(p, s) ==
    /\ ppc[p] = "unref" /\ s \in unref[p]
    /\ unref' = [unref EXCEPT ![p] = @ \ {s}]
    /\ cand' = [cand EXCEPT ![p] = {c \in Chunk : <<c, s>> \in refs}]
    /\ refs' = RefsWithout(s)
    /\ PrunerGoto(p, "count")
    /\ UNCHANGED <<blob, locked, chunkRow, links, snapshots, sidecar, now,
                   writerVars, keep, drop, active, reclaim, freed, pcur>>

\* Mutant: the count is compared with one.
UnreferencedButOne(c) == Cardinality({s \in SnapId : <<c, s>> \in refs}) <= 1

(* refcount is zero.                                                       *)
Unreferenced(c) == \A s \in SnapId : <<c, s>> \notin refs

(* Second half: the chunks whose count is now zero, less the catalog       *)
(* chunks that are reclaimed anyway.                                       *)
CountReferences(p) ==
    /\ ppc[p] = "count"
    /\ freed' = [freed EXCEPT ![p] =
           @ \cup {c \in cand[p] \ reclaim[p] : Unreferenced(c)}]
    /\ cand' = [cand EXCEPT ![p] = {}]
    /\ PrunerGoto(p, "unref")
    /\ UNCHANGED <<repoVars, writerVars, keep, drop, active, reclaim, unref, pcur>>

\* Mutants: only catalog chunks can be deleted; the immutable flag is lifted.
CanDeleteCatalogued(c) == c \in chunkRow
(* storage.delete of a file that is not there, or is immutable, fails.     *)
CanDelete(c) == blob[c] # "none" /\ c \notin locked

DeleteChunk(p, c) ==
    /\ ppc[p] = "sweep" /\ c \in reclaim[p] /\ CanDelete(c)
    /\ blob' = [blob EXCEPT ![c] = "none"]
    /\ reclaim' = [reclaim EXCEPT ![p] = @ \ {c}]
    /\ pcur' = [pcur EXCEPT ![p] = c]
    /\ PrunerGoto(p, "unlink")
    /\ UNCHANGED <<locked, chunkRow, links, snapshots, refs, sidecar, now,
                   writerVars, keep, drop, active, unref, cand, freed>>

(* A failed delete is a warning; the catalog keeps the chunk's rows.       *)
KeepChunk(p, c) ==
    /\ ppc[p] = "sweep" /\ c \in reclaim[p]
    /\ ~CanDelete(c) \/ "delete" \in Faults
    /\ reclaim' = [reclaim EXCEPT ![p] = @ \ {c}]
    /\ UNCHANGED <<repoVars, writerVars, ppc, keep, drop, active, unref, cand, freed, pcur>>

(* delete_file_chunks_by_hash removes the links of every file, then those  *)
(* of every block extent.  Abstraction: the two statements are one step.   *)
DeleteLinks(p) ==
    /\ ppc[p] = "unlink"
    /\ links' = [w \in Writer |-> links[w] \ {pcur[p]}]
    /\ PrunerGoto(p, "unrow")
    /\ UNCHANGED <<blob, locked, chunkRow, snapshots, refs, sidecar, now,
                   writerVars, keep, drop, active, reclaim, unref, cand, freed, pcur>>

(* delete_chunk: the foreign key refuses it while a link is left, which    *)
(* ends the command.                                                       *)
DeleteRow(p) ==
    /\ ppc[p] = "unrow"
    /\ IF \A w \in Writer : pcur[p] \notin links[w]
       THEN /\ chunkRow' = chunkRow \ {pcur[p]}
            /\ PrunerGoto(p, "sweep")
       ELSE /\ PrunerGoto(p, "failed")
            /\ UNCHANGED chunkRow
    /\ UNCHANGED <<blob, locked, links, snapshots, refs, sidecar, now,
                   writerVars, keep, drop, active, reclaim, unref, cand, freed, pcur>>

(* Fingerprint blobs have no catalog rows: only the file goes.             *)
DeleteFreed(p, c) ==
    /\ ppc[p] = "free" /\ c \in freed[p]
    /\ \/ CanDelete(c) /\ blob' = [blob EXCEPT ![c] = "none"]
       \/ (~CanDelete(c) \/ "delete" \in Faults) /\ UNCHANGED blob
    /\ freed' = [freed EXCEPT ![p] = @ \ {c}]
    /\ UNCHANGED <<locked, chunkRow, links, snapshots, refs, sidecar, now,
                   writerVars, ppc, keep, drop, active, reclaim, unref, cand, pcur>>

\* Mutant: the command ends without deleting the snapshot rows.
NextPhaseWithoutRows(p) ==
    /\ \/ ppc[p] = "unref" /\ unref[p] = {} /\ PrunerGoto(p, "sweep")
       \/ ppc[p] = "sweep" /\ reclaim[p] = {} /\ PrunerGoto(p, "free")
       \/ ppc[p] = "free" /\ freed[p] = {} /\ PrunerGoto(p, "done")
    /\ UNCHANGED <<repoVars, writerVars, keep, drop, active, reclaim, unref, cand, freed, pcur>>

(* One loop of the prune is over and the next one starts.                  *)
NextPhase(p) ==
    /\ \/ ppc[p] = "unref" /\ unref[p] = {} /\ PrunerGoto(p, "sweep")
       \/ ppc[p] = "sweep" /\ reclaim[p] = {} /\ PrunerGoto(p, "free")
       \/ ppc[p] = "free" /\ freed[p] = {} /\ PrunerGoto(p, "rows")
    /\ UNCHANGED <<repoVars, writerVars, keep, drop, active, reclaim, unref, cand, freed, pcur>>

(* delete_snapshot and the sidecar entry of one dropped id.  Abstraction:  *)
(* one step, so no entry is left of an id without a row; nothing reads one *)
(* before the id is given again, within its second.                        *)
DeleteSnapshot(p, s) ==
    /\ ppc[p] = "rows" /\ s \in drop[p]
    /\ snapshots' = [snapshots EXCEPT ![s] = NoRoot]
    /\ sidecar' = sidecar \ {s}
    /\ drop' = [drop EXCEPT ![p] = @ \ {s}]
    /\ UNCHANGED <<blob, locked, chunkRow, links, refs, now,
                   writerVars, ppc, keep, active, reclaim, unref, cand, freed, pcur>>

(* What a command held in memory goes with the process.                    *)
Forget(p) ==
    /\ keep' = [keep EXCEPT ![p] = {}]
    /\ active' = [active EXCEPT ![p] = {}]
    /\ reclaim' = [reclaim EXCEPT ![p] = {}]
    /\ unref' = [unref EXCEPT ![p] = {}]
    /\ cand' = [cand EXCEPT ![p] = {}]
    /\ freed' = [freed EXCEPT ![p] = {}]
    /\ pcur' = [pcur EXCEPT ![p] = NoChunk]

EndPrune(p) ==
    /\ ppc[p] = "rows" /\ drop[p] = {}
    /\ Forget(p)
    /\ PrunerGoto(p, "done")
    /\ UNCHANGED <<repoVars, writerVars, drop>>

(* The ids still to be dropped stay in `drop': they are doomed, half gone.  *)
AbortPruner(p) ==
    /\ "pruner" \in Faults
    /\ ppc[p] \notin Ended
    /\ Forget(p)
    /\ PrunerGoto(p, "failed")
    /\ UNCHANGED <<repoVars, writerVars, drop>>

PrunerStep(p) ==
    \/ StartPrune(p) \/ MarkActive(p) \/ ScanChunks(p) \/ CountReferences(p)
    \/ \E s \in SnapId : RemoveReferences(p, s) \/ DeleteSnapshot(p, s)
    \/ \E c \in Chunk : DeleteChunk(p, c) \/ KeepChunk(p, c) \/ DeleteFreed(p, c)
    \/ DeleteLinks(p) \/ DeleteRow(p) \/ NextPhase(p) \/ EndPrune(p)

-----------------------------------------------------------------------------
Next ==
    \/ \E w \in Writer : WriterStep(w) \/ AbortWriter(w)
    \/ \E p \in Pruner : PrunerStep(p) \/ AbortPruner(p)

Spec == Init /\ [][Next]_vars

(* A started command is an operating system process that keeps running.    *)
FairSpec ==
    /\ Spec
    /\ \A w \in Writer : WF_vars(wpc[w] # "idle" /\ WriterStep(w))
    /\ \A p \in Pruner : WF_vars(ppc[p] # "idle" /\ PrunerStep(p))

-----------------------------------------------------------------------------
(* Properties.                                                             *)

(* Ids a prune, running or cut short, has chosen to drop.                  *)
Doomed == UNION {drop[p] : p \in Pruner}
Kept == Listed \ Doomed

(* `restore' finds every chunk the backup saw, and each decodes.           *)
Restorable(s) ==
    LET w == snapshots[s]
    IN  links[w] = files[w] /\ \A c \in files[w] : blob[c] = "encoded"

(* Every snapshot that is listed and not being dropped can be restored in  *)
(* full, from the moment create_snapshot made it visible: chunk_exists,    *)
(* which skips the write, and prune, which deletes, never disagree.        *)
SnapshotsRestorable == \A s \in Kept : Restorable(s)

(* A fingerprint named by the sidecar of a kept snapshot has all its blobs *)
(* in storage, in the form load_fingerprint decodes.                       *)
FingerprintsLoadable ==
    \A s \in Kept \cap sidecar : \A c \in fp[snapshots[s]] : blob[c] = "raw"

(* Between commands, every stored file is known to the catalog or to the   *)
(* reference table; prune looks nowhere else, so any other file stays for  *)
(* ever.                                                                   *)
NothingLeaks ==
    ~(WriterRuns \/ PrunerRuns) =>
        \A c \in Chunk : blob[c] # "none" => c \in chunkRow \/ ~Unreferenced(c)

(* storage.delete removes no chunk that a kept snapshot links.             *)
DeletesOnlyUnused ==
    [][\A c \in Chunk : blob[c] # "none" /\ blob'[c] = "none" =>
           \A s \in Kept : c \notin links[snapshots[s]]]_vars

(* storage.delete removes no chunk that still has a reference.             *)
DeletesOnlyAtZero ==
    [][\A c \in Chunk : blob[c] # "none" /\ blob'[c] = "none" => Unreferenced(c)]_vars

(* A prune that completes leaves in the catalog only chunks some listed    *)
(* snapshot links, and chunks it could not delete.                         *)
PruneReclaims ==
    [][\A p \in Pruner : ppc[p] = "rows" /\ ppc'[p] = "done" =>
           \A c \in chunkRow' : \/ \E s \in Listed' : c \in links'[snapshots'[s]]
                                \/ c \in locked]_vars

(* No step harms a snapshot that could be restored and that no prune, not  *)
(* even one cut short, has chosen to drop.                                 *)
KeptStaysRestorable ==
    [][\A s \in Kept \cap Kept' : Restorable(s) => Restorable(s)']_vars

(* An id a prune has dropped disappears from the list.                     *)
DroppedDisappear ==
    \A p \in Pruner, s \in SnapId : s \in drop[p] ~> s \notin Listed

(* What a prune promises: it frees what has no reference, leaves nothing   *)
(* behind that it could delete, and what it chose to drop goes.            *)
PruneKeepsPromises == DeletesOnlyAtZero /\ PruneReclaims /\ DroppedDisappear

(* What a restore returns for the kept snapshots.                          *)
Saved == [s \in Kept |-> {c \in links[snapshots[s]] : blob[c] = "encoded"}]
Store == INSTANCE SnapshotStore WITH Contents <- FileContents \cup {{}}, store <- Saved

(* The repository implements the snapshot store: a snapshot appears with   *)
(* its whole contents when create_snapshot commits, and the contents a     *)
(* restore returns never change until the retention rule drops it.         *)
ImplementsStore == Store!Spec
=============================================================================
