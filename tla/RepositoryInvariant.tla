------------------------- MODULE RepositoryInvariant -------------------------
(***************************************************************************)
(* Why the repository is safe when it is used as it has to be.             *)
(*                                                                         *)
(* Where no command runs beside a prune, no backup is cut short in a       *)
(* repository that is pruned, and no file of a backup is a blob of a       *)
(* fingerprint (PrunesApart), no prune harms what is whole, not even one   *)
(* that is cut short: Spared is the inductive invariant behind             *)
(* KeptStaysRestorable and DeletesOnlyUnused, and Held the one behind      *)
(* FingerprintsLoadable.  Where no prune is cut short either (Isolated),   *)
(* everything a backup builds on is whole: Consistent is behind            *)
(* SnapshotsRestorable, and Tidy, when nothing at all ends early, behind   *)
(* NothingLeaks.  Under a retention lock Sealed gives SnapshotsRestorable  *)
(* in its place, whatever overlaps and whatever is cut short (Immutable).  *)
(***************************************************************************)
EXTENDS Repository

FileChunk == UNION FileContents
FpChunk == UNION FpContents

(* The conditions.                                                         *)
PrunesApart ==
    /\ "prune" \notin Overlap
    /\ Pruner = {} \/ "writer" \notin Faults
    /\ FileChunk \cap FpChunk = {}

Isolated == PrunesApart /\ "pruner" \notin Faults

Storing == {"chunks", "write", "lock", "upsert", "link"}
AfterMark == PrunerSteps \ {"mark"}
Deleting == {"unlink", "unrow"}

(* A prune runs alone.                                                     *)
PruneAlone ==
    /\ PrunerRuns => ~WriterRuns
    /\ \A p, q \in Pruner : ppc[p] \notin Ended /\ ppc[q] \notin Ended => p = q

(* What a writer still has to do is part of what it set out to do.         *)
WriterWork ==
    \A w \in Writer :
        /\ files[w] \subseteq FileChunk /\ fp[w] \subseteq FpChunk
        /\ wpc[w] = "idle" => kind[w] = "backup" /\ files[w] = {}
        /\ kind[w] = "capture" => files[w] = {} /\ wpc[w] \notin Storing \cup {"refs"}
        /\ wpc[w] \in Storing =>
               todo[w] \subseteq files[w] /\ files[w] \subseteq links[w] \cup todo[w]
        /\ wpc[w] \in Storing \ {"chunks"} => cur[w] \in files[w]
        /\ wpc[w] \in {"blobs", "register"} => todo[w] \subseteq fp[w]

(* A snapshot row names the writer that made it under the id it took.      *)
RowsOfWriters ==
    \A s \in Listed :
        LET w == snapshots[s]
        IN  /\ sid[w] = s
            /\ wpc[w] \notin Storing \cup {"idle"}
            /\ kind[w] = "capture" => wpc[w] \notin {"blobs", "register"}

(* Rows and links are of chunks their commands read.                       *)
RowsOfFiles == chunkRow \subseteq FileChunk /\ \A w \in Writer : links[w] \subseteq files[w]

(* The references of a kept snapshot follow its row at once.               *)
KeptReferenced ==
    Pruner # {} =>
        \A s \in Kept : wpc[snapshots[s]] # "refs" => files[snapshots[s]] \X {s} \subseteq refs

(* What a prune holds in memory agrees with the catalog, and it is about   *)
(* to delete only what is not marked or has no reference.                  *)
InStep(p) ==
    /\ ppc[p] = "idle" => drop[p] = {}
    /\ ppc[p] \in Ended => freed[p] = {}
    /\ ppc[p] \notin Ended => keep[p] = Listed \ drop[p]
    /\ unref[p] \subseteq drop[p]
    /\ ppc[p] \in AfterMark => active[p] = ActiveChunks(keep[p])
    /\ ppc[p] \in {"idle", "mark", "scan"} => reclaim[p] = {}
    /\ ppc[p] \in {"unref", "count"} => reclaim[p] = chunkRow \ active[p]
    /\ ppc[p] \notin {"mark", "scan", "unref", "count"} => unref[p] = {}
    /\ reclaim[p] \cap active[p] = {}
    /\ \A c \in freed[p] : Unreferenced(c)
    /\ ppc[p] \in Deleting => pcur[p] \notin active[p]
    /\ ppc[p] = "unrow" => \A w \in Writer : pcur[p] \notin links[w]

PruneInStep == \A p \in Pruner : InStep(p)

(* A prune, however it ends, takes nothing from what it keeps.             *)
Spared ==
    /\ PruneAlone /\ WriterWork /\ RowsOfWriters
    /\ RowsOfFiles /\ KeptReferenced /\ PruneInStep

(* A link has a Chunks row, a Chunks row a stored file.                    *)
LinksHaveRows ==
    /\ \A w \in Writer : links[w] \subseteq chunkRow
    /\ \A w \in Writer : wpc[w] \in {"lock", "upsert"} => blob[cur[w]] = "encoded"
    /\ \A c \in chunkRow :
           blob[c] = "encoded" \/ \E p \in Pruner : ppc[p] \in Deleting /\ pcur[p] = c

(* A kept snapshot links all it should.                                    *)
KeptComplete == \A s \in Kept : links[snapshots[s]] = files[snapshots[s]]

(* A prune ends with nothing left to drop, and frees no catalog chunk.     *)
RunsToEnd(p) ==
    /\ ppc[p] \in Ended => drop[p] = {}
    /\ freed[p] \cap chunkRow = {}

PrunesRunToEnd == \A p \in Pruner : RunsToEnd(p)

(* Every prune decides on, and deletes from, a catalog that is whole.      *)
Consistent == Spared /\ LinksHaveRows /\ KeptComplete /\ PrunesRunToEnd

-----------------------------------------------------------------------------
(* Fingerprints, references and files.                                     *)

(* The blobs a writer has dealt with are stored and referenced; it writes  *)
(* the sidecar entry for its own snapshot.                                 *)
BlobsHeld(w) == \A c \in fp[w] \ todo[w] : blob[c] = "raw" /\ <<c, sid[w]>> \in refs
OwnsRow(w) == wpc[w] = "sidecar" \/ (kind[w] = "backup" /\ wpc[w] \in {"refs", "blobs", "register"})
FingerprintWork ==
    \A w \in Writer :
        /\ wpc[w] \in {"blobs", "register", "sidecar"} => BlobsHeld(w)
        /\ wpc[w] = "register" => cur[w] \in todo[w] /\ blob[cur[w]] = "raw"
        /\ wpc[w] = "sidecar" => todo[w] = {}
        /\ OwnsRow(w) => snapshots[sid[w]] = w

(* A sidecar entry belongs to a listed snapshot whose command has ended,   *)
(* and the blobs of a kept one are held by their references.               *)
SidecarComplete ==
    \A s \in sidecar :
        /\ s \in Listed /\ wpc[snapshots[s]] = "done"
        /\ s \in Kept => \A c \in fp[snapshots[s]] : blob[c] = "raw" /\ <<c, s>> \in refs

(* A file chunk is referenced by listed snapshots that link it, and none   *)
(* is left of a snapshot whose references a prune has removed; what a      *)
(* prune reclaims are file chunks.                                         *)
ReferencesAgree ==
    /\ \A p \in Pruner : reclaim[p] \subseteq FileChunk
    /\ \A w \in Writer : wpc[w] = "refs" => links[w] = files[w]
    /\ \A r \in refs : r[1] \in FileChunk => r[2] \in Listed /\ r[1] \in links[snapshots[r[2]]]
    /\ \A p \in Pruner : ppc[p] \notin Ended => \A r \in refs : r[2] \notin drop[p] \ unref[p]

Held == FingerprintWork /\ SidecarComplete /\ ReferencesAgree

(* Where nothing fails, a file is known to the catalog, to the reference   *)
(* table or to the command that is about to tell them, or to remove it.    *)
InHand(c) ==
    \/ \E w \in Writer : wpc[w] \in {"lock", "upsert", "register"} /\ cur[w] = c
    \/ \E p \in Pruner : c \in freed[p] \/ (ppc[p] = "count" /\ c \in cand[p])
FilesKnown == \A c \in Chunk : blob[c] # "none" => c \in chunkRow \/ ~Unreferenced(c) \/ InHand(c)
LockedKnown ==
    \A c \in locked : c \in chunkRow \/ \E w \in Writer : wpc[w] = "upsert" /\ cur[w] = c

(* What a prune is deleting is not locked, and what it has still to delete *)
(* is listed in memory.                                                    *)
Sweeping(p) ==
    /\ ppc[p] \in Deleting => blob[pcur[p]] = "none" /\ pcur[p] \notin locked
    /\ ppc[p] \in Deleting \cup {"sweep"} =>
           chunkRow \ active[p] \subseteq reclaim[p] \cup locked
               \cup (IF ppc[p] \in Deleting THEN {pcur[p]} ELSE {})
    /\ ppc[p] \in {"free", "rows"} => chunkRow \ active[p] \subseteq locked
    /\ ppc[p] = "rows" => freed[p] = {}

Tidy == FilesKnown /\ LockedKnown /\ \A p \in Pruner : Sweeping(p)

-----------------------------------------------------------------------------
(* A retention lock makes up for all the other care: as long as no file is *)
(* a blob, or commands run one at a time, what a backup has stored cannot  *)
(* be harmed by commands beside it or by any that are cut short.           *)
Immutable ==
    /\ Retention
    /\ Overlap = {} \/ FileChunk \cap FpChunk = {}

(* Commands that may not overlap do not.                                   *)
OneAtATime ==
    Overlap = {} =>
        /\ WriterRuns => ~PrunerRuns
        /\ \A v, w \in Writer : wpc[v] \notin Ended /\ wpc[w] \notin Ended => v = w

(* A writer locks the file it has written before it tells the catalog, so  *)
(* whatever the catalog knows is encoded and immutable.                    *)
RowsLocked ==
    /\ chunkRow \subseteq locked
    /\ \A c \in locked : blob[c] = "encoded"
    /\ \A w \in Writer : links[w] \subseteq chunkRow
    /\ \A w \in Writer : wpc[w] = "lock" => blob[cur[w]] = "encoded"
    /\ \A w \in Writer : wpc[w] = "upsert" => cur[w] \in locked

(* The catalog of a backup that got to its references is complete.         *)
ListedComplete ==
    /\ \A w \in Writer : wpc[w] = "refs" => files[w] \subseteq links[w]
    /\ \A s \in Listed : files[snapshots[s]] \subseteq links[snapshots[s]]

(* Nothing a prune means to delete can be deleted, but blobs.              *)
PrunersPowerless ==
    \A p \in Pruner : ppc[p] \notin Deleting /\ reclaim[p] \subseteq locked

(* References to file chunks are to locked ones.                           *)
RefsLocked ==
    FileChunk \cap FpChunk = {} =>
        /\ \A w \in Writer : wpc[w] = "register" => cur[w] \in fp[w]
        /\ \A r \in refs : r[1] \in FileChunk => r[1] \in locked
        /\ \A p \in Pruner : (cand[p] \cup freed[p]) \cap FileChunk \subseteq locked

Sealed ==
    /\ OneAtATime /\ WriterWork /\ RowsOfWriters /\ RowsOfFiles
    /\ RowsLocked /\ ListedComplete /\ PrunersPowerless /\ RefsLocked

=============================================================================
