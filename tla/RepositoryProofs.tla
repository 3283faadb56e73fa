-------------------------- MODULE RepositoryProofs --------------------------
(* Theorems about Repository, for any sets of commands, chunks and sources: *)
(* its types; the invariants Spared and Held where prunes run apart, even   *)
(* if they are cut short; Consistent and Tidy of an isolated repository;    *)
(* Sealed of one under a retention lock; what follows from them for files,  *)
(* for fingerprints and for the space a prune frees; and the refinement of  *)
(* SnapshotStore.                                                           *)
EXTENDS RepositoryInvariant, TLAPS

-----------------------------------------------------------------------------
(* Type correctness.                                                       *)

LEMMA InitTypeOK == Init => TypeOK
BY CommandAssumption
   DEF Init, TypeOK, RepoTypeOK, WriterTypeOK, PrunerTypeOK, SnapId, Ended

(* A writer leaves the pruners' variables alone.                           *)
LEMMA WriterKeepsTypes ==
    ASSUME TypeOK, NEW w \in Writer, WriterStep(w) \/ AbortWriter(w)
    PROVE  TypeOK'
<1> USE ContentsAssumption, CommandAssumption DEF TypeOK, SnapId
<1>1. UNCHANGED prunerVars
  BY DEF WriterStep, StartBackup, StartCapture, ChunkExists, PutBlob, SkipBlob, PutChunk,
     PutRefused, LockChunk, UpsertChunk, LinkChunk, CreateSnapshot, AddReferences,
     RegisterRef, PutSidecar, AbortWriter
<1>2. PrunerTypeOK'
  BY <1>1 DEF PrunerTypeOK, prunerVars
<1>3. RepoTypeOK'
  <2> USE DEF RepoTypeOK, WriterTypeOK, repoVars
  <2>1. CASE StartBackup(w) \/ StartCapture(w)
    <3>1. now' \in 0..MaxSeconds
      BY <2>1 DEF StartBackup, StartCapture, TakeId
    <3> QED BY <2>1, <3>1 DEF StartBackup, StartCapture
  <2>2. ASSUME NEW c \in Chunk, ChunkExists(w, c) \/ PutBlob(w, c) \/ SkipBlob(w, c)
        PROVE  RepoTypeOK'
    BY <2>2 DEF ChunkExists, PutBlob, SkipBlob
  <2>3. CASE PutChunk(w) \/ PutRefused(w) \/ LockChunk(w) \/ UpsertChunk(w)
    <3>1. cur[w] \in Chunk
      BY <2>3 DEF PutChunk, PutRefused, LockChunk, UpsertChunk
    <3>2. CASE PutRefused(w)
      BY <3>2 DEF PutRefused
    <3>3. CASE LockChunk(w) \/ UpsertChunk(w)
      BY <3>1, <3>3 DEF LockChunk, UpsertChunk
    <3>4. CASE PutChunk(w)
      BY <3>1, <3>4 DEF PutChunk
    <3> QED BY <2>3, <3>2, <3>3, <3>4
  <2>4. CASE LinkChunk(w)
    <3>1. cur[w] \in Chunk
      BY <2>4 DEF LinkChunk
    <3>2. links \in [Writer -> SUBSET Chunk] /\ links[w] \cup {cur[w]} \subseteq Chunk
      BY <3>1
    <3>3. \/ links' = [links EXCEPT ![w] = @ \cup {cur[w]}]
          \/ links' = links
      BY <2>4 DEF LinkChunk
    <3>4. links' \in [Writer -> SUBSET Chunk]
      BY ONLY <3>2, <3>3
    <3> QED BY <2>4, <3>4 DEF LinkChunk
  <2>5. CASE CreateSnapshot(w)
    <3>1. \/ snapshots' = [snapshots EXCEPT ![sid[w]] = w]
          \/ snapshots' = snapshots
      BY <2>5 DEF CreateSnapshot
    <3>2. snapshots' \in [SnapId -> Writer \cup {NoRoot}]
      BY <3>1
    <3> QED BY <2>5, <3>2 DEF CreateSnapshot
  <2>6. CASE AddReferences(w)
    <3>1. sid[w] \in SnapId /\ files[w] \subseteq Chunk
      BY <2>6 DEF AddReferences
    <3>2. files[w] \X {sid[w]} \subseteq Chunk \X SnapId
      BY <3>1
    <3>3. refs' \subseteq Chunk \X SnapId
      BY <2>6, <3>2 DEF AddReferences
    <3>4. UNCHANGED <<blob, locked, chunkRow, links, snapshots, sidecar, now>>
      BY <2>6 DEF AddReferences
    <3> QED BY <3>3, <3>4
  <2>7. CASE RegisterRef(w)
    BY <2>7 DEF RegisterRef
  <2>8. CASE PutSidecar(w)
    <3>1. sid[w] \in SnapId
      BY <2>8 DEF PutSidecar
    <3> QED BY <2>8, <3>1 DEF PutSidecar
  <2>9. CASE AbortWriter(w)
    BY <2>9 DEF AbortWriter
  <2> QED
    BY <2>1, <2>2, <2>3, <2>4, <2>5, <2>6, <2>7, <2>8, <2>9 DEF WriterStep
<1>4. WriterTypeOK'
  <2> USE DEF WriterTypeOK, WriterGoto, WriterSteps, Ended
  <2>1. CASE StartBackup(w)
    BY <2>1 DEF StartBackup, TakeId
  <2>2. CASE StartCapture(w)
    BY <2>2 DEF StartCapture, TakeId
  <2>3. ASSUME NEW c \in Chunk, ChunkExists(w, c) PROVE WriterTypeOK'
    BY <2>3 DEF ChunkExists
  <2>4. ASSUME NEW c \in Chunk, PutBlob(w, c) PROVE WriterTypeOK'
    BY <2>4 DEF PutBlob
  <2>5. ASSUME NEW c \in Chunk, SkipBlob(w, c) PROVE WriterTypeOK'
    BY <2>5 DEF SkipBlob
  <2>6. CASE PutChunk(w)
    BY <2>6 DEF PutChunk
  <2>7. CASE PutRefused(w)
    BY <2>7 DEF PutRefused
  <2>8. CASE LockChunk(w)
    BY <2>8 DEF LockChunk
  <2>9. CASE UpsertChunk(w)
    BY <2>9 DEF UpsertChunk
  <2>10. CASE LinkChunk(w)
    BY <2>10 DEF LinkChunk
  <2>11. CASE CreateSnapshot(w)
    BY <2>11 DEF CreateSnapshot
  <2>12. CASE AddReferences(w)
    BY <2>12 DEF AddReferences
  <2>13. CASE RegisterRef(w)
    BY <2>13 DEF RegisterRef
  <2>14. CASE PutSidecar(w)
    BY <2>14 DEF PutSidecar
  <2>15. CASE AbortWriter(w)
    BY <2>15 DEF AbortWriter
  <2> QED
    BY <2>1, <2>2, <2>3, <2>4, <2>5, <2>6, <2>7, <2>8, <2>9, <2>10, <2>11, <2>12,
       <2>13, <2>14, <2>15 DEF WriterStep
<1> QED BY <1>2, <1>3, <1>4

(* A pruner leaves the writers' variables alone.                           *)
LEMMA PrunerKeepsTypes ==
    ASSUME TypeOK, NEW p \in Pruner, PrunerStep(p) \/ AbortPruner(p)
    PROVE  TypeOK'
<1> USE DEF TypeOK
<1>1. UNCHANGED writerVars
  BY DEF PrunerStep, StartPrune, MarkActive, ScanChunks, CountReferences,
     RemoveReferences, DeleteSnapshot, DeleteChunk, KeepChunk, DeleteFreed, DeleteLinks,
     DeleteRow, NextPhase, EndPrune, AbortPruner
<1>2. WriterTypeOK'
  BY <1>1 DEF WriterTypeOK, writerVars
<1>3. RepoTypeOK'
  <2> USE DEF RepoTypeOK, repoVars
  <2>1. CASE StartPrune(p) \/ MarkActive(p) \/ ScanChunks(p) \/ CountReferences(p)
    BY <2>1 DEF StartPrune, MarkActive, ScanChunks, CountReferences
  <2>2. ASSUME NEW s \in SnapId, RemoveReferences(p, s) PROVE RepoTypeOK'
    BY <2>2 DEF RemoveReferences, RefsWithout
  <2>3. ASSUME NEW s \in SnapId, DeleteSnapshot(p, s) PROVE RepoTypeOK'
    BY <2>3 DEF DeleteSnapshot
  <2>4. ASSUME NEW c \in Chunk, DeleteChunk(p, c) \/ KeepChunk(p, c) PROVE RepoTypeOK'
    BY <2>4 DEF DeleteChunk, KeepChunk
  <2>5. ASSUME NEW c \in Chunk, DeleteFreed(p, c) PROVE RepoTypeOK'
    BY <2>5 DEF DeleteFreed
  <2>6. CASE DeleteLinks(p)
    BY <2>6 DEF DeleteLinks
  <2>7. CASE DeleteRow(p)
    BY <2>7 DEF DeleteRow
  <2>8. CASE NextPhase(p) \/ EndPrune(p) \/ AbortPruner(p)
    BY <2>8 DEF NextPhase, EndPrune, AbortPruner
  <2> QED
    BY <2>1, <2>2, <2>3, <2>4, <2>5, <2>6, <2>7, <2>8 DEF PrunerStep
<1>4. PrunerTypeOK'
  <2> USE DEF PrunerTypeOK, PrunerGoto, PrunerSteps, Ended
  <2>1. CASE StartPrune(p)
    <3>1. Listed \subseteq SnapId
      BY DEF Listed
    <3>2. PICK kept \in SUBSET SnapId :
              /\ keep' = [keep EXCEPT ![p] = kept]
              /\ drop' = [drop EXCEPT ![p] = Listed \ kept]
              /\ unref' = [unref EXCEPT ![p] = Listed \ kept]
      BY <2>1, <3>1 DEF StartPrune, SelectToKeep
    <3> QED BY <2>1, <3>1, <3>2 DEF StartPrune
  <2>2. CASE MarkActive(p)
    <3>1. ActiveChunks(keep[p]) \subseteq Chunk
      BY DEF ActiveChunks, Listed, RepoTypeOK
    <3> QED BY <2>2, <3>1 DEF MarkActive
  <2>3. CASE ScanChunks(p)
    BY <2>3 DEF ScanChunks, Reclaimable, RepoTypeOK
  <2>4. CASE CountReferences(p)
    BY <2>4 DEF CountReferences
  <2>5. ASSUME NEW s \in SnapId, RemoveReferences(p, s) PROVE PrunerTypeOK'
    BY <2>5 DEF RemoveReferences
  <2>6. ASSUME NEW s \in SnapId, DeleteSnapshot(p, s) PROVE PrunerTypeOK'
    BY <2>6 DEF DeleteSnapshot
  <2>7. ASSUME NEW c \in Chunk, DeleteChunk(p, c) PROVE PrunerTypeOK'
    BY <2>7 DEF DeleteChunk
  <2>8. ASSUME NEW c \in Chunk, KeepChunk(p, c) PROVE PrunerTypeOK'
    BY <2>8 DEF KeepChunk
  <2>9. ASSUME NEW c \in Chunk, DeleteFreed(p, c) PROVE PrunerTypeOK'
    BY <2>9 DEF DeleteFreed
  <2>10. CASE DeleteLinks(p)
    BY <2>10 DEF DeleteLinks
  <2>11. CASE DeleteRow(p)
    BY <2>11 DEF DeleteRow
  <2>12. CASE NextPhase(p)
    BY <2>12 DEF NextPhase
  <2>13. CASE EndPrune(p)
    BY <2>13 DEF EndPrune, Forget
  <2>14. CASE AbortPruner(p)
    BY <2>14 DEF AbortPruner, Forget
  <2> QED
    BY <2>1, <2>2, <2>3, <2>4, <2>5, <2>6, <2>7, <2>8, <2>9, <2>10, <2>11, <2>12,
       <2>13, <2>14 DEF PrunerStep
<1> QED BY <1>2, <1>3, <1>4

(* Every variable keeps to its type, whatever commands run and fail.       *)
THEOREM TypeCorrect == Spec => []TypeOK
<1>1. TypeOK /\ [Next]_vars => TypeOK'
  <2> SUFFICES ASSUME TypeOK, [Next]_vars PROVE TypeOK'
    OBVIOUS
  <2>1. CASE Next
    BY <2>1, WriterKeepsTypes, PrunerKeepsTypes DEF Next
  <2>2. CASE UNCHANGED vars
    BY <2>2 DEF vars, repoVars, writerVars, prunerVars, TypeOK, RepoTypeOK, WriterTypeOK,
       PrunerTypeOK
  <2> QED BY <2>1, <2>2
<1> QED BY InitTypeOK, <1>1, PTL DEF Spec
-----------------------------------------------------------------------------
(* Spared: prunes that run apart take nothing from what they keep.         *)

LEMMA InitSpared == Init => Spared
<1> SUFFICES ASSUME Init PROVE Spared
  OBVIOUS
<1> USE DEF Init, Ended
<1>1. Listed = {} /\ Kept = {}
  BY DEF Listed, Kept
<1>2. PruneAlone
  BY DEF PruneAlone, PrunerRuns
<1>3. WriterWork
  BY DEF WriterWork, Storing
<1>4. RowsOfWriters /\ KeptReferenced
  BY <1>1 DEF RowsOfWriters, KeptReferenced
<1>5. RowsOfFiles
  BY DEF RowsOfFiles
<1>6. PruneInStep
  BY DEF PruneInStep, InStep, AfterMark, PrunerSteps, Deleting
<1> QED BY <1>2, <1>3, <1>4, <1>5, <1>6 DEF Spared

(* What a prune that has marked keeps is marked.                           *)
LEMMA KeptIsActive ==
    ASSUME Spared, NEW p \in Pruner, ppc[p] \in AfterMark, NEW s \in Kept
    PROVE  links[snapshots[s]] \subseteq active[p]
<1>1. s \in Listed /\ s \notin drop[p]
  BY DEF Kept, Doomed
<1>2. keep[p] = Listed \ drop[p] /\ active[p] = ActiveChunks(keep[p])
  BY DEF Spared, PruneInStep, InStep, AfterMark, PrunerSteps, Ended
<1> QED BY <1>1, <1>2 DEF ActiveChunks

-----------------------------------------------------------------------------
(* Writers.                                                                *)

(* No prune is under way when a writer takes a step.                       *)
LEMMA PrunersRest ==
    ASSUME PrunesApart, TypeOK, Spared, NEW w \in Writer, WriterStep(w) \/ AbortWriter(w)
    PROVE  /\ UNCHANGED prunerVars
           /\ \A p \in Pruner : ppc[p] \in Ended /\ unref[p] = {} /\ freed[p] = {}
<1>1. UNCHANGED prunerVars
  BY DEF WriterStep, StartBackup, StartCapture, ChunkExists, PutBlob, SkipBlob, PutChunk,
     PutRefused, LockChunk, UpsertChunk, LinkChunk, CreateSnapshot, AddReferences,
     RegisterRef, PutSidecar, AbortWriter
<1>2. wpc[w] \notin Ended \/ MayStartWriter
  BY DEF Ended, WriterStep, StartBackup, StartCapture, ChunkExists, PutBlob, SkipBlob,
     PutChunk, PutRefused, LockChunk, UpsertChunk, LinkChunk, CreateSnapshot,
     AddReferences, RegisterRef, PutSidecar, AbortWriter
<1>3. ~PrunerRuns
  BY <1>2 DEF MayStartWriter, WriterRuns, PrunesApart, Spared, PruneAlone
<1>4. ASSUME NEW p \in Pruner PROVE ppc[p] \in Ended /\ unref[p] = {} /\ freed[p] = {}
  BY <1>3 DEF PrunerRuns, Spared, PruneInStep, InStep, Ended
<1> QED BY <1>1, <1>4

(* What is kept changes with the list only.                                *)
LEMMA WriterKeepsKept ==
    ASSUME PrunesApart, TypeOK, Spared, NEW w \in Writer, WriterStep(w) \/ AbortWriter(w)
    PROVE  /\ \A s \in Listed : s \in Listed' /\ snapshots'[s] = snapshots[s]
           /\ Doomed' = Doomed /\ Kept \subseteq Kept'
<1>1. \A s \in Listed : s \in Listed' /\ snapshots'[s] = snapshots[s]
  BY DEF TypeOK, RepoTypeOK, Listed, repoVars, WriterStep, StartBackup, StartCapture,
     ChunkExists, PutBlob, SkipBlob, PutChunk, PutRefused, LockChunk, UpsertChunk, LinkChunk,
     CreateSnapshot, AddReferences, RegisterRef, PutSidecar, AbortWriter
<1>2. Doomed' = Doomed
  BY PrunersRest DEF Doomed, prunerVars
<1> QED BY <1>1, <1>2 DEF Kept

LEMMA WriterKeepsPrunes ==
    ASSUME PrunesApart, TypeOK, Spared, NEW w \in Writer, WriterStep(w) \/ AbortWriter(w)
    PROVE  PruneAlone' /\ PruneInStep'
<1>1. ppc' = ppc /\ drop' = drop /\ unref' = unref /\ freed' = freed
      /\ reclaim' = reclaim /\ active' = active
  BY PrunersRest DEF prunerVars
<1>2. PruneAlone'
  BY <1>1, PrunersRest DEF PruneAlone, PrunerRuns, Ended
<1>3. PruneInStep'
  BY <1>1, PrunersRest
     DEF PruneInStep, InStep, Spared, Ended, AfterMark, PrunerSteps, Deleting
<1> QED BY <1>2, <1>3

LEMMA WriterKeepsWork ==
    ASSUME TypeOK, WriterWork, NEW w \in Writer, WriterStep(w) \/ AbortWriter(w)
    PROVE  WriterWork'
<1> USE DEF TypeOK, RepoTypeOK, WriterTypeOK, WriterWork, WriterGoto, Storing, repoVars
<1>1. CASE StartBackup(w)
  BY <1>1 DEF StartBackup, TakeId, FileChunk, FpChunk
<1>2. CASE StartCapture(w)
  BY <1>2 DEF StartCapture, TakeId, FpChunk
<1>3. ASSUME NEW c \in Chunk, ChunkExists(w, c) PROVE WriterWork'
  BY <1>3 DEF ChunkExists
<1>4. ASSUME NEW c \in Chunk, PutBlob(w, c) PROVE WriterWork'
  BY <1>4 DEF PutBlob
<1>5. ASSUME NEW c \in Chunk, SkipBlob(w, c) PROVE WriterWork'
  BY <1>5 DEF SkipBlob
<1>6. CASE PutChunk(w)
  BY <1>6 DEF PutChunk
<1>7. CASE PutRefused(w)
  BY <1>7 DEF PutRefused
<1>8. CASE LockChunk(w)
  BY <1>8 DEF LockChunk
<1>9. CASE UpsertChunk(w)
  BY <1>9 DEF UpsertChunk
<1>10. CASE LinkChunk(w)
  BY <1>10 DEF LinkChunk
<1>11. CASE CreateSnapshot(w)
  BY <1>11 DEF CreateSnapshot
<1>12. CASE AddReferences(w)
  BY <1>12 DEF AddReferences
<1>13. CASE RegisterRef(w)
  BY <1>13 DEF RegisterRef
<1>14. CASE PutSidecar(w)
  BY <1>14 DEF PutSidecar
<1>15. CASE AbortWriter(w)
  BY <1>15 DEF AbortWriter
<1> QED
  BY <1>1, <1>2, <1>3, <1>4, <1>5, <1>6, <1>7, <1>8, <1>9, <1>10, <1>11, <1>12,
     <1>13, <1>14, <1>15 DEF WriterStep

LEMMA WriterKeepsRows ==
    ASSUME TypeOK, WriterWork, RowsOfWriters, NEW w \in Writer, WriterStep(w) \/ AbortWriter(w)
    PROVE  RowsOfWriters'
<1> USE CommandAssumption
    DEF TypeOK, RepoTypeOK, WriterTypeOK, RowsOfWriters, WriterGoto, Storing, Listed,
        WriterWork, repoVars
<1>1. CASE StartBackup(w)
  BY <1>1 DEF StartBackup, TakeId
<1>2. CASE StartCapture(w)
  BY <1>2 DEF StartCapture, TakeId
<1>3. ASSUME NEW c \in Chunk, ChunkExists(w, c) PROVE RowsOfWriters'
  BY <1>3 DEF ChunkExists
<1>4. ASSUME NEW c \in Chunk, PutBlob(w, c) PROVE RowsOfWriters'
  BY <1>4 DEF PutBlob
<1>5. ASSUME NEW c \in Chunk, SkipBlob(w, c) PROVE RowsOfWriters'
  BY <1>5 DEF SkipBlob
<1>6. CASE PutChunk(w)
  BY <1>6 DEF PutChunk
<1>7. CASE PutRefused(w) \/ LockChunk(w) \/ UpsertChunk(w)
  BY <1>7 DEF PutRefused, LockChunk, UpsertChunk
<1>8. CASE LinkChunk(w)
  BY <1>8 DEF LinkChunk
<1>9. CASE CreateSnapshot(w)
  BY <1>9 DEF CreateSnapshot
<1>10. CASE AddReferences(w)
  BY <1>10 DEF AddReferences
<1>11. CASE RegisterRef(w)
  BY <1>11 DEF RegisterRef
<1>12. CASE PutSidecar(w)
  BY <1>12 DEF PutSidecar
<1>13. CASE AbortWriter(w)
  BY <1>13 DEF AbortWriter
<1> QED
  BY <1>1, <1>2, <1>3, <1>4, <1>5, <1>6, <1>7, <1>8, <1>9, <1>10, <1>11, <1>12,
     <1>13 DEF WriterStep

LEMMA WriterKeepsFiles ==
    ASSUME TypeOK, WriterWork, RowsOfFiles, NEW w \in Writer, WriterStep(w) \/ AbortWriter(w)
    PROVE  RowsOfFiles'
<1> USE DEF TypeOK, RepoTypeOK, WriterTypeOK, RowsOfFiles, repoVars
<1>1. CASE StartBackup(w)
  <2>1. links[w] = {}
    BY <1>1 DEF StartBackup, WriterWork
  <2> QED BY <1>1, <2>1 DEF StartBackup
<1>2. CASE UpsertChunk(w)
  <2>1. cur[w] \in FileChunk
    BY <1>2 DEF UpsertChunk, WriterWork, Storing
  <2> QED BY <1>2, <2>1 DEF UpsertChunk
<1>3. CASE LinkChunk(w)
  <2>1. cur[w] \in files[w]
    BY <1>3 DEF LinkChunk, WriterWork, Storing
  <2> QED BY <1>3, <2>1 DEF LinkChunk
<1>4. CASE ~StartBackup(w) /\ ~UpsertChunk(w) /\ ~LinkChunk(w)
  <2>1. UNCHANGED <<chunkRow, links, files>>
    BY <1>4 DEF WriterStep, StartCapture, ChunkExists, PutBlob, SkipBlob, PutChunk,
       PutRefused, LockChunk, CreateSnapshot, AddReferences, RegisterRef, PutSidecar, AbortWriter
  <2> QED BY <2>1
<1> QED BY <1>1, <1>2, <1>3, <1>4

LEMMA WriterKeepsReferenced ==
    ASSUME PrunesApart, TypeOK, Spared, NEW w \in Writer, WriterStep(w) \/ AbortWriter(w)
    PROVE  KeptReferenced'
<1> USE CommandAssumption DEF TypeOK, RepoTypeOK, WriterTypeOK, WriterGoto, repoVars
<1> SUFFICES ASSUME Pruner # {}, NEW s \in Kept', wpc'[snapshots'[s]] # "refs"
             PROVE  files'[snapshots'[s]] \X {s} \subseteq refs'
  BY DEF KeptReferenced
<1>1. refs \subseteq refs'
  BY DEF WriterStep, StartBackup, StartCapture, ChunkExists, PutBlob, SkipBlob, PutChunk,
     PutRefused, LockChunk, UpsertChunk, LinkChunk, CreateSnapshot, AddReferences,
     RegisterRef, PutSidecar, AbortWriter
<1>2. s \in Listed' /\ s \notin Doomed
  BY WriterKeepsKept DEF Kept
<1>3. CASE s \notin Listed
  <2>1. CreateSnapshot(w) /\ s = sid[w] /\ snapshots[s] = NoRoot
    BY <1>2, <1>3 DEF Listed, WriterStep, StartBackup, StartCapture, ChunkExists, PutBlob,
       SkipBlob, PutChunk, PutRefused, LockChunk, UpsertChunk, LinkChunk, CreateSnapshot,
       AddReferences, RegisterRef, PutSidecar, AbortWriter
  <2>2. snapshots'[s] = w /\ wpc'[w] = (IF kind[w] = "backup" THEN "refs" ELSE "sidecar")
        /\ files' = files
    BY <1>2, <2>1 DEF CreateSnapshot, Listed
  <2>3. files[w] = {}
    BY <2>2 DEF Spared, WriterWork
  <2> QED BY <2>2, <2>3
<1>4. CASE s \in Listed
  <2> DEFINE v == snapshots[s]
  <2>1. s \in Kept /\ snapshots'[s] = v /\ v \in Writer
    BY <1>2, <1>4, WriterKeepsKept DEF Kept, Listed
  <2>2. sid[v] = s /\ wpc[v] \notin Storing \cup {"idle"}
    BY <1>4 DEF Spared, RowsOfWriters
  <2>3. CASE wpc[v] # "refs"
    <3>1. files[v] \X {s} \subseteq refs
      BY <2>1, <2>3 DEF Spared, KeptReferenced
    <3>2. files'[v] = files[v]
      BY <2>1, <2>2 DEF WriterStep, StartBackup, StartCapture, ChunkExists, PutBlob, SkipBlob,
         PutChunk, PutRefused, LockChunk, UpsertChunk, LinkChunk, CreateSnapshot, AddReferences,
         RegisterRef, PutSidecar, AbortWriter
    <3> QED BY <1>1, <2>1, <3>1, <3>2
  <2>4. CASE wpc[v] = "refs"
    <3>1. v = w /\ AddReferences(w)
      BY <2>1, <2>4 DEF WriterStep, StartBackup, StartCapture, ChunkExists, PutBlob, SkipBlob,
         PutChunk, PutRefused, LockChunk, UpsertChunk, LinkChunk, CreateSnapshot, AddReferences,
         RegisterRef, PutSidecar, AbortWriter, PrunesApart
    <3>2. files[v] \X {s} \subseteq refs' /\ files' = files
      BY <2>2, <3>1 DEF AddReferences
    <3> QED BY <2>1, <3>2
  <2> QED BY <2>3, <2>4
<1> QED BY <1>3, <1>4

-----------------------------------------------------------------------------
(* Pruners.                                                                *)

(* No writer and no second prune is under way when a prune takes a step.   *)
LEMMA WritersRest ==
    ASSUME PrunesApart, TypeOK, Spared, NEW p \in Pruner, PrunerStep(p) \/ AbortPruner(p)
    PROVE  /\ UNCHANGED writerVars
           /\ \A w \in Writer : wpc[w] \in Ended
           /\ \A q \in Pruner \ {p} : ppc[q] \in Ended
           /\ ppc[p] \in Ended => ppc[p] = "idle" /\ StartPrune(p)
<1>1. UNCHANGED writerVars
  BY DEF PrunerStep, StartPrune, MarkActive, ScanChunks, CountReferences,
     RemoveReferences, DeleteSnapshot, DeleteChunk, KeepChunk, DeleteFreed, DeleteLinks,
     DeleteRow, NextPhase, EndPrune, AbortPruner
<1>2. ppc[p] \in Ended => ppc[p] = "idle" /\ StartPrune(p)
  BY DEF PrunerStep, StartPrune, MarkActive, ScanChunks, CountReferences,
     RemoveReferences, DeleteSnapshot, DeleteChunk, KeepChunk, DeleteFreed, DeleteLinks,
     DeleteRow, NextPhase, EndPrune, AbortPruner, Ended
<1>3. ppc[p] \in Ended => ~WriterRuns /\ ~PrunerRuns
  BY <1>2 DEF StartPrune, MayStartPruner, PrunesApart
<1>4. ppc[p] \notin Ended => ~WriterRuns
  BY DEF PrunerRuns, Spared, PruneAlone
<1>5. \A w \in Writer : wpc[w] \in Ended
  BY <1>3, <1>4 DEF WriterRuns
<1>6. \A q \in Pruner \ {p} : ppc[q] \in Ended
  BY <1>3 DEF PrunerRuns, Spared, PruneAlone
<1> QED BY <1>1, <1>2, <1>5, <1>6

(* Deciding what to keep is the only step that changes it.                 *)
LEMMA PrunerKeepsKept ==
    ASSUME PrunesApart, TypeOK, Spared, NEW p \in Pruner, PrunerStep(p) \/ AbortPruner(p)
    PROVE  /\ \A q \in Pruner \ {p} : drop'[q] = drop[q]
           /\ Listed' \subseteq Listed
           /\ \A s \in Listed' : snapshots'[s] = snapshots[s]
           /\ Kept' \subseteq Kept
           /\ ~StartPrune(p) => Kept' = Kept /\ Listed' \ drop'[p] = Listed \ drop[p]
<1> USE DEF TypeOK, RepoTypeOK, PrunerTypeOK, repoVars
<1>1. CASE StartPrune(p)
  <2>1. Listed' = Listed /\ UNCHANGED snapshots
    BY <1>1 DEF StartPrune, Listed
  <2>2. drop[p] = {}
    BY <1>1 DEF StartPrune, Spared, PruneInStep, InStep
  <2>3. \A q \in Pruner \ {p} : drop'[q] = drop[q]
    BY <1>1 DEF StartPrune
  <2>4. Doomed \subseteq Doomed'
    BY <2>2, <2>3 DEF Doomed
  <2> QED BY <1>1, <2>1, <2>3, <2>4 DEF Kept
<1>2. ASSUME NEW s \in SnapId, DeleteSnapshot(p, s)
      PROVE  /\ \A q \in Pruner \ {p} : drop'[q] = drop[q]
             /\ Listed' = Listed \ {s} /\ drop'[p] = drop[p] \ {s} /\ s \in drop[p]
             /\ \A t \in Listed' : snapshots'[t] = snapshots[t]
             /\ ppc[p] # "idle"
  BY <1>2 DEF DeleteSnapshot, Listed
<1>3. ASSUME ~StartPrune(p), ~ \E s \in SnapId : DeleteSnapshot(p, s)
      PROVE  UNCHANGED <<snapshots, drop>>
  BY <1>3 DEF PrunerStep, MarkActive, ScanChunks, CountReferences,
     RemoveReferences, DeleteChunk, KeepChunk, DeleteFreed, DeleteLinks,
     DeleteRow, NextPhase, EndPrune, AbortPruner
<1>4. CASE \E s \in SnapId : DeleteSnapshot(p, s)
  <2>1. PICK s \in SnapId : DeleteSnapshot(p, s)
    BY <1>4
  <2>2. /\ \A q \in Pruner \ {p} : drop'[q] = drop[q]
        /\ Listed' = Listed \ {s} /\ drop'[p] = drop[p] \ {s} /\ s \in drop[p]
        /\ \A t \in Listed' : snapshots'[t] = snapshots[t]
    BY <1>2, <2>1
  <2>3. Doomed = Doomed' \cup {s}
    <3>1. \A t : t \in Doomed <=> \E q \in Pruner : t \in drop[q]
      BY DEF Doomed
    <3>2. \A t : t \in Doomed' <=> \E q \in Pruner : t \in drop'[q]
      BY DEF Doomed
    <3>3. \A t : t \in Doomed => t \in Doomed' \cup {s}
      BY <2>2, <3>1, <3>2
    <3>4. \A t : t \in Doomed' \cup {s} => t \in Doomed
      BY <2>2, <3>1, <3>2
    <3> QED BY <3>3, <3>4
  <2> QED BY <2>2, <2>3 DEF Kept
<1>5. CASE ~StartPrune(p) /\ ~ \E s \in SnapId : DeleteSnapshot(p, s)
  BY <1>3, <1>5 DEF Kept, Doomed, Listed
<1> QED BY <1>1, <1>4, <1>5

LEMMA PrunerKeepsWork ==
    ASSUME PrunesApart, TypeOK, Spared, NEW p \in Pruner, PrunerStep(p) \/ AbortPruner(p)
    PROVE  PruneAlone' /\ WriterWork' /\ RowsOfWriters'
<1>1. UNCHANGED writerVars /\ \A w \in Writer : wpc[w] \in Ended
  BY WritersRest
<1>2. \A q \in Pruner \ {p} : ppc'[q] = ppc[q] /\ ppc[q] \in Ended
  <2>1. \E step : ppc' = [ppc EXCEPT ![p] = step] \/ ppc' = ppc
    BY DEF PrunerStep, StartPrune, MarkActive, ScanChunks, CountReferences,
       RemoveReferences, DeleteSnapshot, DeleteChunk, KeepChunk, DeleteFreed, DeleteLinks,
       DeleteRow, NextPhase, EndPrune, AbortPruner, PrunerGoto
  <2> QED BY <2>1, WritersRest DEF TypeOK, PrunerTypeOK
<1>3. PruneAlone'
  BY <1>1, <1>2 DEF PruneAlone, PrunerRuns, WriterRuns, writerVars
<1>4. WriterWork'
  BY <1>1 DEF WriterWork, Spared, writerVars, Ended, Storing
<1>5. RowsOfWriters'
  BY <1>1, PrunerKeepsKept DEF RowsOfWriters, Spared, writerVars
<1> QED BY <1>3, <1>4, <1>5

(* A prune takes rows and links only.                                      *)
LEMMA PrunerKeepsFiles ==
    ASSUME PrunesApart, TypeOK, Spared, NEW p \in Pruner, PrunerStep(p) \/ AbortPruner(p)
    PROVE  /\ chunkRow' \subseteq chunkRow
           /\ \A w \in Writer : links'[w] \subseteq links[w]
           /\ RowsOfFiles'
<1> USE DEF TypeOK, RepoTypeOK, repoVars
<1>1. UNCHANGED writerVars
  BY WritersRest
<1>2. chunkRow' \subseteq chunkRow /\ \A w \in Writer : links'[w] \subseteq links[w]
  BY DEF PrunerStep, StartPrune, MarkActive, ScanChunks, CountReferences,
     RemoveReferences, DeleteSnapshot, DeleteChunk, KeepChunk, DeleteFreed, DeleteLinks,
     DeleteRow, NextPhase, EndPrune, AbortPruner
<1> QED BY <1>1, <1>2 DEF RowsOfFiles, Spared, writerVars

LEMMA PrunerKeepsReferenced ==
    ASSUME PrunesApart, TypeOK, Spared, NEW p \in Pruner, PrunerStep(p) \/ AbortPruner(p)
    PROVE  /\ refs' \subseteq refs /\ \A r \in refs : r[2] \in Kept => r \in refs'
           /\ KeptReferenced'
<1> USE DEF TypeOK, RepoTypeOK, PrunerTypeOK, repoVars
<1>1. ASSUME NEW s \in SnapId, RemoveReferences(p, s)
      PROVE  refs' \subseteq refs /\ \A r \in refs : r[2] \in Kept => r \in refs'
  <2>1. s \in drop[p]
    BY <1>1 DEF RemoveReferences, Spared, PruneInStep, InStep
  <2>2. s \notin Kept
    BY <2>1 DEF Kept, Doomed
  <2> QED BY <1>1, <2>2 DEF RemoveReferences, RefsWithout
<1>2. (~ \E s \in SnapId : RemoveReferences(p, s)) => refs' = refs
  BY DEF PrunerStep, StartPrune, MarkActive, ScanChunks, CountReferences, DeleteSnapshot,
     DeleteChunk, KeepChunk, DeleteFreed, DeleteLinks, DeleteRow, NextPhase, EndPrune, AbortPruner
<1>3. refs' \subseteq refs /\ \A r \in refs : r[2] \in Kept => r \in refs'
  BY <1>1, <1>2
<1>4. KeptReferenced'
  <2> SUFFICES ASSUME Pruner # {}, NEW s \in Kept', wpc'[snapshots'[s]] # "refs",
                      NEW c \in files'[snapshots'[s]]
               PROVE  <<c, s>> \in refs'
    BY DEF KeptReferenced
  <2>1. s \in Kept /\ snapshots'[s] = snapshots[s]
    BY PrunerKeepsKept DEF Kept
  <2>2. wpc[snapshots[s]] # "refs" /\ c \in files[snapshots[s]]
    BY <2>1, WritersRest DEF writerVars
  <2>3. <<c, s>> \in refs
    BY <2>1, <2>2 DEF Spared, KeptReferenced
  <2> QED BY <1>3, <2>1, <2>3
<1> QED BY <1>3, <1>4

(* The other prunes are at rest, and so is what they hold.                 *)
LEMMA OthersInStep ==
    ASSUME PrunesApart, TypeOK, Spared, NEW p \in Pruner, PrunerStep(p) \/ AbortPruner(p),
           NEW q \in Pruner \ {p}
    PROVE  InStep(q)'
<1> USE DEF TypeOK, PrunerTypeOK, PrunerGoto, repoVars
<1>1. ppc[q] \in Ended /\ drop'[q] = drop[q]
  BY WritersRest, PrunerKeepsKept
<1>2. InStep(q)
  BY DEF Spared, PruneInStep
<1>3. /\ ppc'[q] = ppc[q] /\ active'[q] = active[q] /\ reclaim'[q] = reclaim[q]
      /\ unref'[q] = unref[q] /\ freed'[q] = freed[q]
  BY DEF PrunerStep, StartPrune, MarkActive, ScanChunks, CountReferences,
     RemoveReferences, DeleteSnapshot, DeleteChunk, KeepChunk, DeleteFreed, DeleteLinks,
     DeleteRow, NextPhase, EndPrune, AbortPruner, Forget
<1> QED BY <1>1, <1>2, <1>3 DEF InStep, Ended, AfterMark, PrunerSteps, Deleting

(* What is marked stays what the kept snapshots link.                      *)
LEMMA PrunerKeepsActive ==
    ASSUME PrunesApart, TypeOK, Spared, NEW p \in Pruner, PrunerStep(p),
           ~StartPrune(p), ~EndPrune(p)
    PROVE  /\ keep'[p] = keep[p] /\ keep'[p] = Listed' \ drop'[p]
           /\ ppc[p] \in AfterMark => ActiveChunks(keep[p])' = ActiveChunks(keep[p])
<1> USE DEF TypeOK, RepoTypeOK, PrunerTypeOK, repoVars
<1>1. ppc[p] \notin Ended /\ InStep(p)
  BY WritersRest DEF Spared, PruneInStep
<1>2. keep' = keep
  BY DEF PrunerStep, MarkActive, ScanChunks, CountReferences, RemoveReferences,
     DeleteSnapshot, DeleteChunk, KeepChunk, DeleteFreed, DeleteLinks, DeleteRow, NextPhase
<1>3. keep[p] = Listed \ drop[p] /\ keep[p] = Listed' \ drop'[p]
  BY <1>1, PrunerKeepsKept DEF InStep
<1>4. ASSUME ppc[p] \in AfterMark, NEW s \in keep[p]
      PROVE  s \in Listed /\ s \in Listed' /\ links'[snapshots'[s]] = links[snapshots[s]]
  <2>1. s \in Listed /\ s \in Listed' /\ snapshots'[s] = snapshots[s] /\ snapshots[s] \in Writer
    BY <1>3, PrunerKeepsKept DEF Listed
  <2>2. CASE DeleteLinks(p)
    <3>1. pcur[p] \notin active[p] /\ active[p] = ActiveChunks(keep[p])
      BY <1>1, <1>4, <2>2 DEF InStep, DeleteLinks, Deleting
    <3>2. pcur[p] \notin links[snapshots[s]]
      BY <2>1, <3>1 DEF ActiveChunks
    <3> QED BY <2>1, <2>2, <3>2 DEF DeleteLinks
  <2>3. CASE ~DeleteLinks(p)
    <3>1. links' = links
      BY <2>3 DEF PrunerStep, MarkActive, ScanChunks, CountReferences, RemoveReferences,
         DeleteSnapshot, DeleteChunk, KeepChunk, DeleteFreed, DeleteRow, NextPhase
    <3> QED BY <2>1, <3>1
  <2> QED BY <2>2, <2>3
<1>5. ppc[p] \in AfterMark => ActiveChunks(keep[p])' = ActiveChunks(keep[p])
  BY <1>2, <1>4 DEF ActiveChunks
<1> QED BY <1>2, <1>3, <1>5

LEMMA PrunerKeepsInStep ==
    ASSUME PrunesApart, TypeOK, Spared, NEW p \in Pruner, PrunerStep(p) \/ AbortPruner(p)
    PROVE  InStep(p)'
<1> USE DEF TypeOK, PrunerTypeOK, PrunerGoto, repoVars, InStep, Ended, AfterMark,
        PrunerSteps, Deleting, Unreferenced
<1>1. InStep(p)
  BY DEF Spared, PruneInStep
<1>2. ASSUME NEW c \in freed[p], NEW s \in SnapId PROVE <<c, s>> \notin refs'
  <2>1. <<c, s>> \notin refs
    BY <1>1
  <2> QED BY <2>1, PrunerKeepsReferenced
<1>3. CASE StartPrune(p)
  <2>1. Listed' = Listed
    BY <1>3 DEF StartPrune, Listed
  <2>2. keep'[p] = Listed \ drop'[p] /\ unref'[p] = drop'[p]
    BY <1>3 DEF StartPrune, SelectToKeep
  <2> QED BY <1>1, <1>2, <1>3, <2>1, <2>2 DEF StartPrune
<1>4. CASE MarkActive(p)
  <2>1. ActiveChunks(keep[p])' = ActiveChunks(keep[p])
    BY <1>4 DEF MarkActive, ActiveChunks, Listed
  <2>2. keep'[p] = Listed' \ drop'[p]
    BY <1>1, <1>4 DEF MarkActive, Listed
  <2> QED BY <1>1, <1>2, <1>4, <2>1, <2>2 DEF MarkActive
<1> DEFINE Stays == keep'[p] = Listed' \ drop'[p] /\ ActiveChunks(keep[p])' = ActiveChunks(keep[p])
<1>5. CASE ScanChunks(p)
  <2>1. Stays
    BY <1>5, PrunerKeepsActive DEF PrunerStep, ScanChunks, StartPrune, EndPrune
  <2> QED BY <1>1, <1>2, <1>5, <2>1 DEF ScanChunks, Reclaimable
<1>6. ASSUME NEW s \in SnapId, RemoveReferences(p, s) PROVE InStep(p)'
  <2>1. Stays
    BY <1>6, PrunerKeepsActive DEF PrunerStep, RemoveReferences, StartPrune, EndPrune
  <2> QED BY <1>1, <1>2, <1>6, <2>1 DEF RemoveReferences
<1>7. CASE CountReferences(p)
  <2>1. Stays
    BY <1>7, PrunerKeepsActive DEF PrunerStep, CountReferences, StartPrune, EndPrune
  <2>2. ASSUME NEW c \in freed'[p], NEW s \in SnapId PROVE <<c, s>> \notin refs'
    <3>1. refs' = refs /\ (c \in freed[p] \/ Unreferenced(c))
      BY <1>7 DEF CountReferences
    <3> QED BY <1>1, <3>1
  <2> QED BY <1>1, <1>7, <2>1, <2>2 DEF CountReferences
<1>8. ASSUME NEW c \in Chunk, DeleteChunk(p, c) PROVE InStep(p)'
  <2>1. Stays
    BY <1>8, PrunerKeepsActive DEF PrunerStep, DeleteChunk, StartPrune, EndPrune
  <2> QED BY <1>1, <1>2, <1>8, <2>1 DEF DeleteChunk
<1>9. ASSUME NEW c \in Chunk, KeepChunk(p, c) PROVE InStep(p)'
  <2>1. Stays
    BY <1>9, PrunerKeepsActive DEF PrunerStep, KeepChunk, StartPrune, EndPrune
  <2> QED BY <1>1, <1>2, <1>9, <2>1 DEF KeepChunk
<1>10. ASSUME NEW c \in Chunk, DeleteFreed(p, c) PROVE InStep(p)'
  <2>1. Stays
    BY <1>10, PrunerKeepsActive DEF PrunerStep, DeleteFreed, StartPrune, EndPrune
  <2> QED BY <1>1, <1>2, <1>10, <2>1 DEF DeleteFreed
<1>11. CASE DeleteLinks(p)
  <2>1. Stays
    BY <1>11, PrunerKeepsActive DEF PrunerStep, DeleteLinks, StartPrune, EndPrune
  <2> QED BY <1>1, <1>2, <1>11, <2>1 DEF DeleteLinks
<1>12. CASE DeleteRow(p)
  <2>1. Stays
    BY <1>12, PrunerKeepsActive DEF PrunerStep, DeleteRow, StartPrune, EndPrune
  <2>2. \A w \in Writer : pcur[p] \notin links[w]
    BY <1>1, <1>12 DEF DeleteRow
  <2> QED BY <1>1, <1>2, <1>12, <2>1, <2>2 DEF DeleteRow
<1>13. CASE NextPhase(p)
  <2>1. Stays
    BY <1>13, PrunerKeepsActive DEF PrunerStep, NextPhase, StartPrune, EndPrune
  <2> QED BY <1>1, <1>2, <1>13, <2>1 DEF NextPhase
<1>14. ASSUME NEW s \in SnapId, DeleteSnapshot(p, s) PROVE InStep(p)'
  <2>1. ~EndPrune(p)
    BY <1>14 DEF DeleteSnapshot, EndPrune
  <2>2. Stays
    BY <1>14, <2>1, PrunerKeepsActive DEF PrunerStep, DeleteSnapshot, StartPrune
  <2> QED BY <1>1, <1>2, <1>14, <2>2 DEF DeleteSnapshot
<1>15. CASE EndPrune(p)
  BY <1>1, <1>15 DEF EndPrune, Forget
<1>16. CASE AbortPruner(p)
  BY <1>1, <1>16 DEF AbortPruner, Forget
<1> QED
  BY <1>1, <1>3, <1>4, <1>5, <1>6, <1>7, <1>8, <1>9, <1>10, <1>11, <1>12, <1>13, <1>14,
     <1>15, <1>16 DEF PrunerStep

-----------------------------------------------------------------------------
(* What prunes that run apart never harm.                                  *)

LEMMA NextKeepsSpared ==
    ASSUME PrunesApart, TypeOK, Spared, [Next]_vars
    PROVE  Spared'
<1>1. ASSUME NEW w \in Writer, WriterStep(w) \/ AbortWriter(w) PROVE Spared'
  BY <1>1, WriterKeepsPrunes, WriterKeepsWork, WriterKeepsRows, WriterKeepsFiles,
     WriterKeepsReferenced DEF Spared
<1>2. ASSUME NEW p \in Pruner, PrunerStep(p) \/ AbortPruner(p) PROVE Spared'
  <2>1. PruneInStep'
    BY <1>2, OthersInStep, PrunerKeepsInStep DEF PruneInStep
  <2> QED
    BY <1>2, <2>1, PrunerKeepsWork, PrunerKeepsFiles, PrunerKeepsReferenced DEF Spared
<1>3. CASE UNCHANGED vars
  BY <1>3 DEF vars, repoVars, writerVars, prunerVars, Spared, PruneAlone, PrunerRuns,
     WriterRuns, WriterWork, RowsOfWriters, RowsOfFiles, KeptReferenced, PruneInStep,
     InStep, Kept, Doomed, Listed, ActiveChunks, Unreferenced
<1> QED BY <1>1, <1>2, <1>3 DEF Next

(* Whatever prunes are cut short and whatever deletes fail, what a prune   *)
(* holds in memory agrees with the catalog, and every kept snapshot has    *)
(* its references.                                                         *)
THEOREM SparedAlways ==
    ASSUME PrunesApart
    PROVE  Spec => []Spared
<1>1. TypeOK /\ Spared /\ [Next]_vars => Spared'
  BY NextKeepsSpared
<1> QED BY InitSpared, TypeCorrect, <1>1, PTL DEF Spec

(* A prune removes a file only when no kept snapshot has the chunk among   *)
(* those it links or, once it is complete, among those it was made of.     *)
LEMMA PrunerDeletes ==
    ASSUME PrunesApart, TypeOK, Spared, NEW p \in Pruner, PrunerStep(p) \/ AbortPruner(p),
           NEW c \in Chunk, blob'[c] # blob[c], NEW s \in Kept
    PROVE  /\ blob'[c] = "none"
           /\ c \notin links[snapshots[s]]
<1> USE DEF TypeOK, RepoTypeOK
<1>1. s \in Listed /\ snapshots[s] \in Writer /\ Pruner # {}
  BY DEF Kept, Listed
<1>2. DeleteChunk(p, c) \/ DeleteFreed(p, c)
  BY DEF PrunerStep, StartPrune, MarkActive, ScanChunks, CountReferences,
     RemoveReferences, DeleteSnapshot, DeleteChunk, KeepChunk, DeleteFreed, DeleteLinks,
     DeleteRow, NextPhase, EndPrune, AbortPruner, repoVars
<1>3. blob'[c] = "none"
  BY <1>2 DEF DeleteChunk, DeleteFreed
<1>4. CASE DeleteChunk(p, c)
  <2>1. ppc[p] \in AfterMark /\ c \notin active[p]
    BY <1>4 DEF DeleteChunk, AfterMark, PrunerSteps, Spared, PruneInStep, InStep
  <2> QED BY <1>3, <2>1, KeptIsActive
<1>5. CASE DeleteFreed(p, c)
  <2>1. Unreferenced(c)
    BY <1>5 DEF DeleteFreed, Spared, PruneInStep, InStep
  <2>2. wpc[snapshots[s]] # "refs"
    BY <1>1, WritersRest DEF Ended
  <2>3. files[snapshots[s]] \X {s} \subseteq refs
    BY <1>1, <2>2 DEF Spared, KeptReferenced
  <2>4. c \notin files[snapshots[s]]
    BY <1>1, <2>1, <2>3 DEF Unreferenced, Listed
  <2> QED BY <1>1, <1>3, <2>4 DEF Spared, RowsOfFiles
<1> QED BY <1>2, <1>4, <1>5

LEMMA NextSpares ==
    ASSUME PrunesApart, TypeOK, Spared, Next,
           NEW s \in Kept, s \in Kept', Restorable(s)
    PROVE  Restorable(s)'
<1> USE DEF TypeOK, RepoTypeOK, WriterTypeOK
<1> DEFINE v == snapshots[s]
<1>1. /\ s \in Listed /\ v \in Writer
      /\ links[v] = files[v] /\ \A c \in files[v] : blob[c] = "encoded"
      /\ files[v] \subseteq FileChunk /\ files[v] \subseteq Chunk
  BY DEF Kept, Listed, Restorable, Spared, WriterWork
<1>2. ASSUME NEW w \in Writer, WriterStep(w) \/ AbortWriter(w) PROVE Restorable(s)'
  <2>1. snapshots'[s] = v
    BY <1>1, <1>2, WriterKeepsKept
  <2>2. wpc[v] \notin Storing \cup {"idle"}
    BY <1>1 DEF Spared, RowsOfWriters
  <2>3. links'[v] = links[v] /\ files'[v] = files[v]
    BY <1>1, <1>2, <2>2 DEF WriterStep, StartBackup, StartCapture, ChunkExists, PutBlob,
       SkipBlob, PutChunk, PutRefused, LockChunk, UpsertChunk, LinkChunk, CreateSnapshot,
       AddReferences, RegisterRef, PutSidecar, AbortWriter, Storing, repoVars
  <2>4. ASSUME NEW c \in files[v] PROVE blob'[c] = "encoded"
    <3>1. ASSUME NEW d \in Chunk, PutBlob(w, d) PROVE d # c
      <4>1. d \in FpChunk
        BY <3>1 DEF PutBlob, Spared, WriterWork
      <4> QED BY <1>1, <4>1 DEF PrunesApart
    <3> QED BY <1>1, <1>2, <3>1 DEF WriterStep, StartBackup, StartCapture, ChunkExists, PutBlob,
         SkipBlob, PutChunk, PutRefused, LockChunk, UpsertChunk, LinkChunk, CreateSnapshot,
         AddReferences, RegisterRef, PutSidecar, AbortWriter, repoVars
  <2> QED BY <1>1, <2>1, <2>3, <2>4 DEF Restorable
<1>3. ASSUME NEW p \in Pruner, PrunerStep(p) \/ AbortPruner(p) PROVE Restorable(s)'
  <2>1. snapshots'[s] = v /\ files' = files
    BY <1>3, PrunerKeepsKept, WritersRest DEF Kept, writerVars
  <2>2. \A c \in files[v] : blob'[c] = "encoded"
    BY <1>1, <1>3, PrunerDeletes
  <2>3. links'[v] = links[v]
    <3>1. CASE DeleteLinks(p)
      <4>1. ppc[p] \in AfterMark /\ pcur[p] \notin active[p]
        BY <3>1 DEF DeleteLinks, AfterMark, PrunerSteps, Spared, PruneInStep, InStep, Deleting
      <4>2. pcur[p] \notin links[v]
        BY <4>1, KeptIsActive
      <4>3. links'[v] = links[v] \ {pcur[p]}
        BY <1>1, <3>1 DEF DeleteLinks
      <4> QED BY <4>2, <4>3
    <3>2. CASE ~DeleteLinks(p)
      BY <1>3, <3>2 DEF PrunerStep, StartPrune, MarkActive, ScanChunks, CountReferences,
         RemoveReferences, DeleteSnapshot, DeleteChunk, KeepChunk, DeleteFreed, DeleteRow,
         NextPhase, EndPrune, AbortPruner, repoVars
    <3> QED BY <3>1, <3>2
  <2> QED BY <1>1, <2>1, <2>2, <2>3 DEF Restorable
<1> QED BY <1>2, <1>3 DEF Next

(* No step harms a snapshot that could be restored and that no prune has   *)
(* chosen to drop, although prunes may be cut short anywhere.              *)
THEOREM AlwaysStaysRestorable ==
    ASSUME PrunesApart
    PROVE  Spec => KeptStaysRestorable
<1>1. TypeOK /\ Spared /\ [Next]_vars
      => [\A s \in Kept \cap Kept' : Restorable(s) => Restorable(s)']_vars
  BY NextSpares
<1> QED BY SparedAlways, TypeCorrect, <1>1, PTL DEF Spec, KeptStaysRestorable

(* storage.delete removes no chunk that a kept snapshot links.             *)
THEOREM AlwaysDeletesUnused ==
    ASSUME PrunesApart
    PROVE  Spec => DeletesOnlyUnused
<1>1. ASSUME TypeOK, Spared, Next, NEW c \in Chunk, blob[c] # "none", blob'[c] = "none",
             NEW s \in Kept
      PROVE  c \notin links[snapshots[s]]
  <2>1. ASSUME NEW w \in Writer, WriterStep(w) \/ AbortWriter(w) PROVE FALSE
    BY <1>1, <2>1 DEF TypeOK, RepoTypeOK, WriterStep, StartBackup, StartCapture, ChunkExists,
       PutBlob, SkipBlob, PutChunk, PutRefused, LockChunk, UpsertChunk, LinkChunk,
       CreateSnapshot, AddReferences, RegisterRef, PutSidecar, AbortWriter, repoVars
  <2> QED BY <1>1, <2>1, PrunerDeletes DEF Next
<1>2. TypeOK /\ Spared /\ [Next]_vars
      => [\A c \in Chunk : blob[c] # "none" /\ blob'[c] = "none" =>
             \A s \in Kept : c \notin links[snapshots[s]]]_vars
  BY <1>1
<1> QED BY SparedAlways, TypeCorrect, <1>2, PTL DEF Spec, DeletesOnlyUnused

-----------------------------------------------------------------------------
(* Consistent is an invariant of an isolated repository.                   *)

LEMMA InitConsistent == Init => Consistent
<1> SUFFICES ASSUME Init PROVE Consistent
  OBVIOUS
<1>1. LinksHaveRows /\ PrunesRunToEnd
  BY DEF Init, LinksHaveRows, PrunesRunToEnd, RunsToEnd
<1>2. KeptComplete
  BY DEF Init, KeptComplete, Kept, Listed
<1> QED BY <1>1, <1>2, InitSpared DEF Consistent

(* Prunes that have ended drop nothing, so a running one keeps what is kept. *)
LEMMA KeptIsNotDropped ==
    ASSUME NEW p \in Pruner, \A q \in Pruner \ {p} : drop[q] = {}
    PROVE  Kept = Listed \ drop[p]
BY DEF Kept, Doomed

LEMMA KeepIsKept ==
    ASSUME Consistent, NEW p \in Pruner, ppc[p] \notin Ended
    PROVE  keep[p] = Kept
<1>1. \A q \in Pruner \ {p} : drop[q] = {}
  BY DEF Consistent, Spared, PruneAlone, PrunesRunToEnd, RunsToEnd
<1>2. keep[p] = Listed \ drop[p]
  BY DEF Consistent, Spared, PruneInStep, InStep
<1> QED BY <1>1, <1>2, KeptIsNotDropped

(* When a writer takes a step, every listed snapshot is kept.              *)
LEMMA KeptIsListed ==
    ASSUME Isolated, TypeOK, Consistent, NEW w \in Writer, WriterStep(w) \/ AbortWriter(w)
    PROVE  Kept = Listed /\ Kept' = Listed'
<1>1. UNCHANGED prunerVars /\ \A p \in Pruner : ppc[p] \in Ended
  BY PrunersRest DEF Isolated, Consistent
<1>2. \A p \in Pruner : drop[p] = {} /\ drop'[p] = {}
  BY <1>1 DEF Consistent, PrunesRunToEnd, RunsToEnd, prunerVars
<1> QED BY <1>2 DEF Kept, Doomed

LEMMA WriterKeepsLinks ==
    ASSUME Isolated, TypeOK, Consistent, NEW w \in Writer, WriterStep(w) \/ AbortWriter(w)
    PROVE  LinksHaveRows'
<1> USE DEF TypeOK, RepoTypeOK, WriterTypeOK, Consistent, LinksHaveRows, WriterGoto, repoVars
<1>0. \A c \in chunkRow : blob[c] = "encoded"
  BY PrunersRest DEF Deleting, Ended, Isolated
<1>1. CASE StartBackup(w)
  BY <1>0, <1>1 DEF StartBackup
<1>2. CASE StartCapture(w)
  BY <1>0, <1>2 DEF StartCapture
<1>3. ASSUME NEW c \in Chunk, ChunkExists(w, c) PROVE LinksHaveRows'
  BY <1>0, <1>3 DEF ChunkExists
<1>4. ASSUME NEW c \in Chunk, PutBlob(w, c) PROVE LinksHaveRows'
  <2>1. c \notin FileChunk
    BY <1>4 DEF PutBlob, Isolated, PrunesApart, Spared, WriterWork
  <2>2. \A v \in Writer : wpc[v] \in {"lock", "upsert"} => cur[v] \in FileChunk
    BY DEF Spared, WriterWork, Storing
  <2> QED BY <1>0, <1>4, <2>1, <2>2 DEF PutBlob, Spared, RowsOfFiles
<1>5. ASSUME NEW c \in Chunk, SkipBlob(w, c) PROVE LinksHaveRows'
  BY <1>0, <1>5 DEF SkipBlob
<1>6. CASE PutChunk(w)
  BY <1>0, <1>6 DEF PutChunk
<1>7. CASE PutRefused(w)
  BY <1>0, <1>7 DEF PutRefused
<1>8. CASE LockChunk(w)
  BY <1>0, <1>8 DEF LockChunk
<1>9. CASE UpsertChunk(w)
  BY <1>0, <1>9 DEF UpsertChunk
<1>10. CASE LinkChunk(w)
  BY <1>0, <1>10 DEF LinkChunk
<1>11. CASE CreateSnapshot(w)
  BY <1>0, <1>11 DEF CreateSnapshot
<1>12. CASE AddReferences(w)
  BY <1>0, <1>12 DEF AddReferences
<1>13. CASE RegisterRef(w)
  BY <1>0, <1>13 DEF RegisterRef
<1>14. CASE PutSidecar(w)
  BY <1>0, <1>14 DEF PutSidecar
<1>15. CASE AbortWriter(w)
  BY <1>0, <1>15 DEF AbortWriter
<1> QED
  BY <1>1, <1>2, <1>3, <1>4, <1>5, <1>6, <1>7, <1>8, <1>9, <1>10, <1>11, <1>12,
     <1>13, <1>14, <1>15 DEF WriterStep

LEMMA WriterKeepsComplete ==
    ASSUME Isolated, TypeOK, Consistent, NEW w \in Writer, WriterStep(w) \/ AbortWriter(w)
    PROVE  KeptComplete'
<1> USE CommandAssumption
    DEF TypeOK, RepoTypeOK, WriterTypeOK, Consistent, WriterGoto, Listed, repoVars
<1>0. Kept = Listed /\ Kept' = Listed'
  BY KeptIsListed
<1>1. \A s \in Listed : snapshots'[s] = snapshots[s] /\ snapshots[s] \in Writer
  BY WriterKeepsKept DEF Isolated
<1>2. \A s \in Listed : wpc[snapshots[s]] \notin Storing \cup {"idle"}
  BY DEF Spared, RowsOfWriters
<1>3. \A s \in Listed : /\ links'[snapshots[s]] = links[snapshots[s]]
                        /\ files'[snapshots[s]] = files[snapshots[s]]
  BY <1>1, <1>2 DEF WriterStep, StartBackup, StartCapture, ChunkExists, PutBlob, SkipBlob,
     PutChunk, PutRefused, LockChunk, UpsertChunk, LinkChunk, CreateSnapshot, AddReferences,
     RegisterRef, PutSidecar, AbortWriter, Storing
<1>4. ASSUME NEW s \in Listed', s \notin Listed PROVE links'[snapshots'[s]] = files'[snapshots'[s]]
  <2>1. CreateSnapshot(w) /\ s = sid[w] /\ snapshots[s] = NoRoot
    BY <1>4 DEF WriterStep, StartBackup, StartCapture, ChunkExists, PutBlob, SkipBlob,
       PutChunk, PutRefused, LockChunk, UpsertChunk, LinkChunk, CreateSnapshot, AddReferences,
       RegisterRef, PutSidecar, AbortWriter
  <2>2. snapshots'[s] = w /\ UNCHANGED <<links, files>>
    BY <1>4, <2>1 DEF CreateSnapshot
  <2>3. todo[w] = {} /\ (wpc[w] = "chunks" \/ kind[w] = "capture")
    BY <2>1 DEF CreateSnapshot
  <2>4. links[w] \subseteq files[w] /\ (kind[w] = "capture" => files[w] = {})
        /\ (wpc[w] = "chunks" => files[w] \subseteq links[w] \cup todo[w])
    BY DEF Spared, RowsOfFiles, WriterWork, Storing
  <2>5. links[w] = files[w]
    BY ONLY <2>3, <2>4
  <2> QED BY <2>2, <2>5
<1> QED BY <1>0, <1>1, <1>3, <1>4 DEF KeptComplete

LEMMA WriterKeepsEnd ==
    ASSUME Isolated, TypeOK, Consistent, NEW w \in Writer, WriterStep(w) \/ AbortWriter(w)
    PROVE  PrunesRunToEnd'
<1>1. UNCHANGED prunerVars /\ \A p \in Pruner : freed[p] = {}
  BY PrunersRest DEF Isolated, Consistent
<1> QED BY <1>1 DEF Consistent, PrunesRunToEnd, RunsToEnd, prunerVars

LEMMA PrunerKeepsLinks ==
    ASSUME Isolated, TypeOK, Consistent, NEW p \in Pruner, PrunerStep(p) \/ AbortPruner(p)
    PROVE  LinksHaveRows'
<1> USE DEF TypeOK, RepoTypeOK, WriterTypeOK, PrunerTypeOK, repoVars, PrunerGoto
<1> DEFINE Backed == \A c \in chunkRow :
                         blob[c] = "encoded" \/ (ppc[p] \in Deleting /\ pcur[p] = c)
           Linked == \A w \in Writer : links[w] \subseteq chunkRow
<1>1. UNCHANGED writerVars /\ \A w \in Writer : wpc[w] \in Ended
  BY WritersRest DEF Isolated, Consistent
<1>2. Backed /\ Linked /\ InStep(p) /\ PrunerStep(p)
  <2>1. \A q \in Pruner : ppc[q] \in Deleting => q = p
    BY WritersRest DEF Ended, Deleting, Isolated, Consistent
  <2> QED BY <2>1 DEF Consistent, LinksHaveRows, Spared, PruneInStep, AbortPruner, Isolated
<1>3. CASE \/ StartPrune(p) \/ MarkActive(p) \/ ScanChunks(p) \/ CountReferences(p)
           \/ \E s \in SnapId : RemoveReferences(p, s) \/ DeleteSnapshot(p, s)
           \/ NextPhase(p) \/ EndPrune(p)
  <2>1. UNCHANGED <<blob, chunkRow, links>> /\ ppc[p] \notin Deleting
    BY <1>3 DEF StartPrune, MarkActive, ScanChunks, CountReferences, RemoveReferences,
       DeleteSnapshot, NextPhase, EndPrune, Deleting
  <2> QED BY <1>1, <1>2, <2>1 DEF LinksHaveRows, writerVars, Ended
<1>4. ASSUME NEW c \in Chunk, DeleteChunk(p, c) PROVE LinksHaveRows'
  <2>1. \A d \in chunkRow : blob[d] = "encoded"
    BY <1>2, <1>4 DEF DeleteChunk, Deleting
  <2>2. Backed'
    BY <1>4, <2>1 DEF DeleteChunk, Deleting
  <2> QED BY <1>1, <1>2, <1>4, <2>2 DEF DeleteChunk, LinksHaveRows, writerVars, Ended
<1>5. ASSUME NEW c \in Chunk, KeepChunk(p, c) PROVE LinksHaveRows'
  <2>1. UNCHANGED <<blob, chunkRow, links, ppc, pcur>>
    BY <1>5 DEF KeepChunk
  <2> QED BY <1>1, <1>2, <2>1 DEF LinksHaveRows, writerVars, Ended
<1>6. ASSUME NEW c \in Chunk, DeleteFreed(p, c) PROVE LinksHaveRows'
  <2>1. c \notin chunkRow
    BY <1>6 DEF DeleteFreed, Consistent, PrunesRunToEnd, RunsToEnd
  <2> QED BY <1>1, <1>2, <1>6, <2>1 DEF DeleteFreed, LinksHaveRows, writerVars, Ended
<1>7. CASE DeleteLinks(p)
  <2>1. Backed' /\ Linked'
    BY <1>1, <1>2, <1>7 DEF DeleteLinks, Deleting
  <2> QED BY <1>1, <1>7, <2>1 DEF DeleteLinks, LinksHaveRows, writerVars, Ended
<1>8. CASE DeleteRow(p)
  <2>1. \A w \in Writer : pcur[p] \notin links[w]
    BY <1>2, <1>8 DEF DeleteRow, InStep
  <2>2. chunkRow' = chunkRow \ {pcur[p]} /\ UNCHANGED <<blob, links>>
    BY <1>8, <2>1 DEF DeleteRow
  <2>3. \A c \in chunkRow' : blob'[c] = "encoded"
    BY <1>2, <2>2
  <2>4. Linked'
    BY <1>2, <2>1, <2>2
  <2> QED BY <1>1, <2>3, <2>4 DEF LinksHaveRows, writerVars, Ended
<1> QED
  BY <1>2, <1>3, <1>4, <1>5, <1>6, <1>7, <1>8 DEF PrunerStep

LEMMA PrunerKeepsComplete ==
    ASSUME Isolated, TypeOK, Consistent, NEW p \in Pruner, PrunerStep(p) \/ AbortPruner(p)
    PROVE  KeptComplete'
<1> USE DEF TypeOK, RepoTypeOK, Isolated, Consistent
<1> SUFFICES ASSUME NEW s \in Kept' PROVE links'[snapshots'[s]] = files'[snapshots'[s]]
  BY DEF KeptComplete
<1>1. UNCHANGED writerVars
  BY WritersRest
<1>2. s \in Kept /\ snapshots'[s] = snapshots[s] /\ snapshots[s] \in Writer
  BY PrunerKeepsKept DEF Kept, Listed
<1>3. CASE DeleteLinks(p)
  <2>1. ppc[p] \in AfterMark /\ pcur[p] \notin active[p]
    BY <1>3 DEF DeleteLinks, AfterMark, PrunerSteps, Spared, PruneInStep, InStep, Deleting
  <2>2. pcur[p] \notin links[snapshots[s]]
    BY <1>2, <2>1, KeptIsActive
  <2> QED BY <1>1, <1>2, <1>3, <2>2 DEF DeleteLinks, KeptComplete, writerVars
<1>4. CASE ~DeleteLinks(p)
  <2>1. links' = links
    BY <1>4 DEF PrunerStep, StartPrune, MarkActive, ScanChunks, CountReferences,
       RemoveReferences, DeleteSnapshot, DeleteChunk, KeepChunk, DeleteFreed, DeleteRow,
       NextPhase, EndPrune, AbortPruner, repoVars
  <2> QED BY <1>1, <1>2, <2>1 DEF KeptComplete, writerVars
<1> QED BY <1>3, <1>4

(* What a prune frees is no chunk it has marked: that has a reference.     *)
LEMMA PrunerKeepsEnd ==
    ASSUME Isolated, TypeOK, Consistent, NEW p \in Pruner, PrunerStep(p) \/ AbortPruner(p)
    PROVE  PrunesRunToEnd'
<1> USE DEF TypeOK, PrunerTypeOK, PrunerGoto, repoVars, Ended
<1>1. PrunerStep(p) /\ Spared /\ PrunesApart
  BY DEF AbortPruner, Isolated, Consistent
<1>2. \A q \in Pruner \ {p} : drop'[q] = drop[q] /\ ppc'[q] = ppc[q] /\ freed'[q] = freed[q]
  <2>1. \A q \in Pruner \ {p} : drop'[q] = drop[q]
    BY <1>1, PrunerKeepsKept
  <2>2. \A q \in Pruner \ {p} : ppc'[q] = ppc[q] /\ freed'[q] = freed[q]
    BY <1>1 DEF PrunerStep, StartPrune, MarkActive, ScanChunks, CountReferences,
       RemoveReferences, DeleteSnapshot, DeleteChunk, KeepChunk, DeleteFreed, DeleteLinks,
       DeleteRow, NextPhase, EndPrune, Forget
  <2> QED BY <2>1, <2>2
<1>3. chunkRow' \subseteq chunkRow
  BY <1>1, PrunerKeepsFiles
<1>4. \A q \in Pruner : RunsToEnd(q)
  BY DEF Consistent, PrunesRunToEnd
<1>5. ASSUME NEW q \in Pruner \ {p} PROVE RunsToEnd(q)'
  BY <1>2, <1>3, <1>4 DEF RunsToEnd
<1>6. ppc'[p] \in Ended => drop'[p] = {}
  <2>1. ppc[p] = "unrow" => \A w \in Writer : pcur[p] \notin links[w]
    BY DEF Consistent, Spared, PruneInStep, InStep
  <2>2. ppc[p] \in {"done", "failed"} => FALSE
    BY <1>1, WritersRest
  <2>3. ppc'[p] \in Ended => EndPrune(p)
    BY <1>1, <2>1, <2>2 DEF PrunerStep, StartPrune, MarkActive, ScanChunks, CountReferences,
       RemoveReferences, DeleteSnapshot, DeleteChunk, KeepChunk, DeleteFreed, DeleteLinks,
       DeleteRow, NextPhase
  <2> QED BY <2>3 DEF EndPrune
<1>7. freed'[p] \cap chunkRow' = {}
  <2>1. CASE CountReferences(p)
    <3>1. ASSUME NEW c \in chunkRow \ reclaim[p] PROVE ~Unreferenced(c)
      <4>1. c \in active[p] /\ active[p] = ActiveChunks(keep[p]) /\ keep[p] = Kept
        BY <2>1, <3>1, KeepIsKept DEF CountReferences, Consistent, Spared, PruneInStep, InStep,
           AfterMark, PrunerSteps
      <4>2. PICK s \in Kept : c \in links[snapshots[s]] /\ snapshots[s] \in Writer /\ s \in SnapId
        BY <4>1 DEF ActiveChunks, Kept, Listed, RepoTypeOK
      <4>3. wpc[snapshots[s]] # "refs"
        BY <1>1, <4>2, WritersRest
      <4>4. <<c, s>> \in refs
        BY <4>2, <4>3 DEF Consistent, Spared, KeptReferenced, RowsOfFiles
      <4> QED BY <4>2, <4>4 DEF Unreferenced
    <3>2. freed'[p] \subseteq freed[p] \cup {c \in cand[p] \ reclaim[p] : Unreferenced(c)}
      BY <2>1 DEF CountReferences
    <3> QED BY <1>3, <1>4, <3>1, <3>2 DEF RunsToEnd
  <2>2. CASE ~CountReferences(p)
    <3>1. freed'[p] \subseteq freed[p]
      BY <1>1, <2>2 DEF PrunerStep, StartPrune, MarkActive, ScanChunks, RemoveReferences,
         DeleteSnapshot, DeleteChunk, KeepChunk, DeleteFreed, DeleteLinks, DeleteRow,
         NextPhase, EndPrune, Forget
    <3> QED BY <1>3, <1>4, <3>1 DEF RunsToEnd
  <2> QED BY <2>1, <2>2
<1> QED BY <1>5, <1>6, <1>7 DEF PrunesRunToEnd, RunsToEnd

-----------------------------------------------------------------------------
(* The invariant and what it gives.                                        *)

LEMMA NextKeepsConsistent ==
    ASSUME Isolated, TypeOK, Consistent, [Next]_vars
    PROVE  Consistent'
<1>0. Spared'
  BY NextKeepsSpared DEF Isolated, Consistent
<1>1. ASSUME NEW w \in Writer, WriterStep(w) \/ AbortWriter(w) PROVE Consistent'
  BY <1>0, <1>1, WriterKeepsLinks, WriterKeepsComplete, WriterKeepsEnd DEF Consistent
<1>2. ASSUME NEW p \in Pruner, PrunerStep(p) \/ AbortPruner(p) PROVE Consistent'
  BY <1>0, <1>2, PrunerKeepsLinks, PrunerKeepsComplete, PrunerKeepsEnd DEF Consistent
<1>3. CASE UNCHANGED vars
  BY <1>0, <1>3 DEF vars, repoVars, writerVars, prunerVars, Consistent, LinksHaveRows,
     KeptComplete, PrunesRunToEnd, RunsToEnd, Kept, Doomed, Listed
<1> QED BY <1>1, <1>2, <1>3 DEF Next

(* An isolated repository is consistent throughout, whatever the numbers   *)
(* of commands, chunks and snapshots: what backup and prune read from the  *)
(* catalog agrees with what is stored.                                     *)
THEOREM ConsistentAlways ==
    ASSUME Isolated
    PROVE  Spec => []Consistent
<1>1. TypeOK /\ Consistent /\ [Next]_vars => Consistent'
  BY NextKeepsConsistent
<1> QED BY InitConsistent, TypeCorrect, <1>1, PTL DEF Spec

LEMMA ConsistentIsRestorable ==
    ASSUME TypeOK, Consistent
    PROVE  SnapshotsRestorable
<1> SUFFICES ASSUME NEW s \in Kept PROVE Restorable(s)
  BY DEF SnapshotsRestorable
<1> DEFINE w == snapshots[s]
<1>1. w \in Writer
  BY DEF Kept, Listed, TypeOK, RepoTypeOK
<1>2. links[w] = files[w] /\ links[w] \subseteq chunkRow
  BY <1>1 DEF Consistent, KeptComplete, LinksHaveRows
<1>3. ASSUME NEW c \in files[w], blob[c] # "encoded" PROVE FALSE
  <2>1. PICK p \in Pruner : ppc[p] \in Deleting /\ pcur[p] = c
    BY <1>2, <1>3 DEF Consistent, LinksHaveRows
  <2>2. ppc[p] \in AfterMark /\ c \notin active[p]
    BY <2>1 DEF Consistent, Spared, PruneInStep, InStep, Deleting, AfterMark, PrunerSteps
  <2> QED BY <1>2, <2>2, KeptIsActive DEF Consistent
<1> QED BY <1>2, <1>3 DEF Restorable

(* Every listed snapshot that no prune is dropping can be restored in      *)
(* full, for any number of backups, captures and prunes.                   *)
THEOREM AlwaysRestorable ==
    ASSUME Isolated
    PROVE  Spec => []SnapshotsRestorable
<1>1. TypeOK /\ Consistent => SnapshotsRestorable
  BY ConsistentIsRestorable
<1> QED BY ConsistentAlways, TypeCorrect, <1>1, PTL

-----------------------------------------------------------------------------
(* An isolated repository implements SnapshotStore.                        *)

(* What a writer's source may contain; a capture has no files.             *)
SourceOK == \A w \in Writer : files[w] \in FileContents \cup {{}}

LEMMA SourceAlwaysOK == Spec => []SourceOK
<1>1. Init => SourceOK
  BY DEF Init, SourceOK
<1>2. TypeOK /\ SourceOK /\ [Next]_vars => SourceOK'
  <2> SUFFICES ASSUME TypeOK, SourceOK, [Next]_vars PROVE SourceOK'
    OBVIOUS
  <2>1. ASSUME NEW w \in Writer, WriterStep(w) \/ AbortWriter(w) PROVE SourceOK'
    <3>1. CASE StartBackup(w)
      BY <3>1 DEF StartBackup, SourceOK, TypeOK, WriterTypeOK
    <3>2. CASE ~StartBackup(w)
      BY <2>1, <3>2 DEF WriterStep, StartCapture, ChunkExists, PutBlob, SkipBlob,
         PutChunk, PutRefused, LockChunk, UpsertChunk, LinkChunk, CreateSnapshot,
         AddReferences, RegisterRef, PutSidecar, AbortWriter, SourceOK
    <3> QED BY <3>1, <3>2
  <2>2. ASSUME NEW p \in Pruner, PrunerStep(p) \/ AbortPruner(p) PROVE SourceOK'
    <3>1. UNCHANGED writerVars
      BY <2>2 DEF PrunerStep, StartPrune, MarkActive, ScanChunks, CountReferences,
         RemoveReferences, DeleteSnapshot, DeleteChunk, KeepChunk, DeleteFreed,
         DeleteLinks, DeleteRow, NextPhase, EndPrune, AbortPruner
    <3> QED BY <3>1 DEF SourceOK, writerVars
  <2>3. CASE UNCHANGED vars
    BY <2>3 DEF vars, writerVars, SourceOK
  <2> QED BY <2>1, <2>2, <2>3 DEF Next
<1> QED BY <1>1, <1>2, TypeCorrect, PTL DEF Spec

(* A writer leaves every other command alone, and starts when it may.      *)
LEMMA WriterMoves ==
    ASSUME TypeOK, NEW w \in Writer, WriterStep(w) \/ AbortWriter(w)
    PROVE  /\ UNCHANGED prunerVars
           /\ \A v \in Writer \ {w} : /\ wpc'[v] = wpc[v] /\ cur'[v] = cur[v] /\ fp'[v] = fp[v]
                                      /\ files'[v] = files[v]
           /\ wpc[w] \notin Ended \/ MayStartWriter
<1> USE DEF TypeOK, WriterTypeOK, WriterGoto, repoVars
<1>1. UNCHANGED prunerVars
  BY DEF WriterStep, StartBackup, StartCapture, ChunkExists, PutBlob, SkipBlob, PutChunk,
     PutRefused, LockChunk, UpsertChunk, LinkChunk, CreateSnapshot, AddReferences,
     RegisterRef, PutSidecar, AbortWriter
<1>2. \A v \in Writer \ {w} : wpc'[v] = wpc[v] /\ cur'[v] = cur[v]
  BY DEF WriterStep, StartBackup, StartCapture, ChunkExists, PutBlob, SkipBlob, PutChunk,
     PutRefused, LockChunk, UpsertChunk, LinkChunk, CreateSnapshot, AddReferences,
     RegisterRef, PutSidecar, AbortWriter
<1>3. \A v \in Writer \ {w} : fp'[v] = fp[v] /\ files'[v] = files[v]
  BY DEF WriterStep, StartBackup, StartCapture, ChunkExists, PutBlob, SkipBlob, PutChunk,
     PutRefused, LockChunk, UpsertChunk, LinkChunk, CreateSnapshot, AddReferences,
     RegisterRef, PutSidecar, AbortWriter
<1>4. wpc[w] \notin Ended \/ MayStartWriter
  BY DEF Ended, WriterStep, StartBackup, StartCapture, ChunkExists, PutBlob, SkipBlob,
     PutChunk, PutRefused, LockChunk, UpsertChunk, LinkChunk, CreateSnapshot,
     AddReferences, RegisterRef, PutSidecar, AbortWriter
<1> QED BY <1>1, <1>2, <1>3, <1>4

(* A prune that has not begun has chosen nothing to drop.                  *)
IdleDropsNothing == \A p \in Pruner : ppc[p] = "idle" => drop[p] = {}

LEMMA IdleAlwaysDropsNothing == Spec => []IdleDropsNothing
<1>1. Init => IdleDropsNothing
  BY DEF Init, IdleDropsNothing
<1>2. TypeOK /\ IdleDropsNothing /\ [Next]_vars => IdleDropsNothing'
  <2> SUFFICES ASSUME TypeOK, IdleDropsNothing, [Next]_vars PROVE IdleDropsNothing'
    OBVIOUS
  <2>1. ASSUME NEW w \in Writer, WriterStep(w) \/ AbortWriter(w) PROVE IdleDropsNothing'
    BY <2>1, WriterMoves DEF IdleDropsNothing, prunerVars
  <2>2. ASSUME NEW p \in Pruner, PrunerStep(p) \/ AbortPruner(p) PROVE IdleDropsNothing'
    BY <2>2 DEF TypeOK, PrunerTypeOK, PrunerGoto, PrunerStep, StartPrune, MarkActive,
       ScanChunks, CountReferences, RemoveReferences, DeleteSnapshot, DeleteChunk, KeepChunk,
       DeleteFreed, DeleteLinks, DeleteRow, NextPhase, EndPrune, AbortPruner, IdleDropsNothing
  <2>3. CASE UNCHANGED vars
    BY <2>3 DEF vars, prunerVars, IdleDropsNothing
  <2> QED BY <2>1, <2>2, <2>3 DEF Next
<1> QED BY <1>1, <1>2, TypeCorrect, PTL DEF Spec

(* Prunes, in whatever number and beside whatever, only take snapshots     *)
(* away from those that are kept.                                          *)
LEMMA PruneOnlyDrops ==
    ASSUME TypeOK, IdleDropsNothing, NEW p \in Pruner, PrunerStep(p) \/ AbortPruner(p)
    PROVE  /\ UNCHANGED writerVars
           /\ Kept' \subseteq Kept /\ \A s \in Kept' : snapshots'[s] = snapshots[s]
<1> USE DEF TypeOK, RepoTypeOK, PrunerTypeOK, PrunerGoto, repoVars
<1>1. UNCHANGED writerVars
  BY DEF PrunerStep, StartPrune, MarkActive, ScanChunks, CountReferences, RemoveReferences,
     DeleteSnapshot, DeleteChunk, KeepChunk, DeleteFreed, DeleteLinks, DeleteRow, NextPhase,
     EndPrune, AbortPruner
<1>2. CASE StartPrune(p)
  <2>1. drop[p] = {} /\ snapshots' = snapshots /\ \A q \in Pruner \ {p} : drop'[q] = drop[q]
    BY <1>2 DEF StartPrune, IdleDropsNothing
  <2> QED BY <1>1, <2>1 DEF Kept, Doomed, Listed
<1>3. ASSUME NEW s \in SnapId, DeleteSnapshot(p, s)
      PROVE  Kept' \subseteq Kept /\ \A t \in Kept' : snapshots'[t] = snapshots[t]
  <2>1. /\ snapshots' = [snapshots EXCEPT ![s] = NoRoot]
        /\ drop' = [drop EXCEPT ![p] = @ \ {s}]
    BY <1>3 DEF DeleteSnapshot
  <2> QED BY <2>1 DEF Kept, Doomed, Listed
<1>4. CASE ~StartPrune(p) /\ ~ \E s \in SnapId : DeleteSnapshot(p, s)
  <2>1. snapshots' = snapshots /\ drop' = drop
    BY <1>4 DEF PrunerStep, MarkActive, ScanChunks, CountReferences, RemoveReferences,
       DeleteChunk, KeepChunk, DeleteFreed, DeleteLinks, DeleteRow, NextPhase, EndPrune,
       AbortPruner
  <2>2. Listed' = Listed /\ Doomed' = Doomed
    BY <2>1 DEF Listed, Doomed
  <2> QED BY <1>1, <2>1, <2>2 DEF Kept
<1> QED BY <1>1, <1>2, <1>3, <1>4

(* What Saved is as long as every kept snapshot is whole.                  *)
SavedWhole == Saved = [s \in Kept |-> files[snapshots[s]]]

LEMMA WholeIsSource ==
    ASSUME SnapshotsRestorable
    PROVE  SavedWhole
BY DEF SavedWhole, Saved, SnapshotsRestorable, Restorable

LEMMA InitMaps == Init => Store!Init
BY DEF Init, Store!Init, Saved, Kept, Listed

(* As long as it is, a step saves a snapshot, drops some, or does neither. *)
LEMMA StepMaps ==
    ASSUME TypeOK, RowsOfWriters, SourceOK, IdleDropsNothing, SavedWhole, SavedWhole',
           [Next]_vars
    PROVE  [Store!Next]_Saved
<1> USE DEF TypeOK, RepoTypeOK, WriterTypeOK, PrunerTypeOK, SavedWhole
<1>1. ASSUME NEW w \in Writer, WriterStep(w) \/ AbortWriter(w) PROVE [Store!Next]_Saved
  <2>1. Doomed' = Doomed
    BY <1>1, WriterMoves DEF Doomed, prunerVars
  <2>2. CASE CreateSnapshot(w) /\ snapshots[sid[w]] = NoRoot
    <3> DEFINE c == files[w]
    <3>1. sid[w] \in SnapId /\ c \in FileContents \cup {{}}
      BY <2>2 DEF CreateSnapshot, SourceOK
    <3>2. snapshots' = [snapshots EXCEPT ![sid[w]] = w] /\ files' = files
      BY <2>2 DEF CreateSnapshot
    <3>3. Listed' = Listed \cup {sid[w]} /\ sid[w] \notin Listed
      BY <2>2, <3>1, <3>2, CommandAssumption DEF Listed
    <3>4. CASE sid[w] \in Doomed
      <4>1. Kept' = Kept /\ \A s \in Kept : snapshots'[s] = snapshots[s]
        BY <2>1, <3>2, <3>3, <3>4 DEF Kept, Listed
      <4> QED BY <3>2, <4>1
    <3>5. CASE sid[w] \notin Doomed
      <4>1. Kept' = Kept \cup {sid[w]} /\ sid[w] \notin Kept
        BY <2>1, <3>3, <3>5 DEF Kept
      <4>2. Store!Save(sid[w], c)
        BY <3>1, <3>2, <4>1 DEF Store!Save, Kept, Listed
      <4> QED BY <3>1, <4>2 DEF Store!Next
    <3> QED BY <3>4, <3>5
  <2>3. CASE ~(CreateSnapshot(w) /\ snapshots[sid[w]] = NoRoot)
    <3>1. snapshots' = snapshots
      BY <1>1, <2>3 DEF WriterStep, StartBackup, StartCapture, ChunkExists, PutBlob,
         SkipBlob, PutChunk, PutRefused, LockChunk, UpsertChunk, LinkChunk, CreateSnapshot,
         AddReferences, RegisterRef, PutSidecar, AbortWriter, repoVars
    <3>2. \A s \in Listed : files'[snapshots[s]] = files[snapshots[s]]
      <4>1. \/ files' = files
            \/ wpc[w] = "idle" /\ \E x : files' = [files EXCEPT ![w] = x]
        BY <1>1 DEF WriterStep, StartBackup, StartCapture, ChunkExists, PutBlob, SkipBlob,
           PutChunk, PutRefused, LockChunk, UpsertChunk, LinkChunk, CreateSnapshot,
           AddReferences, RegisterRef, PutSidecar, AbortWriter
      <4>2. \A s \in Listed : wpc[snapshots[s]] # "idle" /\ snapshots[s] \in Writer
        BY DEF RowsOfWriters, Listed
      <4> QED BY <4>1, <4>2
    <3>3. Kept' = Kept /\ Kept \subseteq Listed
      BY <2>1, <3>1 DEF Kept, Listed
    <3> QED BY <3>1, <3>2, <3>3
  <2> QED BY <2>2, <2>3
<1>2. ASSUME NEW p \in Pruner, PrunerStep(p) \/ AbortPruner(p) PROVE [Store!Next]_Saved
  <2>1. files' = files
    BY <1>2, PruneOnlyDrops DEF writerVars
  <2>2. Kept' \subseteq Kept /\ \A s \in Kept' : snapshots'[s] = snapshots[s]
    BY <1>2, PruneOnlyDrops
  <2>3. Store!Drop(Kept \ Kept')
    BY <2>1, <2>2 DEF Store!Drop
  <2> QED BY <2>3 DEF Store!Next
<1>3. CASE UNCHANGED vars
  BY <1>3 DEF vars, repoVars, writerVars, prunerVars, Saved, Kept, Listed, Doomed
<1> QED BY <1>1, <1>2, <1>3 DEF Next

(* A snapshot appears with its whole contents, keeps exactly them, and     *)
(* disappears when the retention rule drops it.                            *)
THEOREM AlwaysImplementsStore ==
    ASSUME Isolated
    PROVE  Spec => ImplementsStore
<1>1. Init => Store!Init
  BY InitMaps
<1>2. TypeOK /\ Consistent => SavedWhole /\ RowsOfWriters
  BY ConsistentIsRestorable, WholeIsSource DEF Consistent, Spared
<1>3. /\ TypeOK /\ RowsOfWriters /\ SourceOK /\ IdleDropsNothing /\ SavedWhole /\ SavedWhole'
      /\ [Next]_vars
      => [Store!Next]_Saved
  BY StepMaps
<1> QED
  BY ConsistentAlways, TypeCorrect, SourceAlwaysOK, IdleAlwaysDropsNothing,
     <1>1, <1>2, <1>3, PTL DEF Spec, ImplementsStore, Store!Spec

-----------------------------------------------------------------------------
(* What the references hold: fingerprints, and what a prune may delete.    *)

LEMMA InitHeld == Init => Held
BY DEF Init, Held, FingerprintWork, OwnsRow, SidecarComplete, ReferencesAgree, Ended

LEMMA WriterKeepsFingerprints ==
    ASSUME PrunesApart, TypeOK, Spared, FingerprintWork,
           NEW w \in Writer, WriterStep(w) \/ AbortWriter(w)
    PROVE  FingerprintWork'
<1> USE CommandAssumption
    DEF TypeOK, RepoTypeOK, WriterTypeOK, Spared, FingerprintWork, BlobsHeld, OwnsRow,
        WriterGoto, WriterWork, Storing, Ended, repoVars
<1>1. CASE StartBackup(w)
  BY <1>1 DEF StartBackup, TakeId
<1>2. CASE StartCapture(w)
  BY <1>2 DEF StartCapture, TakeId
<1>3. ASSUME NEW c \in Chunk, ChunkExists(w, c) PROVE FingerprintWork'
  BY <1>3 DEF ChunkExists
<1>4. ASSUME NEW c \in Chunk, PutBlob(w, c) PROVE FingerprintWork'
  BY <1>4 DEF PutBlob
<1>5. ASSUME NEW c \in Chunk, SkipBlob(w, c) PROVE FingerprintWork'
  BY <1>5 DEF SkipBlob
<1>6. CASE PutChunk(w)
  <2>1. \A v \in Writer : cur[w] \notin fp[v]
    BY <1>6 DEF PutChunk, PrunesApart
  <2>2. /\ \A c \in Chunk : c # cur[w] => blob'[c] = blob[c]
        /\ UNCHANGED <<refs, snapshots, kind, sid, fp, todo, cur>>
        /\ wpc'[w] \in {"lock", "upsert"} /\ \A v \in Writer \ {w} : wpc'[v] = wpc[v]
    BY <1>6 DEF PutChunk
  <2>3. ASSUME NEW v \in Writer, v # w, wpc[v] \in {"blobs", "register", "sidecar"} PROVE BlobsHeld(v)'
    BY <2>1, <2>2, <2>3
  <2>4. ASSUME NEW v \in Writer, v # w, wpc[v] = "register"
        PROVE  cur'[v] \in todo'[v] /\ blob'[cur'[v]] = "raw"
    BY <2>1, <2>2, <2>4
  <2> QED BY <2>2, <2>3, <2>4
<1>7. CASE PutRefused(w)
  BY <1>7 DEF PutRefused
<1>8. CASE LockChunk(w)
  BY <1>8 DEF LockChunk
<1>9. CASE UpsertChunk(w)
  BY <1>9 DEF UpsertChunk
<1>10. CASE LinkChunk(w)
  BY <1>10 DEF LinkChunk
<1>11. CASE CreateSnapshot(w)
  BY <1>11 DEF CreateSnapshot
<1>12. CASE AddReferences(w)
  BY <1>12 DEF AddReferences
<1>13. CASE RegisterRef(w)
  BY <1>13 DEF RegisterRef
<1>14. CASE PutSidecar(w)
  BY <1>14 DEF PutSidecar
<1>15. CASE AbortWriter(w)
  BY <1>15 DEF AbortWriter
<1> QED
  BY <1>1, <1>2, <1>3, <1>4, <1>5, <1>6, <1>7, <1>8, <1>9, <1>10, <1>11, <1>12,
     <1>13, <1>14, <1>15 DEF WriterStep

LEMMA WriterKeepsSidecar ==
    ASSUME PrunesApart, TypeOK, Spared, FingerprintWork, SidecarComplete,
           NEW w \in Writer, WriterStep(w) \/ AbortWriter(w)
    PROVE  SidecarComplete'
<1> USE CommandAssumption
    DEF TypeOK, RepoTypeOK, WriterTypeOK, SidecarComplete, WriterGoto, Listed, repoVars
<1>0. \A s \in Listed : s \in Listed' /\ snapshots'[s] = snapshots[s] /\ (s \in Kept' => s \in Kept)
  BY WriterKeepsKept DEF Kept
<1>1. \A s \in sidecar : snapshots[s] \in Writer \ {w}
  <2>1. wpc[w] # "done"
    BY DEF WriterStep, StartBackup, StartCapture, ChunkExists, PutBlob, SkipBlob, PutChunk,
       PutRefused, LockChunk, UpsertChunk, LinkChunk, CreateSnapshot, AddReferences,
       RegisterRef, PutSidecar, AbortWriter, Ended
  <2> QED BY <2>1
<1>2. CASE PutChunk(w)
  <2>1. \A v \in Writer : cur[w] \notin fp[v]
    BY <1>2 DEF PutChunk, PrunesApart, Spared, WriterWork, Storing
  <2> QED BY <1>0, <1>1, <1>2, <2>1 DEF PutChunk
<1>3. ASSUME NEW c \in Chunk, PutBlob(w, c) PROVE SidecarComplete'
  BY <1>0, <1>1, <1>3 DEF PutBlob
<1>4. CASE PutSidecar(w)
  <2>1. snapshots[sid[w]] = w /\ todo[w] = {} /\ BlobsHeld(w)
    BY <1>4 DEF PutSidecar, FingerprintWork, OwnsRow
  <2>2. sidecar' = sidecar \cup {sid[w]} /\ wpc' = [wpc EXCEPT ![w] = "done"]
        /\ UNCHANGED <<blob, refs, snapshots, fp>> /\ sid[w] \in SnapId
    BY <1>4 DEF PutSidecar
  <2> QED BY <1>0, <1>1, <2>1, <2>2 DEF BlobsHeld
<1>5. ASSUME ~PutChunk(w), ~PutSidecar(w), ~ \E c \in Chunk : PutBlob(w, c)
      PROVE  UNCHANGED <<blob, sidecar>>
  BY <1>5 DEF WriterStep, StartBackup, StartCapture, ChunkExists, SkipBlob, PutRefused,
     LockChunk, UpsertChunk, LinkChunk, CreateSnapshot, AddReferences, RegisterRef, AbortWriter
<1>6. refs \subseteq refs'
  BY DEF WriterStep, StartBackup, StartCapture, ChunkExists, PutBlob, SkipBlob, PutChunk,
     PutRefused, LockChunk, UpsertChunk, LinkChunk, CreateSnapshot, AddReferences,
     RegisterRef, PutSidecar, AbortWriter
<1>7. \A v \in Writer \ {w} : wpc'[v] = wpc[v] /\ fp'[v] = fp[v]
  BY DEF WriterStep, StartBackup, StartCapture, ChunkExists, PutBlob, SkipBlob, PutChunk,
     PutRefused, LockChunk, UpsertChunk, LinkChunk, CreateSnapshot, AddReferences,
     RegisterRef, PutSidecar, AbortWriter
<1>8. CASE UNCHANGED <<blob, sidecar>>
  BY <1>0, <1>1, <1>6, <1>7, <1>8
<1> QED BY <1>2, <1>3, <1>4, <1>5, <1>8

LEMMA WriterKeepsReferences ==
    ASSUME PrunesApart, TypeOK, Spared, FingerprintWork, ReferencesAgree,
           NEW w \in Writer, WriterStep(w) \/ AbortWriter(w)
    PROVE  ReferencesAgree'
<1> USE CommandAssumption DEF TypeOK, RepoTypeOK, WriterTypeOK, WriterGoto, Listed, repoVars
<1>1. UNCHANGED <<drop, unref, reclaim, ppc>> /\ \A p \in Pruner : ppc[p] \in Ended
  BY PrunersRest DEF prunerVars
<1>2. \A s \in Listed : /\ s \in Listed' /\ snapshots'[s] = snapshots[s] /\ snapshots[s] \in Writer
                        /\ wpc[snapshots[s]] \notin Storing \cup {"idle"}
  BY WriterKeepsKept DEF Spared, RowsOfWriters
<1>3. \A s \in Listed : links'[snapshots[s]] = links[snapshots[s]]
  BY <1>2 DEF WriterStep, StartBackup, StartCapture, ChunkExists, PutBlob, SkipBlob, PutChunk,
     PutRefused, LockChunk, UpsertChunk, LinkChunk, CreateSnapshot, AddReferences,
     RegisterRef, PutSidecar, AbortWriter, Storing
<1>4. ASSUME NEW v \in Writer, wpc'[v] = "refs" PROVE links'[v] = files'[v]
  <2>1. CASE CreateSnapshot(w) /\ v = w
    <3>1. UNCHANGED <<links, files>> /\ todo[w] = {} /\ (wpc[w] = "chunks" \/ kind[w] = "capture")
      BY <2>1 DEF CreateSnapshot
    <3>2. links[w] \subseteq files[w] /\ (kind[w] = "capture" => files[w] = {})
          /\ (wpc[w] = "chunks" => files[w] \subseteq links[w] \cup todo[w])
      BY DEF Spared, RowsOfFiles, WriterWork, Storing
    <3>3. links[w] = files[w]
      BY ONLY <3>1, <3>2
    <3> QED BY <2>1, <3>1, <3>3
  <2>2. CASE ~(CreateSnapshot(w) /\ v = w)
    <3>1. wpc[v] = "refs" /\ links'[v] = links[v] /\ files'[v] = files[v]
      BY <1>4, <2>2 DEF WriterStep, StartBackup, StartCapture, ChunkExists, PutBlob, SkipBlob,
         PutChunk, PutRefused, LockChunk, UpsertChunk, LinkChunk, CreateSnapshot, AddReferences,
         RegisterRef, PutSidecar, AbortWriter
    <3> QED BY <3>1 DEF ReferencesAgree
  <2> QED BY <2>1, <2>2
<1>5. ASSUME NEW r \in refs', r[1] \in FileChunk
      PROVE  r[2] \in Listed /\ r[1] \in links[snapshots[r[2]]]
  <2>1. CASE r \in refs
    BY <1>5, <2>1 DEF ReferencesAgree
  <2>2. CASE AddReferences(w) /\ r \in files[w] \X {sid[w]}
    <3>1. wpc[w] = "refs" /\ kind[w] = "backup"
      BY <2>2 DEF AddReferences, Spared, WriterWork
    <3>2. snapshots[sid[w]] = w /\ links[w] = files[w] /\ sid[w] \in SnapId
      BY <3>1 DEF FingerprintWork, OwnsRow, ReferencesAgree
    <3> QED BY <2>2, <3>2
  <2>3. CASE RegisterRef(w) /\ r = <<cur[w], sid[w]>>
    BY <1>5, <2>3 DEF RegisterRef, FingerprintWork, Spared, WriterWork, PrunesApart
  <2>4. refs' = refs \/ (AddReferences(w) /\ refs' = refs \cup (files[w] \X {sid[w]}))
           \/ (RegisterRef(w) /\ refs' = refs \cup {<<cur[w], sid[w]>>})
    BY DEF WriterStep, StartBackup, StartCapture, ChunkExists, PutBlob, SkipBlob, PutChunk,
       PutRefused, LockChunk, UpsertChunk, LinkChunk, CreateSnapshot, AddReferences,
       RegisterRef, PutSidecar, AbortWriter
  <2> QED BY <2>1, <2>2, <2>3, <2>4
<1>6. \A r \in refs' : r[1] \in FileChunk => r[2] \in Listed' /\ r[1] \in links'[snapshots'[r[2]]]
  BY <1>2, <1>3, <1>5
<1> QED BY <1>1, <1>4, <1>6 DEF ReferencesAgree

(* A prune takes files that nothing references and file chunks, and the    *)
(* sidecar entries of the snapshots it takes from the list.                *)
LEMMA PrunerTakes ==
    ASSUME PrunesApart, TypeOK, Spared, ReferencesAgree,
           NEW p \in Pruner, PrunerStep(p) \/ AbortPruner(p)
    PROVE  /\ \A c \in Chunk : blob'[c] = blob[c] \/ c \in FileChunk \/ Unreferenced(c)
           /\ \A s \in sidecar' : s \in sidecar /\ (s \in Listed => s \in Listed')
<1> USE DEF TypeOK, RepoTypeOK, PrunerTypeOK, repoVars
<1>1. \A c \in Chunk : blob'[c] = blob[c] \/ c \in FileChunk \/ Unreferenced(c)
  <2>1. ASSUME NEW c \in Chunk, DeleteChunk(p, c)
        PROVE  c \in FileChunk /\ \A d \in Chunk \ {c} : blob'[d] = blob[d]
    BY <2>1 DEF DeleteChunk, ReferencesAgree
  <2>2. ASSUME NEW c \in Chunk, DeleteFreed(p, c)
        PROVE  Unreferenced(c) /\ \A d \in Chunk \ {c} : blob'[d] = blob[d]
    BY <2>2 DEF DeleteFreed, Spared, PruneInStep, InStep
  <2>3. (~ \E c \in Chunk : DeleteChunk(p, c) \/ DeleteFreed(p, c)) => blob' = blob
    BY DEF PrunerStep, StartPrune, MarkActive, ScanChunks, CountReferences, RemoveReferences,
       DeleteSnapshot, KeepChunk, DeleteLinks, DeleteRow, NextPhase, EndPrune, AbortPruner
  <2> QED BY <2>1, <2>2, <2>3
<1>2. \A s \in sidecar' : s \in sidecar /\ (s \in Listed => s \in Listed')
  <2>1. ASSUME NEW s \in SnapId, DeleteSnapshot(p, s)
        PROVE  sidecar' = sidecar \ {s} /\ Listed \ {s} \subseteq Listed'
    BY <2>1 DEF DeleteSnapshot, Listed
  <2>2. (~ \E s \in SnapId : DeleteSnapshot(p, s)) => sidecar' = sidecar /\ Listed' = Listed
    BY DEF PrunerStep, StartPrune, MarkActive, ScanChunks, CountReferences, RemoveReferences,
       DeleteChunk, KeepChunk, DeleteFreed, DeleteLinks, DeleteRow, NextPhase, EndPrune,
       AbortPruner, Listed
  <2> QED BY <2>1, <2>2
<1> QED BY <1>1, <1>2

LEMMA PrunerKeepsFingerprints ==
    ASSUME PrunesApart, TypeOK, Spared, Held, NEW p \in Pruner, PrunerStep(p) \/ AbortPruner(p)
    PROVE  FingerprintWork' /\ SidecarComplete'
<1> USE DEF TypeOK, RepoTypeOK, WriterTypeOK, Held
<1>1. UNCHANGED writerVars /\ \A w \in Writer : wpc[w] \in Ended
  BY WritersRest
<1>2. FingerprintWork'
  BY <1>1 DEF FingerprintWork, OwnsRow, Ended, writerVars
<1>3. ASSUME NEW s \in sidecar' PROVE s \in Listed' /\ wpc'[snapshots'[s]] = "done"
  <2>1. s \in sidecar /\ s \in Listed'
    BY PrunerTakes DEF SidecarComplete
  <2>2. snapshots'[s] = snapshots[s]
    BY <2>1, PrunerKeepsKept
  <2> QED BY <1>1, <2>1, <2>2 DEF SidecarComplete, writerVars
<1>4. ASSUME NEW s \in sidecar' \cap Kept', NEW c \in fp'[snapshots'[s]]
      PROVE  blob'[c] = "raw" /\ <<c, s>> \in refs'
  <2>1. s \in sidecar /\ s \in Kept /\ snapshots'[s] = snapshots[s] /\ s \in Listed
    BY PrunerTakes, PrunerKeepsKept DEF Kept
  <2>2. c \in fp[snapshots[s]] /\ snapshots[s] \in Writer
    BY <1>1, <2>1 DEF writerVars, Listed
  <2>3. blob[c] = "raw" /\ <<c, s>> \in refs /\ c \in Chunk /\ c \notin FileChunk
    BY <2>1, <2>2 DEF SidecarComplete, Spared, WriterWork, PrunesApart
  <2>4. ~Unreferenced(c)
    BY <2>1, <2>3 DEF Unreferenced, Listed
  <2>5. <<c, s>> \in refs'
    BY <2>1, <2>3, PrunerKeepsReferenced
  <2> QED BY <2>3, <2>4, <2>5, PrunerTakes
<1>5. SidecarComplete'
  BY <1>3, <1>4 DEF SidecarComplete
<1> QED BY <1>2, <1>5

LEMMA PrunerKeepsReferences ==
    ASSUME PrunesApart, TypeOK, Spared, ReferencesAgree,
           NEW p \in Pruner, PrunerStep(p) \/ AbortPruner(p)
    PROVE  ReferencesAgree'
<1> USE DEF TypeOK, RepoTypeOK, PrunerTypeOK, PrunerGoto, repoVars
<1>1. UNCHANGED writerVars /\ \A w \in Writer : wpc[w] # "refs"
  BY WritersRest DEF Ended
<1>2. \A q \in Pruner : reclaim'[q] \subseteq FileChunk
  BY DEF ReferencesAgree, PrunerStep, StartPrune, MarkActive, ScanChunks, Reclaimable,
     CountReferences, RemoveReferences, DeleteSnapshot, DeleteChunk, KeepChunk, DeleteFreed,
     DeleteLinks, DeleteRow, NextPhase, EndPrune, AbortPruner, Forget, Spared, RowsOfFiles
<1>3. \A w \in Writer : wpc'[w] = "refs" => links'[w] = files'[w]
  BY <1>1 DEF writerVars
<1>4. ASSUME NEW r \in refs', r[1] \in FileChunk
      PROVE  r[2] \in Listed' /\ r[1] \in links'[snapshots'[r[2]]]
  <2>1. r \in refs /\ r[2] \in Listed /\ r[1] \in links[snapshots[r[2]]]
    BY <1>4, PrunerKeepsReferenced DEF ReferencesAgree
  <2>2. r[2] \in Listed'
    <3>1. ASSUME NEW s \in SnapId, DeleteSnapshot(p, s) PROVE r[2] # s
      <4>1. s \in drop[p] \ unref[p] /\ ppc[p] \notin Ended
        BY <3>1 DEF DeleteSnapshot, Spared, PruneInStep, InStep, Ended
      <4> QED BY <2>1, <4>1 DEF ReferencesAgree
    <3>2. CASE \E s \in SnapId : DeleteSnapshot(p, s)
      BY <2>1, <3>1, <3>2 DEF DeleteSnapshot, Listed
    <3>3. CASE ~ \E s \in SnapId : DeleteSnapshot(p, s)
      BY <2>1, <3>3 DEF PrunerStep, StartPrune, MarkActive, ScanChunks, CountReferences,
         RemoveReferences, DeleteChunk, KeepChunk, DeleteFreed, DeleteLinks, DeleteRow, NextPhase,
         EndPrune, AbortPruner, Listed
    <3> QED BY <3>2, <3>3
  <2>3. snapshots'[r[2]] = snapshots[r[2]] /\ snapshots[r[2]] \in Writer
    BY <2>1, <2>2, PrunerKeepsKept DEF Listed
  <2>4. CASE DeleteLinks(p)
    <3>1. /\ ppc[p] \notin Ended /\ unref[p] = {} /\ pcur[p] \notin active[p]
          /\ active[p] = ActiveChunks(keep[p]) /\ keep[p] = Listed \ drop[p]
      BY <2>4 DEF DeleteLinks, Spared, PruneInStep, InStep, Ended, AfterMark, PrunerSteps, Deleting
    <3>2. r[2] \in keep[p]
      BY <2>1, <3>1 DEF ReferencesAgree
    <3>3. r[1] # pcur[p]
      BY <2>1, <3>1, <3>2 DEF ActiveChunks
    <3> QED BY <2>1, <2>2, <2>3, <2>4, <3>3 DEF DeleteLinks
  <2>5. CASE ~DeleteLinks(p)
    <3>1. links' = links
      BY <2>5 DEF PrunerStep, StartPrune, MarkActive, ScanChunks, CountReferences,
         RemoveReferences, DeleteSnapshot, DeleteChunk, KeepChunk, DeleteFreed, DeleteRow,
         NextPhase, EndPrune, AbortPruner
    <3> QED BY <2>1, <2>2, <2>3, <3>1
  <2> QED BY <2>4, <2>5
<1>5. ASSUME NEW q \in Pruner, ppc'[q] \notin Ended, NEW r \in refs'
      PROVE  r[2] \notin drop'[q] \ unref'[q]
  <2>1. r \in refs
    BY PrunerKeepsReferenced
  <2>2. q = p
    <3>1. ppc'[q] = ppc[q] \/ q = p
      BY DEF PrunerStep, StartPrune, MarkActive, ScanChunks, CountReferences,
         RemoveReferences, DeleteSnapshot, DeleteChunk, KeepChunk, DeleteFreed, DeleteLinks,
         DeleteRow, NextPhase, EndPrune, AbortPruner
    <3> QED BY <1>5, <3>1, WritersRest
  <2>3. CASE StartPrune(p)
    BY <2>2, <2>3 DEF StartPrune
  <2>4. CASE ~StartPrune(p)
    <3>1. ppc[p] \notin Ended /\ ~EndPrune(p) /\ ~AbortPruner(p)
      BY <1>5, <2>2, <2>4, WritersRest DEF EndPrune, AbortPruner, Ended
    <3>2. r[2] \notin drop[p] \ unref[p]
      BY <2>1, <3>1 DEF ReferencesAgree
    <3> QED BY <1>5, <2>1, <2>2, <2>4, <3>1, <3>2 DEF PrunerStep, MarkActive, ScanChunks,
         CountReferences, RemoveReferences, RefsWithout, DeleteSnapshot, DeleteChunk, KeepChunk,
         DeleteFreed, DeleteLinks, DeleteRow, NextPhase
  <2> QED BY <2>3, <2>4
<1> QED BY <1>2, <1>3, <1>4, <1>5 DEF ReferencesAgree

LEMMA NextKeepsHeld ==
    ASSUME PrunesApart, TypeOK, Spared, Held, [Next]_vars
    PROVE  Held'
<1> USE DEF Held
<1>1. ASSUME NEW w \in Writer, WriterStep(w) \/ AbortWriter(w) PROVE Held'
  BY <1>1, WriterKeepsFingerprints, WriterKeepsSidecar, WriterKeepsReferences
<1>2. ASSUME NEW p \in Pruner, PrunerStep(p) \/ AbortPruner(p) PROVE Held'
  BY <1>2, PrunerKeepsFingerprints, PrunerKeepsReferences
<1>3. CASE UNCHANGED vars
  BY <1>3 DEF vars, repoVars, writerVars, prunerVars, FingerprintWork, BlobsHeld, OwnsRow,
     SidecarComplete, ReferencesAgree, Kept, Doomed, Listed, Unreferenced
<1> QED BY <1>1, <1>2, <1>3 DEF Next

LEMMA HeldAlways ==
    ASSUME PrunesApart
    PROVE  Spec => []Held
<1>1. TypeOK /\ Spared /\ Held /\ [Next]_vars => Held'
  BY NextKeepsHeld
<1> QED BY InitHeld, SparedAlways, TypeCorrect, <1>1, PTL DEF Spec

(* The fingerprint of every kept snapshot can be loaded: its blobs are in  *)
(* storage and raw, because their references keep every prune off them.    *)
THEOREM AlwaysLoadable ==
    ASSUME PrunesApart
    PROVE  Spec => []FingerprintsLoadable
<1>1. Held => FingerprintsLoadable
  BY DEF Held, SidecarComplete, FingerprintsLoadable
<1> QED BY <1>1, HeldAlways, PTL

LEMMA NextDeletesOnlyAtZero ==
    ASSUME PrunesApart, TypeOK, Spared, Held, Next,
           NEW c \in Chunk, blob[c] # "none", blob'[c] = "none"
    PROVE  Unreferenced(c)
<1> USE DEF TypeOK, RepoTypeOK
<1>1. ASSUME NEW w \in Writer, WriterStep(w) \/ AbortWriter(w) PROVE FALSE
  BY <1>1 DEF WriterStep, StartBackup, StartCapture, ChunkExists, PutBlob, SkipBlob,
     PutChunk, PutRefused, LockChunk, UpsertChunk, LinkChunk, CreateSnapshot,
     AddReferences, RegisterRef, PutSidecar, AbortWriter, repoVars
<1>2. PICK p \in Pruner : PrunerStep(p) \/ AbortPruner(p)
  BY <1>1 DEF Next
<1>3. DeleteChunk(p, c) \/ DeleteFreed(p, c)
  BY <1>2 DEF PrunerStep, StartPrune, MarkActive, ScanChunks, CountReferences,
     RemoveReferences, DeleteSnapshot, DeleteChunk, KeepChunk, DeleteFreed, DeleteLinks,
     DeleteRow, NextPhase, EndPrune, AbortPruner, repoVars
<1>4. CASE DeleteFreed(p, c)
  BY <1>4 DEF DeleteFreed, Spared, PruneInStep, InStep
<1>5. CASE DeleteChunk(p, c)
  <2> SUFFICES ASSUME NEW s \in SnapId, <<c, s>> \in refs PROVE FALSE
    BY DEF Unreferenced
  <2>1. c \in FileChunk /\ c \notin active[p] /\ ppc[p] = "sweep"
    BY <1>5 DEF DeleteChunk, Held, ReferencesAgree, Spared, PruneInStep, InStep
  <2>2. s \in Listed /\ c \in links[snapshots[s]]
    BY <2>1 DEF Held, ReferencesAgree
  <2>3. /\ ppc[p] \notin Ended /\ unref[p] = {}
        /\ keep[p] = Listed \ drop[p] /\ active[p] = ActiveChunks(keep[p])
    BY <2>1 DEF Spared, PruneInStep, InStep, Ended, AfterMark, PrunerSteps
  <2>4. s \notin drop[p]
    BY <2>3 DEF Held, ReferencesAgree
  <2> QED BY <2>1, <2>2, <2>3, <2>4 DEF ActiveChunks
<1> QED BY <1>3, <1>4, <1>5

(* storage.delete removes no chunk that still has a reference, whether a   *)
(* prune reclaims it or found its last reference gone.                     *)
THEOREM AlwaysDeletesAtZero ==
    ASSUME PrunesApart
    PROVE  Spec => DeletesOnlyAtZero
<1>1. TypeOK /\ Spared /\ Held /\ [Next]_vars
      => [\A c \in Chunk : blob[c] # "none" /\ blob'[c] = "none" => Unreferenced(c)]_vars
  BY NextDeletesOnlyAtZero
<1> QED BY HeldAlways, SparedAlways, TypeCorrect, <1>1, PTL DEF Spec, DeletesOnlyAtZero

-----------------------------------------------------------------------------
(* Where nothing fails no file is left behind.                             *)

LEMMA InitTidy == Init => Tidy
BY DEF Init, Tidy, FilesKnown, LockedKnown, Sweeping, Deleting

LEMMA WriterKeepsTidy ==
    ASSUME Isolated, Faults = {}, TypeOK, Consistent, Tidy,
           NEW w \in Writer, WriterStep(w) \/ AbortWriter(w)
    PROVE  Tidy'
<1> USE DEF TypeOK, RepoTypeOK, WriterTypeOK, Tidy, WriterGoto, repoVars
<1>1. UNCHANGED prunerVars /\ \A p \in Pruner : ppc[p] \in Ended /\ freed[p] = {}
  BY PrunersRest DEF Isolated, Consistent
<1>2. \A p \in Pruner : Sweeping(p)'
  BY <1>1 DEF Sweeping, Deleting, Ended, prunerVars
<1>3. FilesKnown' /\ LockedKnown'
  <2> USE DEF FilesKnown, LockedKnown, InHand, Unreferenced
  <2>1. \A p \in Pruner : ppc[p] # "count"
    BY <1>1 DEF Ended
  <2>2. \A c \in Chunk : InHand(c) => \E v \in Writer : wpc[v] \in {"lock", "upsert", "register"} /\ cur[v] = c
    BY <1>1, <2>1
  <2>3. CASE PutChunk(w)
    BY <2>2, <2>3 DEF PutChunk
  <2>4. CASE LockChunk(w)
    BY <2>2, <2>4 DEF LockChunk
  <2>5. CASE UpsertChunk(w)
    BY <2>2, <2>5 DEF UpsertChunk
  <2>6. ASSUME NEW c \in Chunk, PutBlob(w, c) PROVE FilesKnown' /\ LockedKnown'
    BY <2>2, <2>6 DEF PutBlob
  <2>7. CASE RegisterRef(w)
    <3>1. /\ wpc[w] = "register" /\ \A v \in Writer \ {w} : wpc'[v] = wpc[v]
          /\ UNCHANGED <<blob, locked, chunkRow, cur>>
          /\ refs \subseteq refs' /\ <<cur[w], sid[w]>> \in refs' /\ sid[w] \in SnapId
      BY <2>7 DEF RegisterRef
    <3>2. ~Unreferenced(cur[w])' /\ \A c \in Chunk : ~Unreferenced(c) => ~Unreferenced(c)'
      BY <3>1
    <3>3. LockedKnown'
      BY <3>1
    <3>4. ASSUME NEW c \in Chunk, blob'[c] # "none"
          PROVE  c \in chunkRow' \/ ~Unreferenced(c)' \/ InHand(c)'
      <4>1. c \in chunkRow \/ ~Unreferenced(c) \/ InHand(c)
        BY <3>1, <3>4
      <4>2. CASE InHand(c)
        BY <2>2, <3>1, <3>2, <4>2
      <4> QED BY <3>1, <3>2, <4>1, <4>2
    <3> QED BY <3>3, <3>4
  <2>8. ASSUME ~PutChunk(w), ~LockChunk(w), ~UpsertChunk(w), ~RegisterRef(w),
               ~ \E c \in Chunk : PutBlob(w, c)
        PROVE  /\ UNCHANGED <<blob, locked, chunkRow>> /\ refs \subseteq refs'
               /\ wpc[w] \notin {"lock", "upsert", "register"}
               /\ \A v \in Writer \ {w} : wpc'[v] = wpc[v] /\ cur'[v] = cur[v]
    BY <2>8 DEF WriterStep, StartBackup, StartCapture, ChunkExists, SkipBlob, PutRefused,
       LinkChunk, CreateSnapshot, AddReferences, PutSidecar, AbortWriter
  <2>9. CASE /\ ~PutChunk(w) /\ ~LockChunk(w) /\ ~UpsertChunk(w) /\ ~RegisterRef(w)
             /\ ~ \E c \in Chunk : PutBlob(w, c)
    BY <2>2, <2>8, <2>9
  <2> QED BY <2>3, <2>4, <2>5, <2>6, <2>7, <2>9
<1> QED BY <1>2, <1>3

LEMMA PrunerKeepsSweeping ==
    ASSUME Isolated, Faults = {}, TypeOK, Consistent, Tidy,
           NEW p \in Pruner, PrunerStep(p) \/ AbortPruner(p)
    PROVE  \A q \in Pruner : Sweeping(q)'
<1> USE DEF TypeOK, RepoTypeOK, PrunerTypeOK, PrunerGoto, repoVars, Tidy, Deleting
<1>1. PrunerStep(p) /\ Sweeping(p) /\ \A q \in Pruner \ {p} : ppc[q] \in Ended
  BY WritersRest DEF Isolated, Consistent, AbortPruner
<1>2. ASSUME NEW q \in Pruner \ {p} PROVE Sweeping(q)'
  <2>1. ppc'[q] = ppc[q]
    BY <1>1 DEF PrunerStep, StartPrune, MarkActive, ScanChunks, CountReferences,
       RemoveReferences, DeleteSnapshot, DeleteChunk, KeepChunk, DeleteFreed, DeleteLinks,
       DeleteRow, NextPhase, EndPrune
  <2> QED BY <1>1, <2>1 DEF Sweeping, Ended
<1>3. Sweeping(p)'
  <2> USE <1>1 DEF Sweeping
  <2>1. ASSUME NEW c \in Chunk, DeleteChunk(p, c) PROVE Sweeping(p)'
    BY <2>1 DEF DeleteChunk, CanDelete
  <2>2. ASSUME NEW c \in Chunk, KeepChunk(p, c) PROVE Sweeping(p)'
    <3>1. c \in chunkRow => c \in locked
      <4>1. ppc[p] = "sweep" /\ ~CanDelete(c)
        BY <2>2 DEF KeepChunk
      <4>2. c \in chunkRow => blob[c] = "encoded"
        BY <4>1 DEF Consistent, LinksHaveRows, Ended
      <4> QED BY <4>1, <4>2 DEF CanDelete
    <3> QED BY <2>2, <3>1 DEF KeepChunk
  <2>3. CASE DeleteLinks(p)
    BY <2>3 DEF DeleteLinks
  <2>4. CASE DeleteRow(p)
    BY <2>4 DEF DeleteRow
  <2>5. ASSUME NEW c \in Chunk, DeleteFreed(p, c) PROVE Sweeping(p)'
    BY <2>5 DEF DeleteFreed
  <2>6. CASE NextPhase(p)
    <3>1. ppc[p] = "unref" => reclaim[p] = chunkRow \ active[p]
      BY DEF Consistent, Spared, PruneInStep, InStep
    <3> QED BY <2>6, <3>1 DEF NextPhase
  <2>7. ASSUME NEW s \in SnapId, DeleteSnapshot(p, s) PROVE Sweeping(p)'
    BY <2>7 DEF DeleteSnapshot
  <2>8. CASE StartPrune(p) \/ MarkActive(p) \/ ScanChunks(p) \/ CountReferences(p) \/ EndPrune(p)
           \/ \E s \in SnapId : RemoveReferences(p, s)
    <3>1. ppc'[p] \in {"mark", "scan", "unref", "count", "done"}
      BY <2>8 DEF StartPrune, MarkActive, ScanChunks, CountReferences, EndPrune, RemoveReferences
    <3> QED BY <3>1
  <2> QED BY <2>1, <2>2, <2>3, <2>4, <2>5, <2>6, <2>7, <2>8 DEF PrunerStep
<1> QED BY <1>2, <1>3

LEMMA PrunerKeepsFilesKnown ==
    ASSUME Isolated, Faults = {}, TypeOK, Consistent, Tidy,
           NEW p \in Pruner, PrunerStep(p) \/ AbortPruner(p)
    PROVE  FilesKnown' /\ LockedKnown'
<1> USE DEF TypeOK, RepoTypeOK, PrunerTypeOK, PrunerGoto, repoVars, Tidy
<1>1. PrunerStep(p) /\ \A w \in Writer : wpc[w] \in Ended
  BY WritersRest DEF Isolated, Consistent, AbortPruner
<1>2. \A q \in Pruner \ {p} : ppc[q] \in Ended /\ freed[q] = {}
  BY WritersRest DEF Isolated, Consistent, Spared, PruneInStep, InStep
<1>3. ppc[p] \in Deleting => blob[pcur[p]] = "none" /\ pcur[p] \notin locked
  BY DEF Sweeping
<1>4. locked \subseteq chunkRow
  BY <1>1 DEF LockedKnown, Ended
<1>5. chunkRow' = chunkRow \/ (DeleteRow(p) /\ chunkRow' = chunkRow \ {pcur[p]})
  BY <1>1 DEF PrunerStep, StartPrune, MarkActive, ScanChunks, CountReferences,
     RemoveReferences, DeleteSnapshot, DeleteChunk, KeepChunk, DeleteFreed, DeleteLinks,
     DeleteRow, NextPhase, EndPrune
<1>6. LockedKnown'
  <2>1. locked' = locked
    BY <1>1 DEF PrunerStep, StartPrune, MarkActive, ScanChunks, CountReferences,
       RemoveReferences, DeleteSnapshot, DeleteChunk, KeepChunk, DeleteFreed, DeleteLinks,
       DeleteRow, NextPhase, EndPrune
  <2>2. locked \subseteq chunkRow'
    BY <1>3, <1>4, <1>5 DEF DeleteRow, Deleting
  <2> QED BY <2>1, <2>2 DEF LockedKnown
<1>7. ASSUME NEW c \in Chunk, blob'[c] # "none"
      PROVE  c \in chunkRow' \/ ~Unreferenced(c)' \/ InHand(c)'
  <2>1. blob[c] # "none"
    BY <1>1, <1>7 DEF PrunerStep, StartPrune, MarkActive, ScanChunks, CountReferences,
       RemoveReferences, DeleteSnapshot, DeleteChunk, KeepChunk, DeleteFreed, DeleteLinks,
       DeleteRow, NextPhase, EndPrune
  <2>2. c \in chunkRow \/ ~Unreferenced(c) \/ c \in freed[p] \/ (ppc[p] = "count" /\ c \in cand[p])
    BY <1>1, <1>2, <2>1 DEF FilesKnown, InHand, Ended
  <2>3. c \in chunkRow => c \in chunkRow'
    BY <1>3, <1>5, <2>1 DEF DeleteRow, Deleting
  <2>4. CASE ~Unreferenced(c)
    <3>1. ASSUME NEW s \in SnapId, RemoveReferences(p, s) PROVE ~Unreferenced(c)' \/ InHand(c)'
      BY <2>4, <3>1 DEF RemoveReferences, RefsWithout, Unreferenced, InHand
    <3>2. CASE ~ \E s \in SnapId : RemoveReferences(p, s)
      <4>1. refs' = refs
        BY <1>1, <3>2 DEF PrunerStep, StartPrune, MarkActive, ScanChunks, CountReferences,
           DeleteSnapshot, DeleteChunk, KeepChunk, DeleteFreed, DeleteLinks, DeleteRow,
           NextPhase, EndPrune
      <4> QED BY <2>4, <4>1 DEF Unreferenced
    <3> QED BY <3>1, <3>2
  <2>5. CASE c \in freed[p] /\ c \notin chunkRow
    <3>1. ASSUME NEW d \in Chunk, DeleteFreed(p, d) PROVE c \in freed'[p]
      <4>1. c # d
        BY <1>4, <1>7, <2>1, <2>5, <3>1 DEF DeleteFreed, CanDelete
      <4> QED BY <2>5, <3>1, <4>1 DEF DeleteFreed
    <3>2. ~EndPrune(p)
      BY <2>5 DEF EndPrune, Sweeping
    <3>3. CASE ~ \E d \in Chunk : DeleteFreed(p, d)
      BY <1>1, <2>5, <3>2, <3>3 DEF PrunerStep, StartPrune, MarkActive, ScanChunks, CountReferences,
         RemoveReferences, DeleteSnapshot, DeleteChunk, KeepChunk, DeleteLinks, DeleteRow,
         NextPhase, InHand
    <3> QED BY <3>1, <3>3 DEF InHand
  <2>6. CASE ppc[p] = "count" /\ c \in cand[p] /\ c \notin chunkRow /\ Unreferenced(c)
    <3>1. CountReferences(p)
      BY <1>1, <2>6 DEF PrunerStep, StartPrune, MarkActive, ScanChunks, RemoveReferences,
         DeleteSnapshot, DeleteChunk, KeepChunk, DeleteFreed, DeleteLinks, DeleteRow,
         NextPhase, EndPrune
    <3>2. c \notin reclaim[p]
      BY <2>6 DEF Consistent, Spared, PruneInStep, InStep
    <3> QED BY <2>6, <3>1, <3>2 DEF CountReferences, InHand
  <2> QED BY <2>2, <2>3, <2>4, <2>5, <2>6
<1> QED BY <1>6, <1>7 DEF FilesKnown

LEMMA NextKeepsTidy ==
    ASSUME Isolated, Faults = {}, TypeOK, Consistent, Tidy, [Next]_vars
    PROVE  Tidy'
<1>1. ASSUME NEW w \in Writer, WriterStep(w) \/ AbortWriter(w) PROVE Tidy'
  BY <1>1, WriterKeepsTidy
<1>2. ASSUME NEW p \in Pruner, PrunerStep(p) \/ AbortPruner(p) PROVE Tidy'
  BY <1>2, PrunerKeepsSweeping, PrunerKeepsFilesKnown DEF Tidy
<1>3. CASE UNCHANGED vars
  BY <1>3 DEF vars, repoVars, writerVars, prunerVars, Tidy, FilesKnown, LockedKnown, InHand,
     Sweeping, Unreferenced
<1> QED BY <1>1, <1>2, <1>3 DEF Next

LEMMA TidyAlways ==
    ASSUME Isolated, Faults = {}
    PROVE  Spec => []Tidy
<1>1. TypeOK /\ Consistent /\ Tidy /\ [Next]_vars => Tidy'
  BY NextKeepsTidy
<1> QED BY InitTidy, ConsistentAlways, TypeCorrect, <1>1, PTL DEF Spec

(* When no command fails, no file stays behind that neither the catalog    *)
(* nor the reference table knows: every one can be found by a later prune. *)
THEOREM NothingEverLeaks ==
    ASSUME Isolated, Faults = {}
    PROVE  Spec => []NothingLeaks
<1>1. Consistent /\ Tidy => NothingLeaks
  BY DEF Tidy, FilesKnown, InHand, NothingLeaks, WriterRuns, PrunerRuns, Ended, Consistent,
     Spared, PruneInStep, InStep
<1> QED BY <1>1, TidyAlways, ConsistentAlways, PTL

(* A prune that completes without a failed delete leaves no chunk in the   *)
(* catalog but those a listed snapshot links and those that are immutable. *)
THEOREM AlwaysReclaims ==
    ASSUME Isolated, Faults = {}
    PROVE  Spec => PruneReclaims
<1>1. ASSUME TypeOK, Consistent, Tidy, Next,
             NEW p \in Pruner, ppc[p] = "rows", ppc'[p] = "done", NEW c \in chunkRow'
      PROVE  (\E s \in Listed' : c \in links'[snapshots'[s]]) \/ c \in locked
  <2> USE DEF TypeOK, RepoTypeOK, PrunerTypeOK, repoVars
  <2>1. EndPrune(p)
    <3>1. ASSUME NEW w \in Writer, WriterStep(w) \/ AbortWriter(w) PROVE FALSE
      BY <1>1, <3>1, PrunersRest DEF prunerVars, Isolated, Consistent
    <3>2. PICK q \in Pruner : PrunerStep(q) \/ AbortPruner(q)
      BY <1>1, <3>1 DEF Next
    <3>3. ppc'[q] # ppc[q] /\ q = p
      BY <1>1, <3>2 DEF PrunerStep, StartPrune, MarkActive, ScanChunks, CountReferences,
         RemoveReferences, DeleteSnapshot, DeleteChunk, KeepChunk, DeleteFreed, DeleteLinks,
         DeleteRow, NextPhase, EndPrune, AbortPruner, PrunerGoto
    <3> QED BY <1>1, <3>2, <3>3 DEF PrunerStep, StartPrune, MarkActive, ScanChunks,
         CountReferences, RemoveReferences, DeleteSnapshot, DeleteChunk, KeepChunk, DeleteFreed,
         DeleteLinks, DeleteRow, NextPhase, AbortPruner, PrunerGoto
  <2>2. c \in chunkRow /\ UNCHANGED <<links, snapshots>> /\ Listed' = Listed
    BY <1>1, <2>1 DEF EndPrune, Listed
  <2>3. keep[p] = Kept /\ active[p] = ActiveChunks(keep[p]) /\ Kept \subseteq Listed
    BY <1>1, KeepIsKept DEF Consistent, Spared, PruneInStep, InStep, Ended, AfterMark,
       PrunerSteps, Kept
  <2>4. c \in active[p] \/ c \in locked
    BY <1>1, <2>2 DEF Tidy, Sweeping
  <2> QED BY <2>2, <2>3, <2>4 DEF ActiveChunks
<1>2. TypeOK /\ Consistent /\ Tidy /\ [Next]_vars
      => [\A p \in Pruner : ppc[p] = "rows" /\ ppc'[p] = "done" =>
             \A c \in chunkRow' : \/ \E s \in Listed' : c \in links'[snapshots'[s]]
                                  \/ c \in locked]_vars
  BY <1>1
<1> QED BY <1>2, TidyAlways, ConsistentAlways, TypeCorrect, PTL DEF Spec, PruneReclaims

-----------------------------------------------------------------------------
(* Under a retention lock.                                                 *)

LEMMA InitSealed == Init => Sealed
<1> SUFFICES ASSUME Init PROVE Sealed
  OBVIOUS
<1>1. WriterWork /\ RowsOfWriters /\ RowsOfFiles
  BY InitSpared DEF Spared
<1> USE DEF Init, Ended
<1>2. OneAtATime
  BY DEF OneAtATime, WriterRuns, PrunerRuns
<1>3. RowsLocked /\ PrunersPowerless /\ RefsLocked
  BY DEF RowsLocked, PrunersPowerless, RefsLocked, Deleting
<1>4. ListedComplete
  BY DEF ListedComplete, Listed
<1> QED BY <1>1, <1>2, <1>3, <1>4 DEF Sealed

LEMMA WriterAlone ==
    ASSUME TypeOK, OneAtATime, NEW w \in Writer, WriterStep(w) \/ AbortWriter(w)
    PROVE  /\ Overlap = {} => ~PrunerRuns /\ \A v \in Writer \ {w} : wpc[v] \in Ended
           /\ OneAtATime'
<1>1. Overlap = {} => ~PrunerRuns /\ \A v \in Writer \ {w} : wpc[v] \in Ended
  BY WriterMoves DEF OneAtATime, MayStartWriter, WriterRuns
<1>2. ppc' = ppc /\ \A v \in Writer \ {w} : wpc'[v] = wpc[v]
  BY WriterMoves DEF prunerVars
<1>3. OneAtATime'
  BY <1>1, <1>2 DEF OneAtATime, WriterRuns, PrunerRuns
<1> QED BY <1>1, <1>3

(* A blob never takes the place of a file chunk a backup is storing.       *)
LEMMA WriterKeepsLocked ==
    ASSUME Immutable, TypeOK, Sealed, NEW w \in Writer, WriterStep(w) \/ AbortWriter(w)
    PROVE  RowsLocked' /\ locked \subseteq locked'
<1> USE DEF TypeOK, RepoTypeOK, WriterTypeOK, WriterGoto, repoVars, RowsLocked, Sealed
<1>1. ASSUME NEW c \in Chunk, PutBlob(w, c) PROVE RowsLocked' /\ locked \subseteq locked'
  <2>1. ASSUME NEW v \in Writer, wpc'[v] = "lock" PROVE cur[v] # c
    <3>1. v # w /\ wpc[v] = "lock"
      BY <1>1, <2>1 DEF PutBlob
    <3>2. FileChunk \cap FpChunk = {}
      BY <3>1, WriterAlone DEF Immutable, Ended
    <3>3. c \in FpChunk /\ cur[v] \in FileChunk
      BY <1>1, <3>1 DEF PutBlob, WriterWork, Storing
    <3> QED BY <3>2, <3>3
  <2> QED BY <1>1, <2>1 DEF PutBlob
<1>2. CASE PutChunk(w)
  <2>1. Retention
    BY DEF Immutable
  <2> QED BY <1>2, <2>1 DEF PutChunk
<1>3. CASE LockChunk(w)
  BY <1>3 DEF LockChunk
<1>4. CASE UpsertChunk(w)
  BY <1>4 DEF UpsertChunk
<1>5. CASE LinkChunk(w)
  BY <1>5 DEF LinkChunk
<1>6. CASE /\ ~PutChunk(w) /\ ~LockChunk(w) /\ ~UpsertChunk(w) /\ ~LinkChunk(w)
           /\ ~ \E c \in Chunk : PutBlob(w, c)
  <2>1. UNCHANGED <<blob, locked, chunkRow, links>> /\ wpc'[w] \notin {"lock", "upsert"}
    BY <1>6 DEF WriterStep, StartBackup, StartCapture, ChunkExists, SkipBlob, PutRefused,
       CreateSnapshot, AddReferences, RegisterRef, PutSidecar, AbortWriter
  <2>2. \A v \in Writer \ {w} : wpc'[v] = wpc[v] /\ cur'[v] = cur[v]
    BY WriterMoves
  <2> QED BY <2>1, <2>2
<1> QED BY <1>1, <1>2, <1>3, <1>4, <1>5, <1>6

LEMMA WriterKeepsListedComplete ==
    ASSUME TypeOK, Sealed, NEW w \in Writer, WriterStep(w) \/ AbortWriter(w)
    PROVE  ListedComplete'
<1> USE CommandAssumption DEF TypeOK, RepoTypeOK, WriterTypeOK, WriterGoto, repoVars
<1>1. \A v \in Writer : links[v] \subseteq links'[v]
  BY DEF WriterStep, StartBackup, StartCapture, ChunkExists, PutBlob, SkipBlob, PutChunk,
     PutRefused, LockChunk, UpsertChunk, LinkChunk, CreateSnapshot, AddReferences,
     RegisterRef, PutSidecar, AbortWriter
<1>2. \A v \in Writer : wpc[v] # "idle" => files'[v] = files[v]
  BY DEF WriterStep, StartBackup, StartCapture, ChunkExists, PutBlob, SkipBlob, PutChunk,
     PutRefused, LockChunk, UpsertChunk, LinkChunk, CreateSnapshot, AddReferences,
     RegisterRef, PutSidecar, AbortWriter
<1>3. CASE CreateSnapshot(w)
  <2>1. files[w] \subseteq links[w] /\ wpc[w] # "idle"
    BY <1>3 DEF CreateSnapshot, Sealed, WriterWork, Storing
  <2>2. \A v \in Writer : wpc'[v] = "refs" => v = w \/ wpc[v] = "refs"
    BY <1>3 DEF CreateSnapshot
  <2>3. \A s \in Listed' : snapshots'[s] = w \/ (s \in Listed /\ snapshots'[s] = snapshots[s])
    BY <1>3 DEF CreateSnapshot, Listed
  <2>4. UNCHANGED <<files, links>>
    BY <1>3 DEF CreateSnapshot
  <2> QED BY <2>1, <2>2, <2>3, <2>4 DEF ListedComplete, Sealed
<1>4. CASE ~CreateSnapshot(w)
  <2>1. snapshots' = snapshots /\ \A v \in Writer : wpc'[v] = "refs" => wpc[v] = "refs"
    BY <1>4 DEF WriterStep, StartBackup, StartCapture, ChunkExists, PutBlob, SkipBlob, PutChunk,
       PutRefused, LockChunk, UpsertChunk, LinkChunk, AddReferences, RegisterRef, PutSidecar,
       AbortWriter
  <2>2. \A s \in Listed : snapshots[s] \in Writer /\ wpc[snapshots[s]] # "idle"
    BY DEF Sealed, RowsOfWriters, Listed
  <2>3. Listed' = Listed
    BY <2>1 DEF Listed
  <2> QED BY <1>1, <1>2, <2>1, <2>2, <2>3 DEF ListedComplete, Sealed
<1> QED BY <1>3, <1>4

LEMMA WriterKeepsRefsLocked ==
    ASSUME Immutable, TypeOK, Sealed, NEW w \in Writer, WriterStep(w) \/ AbortWriter(w)
    PROVE  RefsLocked' /\ PrunersPowerless'
<1> USE DEF TypeOK, RepoTypeOK, WriterTypeOK, WriterGoto, repoVars
<1>1. locked \subseteq locked' /\ UNCHANGED prunerVars
  BY WriterKeepsLocked, WriterMoves
<1>2. PrunersPowerless'
  BY <1>1 DEF Sealed, PrunersPowerless, prunerVars
<1>3. ASSUME FileChunk \cap FpChunk = {}
      PROVE  /\ \A v \in Writer : wpc'[v] = "register" => cur'[v] \in fp'[v]
             /\ \A r \in refs' : r[1] \in FileChunk => r[1] \in locked'
  <2>1. wpc'[w] = "register" => cur'[w] \in fp'[w]
    BY DEF Sealed, WriterWork, WriterStep, StartBackup, StartCapture, ChunkExists, PutBlob,
       SkipBlob, PutChunk, PutRefused, LockChunk, UpsertChunk, LinkChunk, CreateSnapshot,
       AddReferences, RegisterRef, PutSidecar, AbortWriter
  <2>2. \A v \in Writer \ {w} : wpc'[v] = "register" => cur'[v] \in fp'[v]
    BY <1>3, WriterMoves DEF Sealed, RefsLocked
  <2>3. ASSUME NEW r \in refs', r \notin refs, r[1] \in FileChunk PROVE r[1] \in locked
    <3>1. ~RegisterRef(w)
      BY <1>3, <2>3 DEF RegisterRef, Sealed, RefsLocked, WriterWork
    <3>2. AddReferences(w)
      BY <2>3, <3>1 DEF WriterStep, StartBackup, StartCapture, ChunkExists, PutBlob, SkipBlob,
         PutChunk, PutRefused, LockChunk, UpsertChunk, LinkChunk, CreateSnapshot, PutSidecar,
         AbortWriter
    <3>3. r[1] \in files[w]
      BY <2>3, <3>2 DEF AddReferences
    <3>4. files[w] \subseteq links[w] /\ links[w] \subseteq chunkRow /\ chunkRow \subseteq locked
      BY <3>2 DEF AddReferences, Sealed, ListedComplete, RowsLocked
    <3> QED BY <3>3, <3>4
  <2>4. \A r \in refs : r[1] \in FileChunk => r[1] \in locked
    BY <1>3 DEF Sealed, RefsLocked
  <2> QED BY <1>1, <2>1, <2>2, <2>3, <2>4
<1>4. FileChunk \cap FpChunk = {} =>
          \A p \in Pruner : (cand'[p] \cup freed'[p]) \cap FileChunk \subseteq locked'
  BY <1>1 DEF Sealed, RefsLocked, prunerVars
<1> QED BY <1>2, <1>3, <1>4 DEF RefsLocked

(* A prune finds nothing it can delete but blobs, so no row and no link    *)
(* ever goes.                                                              *)
LEMMA PrunerMoves ==
    ASSUME TypeOK, Sealed, NEW p \in Pruner, PrunerStep(p) \/ AbortPruner(p)
    PROVE  /\ UNCHANGED writerVars /\ UNCHANGED <<locked, chunkRow, links>>
           /\ refs' \subseteq refs
           /\ \A q \in Pruner \ {p} : /\ ppc'[q] = ppc[q] /\ reclaim'[q] = reclaim[q]
                                      /\ cand'[q] = cand[q] /\ freed'[q] = freed[q]
           /\ ppc[p] \notin Ended \/ MayStartPruner
           /\ \A s \in Listed' : s \in Listed /\ snapshots'[s] = snapshots[s]
           /\ PrunersPowerless'
<1> USE DEF TypeOK, RepoTypeOK, PrunerTypeOK, PrunerGoto, repoVars
<1>1. UNCHANGED writerVars /\ locked' = locked
  BY DEF PrunerStep, StartPrune, MarkActive, ScanChunks, CountReferences, RemoveReferences,
     DeleteSnapshot, DeleteChunk, KeepChunk, DeleteFreed, DeleteLinks, DeleteRow, NextPhase,
     EndPrune, AbortPruner
<1>2. UNCHANGED <<chunkRow, links>>
  BY DEF Sealed, PrunersPowerless, Deleting, PrunerStep, StartPrune, MarkActive, ScanChunks,
     CountReferences, RemoveReferences, DeleteSnapshot, DeleteChunk, KeepChunk, DeleteFreed,
     DeleteLinks, DeleteRow, NextPhase, EndPrune, AbortPruner
<1>3. refs' \subseteq refs
  BY DEF PrunerStep, StartPrune, MarkActive, ScanChunks, CountReferences, RemoveReferences,
     RefsWithout, DeleteSnapshot, DeleteChunk, KeepChunk, DeleteFreed, DeleteLinks, DeleteRow,
     NextPhase, EndPrune, AbortPruner
<1>4. \A q \in Pruner \ {p} : /\ ppc'[q] = ppc[q] /\ reclaim'[q] = reclaim[q]
                              /\ cand'[q] = cand[q] /\ freed'[q] = freed[q]
  BY DEF PrunerStep, StartPrune, MarkActive, ScanChunks, CountReferences, RemoveReferences,
     DeleteSnapshot, DeleteChunk, KeepChunk, DeleteFreed, DeleteLinks, DeleteRow, NextPhase,
     EndPrune, AbortPruner, Forget
<1>5. ppc[p] \notin Ended \/ MayStartPruner
  BY DEF Ended, PrunerStep, StartPrune, MarkActive, ScanChunks, CountReferences,
     RemoveReferences, DeleteSnapshot, DeleteChunk, KeepChunk, DeleteFreed, DeleteLinks,
     DeleteRow, NextPhase, EndPrune, AbortPruner
<1>6. \A s \in Listed' : s \in Listed /\ snapshots'[s] = snapshots[s]
  <2>1. ASSUME NEW t \in SnapId, DeleteSnapshot(p, t)
        PROVE  \A s \in Listed' : s \in Listed /\ snapshots'[s] = snapshots[s]
    BY <2>1 DEF DeleteSnapshot, Listed
  <2>2. CASE ~ \E t \in SnapId : DeleteSnapshot(p, t)
    <3>1. snapshots' = snapshots
      BY <2>2 DEF PrunerStep, StartPrune, MarkActive, ScanChunks, CountReferences,
         RemoveReferences, DeleteChunk, KeepChunk, DeleteFreed, DeleteLinks, DeleteRow,
         NextPhase, EndPrune, AbortPruner
    <3> QED BY <3>1 DEF Listed
  <2> QED BY <2>1, <2>2
<1>7. ppc'[p] \notin Deleting /\ reclaim'[p] \subseteq locked
  <2> USE DEF Sealed, PrunersPowerless, Deleting
  <2>1. ASSUME NEW c \in Chunk PROVE ~DeleteChunk(p, c)
    BY DEF DeleteChunk, CanDelete
  <2>2. CASE ScanChunks(p)
    BY <2>2 DEF ScanChunks, Reclaimable, RowsLocked
  <2>3. CASE ~ScanChunks(p)
    <3>1. ppc'[p] \notin Deleting
      BY <2>1 DEF PrunerStep, StartPrune, MarkActive, ScanChunks, CountReferences,
         RemoveReferences, DeleteSnapshot, KeepChunk, DeleteFreed, DeleteLinks, DeleteRow,
         NextPhase, EndPrune, AbortPruner, Forget
    <3>2. reclaim'[p] \subseteq reclaim[p]
      BY <2>1, <2>3 DEF PrunerStep, StartPrune, MarkActive, CountReferences,
         RemoveReferences, DeleteSnapshot, KeepChunk, DeleteFreed, DeleteLinks, DeleteRow,
         NextPhase, EndPrune, AbortPruner, Forget
    <3> QED BY <3>1, <3>2
  <2> QED BY <2>2, <2>3
<1>8. PrunersPowerless'
  BY <1>1, <1>4, <1>7 DEF Sealed, PrunersPowerless
<1> QED BY <1>1, <1>2, <1>3, <1>4, <1>5, <1>6, <1>8

LEMMA PrunerKeepsSealed ==
    ASSUME Immutable, TypeOK, Sealed, NEW p \in Pruner, PrunerStep(p) \/ AbortPruner(p)
    PROVE  Sealed'
<1> USE DEF TypeOK, RepoTypeOK, PrunerTypeOK, PrunerGoto, repoVars
<1>1. /\ UNCHANGED <<wpc, kind, sid, files, fp, todo, cur, locked, chunkRow, links>>
      /\ PrunersPowerless'
  BY PrunerMoves DEF writerVars
<1>2. \A s \in Listed' : s \in Listed /\ snapshots'[s] = snapshots[s]
  BY PrunerMoves
<1>3. OneAtATime /\ OneAtATime'
  <2>1. \A q \in Pruner \ {p} : ppc'[q] = ppc[q]
    BY PrunerMoves
  <2>2. ppc[p] \notin Ended \/ MayStartPruner
    BY PrunerMoves
  <2>3. Overlap = {} => ~WriterRuns
    BY <2>2 DEF Sealed, OneAtATime, MayStartPruner, PrunerRuns
  <2> QED BY <1>1, <2>3 DEF Sealed, OneAtATime, WriterRuns
<1>4. WriterWork' /\ RowsOfFiles'
  BY <1>1 DEF Sealed, WriterWork, RowsOfFiles
<1>5. RowsOfWriters' /\ ListedComplete'
  BY <1>1, <1>2 DEF Sealed, RowsOfWriters, ListedComplete
<1>6. RowsLocked'
  <2>1. ASSUME NEW c \in Chunk, blob'[c] # blob[c]
        PROVE  c \notin locked /\ \A w \in Writer : wpc[w] = "lock" => cur[w] # c
    <3>1. DeleteFreed(p, c)
      <4>1. ~DeleteChunk(p, c)
        BY DEF DeleteChunk, CanDelete, Sealed, PrunersPowerless
      <4> QED BY <2>1, <4>1 DEF PrunerStep, StartPrune, MarkActive, ScanChunks, CountReferences,
           RemoveReferences, DeleteSnapshot, DeleteChunk, KeepChunk, DeleteFreed, DeleteLinks,
           DeleteRow, NextPhase, EndPrune, AbortPruner
    <3>2. c \notin locked /\ c \in freed[p] /\ ppc[p] = "free"
      BY <2>1, <3>1 DEF DeleteFreed, CanDelete
    <3>3. ASSUME NEW w \in Writer, wpc[w] = "lock" PROVE cur[w] # c
      <4>1. cur[w] \in FileChunk
        BY <3>3 DEF Sealed, WriterWork, Storing
      <4>2. FileChunk \cap FpChunk = {}
        BY <1>3, <3>2, <3>3 DEF Immutable, OneAtATime, WriterRuns, PrunerRuns, Ended
      <4>3. freed[p] \cap FileChunk \subseteq locked
        BY <4>2 DEF Sealed, RefsLocked
      <4> QED BY <3>2, <4>1, <4>3
    <3> QED BY <3>2, <3>3
  <2> QED BY <1>1, <2>1 DEF Sealed, RowsLocked, WriterTypeOK
<1>7. RefsLocked'
  <2> SUFFICES ASSUME FileChunk \cap FpChunk = {} PROVE
        /\ \A w \in Writer : wpc'[w] = "register" => cur'[w] \in fp'[w]
        /\ \A r \in refs' : r[1] \in FileChunk => r[1] \in locked'
        /\ \A q \in Pruner : (cand'[q] \cup freed'[q]) \cap FileChunk \subseteq locked'
    BY DEF RefsLocked
  <2>1. \A w \in Writer : wpc'[w] = "register" => cur'[w] \in fp'[w]
    BY <1>1 DEF Sealed, RefsLocked
  <2>2. \A r \in refs' : r[1] \in FileChunk => r[1] \in locked'
    BY <1>1, PrunerMoves DEF Sealed, RefsLocked
  <2>3. (cand'[p] \cup freed'[p]) \cap FileChunk \subseteq locked
    <3>1. ASSUME NEW s \in SnapId, RemoveReferences(p, s)
          PROVE  (cand'[p] \cup freed'[p]) \cap FileChunk \subseteq locked
      <4>1. cand'[p] = {c \in Chunk : <<c, s>> \in refs} /\ freed' = freed
        BY <3>1 DEF RemoveReferences
      <4>2. \A c \in FileChunk : <<c, s>> \in refs => c \in locked
        BY DEF Sealed, RefsLocked
      <4> QED BY <4>1, <4>2 DEF Sealed, RefsLocked
    <3>2. CASE ~ \E s \in SnapId : RemoveReferences(p, s)
      <4>1. cand'[p] \cup freed'[p] \subseteq cand[p] \cup freed[p]
        BY <3>2 DEF PrunerStep, StartPrune, MarkActive, ScanChunks, CountReferences,
           DeleteSnapshot, DeleteChunk, KeepChunk, DeleteFreed, DeleteLinks, DeleteRow,
           NextPhase, EndPrune, AbortPruner, Forget
      <4> QED BY <4>1 DEF Sealed, RefsLocked
    <3> QED BY <3>1, <3>2
  <2>4. \A q \in Pruner \ {p} : (cand'[q] \cup freed'[q]) \cap FileChunk \subseteq locked
    BY PrunerMoves DEF Sealed, RefsLocked
  <2> QED BY <1>1, <2>1, <2>2, <2>3, <2>4
<1> QED BY <1>1, <1>3, <1>4, <1>5, <1>6, <1>7 DEF Sealed

(* Under a retention lock no command harms what another has stored,        *)
(* whether they overlap, fail or are cut short.                            *)
THEOREM SealedAlways ==
    ASSUME Immutable
    PROVE  Spec => []Sealed
<1>1. TypeOK /\ Sealed /\ [Next]_vars => Sealed'
  <2> SUFFICES ASSUME TypeOK, Sealed, [Next]_vars PROVE Sealed'
    OBVIOUS
  <2>1. ASSUME NEW w \in Writer, WriterStep(w) \/ AbortWriter(w) PROVE Sealed'
    BY <2>1, WriterAlone, WriterKeepsWork, WriterKeepsRows, WriterKeepsFiles,
       WriterKeepsLocked, WriterKeepsListedComplete, WriterKeepsRefsLocked DEF Sealed
  <2>2. ASSUME NEW p \in Pruner, PrunerStep(p) \/ AbortPruner(p) PROVE Sealed'
    BY <2>2, PrunerKeepsSealed
  <2>3. CASE UNCHANGED vars
    BY <2>3 DEF vars, repoVars, writerVars, prunerVars, Sealed, OneAtATime, WriterRuns,
       PrunerRuns, WriterWork, RowsOfWriters, RowsOfFiles, RowsLocked, ListedComplete,
       PrunersPowerless, RefsLocked, Listed
  <2> QED BY <2>1, <2>2, <2>3 DEF Next
<1> QED BY InitSealed, TypeCorrect, <1>1, PTL DEF Spec

(* So every listed snapshot, kept or chosen to be dropped, can be restored *)
(* in full, also beside a prune and after one that was cut short.          *)
THEOREM LockedStaysRestorable ==
    ASSUME Immutable
    PROVE  Spec => [](SnapshotsRestorable /\ \A s \in Listed : Restorable(s))
<1>1. TypeOK /\ Sealed => SnapshotsRestorable /\ \A s \in Listed : Restorable(s)
  <2> SUFFICES ASSUME TypeOK, Sealed PROVE \A s \in Listed : Restorable(s)
    BY DEF SnapshotsRestorable, Kept
  <2>1. ASSUME NEW s \in Listed PROVE Restorable(s)
    <3>1. snapshots[s] \in Writer
      BY DEF TypeOK, RepoTypeOK, Listed
    <3>2. links[snapshots[s]] = files[snapshots[s]]
      BY <3>1 DEF Sealed, ListedComplete, RowsOfFiles
    <3>3. \A c \in links[snapshots[s]] : blob[c] = "encoded"
      BY <3>1 DEF Sealed, RowsLocked
    <3> QED BY <3>2, <3>3 DEF Restorable
  <2> QED BY <2>1
<1> QED BY <1>1, SealedAlways, TypeCorrect, PTL

(* And a repository under a retention lock keeps the promise of            *)
(* SnapshotStore beside any prune and through any failure.                 *)
THEOREM LockedImplementsStore ==
    ASSUME Immutable
    PROVE  Spec => ImplementsStore
<1>1. Init => Store!Init
  BY InitMaps
<1>2. SnapshotsRestorable => SavedWhole
  BY WholeIsSource
<1>3. Sealed => RowsOfWriters
  BY DEF Sealed
<1>4. /\ TypeOK /\ RowsOfWriters /\ SourceOK /\ IdleDropsNothing /\ SavedWhole /\ SavedWhole'
      /\ [Next]_vars
      => [Store!Next]_Saved
  BY StepMaps
<1> QED
  BY LockedStaysRestorable, SealedAlways, TypeCorrect, SourceAlwaysOK, IdleAlwaysDropsNothing,
     <1>1, <1>2, <1>3, <1>4, PTL DEF Spec, ImplementsStore, Store!Spec

=============================================================================
