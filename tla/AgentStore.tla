----------------------------- MODULE AgentStore -----------------------------
(***************************************************************************)
(* The jobs of lazarus-agent against the chunk service of lazarus-server.  *)
(*                                                                         *)
(* An agent has a repository of its own: a key, a catalog and a data       *)
(* directory.  Backup and restore jobs keep the chunks on the server,      *)
(* under the hash of the plaintext and encrypted with the agent's key;     *)
(* verify and prune jobs look at the data directory of the repository.     *)
(* For an agent in Local that directory is the one the server serves.      *)
(* The agents share nothing else.  Chunks are values: an upload of c by a  *)
(* leaves blob[c] = KeyOf[a].                                              *)
(***************************************************************************)
EXTENDS Integers, Sequences, SequencesExt

CONSTANTS
    Agent, Chunk,
    Local,       \* agents whose repository is the server's data directory
    KeyOf,       \* key of each agent's repository
    Sources,     \* what a file may consist of: sequences of chunks
    StoreFails,  \* write_once may fail on the server
    Attempts,    \* MAX_ATTEMPTS of an upload or a download
    MaxJobs,     \* bound on the jobs and on the backups of the CLI
    MaxFaults,   \* bound on lost replies and crashes
    NoKey        \* no file

ASSUME AgentAssumption ==
    /\ Local \subseteq Agent /\ IsFiniteSet(Chunk) /\ Sources \subseteq Seq(Chunk)
    /\ \A a \in Agent : KeyOf[a] # NoKey
    /\ StoreFails \in BOOLEAN
    /\ Attempts \in Nat \ {0} /\ {MaxJobs, MaxFaults} \subseteq Nat

VARIABLES
    up,        \* the server answers
    blob,      \* server: data/<hash>, the key it is encrypted with
    own,       \* the chunks in the data directory of an agent outside Local
    rowOf,     \* Chunks of each catalog
    linked,    \* FileChunks of the objects that backup jobs created
    snaps,     \* Snapshots: [of, device, refs], by the CLI on the agent's host
    pc, file, pos, missing, tries, out,  \* the job at hand
    verdict,   \* how the last job of an agent ended
    jobs, faults,
    lost     \* history: chunks a prune job took or the server could not store
stores == <<blob, own, rowOf, linked, snaps>>
locals == <<pc, file, pos, missing, tries, out, verdict>>
vars == <<up, stores, locals, jobs, faults, lost>>

Keys == {KeyOf[a] : a \in Agent}
Snapshot == [of : Sources, device : BOOLEAN, refs : BOOLEAN]
Steps == {"idle", "check", "upload", "row", "link", "download", "delete",
          "unlink", "drop"}
Verdicts == {"none", "ok", "failed"}

TypeOK ==
    /\ up \in BOOLEAN /\ blob \in [Chunk -> Keys \cup {NoKey}]
    /\ own \in [Agent -> SUBSET Chunk] /\ rowOf \in [Agent -> SUBSET Chunk]
    /\ linked \in [Agent -> SUBSET Chunk] /\ snaps \in [Agent -> SUBSET Snapshot]
    /\ pc \in [Agent -> Steps] /\ file \in [Agent -> Seq(Chunk)]
    /\ pos \in [Agent -> Nat] /\ missing \in [Agent -> SUBSET Chunk]
    /\ tries \in [Agent -> 0..(Attempts - 1)] /\ out \in [Agent -> Seq(Chunk)]
    /\ verdict \in [Agent -> Verdicts]
    /\ jobs \in 0..MaxJobs /\ faults \in 0..MaxFaults /\ lost \subseteq Chunk

Init ==
    /\ up = TRUE /\ blob = [c \in Chunk |-> NoKey]
    /\ own = [a \in Agent |-> {}] /\ rowOf = own /\ linked = own
    /\ snaps = [a \in Agent |-> {}]
    /\ pc = [a \in Agent |-> "idle"] /\ file = [a \in Agent |-> <<>>]
    /\ pos = [a \in Agent |-> 0] /\ missing = own
    /\ tries = pos /\ out = file /\ verdict = [a \in Agent |-> "none"]
    /\ jobs = 0 /\ faults = 0 /\ lost = {}

Fault == faults < MaxFaults /\ faults' = faults + 1
NewJob == jobs < MaxJobs /\ jobs' = jobs + 1
Here(a) == file[a][pos[a]]

(* A job ends: the locals of the job are gone.                             *)
EndJob(a, how) ==
    /\ pc' = [pc EXCEPT ![a] = "idle"] /\ file' = [file EXCEPT ![a] = <<>>]
    /\ pos' = [pos EXCEPT ![a] = 0] /\ missing' = [missing EXCEPT ![a] = {}]
    /\ tries' = [tries EXCEPT ![a] = 0] /\ verdict' = [verdict EXCEPT ![a] = how]
Fails(a) == EndJob(a, "failed") /\ UNCHANGED out
GoTo(a, step) == pc' = [pc EXCEPT ![a] = step]

(* One attempt of upload_chunk_with_retry or download_chunk_from_server    *)
(* got an error.                                                           *)
RetryOnceMore(a) ==
    IF tries[a] >= Attempts THEN Fails(a)
    ELSE /\ tries' = [tries EXCEPT ![a] = @ + 1]
         /\ UNCHANGED <<pc, file, pos, missing, out, verdict>>
RetryForever(a) == UNCHANGED locals
Retry(a) ==
    IF tries[a] + 1 >= Attempts THEN Fails(a)
    ELSE /\ tries' = [tries EXCEPT ![a] = @ + 1]
         /\ UNCHANGED <<pc, file, pos, missing, out, verdict>>

(* The next chunk of the file, or the end of the job.                      *)
AdvanceEarly(a, step, sofar) ==
    /\ out' = [out EXCEPT ![a] = sofar]
    /\ IF pos[a] >= Len(file[a]) - 1 THEN EndJob(a, "ok")
       ELSE /\ pos' = [pos EXCEPT ![a] = @ + 1] /\ GoTo(a, step)
            /\ tries' = [tries EXCEPT ![a] = 0]
            /\ UNCHANGED <<file, missing, verdict>>
Advance(a, step, sofar) ==
    /\ out' = [out EXCEPT ![a] = sofar]
    /\ IF pos[a] = Len(file[a]) THEN EndJob(a, "ok")
       ELSE /\ pos' = [pos EXCEPT ![a] = @ + 1] /\ GoTo(a, step)
            /\ tries' = [tries EXCEPT ![a] = 0]
            /\ UNCHANGED <<file, missing, verdict>>

-----------------------------------------------------------------------------
(* backup_file: a catalog object is created (it is in no snapshot), the    *)
(* file is cut into chunks.                                                *)
BeginBackup(a, f) ==
    /\ pc[a] = "idle" /\ NewJob
    /\ file' = [file EXCEPT ![a] = f] /\ GoTo(a, "check")
    /\ pos' = [pos EXCEPT ![a] = 1]
    /\ UNCHANGED <<up, stores, missing, tries, out, verdict, faults, lost>>

(* check_chunks_exist asks for every hash of the file.  Whose key a blob   *)
(* is encrypted with makes no difference.  Any error fails the job.        *)
NextUpload(a, absent, i) == IF file[a][i] \in absent THEN "upload" ELSE "link"
CheckChunks(a) ==
    /\ pc[a] = "check"
    /\ \/ /\ up
          /\ LET absent == {c \in ToSet(file[a]) : blob[c] = NoKey}
             IN  /\ missing' = [missing EXCEPT ![a] = absent]
                 /\ GoTo(a, NextUpload(a, absent, pos[a]))
          /\ UNCHANGED <<file, pos, tries, out, verdict, faults>>
       \/ (IF up THEN Fault ELSE UNCHANGED faults) /\ Fails(a)
    /\ UNCHANGED <<up, stores, jobs, lost>>

(* upload_chunk: write_once replaces the file.  The reply says success:    *)
(* false when that failed; the agent looks at the transport error only.    *)
UploadChunk(a) ==
    /\ pc[a] = "upload"
    /\ \/ /\ up
          /\ \/ /\ blob' = [blob EXCEPT ![Here(a)] = KeyOf[a]]
                /\ lost' = lost \ {Here(a)}
             \/ /\ StoreFails /\ UNCHANGED blob
                /\ lost' = IF blob[Here(a)] = NoKey THEN lost \cup {Here(a)}
                           ELSE lost
          /\ \/ GoTo(a, "row") /\ UNCHANGED <<file, pos, missing, tries, out,
                                              verdict, faults>>
             \/ Fault /\ Retry(a)
       \/ ~up /\ Retry(a) /\ UNCHANGED <<blob, lost, faults>>
    /\ UNCHANGED <<up, own, rowOf, linked, snaps, jobs>>

UpsertChunk(a) ==
    /\ pc[a] = "row"
    /\ rowOf' = [rowOf EXCEPT ![a] = @ \cup {Here(a)}] /\ GoTo(a, "link")
    /\ UNCHANGED <<up, blob, own, linked, snaps, file, pos, missing, tries, out,
                   verdict, jobs, faults, lost>>

(* add_file_chunk: FileChunks refers to Chunks; without a row the insert   *)
(* fails and the job with it.                                              *)
AddFileChunkUnchecked(a) ==
    /\ pc[a] = "link"
    /\ linked' = [linked EXCEPT ![a] = @ \cup {Here(a)}]
    /\ Advance(a, IF pos[a] < Len(file[a])
                  THEN NextUpload(a, missing[a], pos[a] + 1) ELSE "idle", <<>>)
    /\ UNCHANGED <<up, blob, own, rowOf, snaps, jobs, faults, lost>>
AddFileChunk(a) ==
    /\ pc[a] = "link"
    /\ IF Here(a) \in rowOf[a]
       THEN /\ linked' = [linked EXCEPT ![a] = @ \cup {Here(a)}]
            /\ Advance(a, IF pos[a] < Len(file[a])
                          THEN NextUpload(a, missing[a], pos[a] + 1) ELSE "idle", <<>>)
       ELSE Fails(a) /\ UNCHANGED linked
    /\ UNCHANGED <<up, blob, own, rowOf, snaps, jobs, faults, lost>>

-----------------------------------------------------------------------------
(* perform_restore: the chunks of a file are downloaded and written out.   *)
(* restore_file asks for FileChunks also for a block device, which has     *)
(* none: the device comes back as an empty file and the job succeeds.      *)
BeginRestore(a, s) ==
    /\ pc[a] = "idle" /\ s \in snaps[a] /\ NewJob
    /\ out' = [out EXCEPT ![a] = <<>>]
    /\ IF s.device \/ s.of = <<>> THEN EndJob(a, "ok")
       ELSE /\ file' = [file EXCEPT ![a] = s.of] /\ pos' = [pos EXCEPT ![a] = 1]
            /\ GoTo(a, "download") /\ UNCHANGED <<missing, tries, verdict>>
    /\ UNCHANGED <<up, stores, faults, lost>>

(* An absent file and a lost reply are tried again; a blob that the key    *)
(* does not open ends the job at once.                                     *)
DownloadChunk(a) ==
    /\ pc[a] = "download"
    /\ \/ /\ up /\ blob[Here(a)] = KeyOf[a] /\ UNCHANGED faults
          /\ Advance(a, "download", Append(out[a], Here(a)))
       \/ /\ up /\ blob[Here(a)] \notin {KeyOf[a], NoKey} /\ UNCHANGED faults
          /\ Fails(a)
       \/ /\ (up /\ blob[Here(a)] # NoKey => Fault)
          /\ (~up \/ blob[Here(a)] = NoKey => UNCHANGED faults)
          /\ Retry(a)
    /\ UNCHANGED <<up, stores, jobs, lost>>

-----------------------------------------------------------------------------
(* The data directory of the agent's repository.                           *)
Stored(a) == IF a \in Local THEN {c \in Chunk : blob[c] # NoKey} ELSE own[a]
Readable(a) ==
    IF a \in Local THEN {c \in Chunk : blob[c] = KeyOf[a]} ELSE own[a]

(* perform_verify reads every chunk of the catalog from that directory.    *)
Verify(a) ==
    /\ pc[a] = "idle" /\ NewJob
    /\ EndJob(a, IF rowOf[a] \subseteq Readable(a) THEN "ok" ELSE "failed")
    /\ UNCHANGED <<up, stores, out, faults, lost>>

(* perform_prune: what the kept snapshots reach is marked, and a reference *)
(* in the dedup table protects a chunk, also one of a dropped snapshot; a  *)
(* count that the database fails to give ("unread") counts as none.        *)
Reach(some) == UNION {ToSet(s.of) : s \in some}
Referenced(a) == Reach({s \in snaps[a] : s.refs})
Reclaimable(a, keep, unread) ==
    rowOf[a] \ (Reach(keep) \cup (Referenced(a) \ unread))

BeginPrune(a, keep, unread) ==
    /\ pc[a] = "idle" /\ keep \subseteq snaps[a] /\ NewJob
    /\ IF unread = {} THEN UNCHANGED faults ELSE Fault
    /\ IF snaps[a] = {} \/ Reclaimable(a, keep, unread) = {} THEN EndJob(a, "ok")
       ELSE /\ missing' = [missing EXCEPT ![a] = Reclaimable(a, keep, unread)]
            /\ file' = [file EXCEPT ![a] = SetToSeq(Reclaimable(a, keep, unread))]
            /\ pos' = [pos EXCEPT ![a] = 1] /\ GoTo(a, "delete")
            /\ UNCHANGED <<tries, verdict>>
    /\ UNCHANGED <<up, stores, out, lost>>

(* The file goes first; one that is not there is a warning, its rows stay. *)
DeleteBlob(a) ==
    /\ pc[a] = "delete"
    /\ IF Here(a) \in Stored(a)
       THEN /\ GoTo(a, "unlink")
            /\ IF a \in Local
               THEN /\ blob' = [blob EXCEPT ![Here(a)] = NoKey]
                    /\ lost' = lost \cup {Here(a)} /\ UNCHANGED own
               ELSE /\ own' = [own EXCEPT ![a] = @ \ {Here(a)}]
                    /\ UNCHANGED <<blob, lost>>
            /\ UNCHANGED <<file, pos, missing, tries, out, verdict>>
       ELSE Advance(a, "delete", out[a]) /\ UNCHANGED <<blob, own, lost>>
    /\ UNCHANGED <<up, rowOf, linked, snaps, jobs, faults>>

DeleteLinks(a) ==
    /\ pc[a] = "unlink" /\ GoTo(a, "drop")
    /\ linked' = [linked EXCEPT ![a] = @ \ {Here(a)}]
    /\ UNCHANGED <<up, blob, own, rowOf, snaps, file, pos, missing, tries, out,
                   verdict, jobs, faults, lost>>

DeleteRow(a) ==
    /\ pc[a] = "drop"
    /\ rowOf' = [rowOf EXCEPT ![a] = @ \ {Here(a)}]
    /\ Advance(a, "delete", out[a])
    /\ UNCHANGED <<up, blob, own, linked, snaps, jobs, faults, lost>>

-----------------------------------------------------------------------------
(* `lazarus backup' on the agent's host, between two jobs: a chunk that    *)
(* has a row is not written.  The snapshot may have ended up without its   *)
(* references (module Repository).                                         *)
CliBackup(a, s) ==
    /\ \A b \in Agent : pc[b] = "idle"
    /\ s \notin snaps[a] /\ NewJob
    /\ LET new == ToSet(s.of) \ rowOf[a]
       IN  IF a \in Local
           THEN /\ blob' = [c \in Chunk |-> IF c \in new THEN KeyOf[a] ELSE blob[c]]
                /\ lost' = lost \ new
                /\ UNCHANGED own
           ELSE own' = [own EXCEPT ![a] = @ \cup new] /\ UNCHANGED <<blob, lost>>
    /\ rowOf' = [rowOf EXCEPT ![a] = @ \cup ToSet(s.of)]
    /\ snaps' = [snaps EXCEPT ![a] = @ \cup {s}]
    /\ UNCHANGED <<up, linked, locals, faults>>

(* The process dies and is started again: its job is over.                 *)
AgentDies(a) ==
    /\ pc[a] # "idle" /\ Fault /\ EndJob(a, "none") /\ UNCHANGED out
    /\ UNCHANGED <<up, stores, jobs, lost>>

ServerDies == up /\ Fault /\ up' = FALSE /\ UNCHANGED <<stores, locals, jobs, lost>>
ServerStarts == ~up /\ up' = TRUE /\ UNCHANGED <<stores, locals, jobs, faults, lost>>

JobStep(a) ==
    \/ CheckChunks(a) \/ UploadChunk(a) \/ UpsertChunk(a) \/ AddFileChunk(a)
    \/ DownloadChunk(a) \/ DeleteBlob(a) \/ DeleteLinks(a) \/ DeleteRow(a)

Next ==
    \/ \E a \in Agent :
         \/ JobStep(a) \/ AgentDies(a) \/ Verify(a)
         \/ \E f \in Sources \ {<<>>} : BeginBackup(a, f)
         \/ \E s \in Snapshot : BeginRestore(a, s) \/ CliBackup(a, s)
         \/ \E keep \in SUBSET snaps[a] : \E unread \in SUBSET (Referenced(a) \ Reach(keep)) :
              BeginPrune(a, keep, unread)
    \/ ServerDies \/ ServerStarts

Spec == Init /\ [][Next]_vars
FairSpec == Spec /\ \A a \in Agent : WF_vars(JobStep(a))

-----------------------------------------------------------------------------
(* What a backup job linked has its row and a blob on the server, whatever *)
(* replies were lost, retried or raced with another agent's; except where  *)
(* the server could not store it, or a prune job on the server's own       *)
(* directory took it.                                                      *)
LinkedStored ==
    \A a \in Agent : \A c \in linked[a] :
        c \in rowOf[a] /\ (blob[c] # NoKey \/ c \in lost)

(* A restore job never writes anything but a prefix of the snapshot, and   *)
(* reports success for the whole of it only.                               *)
RestoreExact ==
    [][\A a \in Agent :
         pc[a] = "download" =>
           /\ IsPrefix(out[a], file[a])
           /\ verdict'[a] = "ok" /\ pc'[a] = "idle" => out'[a] = file[a]]_vars

(* Every job ends: an attempt that gets no answer is repeated Attempts     *)
(* times, also when the server stays down.                                 *)
JobsReturn == \A a \in Agent : pc[a] # "idle" ~> pc[a] = "idle"
=============================================================================
