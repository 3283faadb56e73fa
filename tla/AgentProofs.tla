----------------------------- MODULE AgentProofs -----------------------------
(***************************************************************************)
(* TLAPS proofs about AgentStore: its types, that what a backup job linked *)
(* is on the server, and that a restore job writes nothing but a prefix of *)
(* the snapshot, for any agents, chunks, attempts and faults.              *)
(***************************************************************************)
EXTENDS AgentStore, FiniteSetTheorems, SequenceTheorems, TLAPS

(* A set of chunks in some order.                                          *)
LEMMA ChunksInOrder ==
    ASSUME NEW S \in SUBSET Chunk, S # {}
    PROVE  SetToSeq(S) \in Seq(Chunk) /\ Len(SetToSeq(S)) \in Nat /\ Len(SetToSeq(S)) >= 1
  <1>1. IsFiniteSet(S)
    BY AgentAssumption, FS_Subset
  <1>2. Cardinality(S) \in Nat /\ ExistsBijection(1..Cardinality(S), S)
    BY <1>1, FS_CardinalityType
  <1>3. Cardinality(S) # 0
    BY <1>1, FS_EmptySet
  <1>4. \E f \in [1..Cardinality(S) -> S] : IsInjective(f)
    BY <1>2 DEF ExistsBijection, Bijection, Injection, IsInjective
  <1>5. SetToSeq(S) \in [1..Cardinality(S) -> S]
    BY <1>4 DEF SetToSeq
  <1> HIDE DEF SetToSeq
  <1> QED
    BY <1>2, <1>3, <1>5

-----------------------------------------------------------------------------
(* The types of the locals of the jobs.                                    *)
LocalTypes ==
    /\ pc \in [Agent -> Steps] /\ file \in [Agent -> Seq(Chunk)]
    /\ pos \in [Agent -> Nat] /\ missing \in [Agent -> SUBSET Chunk]
    /\ tries \in [Agent -> 0..(Attempts - 1)] /\ out \in [Agent -> Seq(Chunk)]
    /\ verdict \in [Agent -> Verdicts]

(* A step of an agent leaves the jobs of the others alone.                 *)
Alone(a) ==
    \A b \in Agent \ {a} :
        /\ pc'[b] = pc[b] /\ file'[b] = file[b] /\ pos'[b] = pos[b]
        /\ missing'[b] = missing[b] /\ out'[b] = out[b] /\ verdict'[b] = verdict[b]

OutOf(a) == UNCHANGED out \/ \E s \in Seq(Chunk) : out' = [out EXCEPT ![a] = s]

LEMMA EndJobDoes ==
    ASSUME TypeOK, NEW a \in Agent, NEW how \in Verdicts, EndJob(a, how), OutOf(a)
    PROVE  LocalTypes' /\ Alone(a) /\ pc'[a] = "idle" /\ verdict'[a] = how
  <1>1. <<>> \in Seq(Chunk)
    OBVIOUS
  <1>2. /\ pc' \in [Agent -> Steps] /\ pc'[a] = "idle" /\ \A b \in Agent \ {a} : pc'[b] = pc[b]
        /\ file' \in [Agent -> Seq(Chunk)] /\ \A b \in Agent \ {a} : file'[b] = file[b]
        /\ pos' \in [Agent -> Nat] /\ \A b \in Agent \ {a} : pos'[b] = pos[b]
        /\ missing' \in [Agent -> SUBSET Chunk]
        /\ \A b \in Agent \ {a} : missing'[b] = missing[b]
    BY <1>1 DEF EndJob, TypeOK, Steps
  <1>3. /\ verdict' \in [Agent -> Verdicts] /\ verdict'[a] = how
        /\ \A b \in Agent \ {a} : verdict'[b] = verdict[b]
        /\ tries' \in [Agent -> 0..(Attempts - 1)]
    BY AgentAssumption DEF EndJob, TypeOK
  <1>4. out' \in [Agent -> Seq(Chunk)] /\ \A b \in Agent \ {a} : out'[b] = out[b]
    BY DEF OutOf, TypeOK
  <1> QED
    BY <1>2, <1>3, <1>4 DEF LocalTypes, Alone

LEMMA FailsDoes ==
    ASSUME TypeOK, NEW a \in Agent, Fails(a)
    PROVE  LocalTypes' /\ Alone(a) /\ pc'[a] = "idle" /\ verdict'[a] = "failed"
  BY EndJobDoes DEF Fails, OutOf, Verdicts

LEMMA RetryDoes ==
    ASSUME TypeOK, NEW a \in Agent, Retry(a)
    PROVE  /\ LocalTypes' /\ Alone(a)
           /\ \/ pc'[a] = "idle" /\ verdict'[a] = "failed"
              \/ UNCHANGED <<pc, file, pos, missing, out, verdict>>
  <1>1. CASE tries[a] + 1 >= Attempts
    BY <1>1, FailsDoes DEF Retry
  <1>2. CASE ~(tries[a] + 1 >= Attempts)
    <2>1. /\ tries' = [tries EXCEPT ![a] = @ + 1]
          /\ UNCHANGED <<pc, file, pos, missing, out, verdict>>
      BY <1>2 DEF Retry
    <2>2. tries[a] \in Nat /\ tries[a] + 1 \in 0..(Attempts - 1)
      BY <1>2, AgentAssumption DEF TypeOK
    <2>3. tries' \in [Agent -> 0..(Attempts - 1)]
      BY <2>1, <2>2 DEF TypeOK
    <2> QED
      BY <2>1, <2>3 DEF TypeOK, LocalTypes, Alone
  <1> QED
    BY <1>1, <1>2

LEMMA GoToDoes ==
    ASSUME TypeOK, NEW a \in Agent, NEW step \in Steps, GoTo(a, step),
           UNCHANGED <<file, pos, missing, tries, out, verdict>>
    PROVE  LocalTypes' /\ Alone(a) /\ pc'[a] = step
  BY DEF GoTo, TypeOK, LocalTypes, Alone

LEMMA AdvanceDoes ==
    ASSUME TypeOK, NEW a \in Agent, pos[a] \in 1..Len(file[a]),
           NEW step, pos[a] < Len(file[a]) => step \in Steps,
           NEW sofar \in Seq(Chunk), Advance(a, step, sofar)
    PROVE  /\ LocalTypes' /\ Alone(a) /\ out'[a] = sofar
           /\ \/ pc'[a] = "idle" /\ verdict'[a] = "ok" /\ pos[a] = Len(file[a])
              \/ /\ pc'[a] = step /\ pos[a] < Len(file[a]) /\ pos'[a] = pos[a] + 1
                 /\ UNCHANGED <<file, missing, verdict>>
  <1>1. OutOf(a) /\ out'[a] = sofar
    BY DEF Advance, OutOf, TypeOK
  <1>2. CASE pos[a] = Len(file[a])
    BY <1>1, <1>2, EndJobDoes DEF Advance, Verdicts
  <1>3. CASE pos[a] # Len(file[a])
    <2>1. pos[a] < Len(file[a]) /\ step \in Steps
      BY <1>3 DEF TypeOK
    <2>2. /\ pos' = [pos EXCEPT ![a] = @ + 1] /\ GoTo(a, step)
          /\ tries' = [tries EXCEPT ![a] = 0]
          /\ UNCHANGED <<file, missing, verdict>>
      BY <1>3 DEF Advance
    <2>3. /\ pos' \in [Agent -> Nat] /\ pos'[a] = pos[a] + 1
          /\ \A b \in Agent \ {a} : pos'[b] = pos[b]
          /\ tries' \in [Agent -> 0..(Attempts - 1)]
      BY <2>2, AgentAssumption DEF TypeOK
    <2>4. pc' \in [Agent -> Steps] /\ pc'[a] = step /\ \A b \in Agent \ {a} : pc'[b] = pc[b]
      BY <2>1, <2>2 DEF GoTo, TypeOK
    <2>5. out' \in [Agent -> Seq(Chunk)] /\ \A b \in Agent \ {a} : out'[b] = out[b]
      BY DEF Advance, TypeOK
    <2> QED
      BY <1>1, <2>1, <2>2, <2>3, <2>4, <2>5 DEF LocalTypes, Alone, TypeOK
  <1> QED
    BY <1>2, <1>3

-----------------------------------------------------------------------------
(* A chunk whose blob is there, or is gone for a cause.                    *)
Kept(c) == blob[c] # NoKey \/ c \in lost

(* What the steps of a job rely on: a backup job has asked the server for  *)
(* every chunk that it does not upload, and a restore job has written what *)
(* stands before its place.                                                *)
JobGood(a) ==
    /\ pc[a] # "idle" => pos[a] \in 1..Len(file[a])
    /\ pc[a] \in {"upload", "row", "link"} =>
         \A c \in ToSet(file[a]) \ missing[a] : Kept(c)
    /\ pc[a] \in {"row", "link"} => Kept(Here(a))
    /\ pc[a] = "drop" => Here(a) \notin linked[a]
    /\ pc[a] = "download" =>
         Len(out[a]) = pos[a] - 1 /\ \A i \in 1..(pos[a] - 1) : out[a][i] = file[a][i]

LinkedKept(a) == \A c \in linked[a] : c \in rowOf[a] /\ Kept(c)

AgentInv == TypeOK /\ \A a \in Agent : JobGood(a) /\ LinkedKept(a)

LEMMA AgentInit == Init => AgentInv
  <1> SUFFICES ASSUME Init PROVE AgentInv
    OBVIOUS
  <1>1. <<>> \in Seq(Chunk)
    OBVIOUS
  <1>2. TypeOK
    BY <1>1, AgentAssumption DEF Init, TypeOK, Steps, Verdicts, Keys
  <1>3. \A a \in Agent : JobGood(a) /\ LinkedKept(a)
    BY DEF Init, JobGood, LinkedKept
  <1> QED
    BY <1>2, <1>3 DEF AgentInv

(* A step of an agent that takes no chunk from another one.                *)
LEMMA StepKeeps ==
    ASSUME AgentInv, TypeOK', NEW a \in Agent, Alone(a),
           \A c \in Chunk : Kept(c) => Kept(c)',
           \A b \in Agent \ {a} : linked'[b] = linked[b] /\ rowOf'[b] = rowOf[b],
           JobGood(a)', LinkedKept(a)'
    PROVE  AgentInv'
  <1>1. ASSUME NEW b \in Agent \ {a} PROVE JobGood(b)' /\ LinkedKept(b)'
    <2>1. /\ JobGood(b) /\ LinkedKept(b)
          /\ pc'[b] = pc[b] /\ file'[b] = file[b] /\ pos'[b] = pos[b]
          /\ missing'[b] = missing[b] /\ out'[b] = out[b]
          /\ linked'[b] = linked[b] /\ rowOf'[b] = rowOf[b]
      BY <1>1 DEF Alone, AgentInv
    <2>2. file[b] \in Seq(Chunk) /\ linked[b] \in SUBSET Chunk
      BY <1>1 DEF AgentInv, TypeOK
    <2>3. \A c \in ToSet(file[b]) : Kept(c) => Kept(c)'
      BY <2>2 DEF ToSet
    <2>4. pos[b] \in 1..Len(file[b]) => Here(b) \in Chunk
      BY <2>2 DEF Here
    <2>5. Here(b)' = Here(b)
      BY <2>1 DEF Here
    <2>6. JobGood(b)'
      <3>1. ToSet(file[b])' = ToSet(file[b])
        BY <2>1
      <3> QED
        BY <2>1, <2>3, <2>4, <2>5, <3>1 DEF JobGood
    <2>7. LinkedKept(b)'
      BY <2>1, <2>2 DEF LinkedKept
    <2> QED
      BY <2>6, <2>7
  <1> QED
    BY <1>1 DEF AgentInv

(* A job that has ended relies on nothing.                                 *)
LEMMA IdleIsGood == ASSUME NEW a \in Agent, pc'[a] = "idle" PROVE JobGood(a)'
  BY DEF JobGood

(* The types, where only the locals of the jobs change.                    *)
LEMMA LocalsKeep ==
    ASSUME AgentInv, NEW a \in Agent, LocalTypes', Alone(a), JobGood(a)',
           UNCHANGED <<up, stores, lost>>, jobs' \in 0..MaxJobs, faults' \in 0..MaxFaults
    PROVE  AgentInv'
  <1>1. TypeOK'
    BY DEF AgentInv, TypeOK, LocalTypes, stores
  <1>2. /\ \A c \in Chunk : Kept(c) => Kept(c)'
        /\ \A b \in Agent : linked'[b] = linked[b] /\ rowOf'[b] = rowOf[b]
        /\ LinkedKept(a)'
    BY DEF stores, Kept, LinkedKept, AgentInv
  <1> QED
    BY <1>1, <1>2, StepKeeps

LEMMA Counters ==
    ASSUME TypeOK
    PROVE  /\ NewJob => jobs' \in 0..MaxJobs
           /\ Fault => faults' \in 0..MaxFaults
           /\ jobs \in 0..MaxJobs /\ faults \in 0..MaxFaults
  BY AgentAssumption DEF TypeOK, NewJob, Fault

(* Where a job is at work there is a chunk.                                *)
LEMMA AtWork ==
    ASSUME AgentInv, NEW a \in Agent, pc[a] # "idle"
    PROVE  /\ pos[a] \in 1..Len(file[a]) /\ Len(file[a]) \in Nat
           /\ Here(a) \in Chunk /\ Here(a) \in ToSet(file[a])
           /\ file[a] \in Seq(Chunk) /\ KeyOf[a] \in Keys
  BY DEF AgentInv, JobGood, TypeOK, Here, ToSet, Keys

-----------------------------------------------------------------------------
(* The steps of backup jobs.                                               *)
LEMMA BeginBackupStep ==
    ASSUME AgentInv, NEW a \in Agent, NEW f \in Sources \ {<<>>}, BeginBackup(a, f)
    PROVE  AgentInv'
  <1>1. f \in Seq(Chunk) /\ 1 \in 1..Len(f)
    BY AgentAssumption
  <1>2. /\ file' = [file EXCEPT ![a] = f] /\ pos' = [pos EXCEPT ![a] = 1]
        /\ pc' = [pc EXCEPT ![a] = "check"] /\ NewJob
        /\ UNCHANGED <<up, stores, missing, tries, out, verdict, faults, lost>>
    BY DEF BeginBackup, GoTo
  <1>3. LocalTypes' /\ Alone(a) /\ pc'[a] = "check" /\ file'[a] = f /\ pos'[a] = 1
    BY <1>1, <1>2 DEF AgentInv, TypeOK, LocalTypes, Alone, Steps
  <1>4. JobGood(a)'
    BY <1>1, <1>3 DEF JobGood
  <1> QED
    BY <1>2, <1>3, <1>4, LocalsKeep, Counters DEF AgentInv

LEMMA CheckChunksStep ==
    ASSUME AgentInv, NEW a \in Agent, CheckChunks(a) PROVE AgentInv'
  <1>1. pc[a] = "check" /\ UNCHANGED <<up, stores, jobs, lost>>
    BY DEF CheckChunks
  <1>2. ASSUME (IF up THEN Fault ELSE UNCHANGED faults) /\ Fails(a) PROVE AgentInv'
    <2>1. LocalTypes' /\ Alone(a) /\ pc'[a] = "idle"
      BY <1>2, FailsDoes DEF AgentInv
    <2>2. faults' \in 0..MaxFaults
      BY <1>2, Counters DEF AgentInv
    <2> QED
      BY <1>1, <2>1, <2>2, IdleIsGood, LocalsKeep, Counters DEF AgentInv
  <1> DEFINE absent == {c \in ToSet(file[a]) : blob[c] = NoKey}
             step == NextUpload(a, absent, pos[a])
  <1>3. ASSUME missing' = [missing EXCEPT ![a] = absent], GoTo(a, step),
               UNCHANGED <<file, pos, tries, out, verdict, faults>>
        PROVE  AgentInv'
    <2>1. absent \in SUBSET Chunk /\ step \in {"upload", "link"}
      BY AtWork, <1>1 DEF NextUpload, ToSet
    <2>2. step = "link" => Here(a) \notin absent
      BY DEF NextUpload, Here
    <2>3. \A c \in ToSet(file[a]) \ absent : blob[c] # NoKey
      OBVIOUS
    <2> HIDE DEF absent, step
    <2>4. /\ LocalTypes' /\ Alone(a) /\ pc'[a] = step /\ missing'[a] = absent
      BY <1>3, <2>1 DEF GoTo, AgentInv, TypeOK, LocalTypes, Alone, Steps
    <2>5. JobGood(a)'
      <3>1. pos'[a] = pos[a] /\ file'[a] = file[a] /\ Here(a)' = Here(a) /\ Here(a) \in ToSet(file[a])
            /\ ToSet(file[a])' = ToSet(file[a]) /\ pos[a] \in 1..Len(file[a])
            /\ \A c : Kept(c)' = Kept(c)
        BY <1>1, <1>3, AtWork DEF Here, Kept, stores
      <3>2. \A c \in ToSet(file[a]) \ absent : Kept(c)
        BY <2>3 DEF Kept
      <3>3. step = "link" => Kept(Here(a))
        BY <2>2, <3>1, <3>2
      <3> QED
        BY <2>1, <2>4, <3>1, <3>2, <3>3 DEF JobGood
    <2> QED
      BY <1>1, <1>3, <2>4, <2>5, LocalsKeep, Counters DEF AgentInv
  <1> QED
    BY <1>2, <1>3 DEF CheckChunks

LEMMA UploadChunkStep ==
    ASSUME AgentInv, NEW a \in Agent, UploadChunk(a) PROVE AgentInv'
  <1>1. pc[a] = "upload" /\ UNCHANGED <<up, own, rowOf, linked, snaps, jobs>>
    BY DEF UploadChunk
  <1>2. faults' \in 0..MaxFaults
    BY Counters DEF UploadChunk, AgentInv
  <1>3. /\ blob' \in [Chunk -> Keys \cup {NoKey}] /\ lost' \subseteq Chunk
        /\ \A c \in Chunk : Kept(c) => Kept(c)'
        /\ \A c \in Chunk : up /\ c = Here(a) => Kept(c)'
    <2>1. CASE blob' = [blob EXCEPT ![Here(a)] = KeyOf[a]] /\ lost' = lost \ {Here(a)}
      BY <1>1, <2>1, AtWork, AgentAssumption DEF AgentInv, TypeOK, Kept
    <2>2. CASE /\ UNCHANGED blob
               /\ lost' = IF blob[Here(a)] = NoKey THEN lost \cup {Here(a)} ELSE lost
      BY <1>1, <2>2, AtWork DEF AgentInv, TypeOK, Kept
    <2>3. CASE UNCHANGED <<blob, lost>> /\ ~up
      BY <2>3 DEF AgentInv, TypeOK, Kept
    <2> QED
      BY <2>1, <2>2, <2>3 DEF UploadChunk
  <1>4. /\ LocalTypes' /\ Alone(a)
        /\ \/ pc'[a] = "idle"
           \/ UNCHANGED <<pc, file, pos, missing, out>>
           \/ pc'[a] = "row" /\ up /\ UNCHANGED <<file, pos, missing, out>>
    <2>1. CASE Retry(a)
      BY <2>1, RetryDoes DEF AgentInv
    <2>2. CASE up /\ GoTo(a, "row") /\ UNCHANGED <<file, pos, missing, tries, out, verdict>>
      BY <2>2, GoToDoes DEF AgentInv, Steps
    <2> QED
      BY <2>1, <2>2 DEF UploadChunk
  <1>5. TypeOK'
    BY <1>1, <1>2, <1>3, <1>4 DEF AgentInv, TypeOK, LocalTypes
  <1>6. JobGood(a)'
    <2>1. CASE pc'[a] = "idle"
      BY <2>1, IdleIsGood
    <2>2. CASE pc'[a] \in {"upload", "row"} /\ (pc'[a] = "row" => up) /\ UNCHANGED <<file, pos, missing, out>>
      <3>1. \A c \in ToSet(file[a]) \ missing[a] : Kept(c)
        BY <1>1 DEF AgentInv, JobGood
      <3>3. /\ pos[a] \in 1..Len(file[a])
            /\ \A c \in ToSet(file[a]) : c \in Chunk
        BY <1>1, AtWork DEF ToSet
      <3>2. ToSet(file[a])' = ToSet(file[a]) /\ missing'[a] = missing[a] /\ pos'[a] = pos[a]
            /\ Len(file[a])' = Len(file[a]) /\ Here(a)' = Here(a) /\ Here(a) \in Chunk
        BY <1>1, <2>2, AtWork DEF Here
      <3> QED
        BY <1>3, <2>2, <3>1, <3>2, <3>3 DEF JobGood
    <2> QED
      BY <1>1, <1>4, <2>1, <2>2
  <1>7. LinkedKept(a)'
    BY <1>1, <1>3 DEF AgentInv, LinkedKept, TypeOK
  <1> QED
    BY <1>1, <1>3, <1>4, <1>5, <1>6, <1>7, StepKeeps

LEMMA UpsertChunkStep ==
    ASSUME AgentInv, NEW a \in Agent, UpsertChunk(a) PROVE AgentInv'
  <1>1. /\ pc[a] = "row" /\ rowOf' = [rowOf EXCEPT ![a] = @ \cup {Here(a)}] /\ GoTo(a, "link")
        /\ UNCHANGED <<up, blob, own, linked, snaps, file, pos, missing, tries, out,
                       verdict, jobs, faults, lost>>
    BY DEF UpsertChunk
  <1>2. LocalTypes' /\ Alone(a) /\ pc'[a] = "link"
    BY <1>1, GoToDoes DEF AgentInv, Steps
  <1>3. /\ rowOf' \in [Agent -> SUBSET Chunk] /\ rowOf[a] \subseteq rowOf'[a]
        /\ \A b \in Agent \ {a} : rowOf'[b] = rowOf[b]
    BY <1>1, AtWork DEF AgentInv, TypeOK
  <1>4. TypeOK'
    BY <1>1, <1>2, <1>3 DEF AgentInv, TypeOK, LocalTypes
  <1>5. JobGood(a)' /\ \A c : Kept(c)' = Kept(c)
    <2>1. \A c : Kept(c)' = Kept(c)
      BY <1>1 DEF Kept
    <2>2. Here(a)' = Here(a) /\ ToSet(file[a])' = ToSet(file[a])
      BY <1>1 DEF Here
    <2> QED
      BY <1>1, <1>2, <2>1, <2>2 DEF AgentInv, JobGood
  <1>6. LinkedKept(a)'
    BY <1>1, <1>3, <1>5 DEF AgentInv, LinkedKept
  <1> QED
    BY <1>1, <1>2, <1>3, <1>4, <1>5, <1>6, StepKeeps

LEMMA AddFileChunkStep ==
    ASSUME AgentInv, NEW a \in Agent, AddFileChunk(a) PROVE AgentInv'
  <1>1. pc[a] = "link" /\ UNCHANGED <<up, blob, own, rowOf, snaps, jobs, faults, lost>>
    BY DEF AddFileChunk
  <1>2. CASE Here(a) \notin rowOf[a]
    <2>1. LocalTypes' /\ Alone(a) /\ pc'[a] = "idle" /\ UNCHANGED linked
      BY <1>2, FailsDoes DEF AddFileChunk, AgentInv
    <2> QED
      BY <1>1, <2>1, IdleIsGood, LocalsKeep, Counters DEF AgentInv, stores
  <1>3. CASE Here(a) \in rowOf[a]
    <2> DEFINE step == IF pos[a] < Len(file[a])
                       THEN NextUpload(a, missing[a], pos[a] + 1) ELSE "idle"
    <2>1. linked' = [linked EXCEPT ![a] = @ \cup {Here(a)}] /\ Advance(a, step, <<>>)
      BY <1>3 DEF AddFileChunk
    <2>2. step \in {"upload", "link", "idle"} /\ <<>> \in Seq(Chunk)
          /\ (step = "link" => file[a][pos[a] + 1] \notin missing[a])
          /\ (pos[a] < Len(file[a]) => step # "idle")
      BY DEF NextUpload
    <2> HIDE DEF step
    <2>3. pos[a] \in 1..Len(file[a]) /\ Len(file[a]) \in Nat
      BY <1>1, AtWork
    <2>4. /\ LocalTypes' /\ Alone(a)
          /\ \/ pc'[a] = "idle"
             \/ /\ pc'[a] = step /\ step # "idle" /\ pos[a] < Len(file[a])
                /\ pos'[a] = pos[a] + 1 /\ UNCHANGED <<file, missing, verdict>>
      BY <2>1, <2>2, <2>3, AdvanceDoes DEF AgentInv, Steps
    <2>5. linked' \in [Agent -> SUBSET Chunk] /\ linked'[a] = linked[a] \cup {Here(a)}
          /\ \A b \in Agent \ {a} : linked'[b] = linked[b]
      BY <1>1, <2>1, AtWork DEF AgentInv, TypeOK
    <2>6. TypeOK'
      BY <1>1, <2>4, <2>5 DEF AgentInv, TypeOK, LocalTypes
    <2>7. \A c : Kept(c)' = Kept(c)
      BY <1>1 DEF Kept
    <2>8. JobGood(a)'
      <3>1. CASE pc'[a] = "idle"
        BY <3>1, IdleIsGood
      <3>2. CASE /\ pc'[a] = step /\ step # "idle" /\ pos[a] < Len(file[a])
                 /\ pos'[a] = pos[a] + 1 /\ UNCHANGED <<file, missing, verdict>>
        <4>1. Here(a)' = file[a][pos[a] + 1] /\ pos'[a] \in 1..Len(file[a])
              /\ ToSet(file[a])' = ToSet(file[a]) /\ Len(file[a])' = Len(file[a])
          BY <2>3, <3>2 DEF Here
        <4>2. file[a][pos[a] + 1] \in ToSet(file[a])
          BY <2>3, <3>2 DEF ToSet, AgentInv, TypeOK
        <4>3. \A c \in ToSet(file[a]) \ missing[a] : Kept(c)
          BY <1>1 DEF AgentInv, JobGood
        <4> QED
          BY <2>2, <2>7, <3>2, <4>1, <4>2, <4>3 DEF JobGood
      <3> QED
        BY <2>4, <3>1, <3>2
    <2>9. LinkedKept(a)'
      <3>1. Kept(Here(a))
        BY <1>1 DEF AgentInv, JobGood
      <3> QED
        BY <1>1, <1>3, <2>5, <2>7, <3>1 DEF AgentInv, LinkedKept
    <2> QED
      BY <1>1, <2>4, <2>5, <2>6, <2>7, <2>8, <2>9, StepKeeps
  <1> QED
    BY <1>2, <1>3

-----------------------------------------------------------------------------
(* The steps of restore, verify and prune jobs.                            *)
LEMMA JobEnds ==
    ASSUME AgentInv, NEW a \in Agent, NEW how \in Verdicts, EndJob(a, how), OutOf(a),
           UNCHANGED <<up, stores, lost>>, jobs' \in 0..MaxJobs, faults' \in 0..MaxFaults
    PROVE  AgentInv'
  BY EndJobDoes, IdleIsGood, LocalsKeep DEF AgentInv

LEMMA BeginRestoreStep ==
    ASSUME AgentInv, NEW a \in Agent, NEW s \in Snapshot, BeginRestore(a, s) PROVE AgentInv'
  <1>1. s.of \in Seq(Chunk)
    BY AgentAssumption DEF Snapshot
  <1>2. out' = [out EXCEPT ![a] = <<>>] /\ NewJob /\ UNCHANGED <<up, stores, faults, lost>>
    BY DEF BeginRestore
  <1>3. OutOf(a) /\ out'[a] = <<>> /\ out' \in [Agent -> Seq(Chunk)]
        /\ \A b \in Agent \ {a} : out'[b] = out[b]
    <2>1. <<>> \in Seq(Chunk)
      OBVIOUS
    <2> QED
      BY <1>2, <2>1 DEF OutOf, AgentInv, TypeOK
  <1>4. CASE s.device \/ s.of = <<>>
    BY <1>2, <1>3, <1>4, JobEnds, Counters DEF BeginRestore, AgentInv, Verdicts
  <1>5. CASE ~(s.device \/ s.of = <<>>)
    <2>1. /\ file' = [file EXCEPT ![a] = s.of] /\ pos' = [pos EXCEPT ![a] = 1]
          /\ pc' = [pc EXCEPT ![a] = "download"] /\ UNCHANGED <<missing, tries, verdict>>
      BY <1>5 DEF BeginRestore, GoTo
    <2>2. 1 \in 1..Len(s.of)
      BY <1>1, <1>5
    <2>3. LocalTypes' /\ Alone(a) /\ pc'[a] = "download" /\ file'[a] = s.of /\ pos'[a] = 1
      BY <1>1, <1>3, <2>1 DEF AgentInv, TypeOK, LocalTypes, Alone, Steps
    <2>4. JobGood(a)'
      BY <1>3, <2>2, <2>3 DEF JobGood
    <2> QED
      BY <1>2, <2>3, <2>4, LocalsKeep, Counters DEF AgentInv
  <1> QED
    BY <1>4, <1>5

(* One more chunk on the end of what was written.                          *)
LEMMA WrittenGrows ==
    ASSUME AgentInv, NEW a \in Agent, pc[a] = "download", NEW sofar,
           sofar = Append(out[a], Here(a))
    PROVE  /\ sofar \in Seq(Chunk) /\ Len(sofar) = pos[a]
           /\ \A i \in 1..pos[a] : sofar[i] = file[a][i]
  <1>1. /\ out[a] \in Seq(Chunk) /\ Len(out[a]) = pos[a] - 1 /\ pos[a] \in Nat
        /\ \A i \in 1..(pos[a] - 1) : out[a][i] = file[a][i]
    BY DEF AgentInv, TypeOK, JobGood
  <1>2. Here(a) \in Chunk /\ Here(a) = file[a][pos[a]]
    BY AtWork DEF Here
  <1> QED
    BY <1>1, <1>2

LEMMA DownloadChunkStep ==
    ASSUME AgentInv, NEW a \in Agent, DownloadChunk(a) PROVE AgentInv'
  <1>1. pc[a] = "download" /\ UNCHANGED <<up, stores, jobs, lost>>
    BY DEF DownloadChunk
  <1>2. faults' \in 0..MaxFaults
    BY Counters DEF DownloadChunk, AgentInv
  <1>3. CASE Fails(a)
    BY <1>1, <1>2, <1>3, FailsDoes, IdleIsGood, LocalsKeep, Counters DEF AgentInv
  <1>4. CASE Retry(a)
    <2>1. /\ LocalTypes' /\ Alone(a)
          /\ pc'[a] = "idle" \/ UNCHANGED <<pc, file, pos, missing, out>>
      BY <1>4, RetryDoes DEF AgentInv
    <2>2. JobGood(a)'
      <3>1. CASE pc'[a] = "idle"
        BY <3>1, IdleIsGood
      <3>2. CASE UNCHANGED <<pc, file, pos, missing, out>>
        BY <1>1, <3>2 DEF AgentInv, JobGood
      <3> QED
        BY <2>1, <3>1, <3>2
    <2> QED
      BY <1>1, <1>2, <2>1, <2>2, LocalsKeep, Counters DEF AgentInv
  <1>5. CASE Advance(a, "download", Append(out[a], Here(a)))
    <2> DEFINE sofar == Append(out[a], Here(a))
    <2>1. /\ sofar \in Seq(Chunk) /\ Len(sofar) = pos[a]
          /\ \A i \in 1..pos[a] : sofar[i] = file[a][i]
      BY <1>1, WrittenGrows
    <2>2. pos[a] \in 1..Len(file[a]) /\ Len(file[a]) \in Nat
      BY <1>1, AtWork
    <2>3. Advance(a, "download", sofar)
      BY <1>5
    <2> HIDE DEF sofar
    <2>4. /\ LocalTypes' /\ Alone(a) /\ out'[a] = sofar
          /\ \/ pc'[a] = "idle"
             \/ /\ pc'[a] = "download" /\ pos[a] < Len(file[a]) /\ pos'[a] = pos[a] + 1
                /\ UNCHANGED <<file, missing, verdict>>
      BY <2>1, <2>2, <2>3, AdvanceDoes DEF AgentInv, Steps
    <2>5. JobGood(a)'
      <3>1. CASE pc'[a] = "idle"
        BY <3>1, IdleIsGood
      <3>2. CASE /\ pc'[a] = "download" /\ pos[a] < Len(file[a]) /\ pos'[a] = pos[a] + 1
                 /\ UNCHANGED <<file, missing, verdict>>
        <4>1. pos'[a] \in 1..Len(file'[a]) /\ pos'[a] - 1 = pos[a] /\ file'[a] = file[a]
          BY <2>2, <3>2
        <4> QED
          BY <2>1, <2>4, <3>2, <4>1 DEF JobGood
      <3> QED
        BY <2>4, <3>1, <3>2
    <2> QED
      BY <1>1, <1>2, <2>4, <2>5, LocalsKeep, Counters DEF AgentInv
  <1> QED
    BY <1>3, <1>4, <1>5 DEF DownloadChunk

LEMMA VerifyStep ==
    ASSUME AgentInv, NEW a \in Agent, Verify(a) PROVE AgentInv'
  <1>1. PICK how \in Verdicts : EndJob(a, how)
    BY DEF Verify, Verdicts
  <1> QED
    BY <1>1, JobEnds, Counters DEF Verify, OutOf, AgentInv

LEMMA BeginPruneStep ==
    ASSUME AgentInv, NEW a \in Agent, NEW keep \in SUBSET snaps[a], NEW unread, BeginPrune(a, keep, unread)
    PROVE  AgentInv'
  <1> DEFINE S == Reclaimable(a, keep, unread)
             f == SetToSeq(S)
  <1>1. S \in SUBSET Chunk
    BY DEF Reclaimable, AgentInv, TypeOK
  <1>2. NewJob /\ faults' \in 0..MaxFaults /\ UNCHANGED <<up, stores, out, lost>>
    BY Counters DEF BeginPrune, AgentInv
  <1>3. CASE snaps[a] = {} \/ S = {}
    BY <1>2, <1>3, JobEnds, Counters DEF BeginPrune, OutOf, AgentInv, Verdicts
  <1>4. CASE ~(snaps[a] = {} \/ S = {})
    <2>1. /\ missing' = [missing EXCEPT ![a] = S] /\ file' = [file EXCEPT ![a] = f]
          /\ pos' = [pos EXCEPT ![a] = 1] /\ pc' = [pc EXCEPT ![a] = "delete"]
          /\ UNCHANGED <<tries, verdict>>
      BY <1>4 DEF BeginPrune, GoTo
    <2>2. f \in Seq(Chunk) /\ 1 \in 1..Len(f)
      BY <1>1, <1>4, ChunksInOrder
    <2> HIDE DEF f, S
    <2>3. LocalTypes' /\ Alone(a) /\ pc'[a] = "delete" /\ file'[a] = f /\ pos'[a] = 1
      BY <1>1, <1>2, <2>1, <2>2 DEF AgentInv, TypeOK, LocalTypes, Alone, Steps
    <2>4. JobGood(a)'
      BY <2>2, <2>3 DEF JobGood
    <2> QED
      BY <1>2, <2>3, <2>4, LocalsKeep, Counters DEF AgentInv
  <1> QED
    BY <1>3, <1>4

(* A prune job goes on to the next chunk, or ends.                         *)
LEMMA PruneAdvances ==
    ASSUME AgentInv, NEW a \in Agent, pc[a] # "idle", Advance(a, "delete", out[a])
    PROVE  LocalTypes' /\ Alone(a) /\ JobGood(a)'
  <1>1. pos[a] \in 1..Len(file[a]) /\ Len(file[a]) \in Nat /\ out[a] \in Seq(Chunk)
    BY AtWork DEF AgentInv, TypeOK
  <1>2. /\ LocalTypes' /\ Alone(a)
        /\ \/ pc'[a] = "idle"
           \/ /\ pc'[a] = "delete" /\ pos[a] < Len(file[a]) /\ pos'[a] = pos[a] + 1
              /\ UNCHANGED <<file, missing, verdict>>
    BY <1>1, AdvanceDoes DEF AgentInv, Steps
  <1> QED
    BY <1>1, <1>2 DEF JobGood

LEMMA DeleteBlobStep ==
    ASSUME AgentInv, NEW a \in Agent, DeleteBlob(a) PROVE AgentInv'
  <1>1. pc[a] = "delete" /\ UNCHANGED <<up, rowOf, linked, snaps, jobs, faults>>
    BY DEF DeleteBlob
  <1>2. CASE Here(a) \notin Stored(a)
    <2>1. LocalTypes' /\ Alone(a) /\ JobGood(a)' /\ UNCHANGED <<blob, own, lost>>
      BY <1>1, <1>2, PruneAdvances DEF DeleteBlob
    <2> QED
      BY <1>1, <2>1, LocalsKeep, Counters DEF AgentInv, stores
  <1>3. CASE Here(a) \in Stored(a)
    <2>1. GoTo(a, "unlink") /\ UNCHANGED <<file, pos, missing, tries, out, verdict>>
      BY <1>3 DEF DeleteBlob
    <2>2. LocalTypes' /\ Alone(a) /\ pc'[a] = "unlink"
      BY <2>1, GoToDoes DEF AgentInv, Steps
    <2>3. /\ blob' \in [Chunk -> Keys \cup {NoKey}] /\ lost' \subseteq Chunk
          /\ own' \in [Agent -> SUBSET Chunk]
          /\ \A c \in Chunk : Kept(c) => Kept(c)'
      <3>1. CASE a \in Local
        <4>1. /\ blob' = [blob EXCEPT ![Here(a)] = NoKey]
              /\ lost' = lost \cup {Here(a)} /\ UNCHANGED own
          BY <1>3, <3>1 DEF DeleteBlob
        <4>2. Here(a) \in Chunk
          BY <1>1, AtWork
        <4> QED
          BY <4>1, <4>2 DEF AgentInv, TypeOK, Kept
      <3>2. CASE a \notin Local
        <4>1. own' = [own EXCEPT ![a] = @ \ {Here(a)}] /\ UNCHANGED <<blob, lost>>
          BY <1>3, <3>2 DEF DeleteBlob
        <4> QED
          BY <4>1 DEF AgentInv, TypeOK, Kept
      <3> QED
        BY <3>1, <3>2
    <2>4. TypeOK'
      BY <1>1, <2>2, <2>3 DEF AgentInv, TypeOK, LocalTypes
    <2>5. JobGood(a)'
      BY <1>1, <2>1, <2>2 DEF AgentInv, JobGood
    <2>6. LinkedKept(a)'
      BY <1>1, <2>3 DEF AgentInv, LinkedKept, TypeOK
    <2> QED
      BY <1>1, <2>2, <2>3, <2>4, <2>5, <2>6, StepKeeps
  <1> QED
    BY <1>2, <1>3

LEMMA DeleteLinksStep ==
    ASSUME AgentInv, NEW a \in Agent, DeleteLinks(a) PROVE AgentInv'
  <1>1. /\ pc[a] = "unlink" /\ GoTo(a, "drop")
        /\ linked' = [linked EXCEPT ![a] = @ \ {Here(a)}]
        /\ UNCHANGED <<up, blob, own, rowOf, snaps, file, pos, missing, tries, out,
                       verdict, jobs, faults, lost>>
    BY DEF DeleteLinks
  <1>2. LocalTypes' /\ Alone(a) /\ pc'[a] = "drop"
    BY <1>1, GoToDoes DEF AgentInv, Steps
  <1>3. /\ linked' \in [Agent -> SUBSET Chunk] /\ linked'[a] = linked[a] \ {Here(a)}
        /\ \A b \in Agent \ {a} : linked'[b] = linked[b]
    BY <1>1 DEF AgentInv, TypeOK
  <1>4. TypeOK'
    BY <1>1, <1>2, <1>3 DEF AgentInv, TypeOK, LocalTypes
  <1>5. Here(a)' = Here(a) /\ \A c : Kept(c)' = Kept(c)
    BY <1>1 DEF Here, Kept
  <1>6. JobGood(a)'
    BY <1>1, <1>2, <1>3, <1>5 DEF AgentInv, JobGood
  <1>7. LinkedKept(a)'
    BY <1>1, <1>3, <1>5 DEF AgentInv, LinkedKept
  <1> QED
    BY <1>1, <1>2, <1>3, <1>4, <1>5, <1>6, <1>7, StepKeeps

LEMMA DeleteRowStep ==
    ASSUME AgentInv, NEW a \in Agent, DeleteRow(a) PROVE AgentInv'
  <1>1. /\ pc[a] = "drop" /\ rowOf' = [rowOf EXCEPT ![a] = @ \ {Here(a)}]
        /\ Advance(a, "delete", out[a])
        /\ UNCHANGED <<up, blob, own, linked, snaps, jobs, faults, lost>>
    BY DEF DeleteRow
  <1>2. LocalTypes' /\ Alone(a) /\ JobGood(a)'
    BY <1>1, PruneAdvances
  <1>3. /\ rowOf' \in [Agent -> SUBSET Chunk] /\ rowOf'[a] = rowOf[a] \ {Here(a)}
        /\ \A b \in Agent \ {a} : rowOf'[b] = rowOf[b]
    BY <1>1 DEF AgentInv, TypeOK
  <1>4. TypeOK'
    BY <1>1, <1>2, <1>3 DEF AgentInv, TypeOK, LocalTypes
  <1>5. Here(a) \notin linked[a] /\ \A c : Kept(c)' = Kept(c)
    BY <1>1 DEF AgentInv, JobGood, Kept
  <1>6. LinkedKept(a)'
    BY <1>1, <1>3, <1>5 DEF AgentInv, LinkedKept
  <1> QED
    BY <1>1, <1>2, <1>3, <1>4, <1>5, <1>6, StepKeeps

-----------------------------------------------------------------------------
(* A backup of the CLI only adds.                                          *)
LEMMA CliBackupStep ==
    ASSUME AgentInv, NEW a \in Agent, NEW s \in Snapshot, CliBackup(a, s) PROVE AgentInv'
  <1> DEFINE new == ToSet(s.of) \ rowOf[a]
  <1>1. /\ NewJob /\ UNCHANGED <<up, linked, locals, faults>>
        /\ rowOf' = [rowOf EXCEPT ![a] = @ \cup ToSet(s.of)]
        /\ snaps' = [snaps EXCEPT ![a] = @ \cup {s}]
        /\ \A b \in Agent : pc[b] = "idle"
    BY DEF CliBackup
  <1>2. ToSet(s.of) \in SUBSET Chunk /\ KeyOf[a] \in Keys
    BY AgentAssumption DEF Snapshot, ToSet, Keys
  <1>3. /\ blob' \in [Chunk -> Keys \cup {NoKey}] /\ lost' \subseteq Chunk
        /\ own' \in [Agent -> SUBSET Chunk]
        /\ \A c \in Chunk : Kept(c) => Kept(c)'
    <2>1. CASE a \in Local
      <3>1. blob' = [c \in Chunk |-> IF c \in new THEN KeyOf[a] ELSE blob[c]]
            /\ lost' = lost \ new /\ UNCHANGED own
        BY <2>1 DEF CliBackup
      <3> HIDE DEF new
      <3> QED
        BY <1>2, <3>1, AgentAssumption DEF AgentInv, TypeOK, Kept
    <2>2. CASE a \notin Local
      <3>1. own' = [own EXCEPT ![a] = @ \cup new] /\ UNCHANGED <<blob, lost>>
        BY <2>2 DEF CliBackup
      <3> QED
        BY <1>2, <3>1 DEF AgentInv, TypeOK, Kept
    <2> QED
      BY <2>1, <2>2
  <1>4. /\ rowOf' \in [Agent -> SUBSET Chunk] /\ snaps' \in [Agent -> SUBSET Snapshot]
        /\ \A b \in Agent : rowOf[b] \subseteq rowOf'[b]
    BY <1>1, <1>2 DEF AgentInv, TypeOK
  <1>5. TypeOK'
    BY <1>1, <1>3, <1>4, Counters DEF AgentInv, TypeOK, locals
  <1>6. \A b \in Agent : JobGood(b)'
    BY <1>1 DEF JobGood, locals
  <1>7. \A b \in Agent : LinkedKept(b)'
    BY <1>1, <1>3, <1>4 DEF AgentInv, LinkedKept, TypeOK
  <1> QED
    BY <1>5, <1>6, <1>7 DEF AgentInv

LEMMA AgentDiesStep ==
    ASSUME AgentInv, NEW a \in Agent, AgentDies(a) PROVE AgentInv'
  BY JobEnds, Counters DEF AgentDies, OutOf, AgentInv, Verdicts

(* Nothing but the server, or nothing at all, changes.                     *)
LEMMA ServerKeeps ==
    ASSUME AgentInv, UNCHANGED <<stores, locals, jobs, lost>>,
           up' \in BOOLEAN, faults' \in 0..MaxFaults
    PROVE  AgentInv'
  <1>1. TypeOK'
    BY DEF AgentInv, TypeOK, stores, locals
  <1>2. \A a \in Agent : Here(a)' = Here(a)
    BY DEF Here, locals
  <1>3. \A c : Kept(c)' = Kept(c)
    BY DEF Kept, stores
  <1> QED
    BY <1>1, <1>2, <1>3 DEF AgentInv, JobGood, LinkedKept, stores, locals

LEMMA AgentStep == ASSUME AgentInv, [Next]_vars PROVE AgentInv'
  <1>1. CASE UNCHANGED vars
    BY <1>1, ServerKeeps DEF vars, AgentInv, TypeOK
  <1>2. ASSUME NEW a \in Agent, JobStep(a) PROVE AgentInv'
    BY <1>2, CheckChunksStep, UploadChunkStep, UpsertChunkStep, AddFileChunkStep,
       DownloadChunkStep, DeleteBlobStep, DeleteLinksStep, DeleteRowStep DEF JobStep
  <1>3. CASE ServerDies \/ ServerStarts
    BY <1>3, ServerKeeps, Counters DEF ServerDies, ServerStarts, AgentInv
  <1> QED
    BY <1>1, <1>2, <1>3, AgentDiesStep, VerifyStep, BeginBackupStep, BeginRestoreStep,
       CliBackupStep, BeginPruneStep DEF Next

THEOREM AgentInvHolds == Spec => []AgentInv
  BY AgentInit, AgentStep, PTL DEF Spec

(* Every variable keeps its type.                                          *)
THEOREM TypeCorrect == Spec => []TypeOK
  <1>1. AgentInv => TypeOK
    BY DEF AgentInv
  <1> QED
    BY <1>1, AgentInvHolds, PTL

(* What a backup job linked has its row, and its blob unless that is gone  *)
(* for a cause.                                                            *)
THEOREM AlwaysLinkedStored == Spec => []LinkedStored
  <1>1. AgentInv => LinkedStored
    BY DEF AgentInv, LinkedKept, LinkedStored, Kept
  <1> QED
    BY <1>1, AgentInvHolds, PTL

-----------------------------------------------------------------------------
(* A step of another agent, or of none, ends no job of this one.           *)
LEMMA OthersStay ==
    ASSUME TypeOK, NEW a \in Agent, NEW b \in Agent, a # b,
           \/ JobStep(b) \/ AgentDies(b) \/ Verify(b)
           \/ \E f \in Sources \ {<<>>} : BeginBackup(b, f)
           \/ \E s \in Snapshot : BeginRestore(b, s) \/ CliBackup(b, s)
           \/ \E keep \in SUBSET snaps[b] : \E unread \in SUBSET (Referenced(b) \ Reach(keep)) :
                BeginPrune(b, keep, unread)
    PROVE  pc'[a] = pc[a]
  <1>1. ASSUME NEW how, EndJob(b, how) PROVE pc'[a] = pc[a]
    BY <1>1 DEF EndJob, TypeOK
  <1>2. ASSUME NEW step, GoTo(b, step) PROVE pc'[a] = pc[a]
    BY <1>2 DEF GoTo, TypeOK
  <1>3. ASSUME Fails(b) PROVE pc'[a] = pc[a]
    BY <1>1, <1>3 DEF Fails
  <1>4. ASSUME Retry(b) PROVE pc'[a] = pc[a]
    BY <1>3, <1>4 DEF Retry
  <1>5. ASSUME NEW step, NEW sofar, Advance(b, step, sofar) PROVE pc'[a] = pc[a]
    BY <1>1, <1>2, <1>5 DEF Advance
  <1>6. ASSUME JobStep(b) PROVE pc'[a] = pc[a]
    <2>1. CASE CheckChunks(b)
      BY <1>2, <1>3, <2>1 DEF CheckChunks
    <2>2. CASE UploadChunk(b)
      BY <1>2, <1>4, <2>2 DEF UploadChunk
    <2>3. CASE UpsertChunk(b) \/ DeleteLinks(b)
      BY <1>2, <2>3 DEF UpsertChunk, DeleteLinks
    <2>4. CASE AddFileChunk(b)
      BY <1>3, <1>5, <2>4 DEF AddFileChunk
    <2>5. CASE DownloadChunk(b)
      BY <1>3, <1>4, <1>5, <2>5 DEF DownloadChunk
    <2>6. CASE DeleteBlob(b)
      BY <1>2, <1>5, <2>6 DEF DeleteBlob
    <2>7. CASE DeleteRow(b)
      BY <1>5, <2>7 DEF DeleteRow
    <2> QED
      BY <1>6, <2>1, <2>2, <2>3, <2>4, <2>5, <2>6, <2>7 DEF JobStep
  <1>7. ASSUME AgentDies(b) \/ Verify(b) PROVE pc'[a] = pc[a]
    BY <1>1, <1>7 DEF AgentDies, Verify
  <1>8. ASSUME NEW f, BeginBackup(b, f) PROVE pc'[a] = pc[a]
    BY <1>2, <1>8 DEF BeginBackup
  <1>9. ASSUME NEW s, BeginRestore(b, s) PROVE pc'[a] = pc[a]
    BY <1>1, <1>2, <1>9 DEF BeginRestore
  <1>10. ASSUME NEW s, CliBackup(b, s) PROVE pc'[a] = pc[a]
    BY <1>10 DEF CliBackup, locals
  <1>11. ASSUME NEW keep, NEW unread, BeginPrune(b, keep, unread) PROVE pc'[a] = pc[a]
    BY <1>1, <1>2, <1>11 DEF BeginPrune
  <1> QED
    BY <1>6, <1>7, <1>8, <1>9, <1>10, <1>11

LEMMA ExactStep ==
    ASSUME AgentInv, [Next]_vars, NEW a \in Agent, pc[a] = "download"
    PROVE  /\ IsPrefix(out[a], file[a])
           /\ verdict'[a] = "ok" /\ pc'[a] = "idle" => out'[a] = file[a]
  <1>1. /\ out[a] \in Seq(Chunk) /\ file[a] \in Seq(Chunk) /\ pos[a] \in 1..Len(file[a])
        /\ Len(out[a]) = pos[a] - 1 /\ \A i \in 1..(pos[a] - 1) : out[a][i] = file[a][i]
    BY DEF AgentInv, TypeOK, JobGood
  <1>2. IsPrefix(out[a], file[a])
    BY <1>1 DEF IsPrefix
  <1> SUFFICES ASSUME verdict'[a] = "ok", pc'[a] = "idle" PROVE out'[a] = file[a]
    BY <1>2
  <1>3. PICK b \in Agent :
          \/ JobStep(b) \/ AgentDies(b) \/ Verify(b)
          \/ \E f \in Sources \ {<<>>} : BeginBackup(b, f)
          \/ \E s \in Snapshot : BeginRestore(b, s) \/ CliBackup(b, s)
          \/ \E keep \in SUBSET snaps[b] : \E unread \in SUBSET (Referenced(b) \ Reach(keep)) :
               BeginPrune(b, keep, unread)
    BY DEF Next, ServerDies, ServerStarts, vars, locals
  <1>4. CASE a = b
    <2>1. DownloadChunk(a) \/ AgentDies(a)
      BY <1>3, <1>4
         DEF JobStep, CheckChunks, UploadChunk, UpsertChunk, AddFileChunk, DeleteBlob,
             DeleteLinks, DeleteRow, Verify, BeginBackup, BeginRestore, CliBackup, BeginPrune
    <2>2. CASE AgentDies(a)
      BY <2>2 DEF AgentDies, EndJob, AgentInv, TypeOK
    <2>3. CASE Fails(a)
      BY <2>3, FailsDoes DEF AgentInv
    <2>4. CASE Retry(a)
      BY <2>4, RetryDoes DEF AgentInv
    <2>5. CASE Advance(a, "download", Append(out[a], Here(a)))
      <3> DEFINE sofar == Append(out[a], Here(a))
      <3>1. /\ sofar \in Seq(Chunk) /\ Len(sofar) = pos[a]
            /\ \A i \in 1..pos[a] : sofar[i] = file[a][i]
        BY WrittenGrows
      <3>2. Advance(a, "download", sofar)
        BY <2>5
      <3> HIDE DEF sofar
      <3>3. out'[a] = sofar /\ pos[a] = Len(file[a])
        BY <1>1, <3>1, <3>2, AdvanceDoes DEF AgentInv, Steps
      <3> QED
        <4>1. Len(sofar) = Len(file[a]) /\ \A i \in 1..Len(sofar) : sofar[i] = file[a][i]
          BY <3>1, <3>3
        <4>2. sofar = file[a]
          BY <1>1, <3>1, <4>1, SeqEqual
        <4> QED
          BY <3>3, <4>2
    <2> QED
      BY <2>1, <2>2, <2>3, <2>4, <2>5 DEF DownloadChunk
  <1>5. CASE a # b
    <2>1. pc'[a] = pc[a]
      BY <1>3, <1>5, OthersStay DEF AgentInv
    <2> QED
      BY <2>1
  <1> QED
    BY <1>4, <1>5

(* A restore job writes nothing but a prefix of the snapshot and reports   *)
(* success for the whole of it only.                                       *)
THEOREM AlwaysRestoreExact == Spec => RestoreExact
  <1>1. AgentInv /\ [Next]_vars =>
          [\A a \in Agent :
             pc[a] = "download" =>
               /\ IsPrefix(out[a], file[a])
               /\ verdict'[a] = "ok" /\ pc'[a] = "idle" => out'[a] = file[a]]_vars
    BY ExactStep
  <1> QED
    BY <1>1, AgentInvHolds, PTL DEF Spec, RestoreExact
=============================================================================
