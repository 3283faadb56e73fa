------------------------------ MODULE JobProofs ------------------------------
(***************************************************************************)
(* TLAPS proofs about JobControl: its types, that a job is begun at most   *)
(* once, that its row tells how it ended, and that a due time gives one    *)
(* job, for any agents, templates, bounds and faults.                      *)
(***************************************************************************)
EXTENDS JobControl, TLAPS

(* The first due time after a time is later than it.                       *)
LEMMA NextDueLater ==
    ASSUME NEW time \in Nat
    PROVE  NextDue(time) \in Nat /\ NextDue(time) > time
  BY JobAssumption, SMTT(30) DEF NextDue

Busy(a) == apc[a] \in {"begin", "work", "done", "failed"}

(* An agent that is busy has a job at hand.                                *)
HasJob == \A a \in Agent : Busy(a) => job[a] \in Job

(* SetEnded keeps the types of the columns it writes.                      *)
LEMMA SetEndedTypes ==
    ASSUME TypeOK, NEW j, NEW ok \in BOOLEAN, SetEnded(j, ok)
    PROVE  /\ status' \in [Job -> Status]
           /\ error' \in [Job -> {"none", "work", "timeout"}]
           /\ UNCHANGED <<holder, due, started>>
  <1>1. CASE ok
    BY <1>1 DEF TypeOK, SetEnded, Status, Ended
  <1>2. CASE ~ok
    BY <1>2 DEF TypeOK, SetEnded, Status, Ended
  <1> QED
    BY <1>1, <1>2

LEMMA LeaveLoopTypes ==
    ASSUME TypeOK, NEW rest, rest \subseteq Template, LeaveLoop(rest)
    PROVE  /\ left' \subseteq Template /\ row' \in Template \cup {NoJob} /\ after' \in Nat
           /\ cronNow' \in 0..MaxTime /\ touched' \in BOOLEAN
  <1>1. 0 \in 0..MaxTime
    BY JobAssumption
  <1>2. touched' \in BOOLEAN
    BY Zenon DEF LeaveLoop
  <1> QED
    BY <1>1, <1>2, SMT DEF TypeOK, LeaveLoop

LEMMA TypeInit == Init => TypeOK /\ HasJob
  <1> SUFFICES ASSUME Init PROVE TypeOK /\ HasJob
    OBVIOUS
  <1> USE JobAssumption DEF Init
  <1>1. up \in BOOLEAN /\ touched \in BOOLEAN
    OBVIOUS
  <1>2. spawn \in [Spare -> (Template \cup {NoJob}) \X Nat]
    BY DEF NoTime
  <1>3. work \in [Job -> {"none", "ok", "failed"}]
    OBVIOUS
  <1>4. status \in [Job -> Status]
    BY DEF Status, Ended
  <1>5. HasJob
    BY DEF HasJob, Busy
  <1> QED
    BY <1>1, <1>2, <1>3, <1>4, <1>5 DEF TypeOK, Steps, Job

(* Every step keeps the types.                                             *)
LEMMA TypeStep ==
    ASSUME TypeOK, HasJob, [Next]_vars
    PROVE  TypeOK' /\ HasJob'
  <1> USE JobAssumption
  <1>0. CASE UNCHANGED vars
    BY <1>0 DEF TypeOK, HasJob, Busy, vars, rows, loop, agents, history
  <1>1. ASSUME NEW a \in Agent, GetJobs(a) PROVE TypeOK' /\ HasJob'
    <2>1. DueJobs \subseteq Job
      BY DEF DueJobs
    <2>2. touched' \in BOOLEAN
      BY <1>1, Zenon DEF GetJobs, Committed, Running
    <2> QED
      BY <1>1, <2>1, <2>2 DEF TypeOK, HasJob, Busy, GetJobs, Status, loop, Fault
  <1>2. ASSUME NEW a \in Agent, NEW j \in Job, TakeJob(a, j) PROVE TypeOK' /\ HasJob'
    BY <1>2 DEF TypeOK, HasJob, Busy, TakeJob, Steps, rows, loop
  <1>3. ASSUME NEW a \in Agent, ReportProgress(a) PROVE TypeOK' /\ HasJob'
    <2>1. touched' \in BOOLEAN
      BY <1>3, Zenon DEF TypeOK, ReportProgress, Committed, Running
    <2> QED
      BY <1>3, <2>1 DEF TypeOK, HasJob, Busy, ReportProgress, Steps, Fault, rows, loop, history
  <1>4. ASSUME NEW a \in Agent, StartJob(a) PROVE TypeOK' /\ HasJob'
    <2>1. touched' \in BOOLEAN
      BY <1>4, Zenon DEF StartJob, Committed, Running
    <2> QED
      BY <1>4, <2>1 DEF TypeOK, HasJob, Busy, StartJob, Status, loop, agents, history
  <1>5. ASSUME NEW a \in Agent, NEW ok \in BOOLEAN, WorkEnds(a, ok) PROVE TypeOK' /\ HasJob'
    BY <1>5 DEF TypeOK, HasJob, Busy, WorkEnds, Steps, rows, loop
  <1>6. ASSUME NEW a \in Agent, ReportSuccess(a) PROVE TypeOK' /\ HasJob'
    <2>1. touched' \in BOOLEAN
      BY <1>6, Zenon DEF TypeOK, ReportSuccess, Committed, Running
    <2>2. /\ status' \in [Job -> Status] /\ holder' = holder /\ due' = due /\ started' = started
          /\ error' \in [Job -> {"none", "work", "timeout"}]
      BY <1>6, SetEndedTypes DEF TypeOK, ReportSuccess, rows
    <2>3. job[a] \in Job
      BY <1>6 DEF HasJob, Busy, ReportSuccess
    <2>4. /\ apc' \in [Agent -> Steps] /\ job' \in [Agent -> Job \cup {NoJob}]
          /\ unsure' \subseteq Job /\ faults' \in 0..MaxFaults
      <3>1. apc' \in [Agent -> Steps]
        <4>1. apc' = [apc EXCEPT ![a] = "idle"] \/ apc' = [apc EXCEPT ![a] = "failed"]
          BY <1>6, Zenon DEF ReportSuccess
        <4> QED
          BY <4>1 DEF TypeOK, Steps
      <3>2. job' = [job EXCEPT ![a] = NoJob] \/ job' = job
        BY <1>6, Zenon DEF ReportSuccess
      <3>3. unsure' = unsure \/ unsure' = unsure \cup {job[a]}
        BY <1>6, Zenon DEF ReportSuccess
      <3>4. faults' = faults \/ Fault
        BY <1>6, Zenon DEF ReportSuccess
      <3> QED
        BY <2>3, <3>1, <3>2, <3>3, <3>4 DEF TypeOK, Fault
    <2>5. HasJob'
      <3>1. \/ /\ apc' = [apc EXCEPT ![a] = "idle"] /\ job' = [job EXCEPT ![a] = NoJob]
            \/ /\ apc' = [apc EXCEPT ![a] = "failed"] /\ job' = job
        BY <1>6, Zenon DEF ReportSuccess
      <3> QED
        BY <2>3, <3>1 DEF TypeOK, HasJob, Busy
    <2>6. UNCHANGED <<nextRun, unreadable, up, loop, queue, clock, begun, work,
                      stranded, spawn, cut>>
      BY <1>6 DEF ReportSuccess
    <2> QED
      BY <2>1, <2>2, <2>4, <2>5, <2>6 DEF TypeOK, loop
  <1>7. ASSUME NEW a \in Agent, ReportFailure(a) PROVE TypeOK' /\ HasJob'
    <2>1. touched' \in BOOLEAN
      BY <1>7, Zenon DEF TypeOK, ReportFailure, Committed, Running
    <2>2. /\ status' \in [Job -> Status] /\ holder' = holder /\ due' = due /\ started' = started
          /\ error' \in [Job -> {"none", "work", "timeout"}]
      BY <1>7, SetEndedTypes DEF TypeOK, ReportFailure, rows
    <2>3. job[a] \in Job
      BY <1>7 DEF HasJob, Busy, ReportFailure
    <2>4. /\ apc' \in [Agent -> Steps] /\ job' \in [Agent -> Job \cup {NoJob}]
          /\ stranded' \subseteq Job
      <3>1. apc' = [apc EXCEPT ![a] = "idle"] /\ job' = [job EXCEPT ![a] = NoJob]
        BY <1>7 DEF ReportFailure
      <3>2. stranded' = stranded \/ stranded' = stranded \cup {job[a]}
        BY <1>7, Zenon DEF ReportFailure
      <3> QED
        BY <2>3, <3>1, <3>2 DEF TypeOK, Steps
    <2>5. HasJob'
      BY <1>7 DEF TypeOK, HasJob, Busy, ReportFailure
    <2>6. UNCHANGED <<nextRun, unreadable, up, loop, queue, clock, faults, begun,
                      work, unsure, spawn, cut>>
      BY <1>7 DEF ReportFailure
    <2> QED
      BY <2>1, <2>2, <2>4, <2>5, <2>6 DEF TypeOK, loop
  <1>8. ASSUME NEW a \in Agent, AgentDies(a) PROVE TypeOK' /\ HasJob'
    BY <1>8 DEF TypeOK, HasJob, Busy, AgentDies, Steps, Fault, rows, loop
  <1>9. CASE SchedulerTick
    BY <1>9 DEF TypeOK, HasJob, Busy, SchedulerTick, Status, Ended, agents, history
  <1>10. ASSUME NEW t \in Template, CronRow(t) PROVE TypeOK' /\ HasJob'
    <2>1. clock \in Nat
      BY DEF TypeOK
    <2>2. CASE CronEnds
      BY <1>10, <2>2, LeaveLoopTypes DEF TypeOK, HasJob, Busy, CronRow, CronEnds, rows, agents
    <2>3. CASE LeaveLoop(left \ {t}) /\ UNCHANGED <<rows, spawn>>
               /\ (nextRun' = nextRun \/ nextRun' = [nextRun EXCEPT ![t] = NextDue(clock)])
      <3>1. left \ {t} \subseteq Template
        BY DEF TypeOK
      <3>2. nextRun' \in [Template -> Nat]
        BY <2>1, <2>3, NextDueLater DEF TypeOK
      <3> QED
        BY <1>10, <2>3, <3>1, <3>2, LeaveLoopTypes DEF TypeOK, HasJob, Busy, CronRow, rows, agents
    <2>4. ASSUME NEW j \in Absent,
                 status' = [status EXCEPT ![j] = "Pending"],
                 due' = [due EXCEPT ![j] = cronNow],
                 spawn' = [spawn EXCEPT ![j] = <<t, nextRun[t]>>],
                 row' = t, after' = NextDue(clock),
                 UNCHANGED <<holder, started, error, nextRun, left, cronNow, touched>>
          PROVE  TypeOK' /\ HasJob'
      <3>1. j \in Spare /\ j \in Job
        BY DEF Absent, Job
      <3>2. touched' \in BOOLEAN
        BY <2>4 DEF TypeOK
      <3>3. spawn' \in [Spare -> (Template \cup {NoJob}) \X Nat]
        BY <2>4, <3>1 DEF TypeOK
      <3>4. after' \in Nat
        BY <2>1, <2>4, NextDueLater
      <3> QED
        BY <1>10, <2>4, <3>1, <3>2, <3>3, <3>4 DEF TypeOK, HasJob, Busy, CronRow, Status, agents
    <2> QED
      BY <1>10, <2>2, <2>3, <2>4 DEF CronRow
  <1>11. CASE CronAdvance
    <2>1. clock \in Nat /\ left \ {row} \subseteq Template /\ {} \subseteq Template
      BY DEF TypeOK
    <2>2. /\ left' \subseteq Template /\ row' \in Template \cup {NoJob} /\ after' \in Nat
          /\ cronNow' \in 0..MaxTime /\ touched' \in BOOLEAN
      BY <1>11, <2>1, LeaveLoopTypes DEF CronAdvance, CronEnds
    <2>3. nextRun' \in [Template -> Nat]
      BY <1>11, <2>1 DEF TypeOK, CronAdvance, CronEnds
    <2> QED
      BY <1>11, <2>2, <2>3 DEF TypeOK, HasJob, Busy, CronAdvance, CronEnds, Latest, rows, agents
  <1>12. CASE ServerDies
    <2>1. /\ left' \subseteq Template /\ row' \in Template \cup {NoJob} /\ after' \in Nat
          /\ cronNow' \in 0..MaxTime /\ touched' \in BOOLEAN
      BY <1>12, LeaveLoopTypes DEF ServerDies, CronEnds
    <2>2. cut' \subseteq Spare
      BY <1>12 DEF TypeOK, ServerDies, Latest
    <2>3. faults' \in 0..MaxFaults
      BY <1>12 DEF TypeOK, ServerDies, Fault
    <2> QED
      BY <1>12, <2>1, <2>2, <2>3 DEF TypeOK, HasJob, Busy, ServerDies, CronEnds, rows, agents
  <1>13. CASE ServerStarts
    BY <1>13 DEF TypeOK, HasJob, Busy, ServerStarts, rows, loop, agents, history
  <1>14. CASE Tick
    BY <1>14 DEF TypeOK, HasJob, Busy, Tick, rows, loop, agents, history
  <1> QED
    BY <1>0, <1>1, <1>2, <1>3, <1>4, <1>5, <1>6, <1>7, <1>8, <1>9, <1>10, <1>11,
       <1>12, <1>13, <1>14 DEF Next, AgentStep, ServerStep

(* Every variable of JobControl keeps its type: the columns of the jobs    *)
(* table, the cron loop's locals and what an agent holds.                  *)
THEOREM TypeCorrect == Spec => []TypeOK
  <1>1. Spec => [](TypeOK /\ HasJob)
    BY TypeInit, TypeStep, PTL DEF Spec
  <1> QED
    BY <1>1, PTL

-----------------------------------------------------------------------------
(* A job waiting in an agent's queue is that agent's alone and has not     *)
(* been begun.                                                             *)
Queued ==
    \A a \in Agent : \A j \in queue[a] :
        /\ status[j] = "Assigned" /\ begun[j] = 0 /\ work[j] = "none"
        /\ \A b \in Agent : b # a => j \notin queue[b]

(* So has a job nobody was given.                                          *)
Fresh ==
    \A j \in Job : status[j] \in {"absent", "Pending"} => begun[j] = 0 /\ work[j] = "none"

(* A job at hand was begun, and no other agent has it at hand.             *)
Exclusive ==
    \A a \in Agent : Busy(a) =>
        /\ begun[job[a]] # 0
        /\ \A b \in Agent : b # a /\ Busy(b) => job[b] # job[a]

(* While an agent works on a job its row says so, or that it timed out.    *)
AtWork ==
    \A a \in Agent : apc[a] \in {"begin", "work"} =>
        /\ status[job[a]] \in {"Assigned", "InProgress", "Failed"}
        /\ status[job[a]] = "Failed" => error[job[a]] = "timeout"
        /\ apc[a] = "begin" => work[job[a]] = "none"

(* What an agent is about to report is how the work ended.                 *)
Reports ==
    \A a \in Agent :
        /\ apc[a] = "done" => work[job[a]] = "ok"
        /\ apc[a] = "failed" => work[job[a]] # "ok" \/ job[a] \in unsure

JobInv ==
    /\ Queued /\ Fresh /\ AtMostOnce /\ Exclusive /\ AtWork /\ Reports
    /\ RowTellsOutcome

(* The cron loop is at a template that is due, and will set it to a later  *)
(* due time; what was inserted for a template, and was not cut off, was    *)
(* inserted for an earlier due time than its next.                         *)
CronInv ==
    /\ cronNow <= clock
    /\ row # NoJob => nextRun[row] <= cronNow /\ nextRun[row] < after
    /\ \A j \in Spare : spawn[j] # NoTime =>
         /\ spawn[j][1] \in Template
         /\ \/ j \in cut
            \/ spawn[j][2] < nextRun[spawn[j][1]]
            \/ row = spawn[j][1] /\ spawn[j][2] = nextRun[row]
    /\ CronOnce

-----------------------------------------------------------------------------
LEMMA JobInit == ASSUME Init, TypeOK PROVE JobInv
  <1>1. \A j \in Job : status[j] \in {"absent", "Pending", "Completed"}
                       /\ (status[j] = "Completed" => work[j] = "ok")
                       /\ (status[j] # "Completed" => work[j] = "none")
                       /\ begun[j] = 0
    BY DEF Init
  <1>2. \A a \in Agent : apc[a] = "idle" /\ queue[a] = {}
    BY DEF Init
  <1> QED
    BY <1>1, <1>2
       DEF JobInv, Queued, Fresh, AtMostOnce, Exclusive, AtWork, Reports, RowTellsOutcome, Busy

(* Steps that touch neither a row nor an agent.                            *)
LEMMA JobFrame ==
    ASSUME TypeOK, TypeOK', JobInv, clock <= clock',
           UNCHANGED <<status, started, error, queue, apc, job, begun, work, unsure>>
    PROVE  JobInv'
  <1>1. Queued' /\ Fresh' /\ AtMostOnce' /\ Exclusive' /\ AtWork' /\ Reports'
    BY DEF JobInv, Queued, Fresh, AtMostOnce, Exclusive, AtWork, Reports, Busy
  <1>2. RowTellsOutcome'
    BY JobAssumption DEF JobInv, RowTellsOutcome, TypeOK
  <1> QED
    BY <1>1, <1>2 DEF JobInv

(* The report of an agent on the job it has at hand.                       *)
LEMMA SetEndedKeeps ==
    ASSUME TypeOK, JobInv, NEW j \in Job, NEW ok \in BOOLEAN, SetEnded(j, ok),
           begun[j] # 0,
           ok => work[j] = "ok",
           ~ok => work[j] # "ok" \/ j \in unsure,
           \A b \in Agent : apc[b] \in {"begin", "work"} => job[b] # j
    PROVE  /\ \A k \in Job \ {j} : status'[k] = status[k] /\ error'[k] = error[k]
           /\ status'[j] \in Ended /\ error'[j] # "timeout"
           /\ status'[j] = "Completed" => ok
           /\ \A a \in Agent : j \notin queue[a]
           /\ started' = started
  <1>1. \A a \in Agent : j \notin queue[a]
    BY DEF JobInv, Queued
  <1>2. CASE ok
    BY <1>1, <1>2 DEF TypeOK, SetEnded, Ended
  <1>3. CASE ~ok
    BY <1>1, <1>3 DEF TypeOK, SetEnded, Ended
  <1> QED
    BY <1>2, <1>3

(* Every step keeps what the jobs, the rows and the agents say of each     *)
(* other.                                                                  *)
LEMMA JobStep ==
    ASSUME TypeOK, TypeOK', HasJob, JobInv, [Next]_vars
    PROVE  JobInv'
  <1> USE JobAssumption
  <1> USE DEF JobInv
  <1>0. CASE UNCHANGED vars
    BY <1>0, JobFrame DEF vars, rows, agents, history, TypeOK
  <1>1. ASSUME NEW a \in Agent, GetJobs(a) PROVE JobInv'
    <2>1. /\ DueJobs \subseteq Job
          /\ \A j \in DueJobs : status[j] = "Pending" /\ begun[j] = 0 /\ work[j] = "none"
      BY DEF DueJobs, Fresh
    <2>2. /\ queue[a] = {}
          /\ \A j \in Job : status'[j] = IF j \in DueJobs THEN "Assigned" ELSE status[j]
          /\ queue' = [queue EXCEPT ![a] = DueJobs] \/ queue' = queue
          /\ UNCHANGED <<error, started, apc, job, clock, begun, work, unsure>>
      BY <1>1 DEF GetJobs
    <2>3. \A b \in Agent : queue[b] \cap DueJobs = {}
      BY <2>1 DEF Queued
    <2>4. Queued'
      <3>1. \A b \in Agent : queue'[b] = queue[b] \/ (b = a /\ queue'[b] = DueJobs)
        BY <2>2 DEF TypeOK
      <3>2. \A b \in Agent : \A j \in queue'[b] :
              j \in Job /\ status'[j] = "Assigned" /\ begun[j] = 0 /\ work[j] = "none"
        BY <2>1, <2>2, <3>1 DEF Queued, TypeOK
      <3>3. \A b, d \in Agent : \A j \in queue'[b] : d # b => j \notin queue'[d]
        BY <2>2, <2>3, <3>1 DEF Queued
      <3> QED
        BY <2>2, <3>2, <3>3 DEF Queued
    <2>5. Fresh' /\ AtMostOnce' /\ Exclusive' /\ Reports'
      BY <2>1, <2>2 DEF Fresh, AtMostOnce, Exclusive, Reports, Busy, TypeOK
    <2>6. AtWork'
      <3>1. \A b \in Agent : apc[b] \in {"begin", "work"} => job[b] \in Job /\ job[b] \notin DueJobs
        BY <2>1 DEF HasJob, Exclusive, Busy
      <3> QED
        BY <2>2, <3>1 DEF AtWork
    <2>7. RowTellsOutcome'
      BY <2>1, <2>2 DEF RowTellsOutcome
    <2> QED
      BY <2>4, <2>5, <2>6, <2>7
  <1>2. ASSUME NEW a \in Agent, NEW j \in Job, TakeJob(a, j) PROVE JobInv'
    <2>1. /\ apc[a] = "idle" /\ j \in queue[a]
          /\ queue' = [queue EXCEPT ![a] = @ \ {j}]
          /\ job' = [job EXCEPT ![a] = j] /\ apc' = [apc EXCEPT ![a] = "begin"]
          /\ begun' = [begun EXCEPT ![j] = @ + 1]
          /\ UNCHANGED <<status, started, error, clock, work, unsure>>
      BY <1>2 DEF TakeJob, rows
    <2>2. status[j] = "Assigned" /\ begun[j] = 0 /\ work[j] = "none"
          /\ \A b \in Agent : b # a => j \notin queue[b]
      BY <2>1 DEF Queued
    <2>3. Queued'
      BY <2>1, <2>2 DEF Queued, TypeOK
    <2>4. Fresh' /\ AtMostOnce'
      BY <2>1, <2>2 DEF Fresh, AtMostOnce, TypeOK
    <2>5. Exclusive'
      <3>1. \A b \in Agent : Busy(b) => job[b] # j
        BY <2>2 DEF Exclusive
      <3> QED
        BY <2>1, <2>2, <3>1 DEF Exclusive, Busy, TypeOK, HasJob
    <2>6. AtWork' /\ Reports'
      BY <2>1, <2>2 DEF AtWork, Reports, TypeOK
    <2>7. RowTellsOutcome'
      BY <2>1 DEF RowTellsOutcome
    <2> QED
      BY <2>3, <2>4, <2>5, <2>6, <2>7
  <1>3. ASSUME NEW a \in Agent, ReportProgress(a) PROVE JobInv'
    <2>1. /\ apc[a] = "begin"
          /\ \/ apc' = [apc EXCEPT ![a] = "work"]
             \/ apc' = [apc EXCEPT ![a] = "failed"]
          /\ UNCHANGED <<status, started, error, queue, job, clock, begun, work, unsure>>
      BY <1>3, Zenon DEF ReportProgress, rows, history
    <2>2. Queued' /\ Fresh' /\ AtMostOnce' /\ RowTellsOutcome'
      BY <2>1 DEF Queued, Fresh, AtMostOnce, RowTellsOutcome
    <2>3. Exclusive'
      BY <2>1 DEF Exclusive, Busy, TypeOK
    <2>4. AtWork' /\ Reports'
      BY <2>1 DEF AtWork, Reports, TypeOK
    <2> QED
      BY <2>2, <2>3, <2>4
  <1>4. ASSUME NEW a \in Agent, StartJob(a) PROVE JobInv'
    <2>1. /\ apc[a] = "begin" /\ job[a] \in Job /\ status[job[a]] = "Assigned"
          /\ status' = [status EXCEPT ![job[a]] = "InProgress"]
          /\ started' = [started EXCEPT ![job[a]] = clock]
          /\ UNCHANGED <<error, queue, apc, job, clock, begun, work, unsure>>
      BY <1>4 DEF StartJob, WillStart, agents, history, HasJob, Busy
    <2>2. \A b \in Agent : job[a] \notin queue[b]
      BY <2>1 DEF Queued, Exclusive, Busy
    <2>3. Queued' /\ Fresh' /\ AtMostOnce' /\ Exclusive' /\ Reports'
      BY <2>1, <2>2 DEF Queued, Fresh, AtMostOnce, Exclusive, Reports, Busy, TypeOK
    <2>4. AtWork'
      BY <2>1 DEF AtWork, Exclusive, Busy, TypeOK, HasJob
    <2>5. RowTellsOutcome'
      BY <2>1 DEF RowTellsOutcome, TypeOK
    <2> QED
      BY <2>3, <2>4, <2>5
  <1>5. ASSUME NEW a \in Agent, NEW ok \in BOOLEAN, WorkEnds(a, ok) PROVE JobInv'
    <2>1. /\ apc[a] = "work" /\ job[a] \in Job
          /\ \/ apc' = [apc EXCEPT ![a] = "done"] /\ work' = [work EXCEPT ![job[a]] = "ok"]
             \/ apc' = [apc EXCEPT ![a] = "failed"] /\ work' = [work EXCEPT ![job[a]] = "failed"]
          /\ UNCHANGED <<status, started, error, queue, job, clock, begun, unsure>>
      BY <1>5 DEF WorkEnds, rows, HasJob, Busy
    <2>2. /\ begun[job[a]] # 0
          /\ \A b \in Agent : job[a] \notin queue[b]
          /\ \A b \in Agent : b # a /\ Busy(b) => job[b] # job[a]
      BY <2>1 DEF Queued, Exclusive, Busy
    <2>3. Queued' /\ Fresh' /\ AtMostOnce'
      BY <2>1, <2>2 DEF Queued, Fresh, AtMostOnce, TypeOK
    <2>4. Exclusive'
      BY <2>1, <2>2 DEF Exclusive, Busy, TypeOK
    <2>5. AtWork' /\ Reports'
      BY <2>1, <2>2 DEF AtWork, Reports, TypeOK, HasJob, Busy
    <2>6. RowTellsOutcome'
      BY <2>1 DEF RowTellsOutcome, AtWork, TypeOK
    <2> QED
      BY <2>3, <2>4, <2>5, <2>6
  <1>6. ASSUME NEW a \in Agent, ReportSuccess(a) PROVE JobInv'
    <2>1. /\ apc[a] = "done" /\ Busy(a) /\ job[a] \in Job /\ work[job[a]] = "ok"
          /\ UNCHANGED <<queue, clock, begun, work>>
      BY <1>6 DEF ReportSuccess, HasJob, Busy, Reports
    <2>2. begun[job[a]] # 0 /\ \A b \in Agent : b # a /\ Busy(b) => job[b] # job[a]
      BY <2>1 DEF Exclusive
    <2>3. \/ SetEnded(job[a], TRUE)
          \/ UNCHANGED <<status, started, error>>
      BY <1>6 DEF ReportSuccess, rows
    <2>4. \/ /\ SetEnded(job[a], TRUE) /\ unsure' = unsure
             /\ apc' = [apc EXCEPT ![a] = "idle"] /\ job' = [job EXCEPT ![a] = NoJob]
          \/ /\ unsure' = unsure \cup {job[a]}
             /\ apc' = [apc EXCEPT ![a] = "failed"] /\ job' = job
      BY <1>6, Zenon DEF ReportSuccess
    <2>5. /\ \A k \in Job \ {job[a]} : status'[k] = status[k] /\ error'[k] = error[k]
          /\ \/ status'[job[a]] \in Ended /\ error'[job[a]] # "timeout"
             \/ status'[job[a]] = status[job[a]] /\ error'[job[a]] = error[job[a]]
          /\ \A b \in Agent : job[a] \notin queue[b]
          /\ started' = started
      <3>1. CASE SetEnded(job[a], TRUE)
        BY <2>1, <2>2, <3>1, SetEndedKeeps DEF Busy
      <3>2. CASE UNCHANGED <<status, started, error>>
        BY <2>2, <3>2 DEF Queued
      <3> QED
        BY <2>3, <3>1, <3>2
    <2>6. status'[job[a]] = "Failed" => status[job[a]] = "Failed" /\ error'[job[a]] = error[job[a]]
      BY <2>1, <2>3 DEF SetEnded, TypeOK
    <2>7. Queued'
      BY <2>1, <2>5 DEF Queued, TypeOK
    <2>8. Fresh' /\ AtMostOnce'
      BY <2>1, <2>2, <2>5 DEF Fresh, AtMostOnce, Ended
    <2>9. /\ \A b \in Agent \ {a} : apc'[b] = apc[b] /\ job'[b] = job[b]
          /\ apc'[a] \in {"idle", "failed"}
          /\ apc'[a] = "failed" => job'[a] = job[a] /\ job[a] \in unsure'
          /\ unsure \subseteq unsure'
      <3>1. CASE /\ apc' = [apc EXCEPT ![a] = "idle"] /\ job' = [job EXCEPT ![a] = NoJob]
                 /\ unsure' = unsure
        BY <3>1 DEF TypeOK
      <3>2. CASE /\ apc' = [apc EXCEPT ![a] = "failed"] /\ job' = job
                 /\ unsure' = unsure \cup {job[a]}
        BY <3>2 DEF TypeOK
      <3> QED
        BY <2>4, <3>1, <3>2
    <2>10. Exclusive'
      BY <2>1, <2>2, <2>9 DEF Exclusive, Busy
    <2>11. AtWork'
      BY <2>1, <2>2, <2>5, <2>9 DEF AtWork, HasJob, Busy
    <2>12. Reports'
      BY <2>1, <2>9 DEF Reports
    <2>13. RowTellsOutcome'
      BY <2>1, <2>4, <2>5, <2>6 DEF RowTellsOutcome
    <2> QED
      BY <2>7, <2>8, <2>10, <2>11, <2>12, <2>13
  <1>7. ASSUME NEW a \in Agent, ReportFailure(a) PROVE JobInv'
    <2>1. /\ apc[a] = "failed" /\ Busy(a) /\ job[a] \in Job
          /\ work[job[a]] # "ok" \/ job[a] \in unsure
          /\ apc' = [apc EXCEPT ![a] = "idle"] /\ job' = [job EXCEPT ![a] = NoJob]
          /\ UNCHANGED <<queue, clock, begun, work, unsure>>
      BY <1>7 DEF ReportFailure, HasJob, Busy, Reports
    <2>2. begun[job[a]] # 0 /\ \A b \in Agent : b # a /\ Busy(b) => job[b] # job[a]
      BY <2>1 DEF Exclusive
    <2>3. SetEnded(job[a], FALSE) \/ UNCHANGED <<status, started, error>>
      BY <1>7 DEF ReportFailure, rows
    <2>4. /\ \A k \in Job \ {job[a]} : status'[k] = status[k] /\ error'[k] = error[k]
          /\ \/ status'[job[a]] = "Failed" /\ error'[job[a]] # "timeout"
             \/ status'[job[a]] = status[job[a]] /\ error'[job[a]] = error[job[a]]
          /\ \A b \in Agent : job[a] \notin queue[b]
          /\ started' = started
      <3>1. CASE SetEnded(job[a], FALSE)
        BY <2>1, <2>2, <3>1, SetEndedKeeps DEF Busy, Ended
      <3>2. CASE UNCHANGED <<status, started, error>>
        BY <2>2, <3>2 DEF Queued
      <3> QED
        BY <2>3, <3>1, <3>2
    <2>5. Queued'
      BY <2>1, <2>4 DEF Queued, TypeOK
    <2>6. Fresh' /\ AtMostOnce'
      BY <2>1, <2>2, <2>4 DEF Fresh, AtMostOnce
    <2>7. Exclusive'
      BY <2>1, <2>2 DEF Exclusive, Busy, TypeOK
    <2>8. AtWork' /\ Reports'
      BY <2>1, <2>2, <2>4 DEF AtWork, Reports, TypeOK, HasJob, Busy
    <2>9. RowTellsOutcome'
      BY <2>1, <2>4 DEF RowTellsOutcome
    <2> QED
      BY <2>5, <2>6, <2>7, <2>8, <2>9
  <1>8. ASSUME NEW a \in Agent, AgentDies(a) PROVE JobInv'
    <2>1. /\ apc' = [apc EXCEPT ![a] = "dead"] /\ queue' = [queue EXCEPT ![a] = {}]
          /\ job' = [job EXCEPT ![a] = NoJob]
          /\ UNCHANGED <<status, started, error, clock, begun, work, unsure>>
      BY <1>8 DEF AgentDies, rows
    <2>2. Queued' /\ Fresh' /\ AtMostOnce' /\ RowTellsOutcome'
      BY <2>1 DEF Queued, Fresh, AtMostOnce, RowTellsOutcome, TypeOK
    <2>3. Exclusive' /\ AtWork' /\ Reports'
      BY <2>1 DEF Exclusive, AtWork, Reports, Busy, TypeOK
    <2> QED
      BY <2>2, <2>3
  <1>9. CASE SchedulerTick
    <2>1. /\ \A j \in Job : IF Stale(j) THEN status'[j] = "Failed" /\ error'[j] = "timeout"
                                        ELSE status'[j] = status[j] /\ error'[j] = error[j]
          /\ UNCHANGED <<started, queue, apc, job, clock, begun, work, unsure>>
      BY <1>9 DEF SchedulerTick, agents, history
    <2>2. \A j \in Job : Stale(j) => status[j] = "InProgress" /\ started[j] + StaleAfter <= clock
      BY DEF Stale
    <2>3. Queued' /\ Fresh' /\ AtMostOnce'
      BY <2>1, <2>2 DEF Queued, Fresh, AtMostOnce, TypeOK
    <2>4. Exclusive' /\ Reports'
      BY <2>1 DEF Exclusive, Reports, Busy
    <2>5. AtWork'
      BY <2>1, <2>2 DEF AtWork, HasJob, Busy
    <2>6. RowTellsOutcome'
      BY <2>1, <2>2 DEF RowTellsOutcome
    <2> QED
      BY <2>3, <2>4, <2>5, <2>6
  <1>10. ASSUME NEW t \in Template, CronRow(t) PROVE JobInv'
    <2>1. UNCHANGED <<started, error, queue, apc, job, clock, begun, work, unsure>>
      BY <1>10 DEF CronRow, CronEnds, rows, agents
    <2>2. CASE status' = status
      BY <2>1, <2>2, JobFrame DEF TypeOK
    <2>3. ASSUME NEW j \in Absent, status' = [status EXCEPT ![j] = "Pending"]
          PROVE  JobInv'
      <3>1. j \in Job /\ status[j] = "absent" /\ begun[j] = 0 /\ work[j] = "none"
        BY DEF Absent, Job, Fresh
      <3>2. Queued' /\ Fresh' /\ AtMostOnce'
        BY <2>1, <2>3, <3>1 DEF Queued, Fresh, AtMostOnce, TypeOK
      <3>3. Exclusive' /\ Reports'
        BY <2>1 DEF Exclusive, Reports, Busy
      <3>4. AtWork'
        BY <2>1, <2>3, <3>1 DEF AtWork, HasJob, Busy, TypeOK
      <3>5. RowTellsOutcome'
        BY <2>1, <2>3, <3>1 DEF RowTellsOutcome, TypeOK
      <3> QED
        BY <3>2, <3>3, <3>4, <3>5
    <2> QED
      BY <1>10, <2>2, <2>3 DEF CronRow, CronEnds, rows
  <1>11. CASE CronAdvance
    BY <1>11, JobFrame DEF CronAdvance, CronEnds, rows, agents, TypeOK
  <1>12. CASE ServerDies
    BY <1>12, JobFrame DEF ServerDies, CronEnds, rows, agents, TypeOK
  <1>13. CASE ServerStarts
    BY <1>13, JobFrame DEF ServerStarts, rows, agents, history, TypeOK
  <1>14. CASE Tick
    BY <1>14, JobFrame DEF Tick, rows, agents, history, TypeOK
  <1> QED
    BY <1>0, <1>1, <1>2, <1>3, <1>4, <1>5, <1>6, <1>7, <1>8, <1>9, <1>10, <1>11,
       <1>12, <1>13, <1>14 DEF Next, AgentStep, ServerStep

THEOREM JobInvHolds == Spec => []JobInv
  <1>1. Spec => [](TypeOK /\ HasJob)
    BY TypeInit, TypeStep, PTL DEF Spec
  <1>2. Init => JobInv
    BY TypeInit, JobInit
  <1> QED
    BY <1>1, <1>2, JobStep, PTL DEF Spec

(* A job row is begun at most once.                                        *)
THEOREM AlwaysAtMostOnce == Spec => []AtMostOnce
  <1>1. JobInv => AtMostOnce
    BY DEF JobInv
  <1> QED
    BY <1>1, JobInvHolds, PTL

(* A finished row says of the work what became of it.                      *)
THEOREM AlwaysRowTellsOutcome == Spec => []RowTellsOutcome
  <1>1. JobInv => RowTellsOutcome
    BY DEF JobInv
  <1> QED
    BY <1>1, JobInvHolds, PTL

-----------------------------------------------------------------------------
LEMMA CronInit == ASSUME Init PROVE CronInv
  BY DEF Init, CronInv, CronOnce

(* Steps that do not touch the cron loop.                                  *)
LEMMA CronFrame ==
    ASSUME TypeOK, TypeOK', CronInv, clock <= clock',
           UNCHANGED <<loop, nextRun, spawn, cut>>
    PROVE  CronInv'
  BY JobAssumption DEF CronInv, CronOnce, loop, TypeOK

(* The loop leaves a row, and with it no insert that is neither cut off    *)
(* nor before the next due time.                                           *)
LEMMA CronLeaves ==
    ASSUME TypeOK, TypeOK', CronInv, NEW rest, LeaveLoop(rest),
           clock' = clock, spawn' = spawn, cut \subseteq cut',
           \A t \in Template : nextRun[t] <= nextRun'[t],
           row # NoJob => \/ nextRun[row] < nextRun'[row]
                          \/ Latest(row) \subseteq cut'
    PROVE  CronInv'
  <1>1. cronNow' <= clock' /\ row' = NoJob
    BY JobAssumption DEF LeaveLoop, CronInv, TypeOK
  <1>2. ASSUME NEW j \in Spare, spawn[j] # NoTime
        PROVE  /\ spawn[j][1] \in Template
               /\ j \in cut' \/ spawn[j][2] < nextRun'[spawn[j][1]]
    <2>1. /\ spawn[j][1] \in Template /\ spawn[j][1] # NoJob
          /\ spawn[j] = <<spawn[j][1], spawn[j][2]>> /\ spawn[j][2] \in Nat
          /\ nextRun[spawn[j][1]] \in Nat /\ nextRun'[spawn[j][1]] \in Nat
          /\ nextRun[spawn[j][1]] <= nextRun'[spawn[j][1]]
      BY <1>2, JobAssumption DEF CronInv, TypeOK, Job
    <2>2. CASE j \in cut
      BY <2>1, <2>2
    <2>3. CASE spawn[j][2] < nextRun[spawn[j][1]]
      BY <2>1, <2>3
    <2>4. CASE row = spawn[j][1] /\ spawn[j][2] = nextRun[row]
      BY <2>1, <2>4 DEF Latest
    <2> QED
      BY <1>2, <2>2, <2>3, <2>4 DEF CronInv
  <1>3. CronOnce'
    BY DEF CronInv, CronOnce
  <1> QED
    BY <1>1, <1>2, <1>3 DEF CronInv

LEMMA CronStep ==
    ASSUME TypeOK, TypeOK', CronInv, [Next]_vars
    PROVE  CronInv'
  <1> USE JobAssumption
  <1>0. CASE UNCHANGED vars
    BY <1>0, CronFrame DEF vars, loop, history, TypeOK
  <1>1. ASSUME NEW a \in Agent, AgentStep(a) \/ AgentDies(a) PROVE CronInv'
    <2>1. UNCHANGED <<loop, nextRun, spawn, cut, clock>>
      BY <1>1 DEF AgentStep, GetJobs, TakeJob, ReportProgress, StartJob, WorkEnds,
                  ReportSuccess, ReportFailure, AgentDies, history
    <2> QED
      BY <2>1, CronFrame DEF TypeOK
  <1>2. CASE SchedulerTick
    <2>1. row = NoJob /\ UNCHANGED <<nextRun, row, after, clock, spawn, cut>> /\ cronNow' = clock
      BY <1>2 DEF SchedulerTick, Running, history
    <2> QED
      BY <2>1 DEF CronInv, CronOnce, TypeOK
  <1>3. ASSUME NEW t \in Template, CronRow(t) PROVE CronInv'
    <2>1. row = NoJob /\ clock' = clock /\ cut' = cut /\ clock \in Nat
      BY <1>3 DEF CronRow, TypeOK
    <2>2. CASE CronEnds
      BY <2>1, <2>2, CronLeaves DEF CronEnds, TypeOK
    <2>3. CASE LeaveLoop(left \ {t}) /\ UNCHANGED <<nextRun, spawn>>
      BY <2>1, <2>3, CronLeaves DEF TypeOK
    <2>4. CASE /\ LeaveLoop(left \ {t}) /\ spawn' = spawn /\ nextRun[t] = 0
               /\ nextRun' = [nextRun EXCEPT ![t] = NextDue(clock)]
      <3>1. \A u \in Template : nextRun[u] <= nextRun'[u]
        BY <2>1, <2>4, NextDueLater DEF TypeOK
      <3> QED
        BY <2>1, <2>4, <3>1, CronLeaves
    <2>5. ASSUME NEW j \in Absent, IsDue(t),
                 spawn' = [spawn EXCEPT ![j] = <<t, nextRun[t]>>],
                 row' = t, after' = NextDue(clock), UNCHANGED <<nextRun, cronNow>>
          PROVE  CronInv'
      <3>1. j \in Spare /\ t # NoJob /\ nextRun[t] \in Nat /\ nextRun[t] # 0
            /\ nextRun[t] <= cronNow
        BY <2>5 DEF Absent, Job, IsDue, TypeOK
      <3>2. \A i \in Spare \ {j} : spawn'[i] = spawn[i]
        BY <2>5 DEF TypeOK
      <3>3. spawn'[j] = <<t, nextRun[t]>>
        BY <2>5, <3>1 DEF TypeOK
      <3>4. \A i \in Spare \ {j} : spawn[i] = <<t, nextRun[t]>> => i \in cut
        <4> SUFFICES ASSUME NEW i \in Spare \ {j}, spawn[i] = <<t, nextRun[t]>>, i \notin cut
                     PROVE  FALSE
          OBVIOUS
        <4>1. spawn[i] # NoTime /\ spawn[i][1] = t /\ spawn[i][2] = nextRun[t]
          BY <3>1 DEF NoTime
        <4>2. spawn[i][2] < nextRun[spawn[i][1]] \/ row = spawn[i][1]
          BY <4>1 DEF CronInv
        <4> QED
          BY <2>1, <3>1, <4>1, <4>2
      <3>5. CronOnce'
        BY <2>1, <3>2, <3>3, <3>4 DEF CronInv, CronOnce
      <3>6. \A i \in Spare : spawn'[i] # NoTime =>
              /\ spawn'[i][1] \in Template
              /\ \/ i \in cut'
                 \/ spawn'[i][2] < nextRun'[spawn'[i][1]]
                 \/ row' = spawn'[i][1] /\ spawn'[i][2] = nextRun'[row']
        <4>1. ASSUME NEW i \in Spare \ {j}, spawn[i] # NoTime
              PROVE  /\ spawn[i][1] \in Template /\ spawn[i][1] # NoJob
                     /\ i \in cut \/ spawn[i][2] < nextRun[spawn[i][1]]
          BY <2>1, <4>1 DEF CronInv, Job
        <4>2. ASSUME NEW i \in Spare, i # j, spawn'[i] # NoTime
              PROVE  /\ spawn'[i][1] \in Template
                     /\ i \in cut' \/ spawn'[i][2] < nextRun'[spawn'[i][1]]
          <5>1. spawn'[i] = spawn[i] /\ nextRun' = nextRun /\ cut' = cut
            BY <2>1, <2>5, <3>2, <4>2
          <5> QED
            BY <4>1, <4>2, <5>1
        <4>3. spawn'[j][1] = t /\ spawn'[j][2] = nextRun[t]
          BY <3>3
        <4>4. row' = spawn'[j][1] /\ spawn'[j][2] = nextRun'[row']
          BY <2>5, <4>3
        <4> QED
          BY <4>2, <4>3, <4>4
      <3>7. cronNow' <= clock' /\ nextRun'[row'] <= cronNow' /\ nextRun'[row'] < after'
        <4>1. cronNow <= clock /\ cronNow \in Nat /\ after' > clock /\ after' \in Nat
          BY <2>1, <2>5, NextDueLater DEF CronInv, TypeOK
        <4> QED
          BY <2>1, <2>5, <3>1, <4>1
      <3> QED
        BY <3>5, <3>6, <3>7 DEF CronInv
    <2> QED
      BY <1>3, <2>2, <2>3, <2>4, <2>5 DEF CronRow
  <1>4. CASE CronAdvance
    <2>1. row # NoJob /\ row \in Template /\ clock' = clock
          /\ nextRun[row] \in Nat /\ after \in Nat /\ nextRun[row] < after
      BY <1>4 DEF CronAdvance, CronInv, TypeOK
    <2>2. CASE CronEnds /\ cut' = cut \cup Latest(row)
      BY <2>1, <2>2, CronLeaves DEF CronEnds, TypeOK
    <2>3. CASE /\ nextRun' = [nextRun EXCEPT ![row] = after]
               /\ LeaveLoop(left \ {row}) /\ spawn' = spawn /\ cut' = cut
      <3>1. /\ \A u \in Template : nextRun[u] <= nextRun'[u]
            /\ nextRun[row] < nextRun'[row]
        BY <2>1, <2>3 DEF TypeOK
      <3> QED
        BY <2>1, <2>3, <3>1, CronLeaves
    <2> QED
      BY <1>4, <2>2, <2>3 DEF CronAdvance
  <1>5. CASE ServerDies
    <2>1. CronEnds /\ clock' = clock /\ cut \subseteq cut'
          /\ (row # NoJob => Latest(row) \subseteq cut')
      BY <1>5 DEF ServerDies
    <2> QED
      BY <2>1, CronLeaves DEF CronEnds, TypeOK
  <1>6. CASE ServerStarts
    BY <1>6, CronFrame DEF ServerStarts, history, TypeOK
  <1>7. CASE Tick
    BY <1>7, CronFrame DEF Tick, history, TypeOK
  <1> QED
    BY <1>0, <1>1, <1>2, <1>3, <1>4, <1>5, <1>6, <1>7 DEF Next, ServerStep

(* The cron loop inserts one job for a due time of a template, but for     *)
(* those it was cut off from advancing.                                    *)
THEOREM AlwaysCronOnce == Spec => []CronOnce
  <1>1. Spec => [](TypeOK /\ HasJob)
    BY TypeInit, TypeStep, PTL DEF Spec
  <1>2. CronInv => CronOnce
    BY DEF CronInv
  <1> QED
    BY <1>1, <1>2, CronInit, CronStep, PTL DEF Spec
=============================================================================
