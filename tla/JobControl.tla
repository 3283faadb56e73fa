----------------------------- MODULE JobControl -----------------------------
(***************************************************************************)
(* The control plane: the jobs table of lazarus-server, its scheduler      *)
(* thread and the polling loop of lazarus-agent.                           *)
(*                                                                         *)
(* Every RPC is one action: the server's statement commits, and the reply  *)
(* arrives or is lost.  The cron loop is not one transaction, so each      *)
(* statement of it that commits is an action.  Its SELECT stays open while *)
(* it writes: when another connection has committed since, SQLite refuses  *)
(* the write at once (SQLITE_BUSY_SNAPSHOT) and the loop ends.             *)
(*                                                                         *)
(* Time is counted in units of which StaleAfter make 24 hours and Period   *)
(* make one cron period.  An agent identifier is drawn when the process    *)
(* starts and dies with it.                                                *)
(***************************************************************************)
EXTENDS Integers

CONSTANTS
    Agent,        \* agent processes
    Listed,       \* those the operator gave a row in the agents table:
                  \* nothing in src/ writes it
    Starters,     \* clients that use the StartJob call: the agent in src/ does not
    Template,     \* rows with a schedule_cron, inserted by the operator
    InvalidCron,  \* templates whose expression does not parse
    OneOff,       \* templates that are inserted as Pending jobs of their own
    Spare,        \* identifiers of the rows the server inserts
    Period, StaleAfter,
    MaxTime,      \* bound on the clock
    MaxFaults,    \* bound on lost replies and crashes
    NoAgent, NoJob

Job == Template \cup Spare

ASSUME JobAssumption ==
    /\ Starters \subseteq Agent /\ Listed \subseteq Agent
    /\ InvalidCron \subseteq Template /\ OneOff \subseteq Template
    /\ Template \cap Spare = {} /\ NoJob \notin Job /\ NoAgent \notin Agent
    /\ {Period, StaleAfter} \subseteq Nat \ {0} /\ {MaxTime, MaxFaults} \subseteq Nat

VARIABLES
    status, holder, due, started, error,  \* columns of jobs
    nextRun,     \* next_run of a template, 0 for NULL
    unreadable   \* templates with a column job_from_row cannot parse
rows == <<status, holder, due, started, error>>

VARIABLES
    up,          \* the server process runs
    left,        \* templates the cron loop has still to visit
    row,         \* template whose next_run is about to be advanced
    after,       \* to this: next_after, computed before the insert
    cronNow,     \* the `now' of the cron loop
    touched      \* another connection committed since the loop's SELECT
loop == <<left, row, after, cronNow>>

VARIABLES
    apc,         \* idle, begin, work, done (report success), failed, dead
    queue,       \* jobs of the last reply not yet begun
    job          \* job at hand
agents == <<apc, queue, job>>

VARIABLES
    clock, faults,
    begun,       \* history: how often each job was begun
    work,        \* history: how the work of a job ended
    unsure,      \* history: jobs whose report of success got no answer
    stranded,    \* history: jobs that a fault left without an agent
    spawn,       \* history: template and due time a row was inserted for
    cut          \* history: inserts whose next_run was not advanced
history == <<begun, work, unsure, stranded, spawn, cut>>

vars == <<rows, nextRun, unreadable, up, loop, touched, agents,
          clock, faults, history>>

Ended == {"Completed", "Failed"}
Status == {"absent", "Pending", "Assigned", "InProgress"} \cup Ended
Steps == {"idle", "begin", "work", "done", "failed", "dead"}

TypeOK ==
    /\ status \in [Job -> Status] /\ holder \in [Job -> Agent \cup {NoAgent}]
    /\ due \in [Job -> 0..MaxTime] /\ started \in [Job -> 0..MaxTime]
    /\ error \in [Job -> {"none", "work", "timeout"}]
    /\ nextRun \in [Template -> Nat]
    /\ unreadable \subseteq Template
    /\ up \in BOOLEAN /\ touched \in BOOLEAN /\ cronNow \in 0..MaxTime
    /\ left \subseteq Template /\ row \in Template \cup {NoJob} /\ after \in Nat
    /\ apc \in [Agent -> Steps] /\ queue \in [Agent -> SUBSET Job]
    /\ job \in [Agent -> Job \cup {NoJob}]
    /\ clock \in 0..MaxTime /\ faults \in 0..MaxFaults
    /\ begun \in [Job -> Nat] /\ work \in [Job -> {"none", "ok", "failed"}]
    /\ unsure \subseteq Job /\ stranded \subseteq Job
    /\ spawn \in [Spare -> (Template \cup {NoJob}) \X Nat] /\ cut \subseteq Spare

NoTime == <<NoJob, 0>>

Init ==
    /\ status = [j \in Job |-> IF j \in Spare THEN "absent" ELSE
                               IF j \in OneOff THEN "Pending" ELSE "Completed"]
    /\ holder = [j \in Job |-> NoAgent] /\ error = [j \in Job |-> "none"]
    /\ due = [j \in Job |-> 0] /\ started = [j \in Job |-> 0]
    /\ nextRun = [t \in Template |-> 0]
    /\ unreadable \in SUBSET InvalidCron
    /\ up = TRUE /\ left = {} /\ row = NoJob /\ after = 0 /\ cronNow = 0
    /\ touched = FALSE
    /\ apc = [a \in Agent |-> "idle"] /\ queue = [a \in Agent |-> {}]
    /\ job = [a \in Agent |-> NoJob]
    /\ clock = 0 /\ faults = 0
    /\ begun = [j \in Job |-> 0] /\ unsure = {} /\ stranded = {} /\ cut = {}
    /\ work = [j \in Job |-> IF status[j] = "Completed" THEN "ok" ELSE "none"]
    /\ spawn = [j \in Spare |-> NoTime]

Fault == faults < MaxFaults /\ faults' = faults + 1
Running == left # {} \/ row # NoJob
Committed == touched' = Running
Absent == {j \in Spare : status[j] = "absent"}

-----------------------------------------------------------------------------
(* get_pending_jobs_for_agent: one immediate transaction hands every due   *)
(* row to the caller.  A row that cannot be parsed, or an agent without a  *)
(* row in agents (jobs.agent_id is a foreign key and the bundled SQLite    *)
(* enforces it), rolls everything back and the caller gets an empty list.  *)
DueJobsAgain == {j \in Job : status[j] \in {"Pending", "Assigned"} /\ due[j] <= clock}
DueJobs == {j \in Job : status[j] = "Pending" /\ due[j] <= clock}
Assignable(a) == DueJobs \cap unreadable = {} /\ a \in Listed

GetJobs(a) ==
    /\ up /\ apc[a] = "idle" /\ queue[a] = {}
    /\ DueJobs # {} /\ Assignable(a)
    /\ status' = [j \in Job |-> IF j \in DueJobs THEN "Assigned" ELSE status[j]]
    /\ holder' = [j \in Job |-> IF j \in DueJobs THEN a ELSE holder[j]]
    /\ \/ queue' = [queue EXCEPT ![a] = DueJobs] /\ UNCHANGED <<faults, stranded>>
       \/ Fault /\ stranded' = stranded \cup DueJobs /\ UNCHANGED queue
    /\ Committed
    /\ UNCHANGED <<due, started, error, nextRun, unreadable, up, loop,
                   apc, job, clock, begun, work, unsure, spawn, cut>>

(* The loop of job_loop takes the jobs in the order of scheduled_time.     *)
TakeJob(a, j) ==
    /\ apc[a] = "idle" /\ j \in queue[a]
    /\ \A k \in queue[a] : due[j] <= due[k]
    /\ queue' = [queue EXCEPT ![a] = @ \ {j}]
    /\ job' = [job EXCEPT ![a] = j] /\ apc' = [apc EXCEPT ![a] = "begin"]
    /\ begun' = [begun EXCEPT ![j] = @ + 1]
    /\ UNCHANGED <<rows, nextRun, unreadable, up, loop, touched, clock,
                   faults, work, unsure, stranded, spawn, cut>>

(* Bound: a client that starts a job does it while a time-out still fits.  *)
WillStart(a) ==
    a \in Starters /\ status[job[a]] = "Assigned" /\ clock + StaleAfter <= MaxTime

(* The "Starting job" progress report; any error of it fails the job.      *)
ReportProgress(a) ==
    /\ apc[a] = "begin" /\ ~WillStart(a)
    /\ \/ up /\ Committed /\ apc' = [apc EXCEPT ![a] = "work"] /\ UNCHANGED faults
       \/ /\ IF up THEN Fault /\ Committed ELSE UNCHANGED <<faults, touched>>
          /\ apc' = [apc EXCEPT ![a] = "failed"]
    /\ UNCHANGED <<rows, nextRun, unreadable, up, loop, queue, job,
                   clock, history>>

(* start_job: the only guard of the statement is the agent of the row.     *)
StartJob(a) ==
    /\ up /\ apc[a] = "begin" /\ WillStart(a)
    /\ holder[job[a]] = a
    /\ status' = [status EXCEPT ![job[a]] = "InProgress"]
    /\ started' = [started EXCEPT ![job[a]] = clock] /\ Committed
    /\ UNCHANGED <<holder, due, error, nextRun, unreadable, up, loop,
                   agents, clock, faults, history>>

(* perform_backup, _restore, _prune or _verify, or an unknown job type.    *)
WorkEnds(a, ok) ==
    /\ apc[a] = "work"
    /\ apc' = [apc EXCEPT ![a] = IF ok THEN "done" ELSE "failed"]
    /\ work' = [work EXCEPT ![job[a]] = IF ok THEN "ok" ELSE "failed"]
    /\ UNCHANGED <<rows, nextRun, unreadable, up, loop, touched, queue,
                   job, clock, faults, begun, unsure, stranded, spawn, cut>>

(* complete_job on the server: no guard on the status or on the agent.     *)
SetEndedCompleted(j, ok) ==
    /\ status' = [status EXCEPT ![j] = "Completed"]
    /\ error' = [error EXCEPT ![j] = IF ok THEN "none" ELSE "work"]
    /\ UNCHANGED <<holder, due, started>>

SetEnded(j, ok) ==
    /\ status' = [status EXCEPT ![j] = IF ok THEN "Completed" ELSE "Failed"]
    /\ error' = [error EXCEPT ![j] = IF ok THEN "none" ELSE "work"]
    /\ UNCHANGED <<holder, due, started>>

(* The report of success is the last `?' of execute_job: without an answer *)
(* the loop goes on to report a failure of the same job.                   *)
ReportSuccess(a) ==
    /\ apc[a] = "done"
    /\ \/ /\ up /\ SetEnded(job[a], TRUE) /\ Committed
          /\ apc' = [apc EXCEPT ![a] = "idle"] /\ job' = [job EXCEPT ![a] = NoJob]
          /\ UNCHANGED <<faults, unsure>>
       \/ /\ IF up THEN Fault /\ SetEnded(job[a], TRUE) /\ Committed
                   ELSE UNCHANGED <<rows, faults, touched>>
          /\ apc' = [apc EXCEPT ![a] = "failed"] /\ unsure' = unsure \cup {job[a]}
          /\ UNCHANGED job
    /\ UNCHANGED <<nextRun, unreadable, up, loop, queue, clock, begun,
                   work, stranded, spawn, cut>>

(* The report of a failure is sent once and its result ignored.            *)
ReportFailure(a) ==
    /\ apc[a] = "failed"
    /\ IF up THEN SetEnded(job[a], FALSE) /\ Committed /\ UNCHANGED stranded
             ELSE /\ stranded' = stranded \cup {job[a]}
                  /\ UNCHANGED <<rows, touched>>
    /\ apc' = [apc EXCEPT ![a] = "idle"] /\ job' = [job EXCEPT ![a] = NoJob]
    /\ UNCHANGED <<nextRun, unreadable, up, loop, queue, clock, faults,
                   begun, work, unsure, spawn, cut>>

AgentDies(a) ==
    /\ apc[a] # "dead" /\ Fault
    /\ apc' = [apc EXCEPT ![a] = "dead"]
    /\ queue' = [queue EXCEPT ![a] = {}] /\ job' = [job EXCEPT ![a] = NoJob]
    /\ stranded' = stranded \cup queue[a] \cup ({job[a]} \ {NoJob})
    /\ UNCHANGED <<rows, nextRun, unreadable, up, loop, touched, clock,
                   begun, work, unsure, spawn, cut>>

-----------------------------------------------------------------------------
(* The scheduler thread: check_stale_jobs is one UPDATE, then the cron     *)
(* loop opens its SELECT.                                                  *)
Stale(j) == status[j] = "InProgress" /\ started[j] + StaleAfter <= clock

SchedulerTick ==
    /\ up /\ ~Running
    /\ status' = [j \in Job |-> IF Stale(j) THEN "Failed" ELSE status[j]]
    /\ error' = [j \in Job |-> IF Stale(j) THEN "timeout" ELSE error[j]]
    /\ left' = Template /\ cronNow' = clock /\ touched' = FALSE
    /\ UNCHANGED <<holder, due, started, nextRun, unreadable, up, row, after,
                   agents, clock, faults, history>>

NextDueNow(time) == (time \div Period) * Period
NextDueBack(time) == (time \div Period - 1) * Period
NextDue(time) == (time \div Period + 1) * Period
LeaveLoop(rest) ==
    /\ left' = rest /\ row' = NoJob /\ after' = 0
    /\ cronNow' = IF rest = {} THEN 0 ELSE cronNow
    /\ touched' = (touched /\ rest # {})
CronEnds == LeaveLoop({}) /\ UNCHANGED <<rows, nextRun, spawn>>

IsDueLate(t) == nextRun[t] # 0 /\ nextRun[t] < cronNow
IsDue(t) == nextRun[t] # 0 /\ nextRun[t] <= cronNow

CronRow(t) ==
    /\ up /\ row = NoJob /\ t \in left
    /\ \/ /\ \/ t \in unreadable
             \/ touched /\ t \notin InvalidCron /\ (nextRun[t] = 0 \/ IsDue(t))
          /\ CronEnds
       \/ /\ t \notin unreadable
          /\ t \in InvalidCron \/ (nextRun[t] # 0 /\ ~IsDue(t))
          /\ LeaveLoop(left \ {t}) /\ UNCHANGED <<rows, nextRun, spawn>>
       \/ /\ t \notin unreadable \cup InvalidCron /\ ~touched /\ nextRun[t] = 0
          /\ nextRun' = [nextRun EXCEPT ![t] = NextDue(clock)]
          /\ LeaveLoop(left \ {t}) /\ UNCHANGED <<rows, spawn>>
       \/ /\ t \notin unreadable \cup InvalidCron /\ ~touched
          /\ IsDue(t)
          /\ \E j \in Absent :
               /\ j = CHOOSE k \in Absent : TRUE
               /\ status' = [status EXCEPT ![j] = "Pending"]
               /\ due' = [due EXCEPT ![j] = cronNow]
               /\ spawn' = [spawn EXCEPT ![j] = <<t, nextRun[t]>>]
          /\ row' = t /\ after' = NextDue(clock)
          /\ UNCHANGED <<holder, started, error, nextRun, left, cronNow, touched>>
    /\ UNCHANGED <<unreadable, up, agents, clock,
                   faults, begun, work, unsure, stranded, cut>>

Latest(t) == {j \in Spare : spawn[j] = <<t, nextRun[t]>>}

(* last_run and next_run.  next_after is the first due time after the      *)
(* present one, so due times the server slept through are skipped.         *)
CronAdvance ==
    /\ up /\ row # NoJob
    /\ IF touched
       THEN CronEnds /\ cut' = cut \cup Latest(row)
       ELSE /\ nextRun' = [nextRun EXCEPT ![row] = after]
            /\ LeaveLoop(left \ {row})
            /\ UNCHANGED <<rows, spawn, cut>>
    /\ UNCHANGED <<unreadable, up, agents, clock,
                   faults, begun, work, unsure, stranded>>

ServerDies ==
    /\ up /\ Fault /\ up' = FALSE /\ CronEnds
    /\ cut' = IF row = NoJob THEN cut ELSE cut \cup Latest(row)
    /\ UNCHANGED <<unreadable, agents, clock, begun,
                   work, unsure, stranded>>

ServerStarts ==
    /\ ~up /\ up' = TRUE
    /\ UNCHANGED <<rows, nextRun, unreadable, loop, touched, agents,
                   clock, faults, history>>

Tick ==
    /\ clock < MaxTime /\ clock' = clock + 1
    /\ UNCHANGED <<rows, nextRun, unreadable, up, loop, touched, agents,
                   faults, history>>

AgentStep(a) ==
    \/ GetJobs(a) \/ (\E j \in Job : TakeJob(a, j)) \/ StartJob(a)
    \/ ReportProgress(a) \/ (\E ok \in BOOLEAN : WorkEnds(a, ok))
    \/ ReportSuccess(a) \/ ReportFailure(a)
ServerStep == SchedulerTick \/ (\E t \in Template : CronRow(t)) \/ CronAdvance

Next ==
    \/ \E a \in Agent : AgentStep(a) \/ AgentDies(a)
    \/ ServerStep \/ ServerDies \/ ServerStarts
    \/ Tick

Spec == Init /\ [][Next]_vars
FairSpec ==
    /\ Spec /\ WF_vars(ServerStep) /\ WF_vars(ServerStarts) /\ WF_vars(Tick)
    /\ \A a \in Agent : WF_vars(AgentStep(a))

-----------------------------------------------------------------------------
(* A job row is begun at most once, whatever is lost or polled at the same *)
(* time: get_pending_jobs_for_agent hands a row to one agent, once.        *)
AtMostOnce == \A j \in Job : begun[j] <= 1

(* What a finished row says of the work.  A row says Completed only of work *)
(* that succeeded, a time-out only of work that took 24 hours, and a failed *)
(* job only of work that failed, that never came to an end, or whose report *)
(* of success got no answer.                                                *)
RowTellsOutcome ==
    \A j \in Job :
        /\ status[j] = "Completed" => work[j] = "ok"
        /\ status[j] = "Failed" /\ error[j] = "timeout"
             => started[j] + StaleAfter <= clock
        /\ status[j] = "Failed" /\ error[j] = "work"
             => work[j] # "ok" \/ j \in unsure

(* run_cron_schedules inserts one job for a due time of a template; a      *)
(* second one only when the loop ended between the insert and the update   *)
(* of next_run.                                                            *)
CronOnce ==
    \A i, j \in Spare :
        i # j /\ spawn[i] # NoTime /\ spawn[i] = spawn[j] => i \in cut \/ j \in cut

(* A job that was assigned ends, unless a fault left it without an agent;   *)
(* one that was also started ends even then, check_stale_jobs times it out. *)
JobsEnd ==
    \A j \in Job :
        status[j] \in {"Assigned", "InProgress"}
          ~> (status[j] \in Ended \/ (status[j] = "Assigned" /\ j \in stranded))

(* A template that is due is served, unless a row cannot be read.          *)
CronServes ==
    \A t \in Template \ InvalidCron : \A d \in 1..MaxTime :
        (nextRun[t] = d /\ d <= clock /\ unreadable = {})
          ~> ((\E j \in Spare : spawn[j] = <<t, d>>) \/ Absent = {})

(* Nothing that was handed out or is due is forgotten.                     *)
NothingForgotten == JobsEnd /\ CronServes
=============================================================================
