---------------------------- MODULE QuiesceHooks ----------------------------
(***************************************************************************)
(* How a consistent backup brackets its reading of the source: the hooks   *)
(* that freeze and thaw applications, the snapshot taken from LVM, Btrfs   *)
(* or ZFS, and the guards that undo both (commands/backup.rs, snapshot/    *)
(* hooks.rs and the snapshotters of lazarus-core).                         *)
(*                                                                         *)
(* A hook stands for its application.  The order of the hooks is the       *)
(* operator's (--hook-template may be repeated in any order), so a pass    *)
(* over the applicable hooks takes them in any order.  The three           *)
(* snapshotters share one shape: a base (a logical volume, a subvolume, a  *)
(* ZFS snapshot), always, and a view of it (a mount, a clone): LVM needs   *)
(* one, ZFS may need one, Btrfs does not.  Both are named after the second *)
(* of the run, hence the run's number here.                                *)
(***************************************************************************)
EXTENDS Naturals, FiniteSets

CONSTANTS
  Hooks,       \* hooks given to the runner, one application each
  MaxRuns,     \* bound: backups run one after the other
  MaxFlips,    \* bound: times a service is stopped or started meanwhile
  ProbeFails,  \* may the probe of a match rule fail, hiding a live service?
  Killable,    \* may the process be killed?
  Hangs        \* hooks whose command may never return

ASSUME QuiesceAssumption ==
  /\ MaxRuns \in Nat
  /\ MaxFlips \in Nat
  /\ ProbeFails \in BOOLEAN
  /\ Killable \in BOOLEAN

VARIABLES
  up,          \* services that are active: what the match rules look at
  frozen,      \* applications that have paused their writes
  flips,       \* services stopped or started so far
  bases,       \* runs whose base (LV, subvolume, ZFS snapshot) exists
  views,       \* runs whose view (mount, clone) exists
  run,         \* number of the current or last run
  cfg,         \* its flags: [hooks, snapshotter]
  pc,          \* where it is
  then,        \* where it goes after a pass over the post hooks
  todo,        \* hooks left in the current pass
  needPost,    \* hooks_need_post
  pre, post,   \* hook_report: outcome of each hook in each phase
  mounted,     \* does the SnapshotGuard hold a mount?
  result,      \* how the run ended
  steady,      \* applications that have not been stopped during this run
  troubled     \* runs that were killed or had a teardown command fail

env  == <<up, frozen, flips>>
os   == <<bases, views>>
hooks == <<todo, needPost, pre, post>>
vars == <<env, os, run, cfg, pc, then, hooks, mounted, result, steady, troubled>>

Snapshotters == {"none", "unsupported", "lvm", "btrfs", "zfs"}
Configs == [hooks : BOOLEAN, snapshotter : Snapshotters]
Outcomes == {"none", "ok", "failed"}
Places == {"idle", "pre", "acquire", "view", "post", "capture", "unmount",
           "remove", "done"}

TypeOK ==
  /\ up \subseteq Hooks
  /\ frozen \subseteq up
  /\ flips \in 0 .. MaxFlips
  /\ run \in 0 .. MaxRuns
  /\ pc = "idle" <=> run = 0
  /\ bases \subseteq 1 .. run
  /\ views \subseteq bases
  /\ pc \in {"pre", "acquire", "view"} => run \notin views
  /\ pc = "view" => run \in bases
  /\ cfg \in Configs
  /\ pc \in Places
  /\ then \in {"capture", "unmount", "done"}
  /\ todo \subseteq Hooks
  /\ needPost \in BOOLEAN
  /\ pre \in [Hooks -> Outcomes]
  /\ post \in [Hooks -> Outcomes]
  /\ mounted \in BOOLEAN
  /\ result \in {"none", "ok", "err", "panic", "killed"}
  /\ steady \subseteq Hooks
  /\ troubled \subseteq 1 .. run

Init ==
  /\ up \in SUBSET Hooks
  /\ frozen = {}
  /\ flips = 0
  /\ bases = {}
  /\ views = {}
  /\ run = 0
  /\ cfg = [hooks |-> FALSE, snapshotter |-> "none"]
  /\ pc = "idle"
  /\ then = "done"
  /\ todo = {}
  /\ needPost = FALSE
  /\ pre = [h \in Hooks |-> "none"]
  /\ post = [h \in Hooks |-> "none"]
  /\ mounted = FALSE
  /\ result = "none"
  /\ steady = {}
  /\ troubled = {}

-----------------------------------------------------------------------------
(* Services come and go.  One that stops drops whatever held it frozen.    *)

Stop(h) ==
  /\ flips < MaxFlips
  /\ h \in up
  /\ up' = up \ {h}
  /\ frozen' = frozen \ {h}
  /\ steady' = steady \ {h}
  /\ flips' = flips + 1
  /\ UNCHANGED <<os, run, cfg, pc, then, hooks, mounted, result, troubled>>

Launch(h) ==
  /\ flips < MaxFlips
  /\ h \notin up
  /\ up' = up \union {h}
  /\ flips' = flips + 1
  /\ UNCHANGED <<frozen, os, run, cfg, pc, then, hooks, mounted, result,
                 steady, troubled>>

-----------------------------------------------------------------------------
(* Hooks *)

(* What HookRunner::applicable may return: a probe that cannot be run      *)
(* counts as "does not match".                                             *)
Applicable == IF ProbeFails THEN SUBSET up ELSE {up}

Start ==
  /\ pc \in {"idle", "done"}
  /\ run < MaxRuns
  /\ run' = run + 1
  /\ cfg' \in Configs
  /\ todo' \in (IF cfg'.hooks THEN Applicable ELSE {{}})
  /\ pc' = IF cfg'.hooks THEN "pre" ELSE "acquire"
  /\ pre' = [h \in Hooks |-> "none"]
  /\ post' = [h \in Hooks |-> "none"]
  /\ needPost' = FALSE
  /\ mounted' = FALSE
  /\ result' = "none"
  /\ then' = "done"
  /\ steady' = up
  /\ UNCHANGED <<env, os, troubled>>

PreSucceeds(h) ==
  /\ pc = "pre"
  /\ h \in todo
  /\ h \in up
  /\ frozen' = frozen \union {h}
  /\ pre' = [pre EXCEPT ![h] = "ok"]
  /\ todo' = todo \ {h}
  /\ UNCHANGED <<up, flips, os, run, cfg, pc, then, needPost, post, mounted,
                 result, steady, troubled>>

(* A failing command may have frozen its application all the same.  The    *)
(* run ends here: run_pre returns the error and backup() propagates it.    *)
PreFails(h) ==
  /\ pc = "pre"
  /\ h \in todo
  /\ frozen' \in {frozen, frozen \union ({h} \intersect up)}
  /\ pre' = [pre EXCEPT ![h] = "failed"]
  /\ pc' = "done"
  /\ result' = "err"
  /\ UNCHANGED <<up, flips, os, run, cfg, then, todo, needPost, post, mounted,
                 steady, troubled>>

PreDone ==
  /\ pc = "pre"
  /\ todo = {}
  /\ needPost' = TRUE
  /\ pc' = "acquire"
  /\ UNCHANGED <<env, os, run, cfg, then, todo, pre, post, mounted, result,
                 steady, troubled>>

(* Defect: hooks_need_post stays set. *)
ThroughPostAgain(next) ==
  /\ UNCHANGED needPost
  /\ IF needPost
       THEN pc' = "post" /\ then' = next /\ todo' \in Applicable
       ELSE pc' = next /\ UNCHANGED <<then, todo>>

(* Go to next, through the post hooks when they are still due.  They are   *)
(* looked up again, now.                                                   *)
ThroughPost(next) ==
  /\ needPost' = FALSE
  /\ IF needPost
       THEN /\ pc' = "post"
            /\ then' = next
            /\ todo' \in Applicable
       ELSE /\ pc' = next
            /\ UNCHANGED <<then, todo>>

PostSucceeds(h) ==
  /\ pc = "post"
  /\ h \in todo
  /\ h \in up
  /\ frozen' = frozen \ {h}
  /\ post' = [post EXCEPT ![h] = "ok"]
  /\ todo' = todo \ {h}
  /\ UNCHANGED <<up, flips, os, run, cfg, pc, then, needPost, pre, mounted,
                 result, steady, troubled>>

(* Defect: a post hook that failed is tried again until it succeeds. *)
PostFailsRetries(h) ==
  /\ pc = "post"
  /\ h \in todo
  /\ post' = [post EXCEPT ![h] = "failed"]
  /\ UNCHANGED <<env, os, run, cfg, pc, then, todo, needPost, pre, mounted,
                 result, steady, troubled>>

(* Only a warning. *)
PostFails(h) ==
  /\ pc = "post"
  /\ h \in todo
  /\ frozen' \in {frozen, frozen \ {h}}
  /\ post' = [post EXCEPT ![h] = "failed"]
  /\ todo' = todo \ {h}
  /\ UNCHANGED <<up, flips, os, run, cfg, pc, then, needPost, pre, mounted,
                 result, steady, troubled>>

PostDone ==
  /\ pc = "post"
  /\ todo = {}
  /\ pc' = then
  /\ UNCHANGED <<env, os, run, cfg, then, hooks, mounted, result, steady,
                 troubled>>

-----------------------------------------------------------------------------
(* The snapshot of the operating system *)

(* Defect: the post hooks do not ask whether there is a snapshot. *)
NoSnapshotThaws ==
  /\ pc = "acquire"
  /\ cfg.snapshotter = "none"
  /\ ThroughPost("capture")
  /\ UNCHANGED <<env, os, run, cfg, pre, post, mounted, result, steady, troubled>>

(* --snapshotter none, and block mode: the source itself is read, and the  *)
(* hooks stay in effect.                                                   *)
NoSnapshot ==
  /\ pc = "acquire"
  /\ cfg.snapshotter = "none"
  /\ pc' = "capture"
  /\ UNCHANGED <<env, os, run, cfg, then, hooks, mounted, result, steady,
                 troubled>>

(* Nothing was created: no backend supports the source, block mode was     *)
(* asked for a backend, or the backend's first command failed.             *)
AcquireFails ==
  /\ pc = "acquire"
  /\ cfg.snapshotter # "none"
  /\ result' = "err"
  /\ ThroughPost("done")
  /\ UNCHANGED <<env, os, run, cfg, pre, post, mounted, steady, troubled>>

CreateBase ==
  /\ pc = "acquire"
  /\ cfg.snapshotter \in {"lvm", "btrfs", "zfs"}
  /\ bases' = bases \union {run}
  /\ \/ /\ cfg.snapshotter \in {"lvm", "zfs"}
        /\ pc' = "view"
        /\ UNCHANGED <<then, todo, needPost, mounted>>
     \/ /\ cfg.snapshotter \in {"btrfs", "zfs"}
        /\ mounted' = TRUE
        /\ ThroughPost("capture")
  /\ UNCHANGED <<env, views, run, cfg, pre, post, result, steady, troubled>>

CreateView ==
  /\ pc = "view"
  /\ views' = views \union {run}
  /\ mounted' = TRUE
  /\ ThroughPost("capture")
  /\ UNCHANGED <<env, bases, run, cfg, pre, post, result, steady, troubled>>

(* Defect: no rollback. *)
ViewFailsKeepsBase ==
  /\ pc = "view"
  /\ result' = "err"
  /\ ThroughPost("done")
  /\ UNCHANGED <<env, os, run, cfg, pre, post, mounted, steady, troubled>>

(* The base is rolled back; whether that worked is not looked at. *)
ViewFails ==
  /\ pc = "view"
  /\ \/ bases' = bases \ {run} /\ UNCHANGED troubled
     \/ troubled' = troubled \union {run} /\ UNCHANGED bases
  /\ result' = "err"
  /\ ThroughPost("done")
  /\ UNCHANGED <<env, views, run, cfg, pre, post, mounted, steady>>

(* Defect: the post hooks are called after the capture, without a guard. *)
CaptureUnguarded ==
  /\ pc = "capture"
  /\ result' \in {"ok", "err", "panic"}
  /\ IF result' = "panic" THEN pc' = "unmount" /\ UNCHANGED <<then, todo, needPost>>
                          ELSE ThroughPost("unmount")
  /\ UNCHANGED <<env, os, run, cfg, pre, post, mounted, steady, troubled>>

(* capture_from returns, or panics and the guards unwind. *)
Capture ==
  /\ pc = "capture"
  /\ result' \in {"ok", "err", "panic"}
  /\ ThroughPost("unmount")
  /\ UNCHANGED <<env, os, run, cfg, pre, post, mounted, steady, troubled>>

(* tear_down: the released flag is set first, so that there is one attempt *)
(* at each command; a failure to take the view down is ignored.            *)
TearDownView ==
  /\ pc = "unmount"
  /\ IF mounted
       THEN /\ pc' = "remove"
            /\ mounted' = FALSE
            /\ \/ views' = views \ {run} /\ UNCHANGED troubled
               \/ run \in views /\ troubled' = troubled \union {run}
                                /\ UNCHANGED views
       ELSE /\ pc' = "done"
            /\ UNCHANGED <<mounted, views, troubled>>
  /\ UNCHANGED <<env, bases, run, cfg, then, hooks, result, steady>>

(* Defect: the base goes although its view is still there. *)
TearDownBaseForced ==
  /\ pc = "remove"
  /\ pc' = "done"
  /\ bases' = bases \ {run}
  /\ UNCHANGED <<env, views, run, cfg, then, hooks, mounted, result, steady,
                 troubled>>

(* lvremove, zfs destroy and btrfs subvolume delete refuse a base that is  *)
(* in use.                                                                 *)
TearDownBase ==
  /\ pc = "remove"
  /\ pc' = "done"
  /\ \/ run \notin views /\ bases' = bases \ {run} /\ UNCHANGED troubled
     \/ troubled' = troubled \union {run} /\ UNCHANGED bases
  /\ UNCHANGED <<env, views, run, cfg, then, hooks, mounted, result, steady>>

(* A signal: no destructor runs. *)
Kill ==
  /\ Killable
  /\ pc \notin {"idle", "done"}
  /\ pc' = "done"
  /\ result' = "killed"
  /\ troubled' = troubled \union {run}
  /\ UNCHANGED <<env, os, run, cfg, then, hooks, mounted, steady>>

RunPre(h)  == PreSucceeds(h) \/ PreFails(h)
RunPost(h) == PostSucceeds(h) \/ PostFails(h)

Command == \/ PreDone \/ PostDone \/ NoSnapshot \/ AcquireFails \/ CreateBase
           \/ CreateView \/ ViewFails \/ Capture \/ TearDownView \/ TearDownBase

Next ==
  \/ Start
  \/ Command
  \/ Kill
  \/ \E h \in Hooks : Stop(h) \/ Launch(h) \/ RunPre(h) \/ RunPost(h)

Spec == Init /\ [][Next]_vars

(* The process gets its turn, and the command of a hook returns unless it  *)
(* may hang.  Nothing is promised of services or of the operator.          *)
Fairness ==
  /\ WF_vars(Command)
  /\ \A h \in Hooks \ Hangs : WF_vars(RunPre(h)) /\ WF_vars(RunPost(h))

FairSpec == Spec /\ Fairness

-----------------------------------------------------------------------------
(* Properties *)

Ran(h) == pre[h] = "ok"

(* What is captured is quiesced: while the live source is read, and at the *)
(* moment a snapshot of it is taken, every application whose pre hook      *)
(* succeeded in this run is frozen, unless it was restarted in between     *)
(* (backup.rs:347-352).                                                    *)
ReadsQuiesced ==
  pc = "capture" /\ ~mounted => \A h \in steady : Ran(h) => h \in frozen

SnapshotsQuiesced ==
  [][bases' \ bases # {} => \A h \in steady : Ran(h) => h \in frozen]_vars

(* With a snapshot of the operating system, nothing is left frozen while   *)
(* the capture, which may take hours, runs, save for a post hook that      *)
(* failed (backup.rs:347-350).                                             *)
ThawedBeforeCapture ==
  pc = "capture" /\ mounted =>
    \A h \in frozen : Ran(h) => post[h] = "failed"

(* A run whose pre hooks all succeeded ends with every application it      *)
(* froze thawed, however it ends, a panic included, unless the post hook   *)
(* itself failed or the process was killed (PostHookGuard).                *)
ThawedWhenDone ==
  pc = "done" /\ result # "killed" /\ (\A h \in Hooks : pre[h] # "failed")
    => \A h \in frozen : Ran(h) => post[h] = "failed"

(* No post hook runs twice in a run: unpausing a second time would undo a  *)
(* pause that somebody else has put in since (hooks_need_post).            *)
PostsOnce ==
  [][\A h \in Hooks : post[h] # "none" /\ post'[h] # post[h] => run' # run]_vars

(* A snapshot that is read stays, with its mount, until the capture is     *)
(* over: the guard is dropped after the block that captures                *)
(* (backup.rs:400-415).                                                    *)
ViewOutlivesCapture ==
  pc = "capture" /\ cfg.snapshotter # "none" =>
    /\ run \in bases
    /\ cfg.snapshotter = "lvm" => run \in views

(* What is read is quiesced and stays there while it is read.              *)
SteadySource == ReadsQuiesced /\ ViewOutlivesCapture

(* The snapshot falls between the pre and the post hooks, each of which    *)
(* runs once, whichever of the five places gets to run it.                 *)
HooksInOrder == SnapshotsQuiesced /\ PostsOnce

(* No application stays frozen: not while a snapshot is read, and not at   *)
(* the end of a run, whatever the path to it.                              *)
Thawed == ThawedBeforeCapture /\ ThawedWhenDone

(* No run leaves a snapshot behind unless it was killed or a command of    *)
(* the teardown failed: error returns and panics release it (RAII,         *)
(* snapshotter.rs:12-18).                                                  *)
NothingLeftBehind ==
  \A r \in bases : r \in troubled \/ (r = run /\ pc # "done")

(* A backup that has started ends. *)
Ends == pc \notin {"idle", "done"} ~> pc = "done"

-----------------------------------------------------------------------------
(* The inductive invariant behind them *)

(* Frozen by this run and not given up on: its post hook is still due.     *)
Owed(h) == Ran(h) /\ h \in frozen /\ post[h] # "failed"

ThawPending ==
  \A h \in Hooks : Owed(h) =>
    /\ pc \in {"acquire", "view"} => needPost
    /\ pc = "capture" => needPost /\ ~mounted
    /\ pc = "post" => h \in todo
    /\ pc \notin {"unmount", "remove"}
    /\ pc = "done" => result = "killed" \/ \E g \in Hooks : pre[g] = "failed"

FrozenWhileRead ==
  /\ \A h \in steady : Ran(h) =>
       \/ h \in frozen
       \/ pc \notin {"pre", "acquire", "view", "capture"}
       \/ pc = "capture" /\ mounted
  /\ pc \in {"pre", "acquire", "view"} => ~mounted
  /\ pc = "post" /\ then = "capture" => mounted

(* The base of the current run is on its way to be torn down, by a guard   *)
(* that holds it; those of earlier runs are known troubles.                *)
BaseAccounted ==
  \A r \in bases \ troubled :
    /\ r = run
    /\ \/ pc \in {"view", "remove"}
       \/ pc \in {"capture", "unmount"} /\ mounted
       \/ pc = "post" /\ then # "done" /\ mounted

(* A snapshot that is or will be read is there, mounted if it must be.     *)
ViewHeld ==
  (pc = "capture" \/ (pc = "post" /\ then = "capture")) /\ cfg.snapshotter # "none" =>
    /\ run \in bases
    /\ cfg.snapshotter = "lvm" => run \in views

(* Post hooks that are still due have not run.                             *)
PostsDue ==
  /\ needPost \/ pc = "pre" => \A h \in Hooks : post[h] = "none"
  /\ pc = "post" => ~needPost /\ \A h \in todo : post[h] = "none"

(* Needs probes that answer for its first part.                            *)
Bracketing == ThawPending /\ FrozenWhileRead /\ BaseAccounted

-----------------------------------------------------------------------------
(* What the comments promise and the code does not do *)

(* "Pre-failure aborts before any OS-level resource is taken, so there is  *)
(* nothing to tear down on this error path" (backup.rs:365-366): a run     *)
(* that a pre hook failed leaves no application frozen by another hook.    *)
NothingToTearDown ==
  pc = "done" /\ (\E h \in Hooks : pre[h] = "failed")
    => \A h \in frozen : ~Ran(h)
=============================================================================
