---------------------------- MODULE QuiesceProofs ----------------------------
(***************************************************************************)
(* Proofs about QuiesceHooks, for any hooks and any number of runs: what   *)
(* is read is quiesced, what was frozen is thawed (when probes answer),    *)
(* and no snapshot is left behind.                                         *)
(***************************************************************************)
EXTENDS QuiesceHooks, TLAPS

USE DEF env, os, hooks

-----------------------------------------------------------------------------
(* Type correctness.                                                       *)

LEMMA InitTypeOK == Init => TypeOK
<1> SUFFICES ASSUME Init PROVE TypeOK
  OBVIOUS
<1>1. cfg \in Configs
  BY DEF Init, Configs, Snapshotters
<1>2. pre \in [Hooks -> Outcomes] /\ post \in [Hooks -> Outcomes]
  BY DEF Init, Outcomes
<1>3. bases \subseteq 1 .. run /\ troubled \subseteq 1 .. run
  BY DEF Init
<1>4. run \in 0 .. MaxRuns /\ flips \in 0 .. MaxFlips
  BY QuiesceAssumption DEF Init
<1>5. up \subseteq Hooks /\ (pc = "idle" <=> run = 0)
  BY DEF Init
<1> QED BY <1>1, <1>2, <1>3, <1>4, <1>5 DEF Init, TypeOK, Places

(* Every hook that is to run is one of Hooks.                              *)
LEMMA ThroughPostTypes ==
  ASSUME TypeOK, NEW next \in {"capture", "unmount", "done"}, ThroughPost(next)
  PROVE  /\ todo' \subseteq Hooks
         /\ needPost' \in BOOLEAN
         /\ pc' \in {"post", "capture", "unmount", "done"}
         /\ then' \in {"capture", "unmount", "done"}
BY DEF TypeOK, ThroughPost, Applicable

(* The numbers of runs that a command adds to a set are runs.              *)
LEMMA RunIsRun ==
  ASSUME TypeOK, pc # "idle", NEW S, S \subseteq 1 .. run
  PROVE  /\ run \in 1 .. run
         /\ S \union {run} \subseteq 1 .. run
         /\ S \ {run} \subseteq 1 .. run
BY QuiesceAssumption DEF TypeOK

LEMMA CommandTypeOK == TypeOK /\ Command => TypeOK'
<1> SUFFICES ASSUME TypeOK, Command PROVE TypeOK'
  OBVIOUS
<1>1. UNCHANGED <<up, frozen, flips, run, cfg, pre, post, steady>>
  BY DEF Command, PreDone, PostDone, NoSnapshot, AcquireFails, CreateBase,
         CreateView, ViewFails, Capture, TearDownView, TearDownBase
<1>2. pc # "idle" /\ pc' \in Places /\ pc' # "idle"
  <2>1. CASE AcquireFails \/ CreateBase \/ CreateView \/ ViewFails \/ Capture
    BY <2>1, ThroughPostTypes
       DEF AcquireFails, CreateBase, CreateView, ViewFails, Capture, Places
  <2>2. CASE PreDone \/ PostDone \/ NoSnapshot \/ TearDownView \/ TearDownBase
    BY <2>2 DEF PreDone, PostDone, NoSnapshot, TearDownView, TearDownBase,
                Places, TypeOK
  <2> QED BY <2>1, <2>2 DEF Command
<1>3. /\ todo' \subseteq Hooks
      /\ needPost' \in BOOLEAN
      /\ then' \in {"capture", "unmount", "done"}
  <2>1. CASE AcquireFails \/ CreateBase \/ CreateView \/ ViewFails \/ Capture
    BY <2>1, ThroughPostTypes
       DEF AcquireFails, CreateBase, CreateView, ViewFails, Capture, TypeOK
  <2>2. CASE PreDone \/ PostDone \/ NoSnapshot \/ TearDownView \/ TearDownBase
    BY <2>2 DEF PreDone, PostDone, NoSnapshot, TearDownView, TearDownBase, TypeOK
  <2> QED BY <2>1, <2>2 DEF Command
<1>4. bases' \subseteq 1 .. run /\ troubled' \subseteq 1 .. run
  <2>1. /\ bases' \in {bases, bases \union {run}, bases \ {run}}
        /\ troubled' \in {troubled, troubled \union {run}}
    BY DEF Command, PreDone, PostDone, NoSnapshot, AcquireFails, CreateBase,
           CreateView, ViewFails, Capture, TearDownView, TearDownBase
  <2>2. bases \subseteq 1 .. run /\ troubled \subseteq 1 .. run
    BY DEF TypeOK
  <2> QED BY <2>1, <2>2, <1>2, RunIsRun
<1>5. /\ views' \subseteq bases'
      /\ pc' \in {"pre", "acquire", "view"} => run \notin views'
      /\ pc' = "view" => run \in bases'
  <2>1. CASE AcquireFails \/ CreateBase \/ CreateView \/ ViewFails \/ Capture
    <3>1. pc' \in {"view", "post", "capture", "unmount", "done"}
      BY <2>1, ThroughPostTypes
         DEF AcquireFails, CreateBase, CreateView, ViewFails, Capture
    <3>2. CASE CreateBase
      BY <3>1, <3>2 DEF TypeOK, CreateBase
    <3>3. CASE CreateView
      <4>1. pc' \in {"post", "capture", "unmount", "done"}
        BY <3>3, ThroughPostTypes DEF CreateView
      <4>2. run \in bases /\ views' = views \union {run} /\ bases' = bases
        BY <3>3 DEF TypeOK, CreateView
      <4> QED BY <4>1, <4>2 DEF TypeOK
    <3>4. CASE AcquireFails \/ ViewFails \/ Capture
      <4>1. pc' \in {"post", "capture", "unmount", "done"}
        BY <3>4, ThroughPostTypes DEF AcquireFails, ViewFails, Capture
      <4> QED BY <3>4, <4>1 DEF TypeOK, AcquireFails, ViewFails, Capture
    <3> QED BY <2>1, <3>2, <3>3, <3>4
  <2>2. CASE PreDone \/ PostDone \/ NoSnapshot \/ TearDownView \/ TearDownBase
    BY <2>2 DEF TypeOK, PreDone, PostDone, NoSnapshot, TearDownView, TearDownBase
  <2> QED BY <2>1, <2>2 DEF Command
<1>6. mounted' \in BOOLEAN /\ result' \in {"none", "ok", "err", "panic", "killed"}
  BY DEF TypeOK, Command, PreDone, PostDone, NoSnapshot, AcquireFails, CreateBase,
         CreateView, ViewFails, Capture, TearDownView, TearDownBase
<1> QED BY <1>1, <1>2, <1>3, <1>4, <1>5, <1>6 DEF TypeOK

LEMMA HookTypeOK ==
  ASSUME TypeOK, NEW h \in Hooks,
         Stop(h) \/ Launch(h) \/ RunPre(h) \/ RunPost(h)
  PROVE  TypeOK'
<1>1. CASE Stop(h) \/ Launch(h)
  <2>1. flips' \in 0 .. MaxFlips
    BY <1>1, QuiesceAssumption DEF TypeOK, Stop, Launch
  <2>2. up' \subseteq Hooks /\ frozen' \subseteq up' /\ steady' \subseteq Hooks
    BY <1>1 DEF TypeOK, Stop, Launch
  <2> QED BY <1>1, <2>1, <2>2 DEF TypeOK, Stop, Launch
<1>2. CASE PreSucceeds(h) \/ PreFails(h)
  BY <1>2 DEF TypeOK, PreSucceeds, PreFails, Outcomes, Places
<1>3. CASE PostSucceeds(h) \/ PostFails(h)
  BY <1>3 DEF TypeOK, PostSucceeds, PostFails, Outcomes, Places
<1> QED BY <1>1, <1>2, <1>3 DEF RunPre, RunPost

LEMMA StartTypeOK == TypeOK /\ Start => TypeOK'
<1> SUFFICES ASSUME TypeOK, Start PROVE TypeOK'
  OBVIOUS
<1>1. /\ run' = run + 1 /\ run' \in 1 .. MaxRuns
      /\ 1 .. run \subseteq 1 .. run' /\ run' \notin 1 .. run
  BY QuiesceAssumption DEF TypeOK, Start
<1>2. /\ bases' \subseteq 1 .. run' /\ troubled' \subseteq 1 .. run'
      /\ views' \subseteq bases' /\ run' \notin views'
  BY <1>1 DEF TypeOK, Start
<1>3. pre' \in [Hooks -> Outcomes] /\ post' \in [Hooks -> Outcomes]
  BY DEF Start, Outcomes
<1>4. todo' \subseteq Hooks /\ cfg' \in Configs /\ steady' \subseteq Hooks
  BY DEF Start, Applicable, TypeOK
<1>5. pc' \in Places /\ (pc' = "idle" <=> run' = 0)
  BY <1>1 DEF Start, Places
<1>6. run' \in 0 .. MaxRuns
  BY <1>1, QuiesceAssumption
<1> QED BY <1>2, <1>3, <1>4, <1>5, <1>6 DEF Start, TypeOK

(* Every variable keeps its type.                                          *)
THEOREM TypeCorrect == Spec => []TypeOK
<1>1. TypeOK /\ [Next]_vars => TypeOK'
  <2> SUFFICES ASSUME TypeOK, [Next]_vars PROVE TypeOK'
    OBVIOUS
  <2>1. CASE Kill
    <3>1. pc # "idle" /\ troubled \subseteq 1 .. run
      BY <2>1 DEF Kill, TypeOK
    <3>2. troubled \union {run} \subseteq 1 .. run
      BY <3>1, RunIsRun
    <3> QED BY <2>1, <3>1, <3>2 DEF Kill, TypeOK, Places
  <2>2. CASE UNCHANGED vars
    BY <2>2 DEF TypeOK, vars
  <2> QED BY <2>1, <2>2, StartTypeOK, CommandTypeOK, HookTypeOK DEF Next
<1> QED BY <1>1, InitTypeOK, PTL DEF Spec

-----------------------------------------------------------------------------
(* What is read is quiesced.                                               *)

LEMMA FrozenWhileReadStep ==
  TypeOK /\ FrozenWhileRead /\ [Next]_vars => FrozenWhileRead'
<1> SUFFICES ASSUME TypeOK, FrozenWhileRead, [Next]_vars PROVE FrozenWhileRead'
  OBVIOUS
<1> USE DEF FrozenWhileRead, Ran
<1>1. CASE Start
  <2>1. \A h \in steady' : pre'[h] = "none"
    BY <1>1 DEF Start, TypeOK
  <2> QED BY <1>1, <2>1 DEF Start
<1>2. ASSUME NEW h \in Hooks, Stop(h) \/ Launch(h) PROVE FrozenWhileRead'
  BY <1>2 DEF Stop, Launch
<1>3. ASSUME NEW h \in Hooks, RunPre(h) PROVE FrozenWhileRead'
  <2>1. CASE PreSucceeds(h)
    BY <2>1 DEF PreSucceeds, TypeOK
  <2>2. CASE PreFails(h)
    BY <2>2 DEF PreFails
  <2> QED BY <1>3, <2>1, <2>2 DEF RunPre
<1>4. ASSUME NEW h \in Hooks, RunPost(h) PROVE FrozenWhileRead'
  BY <1>4 DEF RunPost, PostSucceeds, PostFails
<1>5. CASE PreDone \/ PostDone \/ NoSnapshot
  BY <1>5 DEF PreDone, PostDone, NoSnapshot, TypeOK
<1>6. CASE AcquireFails \/ ViewFails \/ Capture
  BY <1>6 DEF AcquireFails, ViewFails, Capture, ThroughPost
<1>7. CASE CreateBase \/ CreateView
  BY <1>7 DEF CreateBase, CreateView, ThroughPost
<1>8. CASE TearDownView \/ TearDownBase \/ Kill
  BY <1>8 DEF TearDownView, TearDownBase, Kill
<1>9. CASE UNCHANGED vars
  BY <1>9 DEF vars
<1> QED BY <1>1, <1>2, <1>3, <1>4, <1>5, <1>6, <1>7, <1>8, <1>9
        DEF Next, Command

LEMMA InitFrozenWhileRead == Init => FrozenWhileRead
BY DEF Init, FrozenWhileRead

(* A live source is read only while its applications are frozen.           *)
THEOREM AlwaysReadsQuiesced == Spec => []ReadsQuiesced
<1>1. TypeOK /\ FrozenWhileRead => ReadsQuiesced
  BY DEF TypeOK, FrozenWhileRead, ReadsQuiesced
<1> QED BY <1>1, InitFrozenWhileRead, FrozenWhileReadStep, TypeCorrect, PTL DEF Spec

(* And a snapshot is taken only then.                                      *)
THEOREM AlwaysSnapshotsQuiesced == Spec => SnapshotsQuiesced
<1>1. TypeOK /\ FrozenWhileRead /\ [Next]_vars
        => [bases' \ bases # {} => \A h \in steady : Ran(h) => h \in frozen]_vars
  <2> SUFFICES ASSUME FrozenWhileRead, [Next]_vars, bases' \ bases # {}
               PROVE  \A h \in steady : Ran(h) => h \in frozen
    OBVIOUS
  <2>1. CreateBase
    <3>1. CASE Command /\ ~CreateBase
      BY <3>1 DEF Command, PreDone, PostDone, NoSnapshot, AcquireFails, CreateView,
                  ViewFails, Capture, TearDownView, TearDownBase
    <3>2. ASSUME NEW h \in Hooks, Stop(h) \/ Launch(h) \/ RunPre(h) \/ RunPost(h)
          PROVE  FALSE
      BY <3>2 DEF Stop, Launch, RunPre, RunPost, PreSucceeds, PreFails,
                  PostSucceeds, PostFails
    <3> QED BY <3>1, <3>2 DEF Next, Start, Kill, vars
  <2> QED BY <2>1 DEF CreateBase, FrozenWhileRead
<1> QED BY <1>1, InitFrozenWhileRead, FrozenWhileReadStep, TypeCorrect, PTL
        DEF Spec, SnapshotsQuiesced

(* A snapshot that is read is there while it is read.                      *)
LEMMA ViewHeldStep == TypeOK /\ ViewHeld /\ [Next]_vars => ViewHeld'
<1> SUFFICES ASSUME TypeOK, ViewHeld, [Next]_vars PROVE ViewHeld'
  OBVIOUS
<1> USE DEF ViewHeld
<1>1. CASE Start
  BY <1>1 DEF Start
<1>2. ASSUME NEW h \in Hooks, Stop(h) \/ Launch(h) \/ RunPre(h) \/ RunPost(h)
      PROVE  ViewHeld'
  BY <1>2 DEF Stop, Launch, RunPre, PreSucceeds, PreFails,
              RunPost, PostSucceeds, PostFails
<1>3. CASE PreDone \/ PostDone \/ NoSnapshot
  BY <1>3 DEF PreDone, PostDone, NoSnapshot
<1>4. CASE AcquireFails \/ ViewFails \/ Capture
  BY <1>4 DEF AcquireFails, ViewFails, Capture, ThroughPost
<1>5. CASE CreateBase
  BY <1>5 DEF CreateBase, ThroughPost
<1>6. CASE CreateView
  BY <1>6 DEF CreateView, ThroughPost, TypeOK
<1>7. CASE TearDownView \/ TearDownBase \/ Kill
  BY <1>7 DEF TearDownView, TearDownBase, Kill
<1>8. CASE UNCHANGED vars
  BY <1>8 DEF vars
<1> QED BY <1>1, <1>2, <1>3, <1>4, <1>5, <1>6, <1>7, <1>8 DEF Next, Command

(* Whatever is read is quiesced, and a snapshot stays until it is read.    *)
THEOREM AlwaysSteadySource == Spec => []SteadySource
<1>1. Init => ViewHeld
  BY DEF Init, ViewHeld
<1>2. ViewHeld => ViewOutlivesCapture
  BY DEF ViewHeld, ViewOutlivesCapture
<1>3. ReadsQuiesced /\ ViewOutlivesCapture => SteadySource
  BY DEF SteadySource
<1> QED BY <1>1, <1>2, <1>3, ViewHeldStep, TypeCorrect, AlwaysReadsQuiesced, PTL
        DEF Spec

-----------------------------------------------------------------------------
(* Each post hook runs once.                                               *)

LEMMA PostsDueStep == TypeOK /\ PostsDue /\ [Next]_vars => PostsDue'
<1> SUFFICES ASSUME TypeOK, PostsDue, [Next]_vars PROVE PostsDue'
  OBVIOUS
<1> USE DEF PostsDue
<1>1. CASE Start
  BY <1>1 DEF Start
<1>2. ASSUME NEW h \in Hooks, Stop(h) \/ Launch(h) \/ RunPre(h)
      PROVE  PostsDue'
  BY <1>2 DEF Stop, Launch, RunPre, PreSucceeds, PreFails
<1>3. ASSUME NEW h \in Hooks, RunPost(h) PROVE PostsDue'
  BY <1>3 DEF RunPost, PostSucceeds, PostFails, TypeOK
<1>4. CASE PreDone \/ PostDone \/ NoSnapshot
  BY <1>4 DEF PreDone, PostDone, NoSnapshot, TypeOK
<1>5. ASSUME NEW next \in {"capture", "unmount", "done"}, ThroughPost(next),
             UNCHANGED post
      PROVE  PostsDue'
  <2>1. todo' \subseteq Hooks
    BY <1>5, ThroughPostTypes
  <2>2. pc' # "pre" /\ ~needPost'
    BY <1>5, ThroughPostTypes DEF ThroughPost
  <2>3. CASE needPost
    BY <1>5, <2>1, <2>2, <2>3
  <2>4. CASE ~needPost
    BY <1>5, <2>2, <2>4 DEF ThroughPost
  <2> QED BY <2>3, <2>4
<1>6. CASE AcquireFails \/ ViewFails \/ Capture \/ CreateView
  BY <1>5, <1>6 DEF AcquireFails, ViewFails, Capture, CreateView
<1>7. CASE CreateBase
  <2>1. CASE UNCHANGED needPost /\ pc' = "view"
    BY <1>7, <2>1 DEF CreateBase
  <2>2. CASE ThroughPost("capture")
    BY <1>5, <1>7, <2>2 DEF CreateBase
  <2> QED BY <1>7, <2>1, <2>2 DEF CreateBase
<1>8. CASE TearDownView \/ TearDownBase \/ Kill
  BY <1>8 DEF TearDownView, TearDownBase, Kill
<1>9. CASE UNCHANGED vars
  BY <1>9 DEF vars
<1> QED BY <1>1, <1>2, <1>3, <1>4, <1>6, <1>7, <1>8, <1>9 DEF Next, Command

(* A post hook that has run does not run again in the same backup, and the *)
(* snapshot is taken before any of them.                                   *)
THEOREM AlwaysHooksInOrder == Spec => HooksInOrder
<1>1. Init => PostsDue
  BY DEF Init, PostsDue
<1>2. TypeOK /\ PostsDue /\ [Next]_vars
        => [\A h \in Hooks : post[h] # "none" /\ post'[h] # post[h] => run' # run]_vars
  <2> SUFFICES ASSUME TypeOK, PostsDue, [Next]_vars, NEW h \in Hooks,
                      post[h] # "none", post'[h] # post[h]
               PROVE  run' # run
    OBVIOUS
  <2>1. CASE Start
    BY <2>1, QuiesceAssumption DEF Start, TypeOK
  <2>2. ASSUME NEW g \in Hooks, RunPost(g) PROVE FALSE
    <3>1. post[g] = "none" /\ post' \in {[post EXCEPT ![g] = "ok"], [post EXCEPT ![g] = "failed"]}
      BY <2>2 DEF RunPost, PostSucceeds, PostFails, PostsDue
    <3> QED BY <3>1 DEF TypeOK
  <2>3. CASE Command \/ Kill \/ UNCHANGED vars
    BY <2>3 DEF Command, PreDone, PostDone, NoSnapshot, AcquireFails, CreateBase,
                CreateView, ViewFails, Capture, TearDownView, TearDownBase, Kill, vars
  <2>4. ASSUME NEW g \in Hooks, Stop(g) \/ Launch(g) \/ RunPre(g) PROVE FALSE
    BY <2>4 DEF Stop, Launch, RunPre, PreSucceeds, PreFails
  <2> QED BY <2>1, <2>2, <2>3, <2>4 DEF Next
<1>3. Spec => PostsOnce
  BY <1>1, <1>2, PostsDueStep, TypeCorrect, PTL DEF Spec, PostsOnce
<1> QED BY <1>3, AlwaysSnapshotsQuiesced DEF HooksInOrder

-----------------------------------------------------------------------------
(* No snapshot is left behind.                                             *)

LEMMA BaseAccountedStep ==
  TypeOK /\ BaseAccounted /\ [Next]_vars => BaseAccounted'
<1> SUFFICES ASSUME TypeOK, BaseAccounted, [Next]_vars PROVE BaseAccounted'
  OBVIOUS
<1> USE DEF BaseAccounted
<1>1. CASE Start
  BY <1>1 DEF Start
<1>2. ASSUME NEW h \in Hooks, Stop(h) \/ Launch(h) PROVE BaseAccounted'
  BY <1>2 DEF Stop, Launch
<1>3. ASSUME NEW h \in Hooks, RunPre(h) PROVE BaseAccounted'
  BY <1>3 DEF RunPre, PreSucceeds, PreFails
<1>4. ASSUME NEW h \in Hooks, RunPost(h) PROVE BaseAccounted'
  BY <1>4 DEF RunPost, PostSucceeds, PostFails
<1>5. CASE PreDone \/ PostDone \/ NoSnapshot
  BY <1>5 DEF PreDone, PostDone, NoSnapshot, TypeOK
<1>6. CASE AcquireFails \/ ViewFails \/ Capture
  BY <1>6 DEF AcquireFails, ViewFails, Capture, ThroughPost
<1>7. CASE CreateBase \/ CreateView
  BY <1>7 DEF CreateBase, CreateView, ThroughPost
<1>8. CASE TearDownView \/ TearDownBase \/ Kill
  BY <1>8 DEF TearDownView, TearDownBase, Kill
<1>9. CASE UNCHANGED vars
  BY <1>9 DEF vars
<1> QED BY <1>1, <1>2, <1>3, <1>4, <1>5, <1>6, <1>7, <1>8, <1>9
        DEF Next, Command

(* A snapshot outlives its run only if the process was killed or a command *)
(* of its teardown failed.                                                 *)
THEOREM NothingLeft == Spec => []NothingLeftBehind
<1>1. Init => BaseAccounted
  BY DEF Init, BaseAccounted
<1>2. BaseAccounted => NothingLeftBehind
  BY DEF BaseAccounted, NothingLeftBehind
<1> QED BY <1>1, <1>2, BaseAccountedStep, TypeCorrect, PTL DEF Spec

-----------------------------------------------------------------------------
(* What was frozen is thawed, when the probes of the match rules answer.   *)

LEMMA ThawPendingStep ==
  ~ProbeFails /\ TypeOK /\ FrozenWhileRead /\ ThawPending /\ [Next]_vars
    => ThawPending'
<1> SUFFICES ASSUME ~ProbeFails, TypeOK, FrozenWhileRead, ThawPending, [Next]_vars
             PROVE  ThawPending'
  OBVIOUS
<1> USE DEF ThawPending, Owed, Ran
<1>1. CASE Start
  <2>1. \A h \in Hooks : pre'[h] = "none"
    BY <1>1 DEF Start
  <2> QED BY <2>1
<1>2. ASSUME NEW h \in Hooks, Stop(h) \/ Launch(h) PROVE ThawPending'
  BY <1>2 DEF Stop, Launch
<1>3. ASSUME NEW h \in Hooks, RunPre(h) PROVE ThawPending'
  <2>1. CASE PreSucceeds(h)
    BY <2>1 DEF PreSucceeds
  <2>2. CASE PreFails(h)
    BY <2>2 DEF PreFails, TypeOK
  <2> QED BY <1>3, <2>1, <2>2 DEF RunPre
<1>4. ASSUME NEW h \in Hooks, RunPost(h) PROVE ThawPending'
  <2>1. CASE PostSucceeds(h)
    BY <2>1 DEF PostSucceeds, TypeOK
  <2>2. CASE PostFails(h)
    BY <2>2 DEF PostFails, TypeOK
  <2> QED BY <1>4, <2>1, <2>2 DEF RunPost
<1>5. CASE PreDone \/ PostDone \/ NoSnapshot
  BY <1>5 DEF PreDone, PostDone, NoSnapshot, TypeOK, FrozenWhileRead
<1>6. ASSUME NEW next \in {"capture", "unmount", "done"}, ThroughPost(next),
             pc \in {"acquire", "view", "capture"}, UNCHANGED <<frozen, pre, post>>
      PROVE  ThawPending'
  <2>1. CASE needPost
    <3>1. todo' = up /\ pc' = "post" /\ frozen \subseteq up
      BY <1>6, <2>1 DEF ThroughPost, Applicable, TypeOK
    <3> QED BY <1>6, <3>1
  <2>2. CASE ~needPost
    <3>1. \A h \in Hooks : ~Owed(h)
      BY <1>6, <2>2
    <3> QED BY <1>6, <3>1
  <2> QED BY <2>1, <2>2
<1>7. CASE AcquireFails \/ ViewFails \/ Capture \/ CreateView
  BY <1>6, <1>7 DEF AcquireFails, ViewFails, Capture, CreateView
<1>8. CASE CreateBase
  <2>1. CASE pc' = "view"
    BY <1>8, <2>1 DEF CreateBase, ThroughPost
  <2>2. CASE pc' # "view"
    BY <1>6, <1>8, <2>2 DEF CreateBase
  <2> QED BY <2>1, <2>2
<1>9. CASE TearDownView \/ TearDownBase \/ Kill
  BY <1>9 DEF TearDownView, TearDownBase, Kill
<1>10. CASE UNCHANGED vars
  BY <1>10 DEF vars
<1> QED BY <1>1, <1>2, <1>3, <1>4, <1>5, <1>7, <1>8, <1>9, <1>10
        DEF Next, Command

LEMMA ThawPendingAlways == ~ProbeFails /\ Spec => []ThawPending
<1>1. Init => ThawPending
  BY DEF Init, ThawPending, Owed
<1>2. CASE ~ProbeFails
  <2>1. TypeOK /\ FrozenWhileRead /\ ThawPending /\ [Next]_vars => ThawPending'
    BY <1>2, ThawPendingStep
  <2> QED BY <1>1, <2>1, InitFrozenWhileRead, FrozenWhileReadStep, TypeCorrect,
             PTL DEF Spec
<1>3. CASE ProbeFails
  BY <1>3
<1> QED BY <1>2, <1>3

(* However a run ends, short of a kill, it leaves nothing frozen; nor does *)
(* it keep an application frozen while it reads a snapshot.                *)
THEOREM AlwaysThawed == ~ProbeFails /\ Spec => []Thawed
<1>1. TypeOK /\ ThawPending => ThawedWhenDone
  BY DEF TypeOK, ThawPending, ThawedWhenDone, Owed
<1>2. TypeOK /\ ThawPending => ThawedBeforeCapture
  BY DEF TypeOK, ThawPending, ThawedBeforeCapture, Owed
<1>3. ThawedWhenDone /\ ThawedBeforeCapture => Thawed
  BY DEF Thawed
<1> QED BY <1>1, <1>2, <1>3, ThawPendingAlways, TypeCorrect, PTL

=============================================================================
