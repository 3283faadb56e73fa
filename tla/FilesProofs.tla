----------------------------- MODULE FilesProofs -----------------------------
(***************************************************************************)
(* TLAPS proofs about RepositoryFiles: its types, and that repo.key,       *)
(* snapshot_metadata.json and history.log keep what they promise, for any  *)
(* commands beside each other and kills between any two system calls,      *)
(* except in the moments the properties name.                              *)
(***************************************************************************)
EXTENDS RepositoryFiles, Integers, FiniteSetTheorems, TLAPS

(* A process does not use a file of which another one has the number.      *)
LEMMA FreeIsFree ==
    ASSUME side \in Ino \cup {None}, tmp = None,
           NEW p \in Proc, fd[p] = None
    PROVE  Free \in Ino /\ Free # side /\ \A q \in Proc : fd[q] # Free
  <1> DEFINE opened == {fd[q] : q \in Proc \ {p}}
             used == opened \cup {side}
  <1> USE FilesAssumption
  <1>1. IsFiniteSet(Proc \ {p}) /\ Cardinality(Proc \ {p}) = Cardinality(Proc) - 1
        /\ Cardinality(Proc) \in Nat /\ Cardinality(Ino) \in Nat
    BY FS_RemoveElement, FS_CardinalityType
  <1>2. /\ IsFiniteSet(opened)
        /\ Cardinality(opened) <= Cardinality(Proc) - 1
        /\ Cardinality(opened) \in Nat
    <2> DEFINE open == [q \in Proc \ {p} |-> fd[q]]
    <2>1. open \in Surjection(Proc \ {p}, opened)
      BY DEF Surjection
    <2> HIDE DEF opened, open
    <2>2. IsFiniteSet(opened) /\ Cardinality(opened) <= Cardinality(Proc \ {p})
      BY <1>1, <2>1, FS_Surjection
    <2> QED
      BY <1>1, <2>2, FS_CardinalityType
  <1> HIDE DEF opened
  <1>3. IsFiniteSet(used) /\ Cardinality(used) <= Cardinality(Proc)
        /\ Cardinality(used) \in Nat
    <2>1. IsFiniteSet(used) /\ Cardinality(used) <= Cardinality(opened) + 1
      <3>1. IsFiniteSet(used)
            /\ Cardinality(used) = IF side \in opened THEN Cardinality(opened) ELSE Cardinality(opened) + 1
        BY <1>2, FS_AddElement, Zenon
      <3> QED
        BY <1>2, <3>1
    <2> QED
      BY <1>1, <1>2, <2>1, FS_CardinalityType
  <1> HIDE DEF used
  <1>4. ~(Ino \subseteq used)
    BY <1>1, <1>3, FS_Subset
  <1>5. PICK i \in Ino : i \notin used
    BY <1>4
  <1>6. i \notin {side, tmp} \cup {fd[q] : q \in Proc}
    BY <1>5 DEF used, opened
  <1> QED
    BY <1>6 DEF Free

-----------------------------------------------------------------------------
(* What a command has read and is for, at each of its steps.               *)
Rotating == {"truncate", "write"}
Rewriting == {"create", "fill", "rename"}
Changing == Rewriting \cup {"refs", "load", "last", "line", "newline"}
Step == {"idle", "open"} \cup Rotating \cup Changing

Underway ==
    /\ mem = [p \in Proc |-> mem[p]]
    /\ \A p \in Proc :
         /\ pc[p] # "idle" => cmd[p] \in Command
         /\ pc[p] \in Rotating => cmd[p].op = "rotate"
         /\ pc[p] \in Changing => cmd[p].op # "rotate"
         /\ pc[p] \in Rewriting => mem[p] \in SUBSET Snapshot
         /\ pc[p] = "line" => mem[p] \in Nat

(* Wherever the log is looked at, one entry is the last before.            *)
HasLast ==
    \A n \in 1..(Len(log) + 1) :
        \/ EntriesBefore(n) = {}
        \/ \E i \in EntriesBefore(n) : \A j \in EntriesBefore(n) : j <= i

LEMMA UsingSteps ==
    /\ Using("key") = Rotating /\ Using("side") = Rewriting
    /\ Using("log") = {"line", "newline"}
    /\ {"idle", "open", "refs", "load", "last"}
          \cup UNION {Using(f) : f \in {"key", "side", "log"}} = Step
  <1>1. /\ Using("key") = Rotating /\ Using("side") = Rewriting
        /\ Using("log") = {"line", "newline"}
    BY DEF Using, Rotating, Rewriting
  <1>2. UNION {Using(f) : f \in {"key", "side", "log"}}
          = Using("key") \cup Using("side") \cup Using("log")
    OBVIOUS
  <1> QED
    BY <1>1, <1>2 DEF Step, Changing, Rotating, Rewriting

LEMMA CommandKinds ==
    \A c \in Command :
        /\ c.op \in {"rotate", "finalize", "remove"}
        /\ c.op = "rotate" => c.old \in Password /\ c.new \in Password
        /\ c.op # "rotate" => c.id \in Snapshot
  BY DEF Command

(* The place of the last entry, when there is one.                         *)
LEMMA LastEntry ==
    ASSUME log \in Seq(Entry \cup {NL}), HasLast, NEW n \in 1..(Len(log) + 1)
    PROVE  \/ EntriesBefore(n) = {} /\ SignatureBefore(n) = 0
           \/ \E i \in EntriesBefore(n) :
                /\ \A j \in EntriesBefore(n) : j <= i
                /\ SignatureBefore(n) = log[i].signature
                /\ log[i] \in Entry /\ log[i].signature \in Nat \ {0}
  <1>1. CASE EntriesBefore(n) = {}
    BY <1>1 DEF SignatureBefore
  <1>2. CASE EntriesBefore(n) # {}
    <2> DEFINE i == CHOOSE i \in EntriesBefore(n) : \A j \in EntriesBefore(n) : j <= i
    <2>1. i \in EntriesBefore(n) /\ \A j \in EntriesBefore(n) : j <= i
      BY <1>2 DEF HasLast
    <2>2. SignatureBefore(n) = log[i].signature
      BY <1>2 DEF SignatureBefore
    <2> HIDE DEF i
    <2>3. log[i] \in Entry
      BY <2>1 DEF EntriesBefore, Entries
    <2> QED
      BY <2>1, <2>2, <2>3 DEF Entry
  <1> QED
    BY <1>1, <1>2

(* Appending leaves what stands before as it is.                           *)
LEMMA AppendKeeps ==
    ASSUME log \in Seq(Entry \cup {NL}), HasLast,
           NEW x \in Entry \cup {NL}, log' = Append(log, x)
    PROVE  /\ log' \in Seq(Entry \cup {NL}) /\ Len(log') = Len(log) + 1 /\ Len(log) \in Nat
           /\ \A i \in 1..Len(log) : log'[i] = log[i]
           /\ log'[Len(log) + 1] = x
           /\ Entries' = IF x = NL THEN Entries ELSE Entries \cup {Len(log) + 1}
           /\ \A n \in 1..(Len(log) + 1) : SignatureBefore(n)' = SignatureBefore(n)
           /\ HasLast'
  <1>1. /\ log' \in Seq(Entry \cup {NL}) /\ Len(log') = Len(log) + 1 /\ Len(log) \in Nat
        /\ \A i \in 1..Len(log) : log'[i] = log[i]
        /\ log'[Len(log) + 1] = x
        /\ DOMAIN log = 1..Len(log) /\ DOMAIN log' = 1..(Len(log) + 1)
    OBVIOUS
  <1>2. Entries' = IF x = NL THEN Entries ELSE Entries \cup {Len(log) + 1}
    BY <1>1 DEF Entries
  <1>3. Entries \subseteq 1..Len(log)
    BY <1>1 DEF Entries
  <1>4. \A n \in 1..(Len(log) + 1) : EntriesBefore(n)' = EntriesBefore(n)
    BY <1>1, <1>2, <1>3 DEF EntriesBefore
  <1>5. ASSUME NEW n \in 1..(Len(log) + 1)
        PROVE  SignatureBefore(n)' = SignatureBefore(n)
    <2>1. CASE EntriesBefore(n) = {}
      BY <1>4, <2>1 DEF SignatureBefore
    <2>2. CASE EntriesBefore(n) # {}
      <3> DEFINE i == CHOOSE i \in EntriesBefore(n) : \A j \in EntriesBefore(n) : j <= i
      <3>1. i \in EntriesBefore(n)
        BY <2>2 DEF HasLast
      <3>2. SignatureBefore(n) = log[i].signature /\ SignatureBefore(n)' = log'[i].signature
        BY <1>4, <2>2 DEF SignatureBefore
      <3> HIDE DEF i
      <3>3. log'[i] = log[i]
        BY <1>1, <1>3, <3>1 DEF EntriesBefore
      <3> QED
        BY <3>2, <3>3
    <2> QED
      BY <2>1, <2>2
  <1>6. HasLast'
    <2>1. ASSUME NEW n \in 1..(Len(log) + 2)
          PROVE  \/ EntriesBefore(n)' = {}
                 \/ \E i \in EntriesBefore(n)' : \A j \in EntriesBefore(n)' : j <= i
      <3>1. CASE n \in 1..(Len(log) + 1)
        BY <1>4, <3>1 DEF HasLast
      <3>2. CASE n = Len(log) + 2 /\ x # NL
        <4>1. Len(log) + 1 \in EntriesBefore(n)' /\ \A j \in EntriesBefore(n)' : j <= Len(log) + 1
          BY <1>1, <1>2, <1>3, <3>2 DEF EntriesBefore
        <4> QED
          BY <4>1
      <3>3. CASE n = Len(log) + 2 /\ x = NL
        <4>1. EntriesBefore(n)' = EntriesBefore(Len(log) + 1)
          <5>1. Entries' = Entries
            BY <1>2, <3>3
          <5>2. \A i \in Entries : i < n /\ i < Len(log) + 1
            BY <1>1, <1>3, <3>3
          <5> QED
            BY <5>1, <5>2 DEF EntriesBefore
        <4>2. Len(log) + 1 \in 1..(Len(log) + 1)
          BY <1>1
        <4> QED
          BY <4>1, <4>2 DEF HasLast
      <3> QED
        BY <1>1, <3>1, <3>2, <3>3
    <2> QED
      BY <1>1, <2>1 DEF HasLast
  <1> QED
    BY <1>1, <1>2, <1>5, <1>6

-----------------------------------------------------------------------------
Sound == TypeOK /\ Underway /\ HasLast

LEMMA SoundInit == Init => Sound
  <1> SUFFICES ASSUME Init PROVE Sound
    OBVIOUS
  <1> USE FilesAssumption
  <1>1. HasLast
    BY DEF Init, HasLast, EntriesBefore, Entries
  <1>2. Underway
    BY DEF Init, Underway, Rotating, Rewriting, Changing
  <1>3. pc \in [Proc -> Step] /\ log \in Seq(Entry \cup {NL})
    BY DEF Init, Step
  <1>4. content \in [Ino -> Broken \cup SUBSET Snapshot]
    BY DEF Init
  <1> QED
    BY <1>1, <1>2, <1>3, <1>4, UsingSteps DEF Sound, Init, TypeOK

(* A command that leaves, or goes on to another step.                      *)
LEMMA LeaveSound ==
    ASSUME Sound, NEW p \in Proc, Leave(p)
    PROVE  /\ pc' \in [Proc -> Step] /\ cmd' \in [Proc -> Command \cup {NoCommand}]
           /\ fd' \in [Proc -> Ino \cup {None}]
           /\ \A q \in Proc : pc'[q] = "fill" <=> fd'[q] # None
           /\ Underway'
  <1>1. pc' \in [Proc -> Step] /\ pc'[p] = "idle"
        /\ \A q \in Proc \ {p} : pc'[q] = pc[q]
    BY UsingSteps DEF Sound, TypeOK, Leave, Go, Step
  <1>2. /\ cmd' \in [Proc -> Command \cup {NoCommand}]
        /\ fd' \in [Proc -> Ino \cup {None}] /\ fd'[p] = None
        /\ mem' = [q \in Proc |-> mem'[q]]
        /\ \A q \in Proc \ {p} : fd'[q] = fd[q] /\ cmd'[q] = cmd[q] /\ mem'[q] = mem[q]
    BY DEF Sound, TypeOK, Leave, Learn, Underway
  <1>3. \A q \in Proc : pc'[q] = "fill" <=> fd'[q] # None
    BY <1>1, <1>2 DEF Sound, TypeOK
  <1>4. Underway'
    BY <1>1, <1>2 DEF Sound, Underway, Rotating, Rewriting, Changing
  <1> QED
    BY <1>1, <1>2, <1>3, <1>4

LEMMA GoSound ==
    ASSUME Sound, NEW p \in Proc, NEW step \in Step, Go(p, step),
           cmd' = cmd, UNCHANGED mem \/ \E v : Learn(p, v),
           pc[p] # "idle",
           step # "idle",
           step \in Rotating => cmd[p].op = "rotate",
           step \in Changing => cmd[p].op # "rotate",
           step \in Rewriting => mem'[p] \in SUBSET Snapshot,
           step = "line" => mem'[p] \in Nat
    PROVE  /\ pc' \in [Proc -> Step]
           /\ pc'[p] = step /\ \A q \in Proc \ {p} : pc'[q] = pc[q]
           /\ Underway'
  <1>1. /\ pc' \in [Proc -> Step]
        /\ pc'[p] = step /\ \A q \in Proc \ {p} : pc'[q] = pc[q]
    BY UsingSteps DEF Sound, TypeOK, Go
  <1>2. /\ mem' = [q \in Proc |-> mem'[q]]
        /\ \A q \in Proc \ {p} : mem'[q] = mem[q]
    BY DEF Sound, Underway, Learn
  <1>3. Underway'
    BY <1>1, <1>2 DEF Sound, Underway
  <1> QED
    BY <1>1, <1>3

LEMMA ClashTypes ==
    ASSUME Sound, NEW p, NEW f \in {"key", "side", "log"}, Clash(p, f)
    PROVE  clash' \subseteq {"key", "side", "log"}
  BY DEF Sound, TypeOK, Clash

(* Every step keeps the types, what the steps of a command rely on, and    *)
(* that the log has a last entry.                                          *)
LEMMA SoundStep == ASSUME Sound, [Next]_vars PROVE Sound'
  <1> USE FilesAssumption
  <1>0. CASE UNCHANGED vars
    BY <1>0, UsingSteps
       DEF vars, repo, procs, history, Sound, TypeOK, Underway, HasLast, EntriesBefore, Entries
  <1>t. ASSUME NEW p \in Proc PROVE pc[p] \in Step /\ cmd[p] \in Command \cup {NoCommand}
    BY UsingSteps DEF Sound, TypeOK
  <1>f. ASSUME UNCHANGED log PROVE HasLast' /\ log' \in Seq(Entry \cup {NL})
    BY <1>f DEF Sound, TypeOK, HasLast, EntriesBefore, Entries
  <1>l. ASSUME NEW p \in Proc, Fail(p) PROVE Sound'
    BY <1>l, <1>f, LeaveSound, UsingSteps DEF Fail, repo, history, Sound, TypeOK
  <1>1. ASSUME NEW p \in Proc, NEW c \in Command, Begin(p, c) PROVE Sound'
    <2>1. /\ pc' \in [Proc -> Step] /\ pc'[p] = "open" /\ \A q \in Proc \ {p} : pc'[q] = pc[q]
          /\ cmd' \in [Proc -> Command \cup {NoCommand}]
          /\ cmd'[p] = c /\ \A q \in Proc \ {p} : cmd'[q] = cmd[q]
      BY <1>1, UsingSteps DEF Begin, Go, Sound, TypeOK, Step
    <2>2. Underway'
      BY <1>1, <2>1 DEF Begin, Sound, Underway, Rotating, Rewriting, Changing
    <2>3. \A q \in Proc : pc'[q] = "fill" <=> fd'[q] # None
      BY <1>1, <2>1 DEF Begin, Sound, TypeOK
    <2> QED
      BY <1>1, <1>f, <2>1, <2>2, <2>3, UsingSteps DEF Begin, repo, Sound, TypeOK
  <1>2. ASSUME NEW p \in Proc, OpenKey(p) PROVE Sound'
    <2>1. clash' \subseteq {"key", "side", "log"}
      BY <1>2, ClashTypes DEF OpenKey, Sound, TypeOK
    <2>2. PICK step \in {"truncate", "refs"} : Go(p, step) /\ (step = "truncate" <=> cmd[p].op = "rotate")
      BY <1>2 DEF OpenKey
    <2>3. pc[p] = "open" /\ UNCHANGED <<repo, cmd, mem, fd, count, known, recorded, removed, cut>>
      BY <1>2 DEF OpenKey
    <2>4. /\ pc' \in [Proc -> Step] /\ pc'[p] = step /\ \A q \in Proc \ {p} : pc'[q] = pc[q]
          /\ Underway'
      BY <2>2, <2>3, GoSound DEF Rotating, Rewriting, Changing, Step
    <2>5. \A q \in Proc : pc'[q] = "fill" <=> fd'[q] # None
      BY <2>3, <2>4 DEF Sound, TypeOK
    <2> QED
      BY <1>f, <2>1, <2>3, <2>4, <2>5, UsingSteps DEF repo, Sound, TypeOK
  <1>3. ASSUME NEW p \in Proc, OpenKeyFails(p) PROVE Sound'
    BY <1>3, <1>l DEF OpenKeyFails
  <1>4. ASSUME NEW p \in Proc, TruncateKey(p) PROVE Sound'
    <2>1. pc[p] = "truncate" /\ cmd[p].op = "rotate" /\ Go(p, "write") /\ key' = Empty
          /\ UNCHANGED <<side, tmp, content, log, refs, cmd, mem, fd, history>>
      BY <1>4 DEF TruncateKey, Sound, Underway, Rotating
    <2>2. /\ pc' \in [Proc -> Step] /\ pc'[p] = "write" /\ \A q \in Proc \ {p} : pc'[q] = pc[q]
          /\ Underway'
      BY <2>1, GoSound DEF Rotating, Rewriting, Changing, Step
    <2>3. \A q \in Proc : pc'[q] = "fill" <=> fd'[q] # None
      BY <2>1, <2>2 DEF Sound, TypeOK
    <2> QED
      BY <1>f, <2>1, <2>2, <2>3, UsingSteps DEF history, Sound, TypeOK, Broken
  <1>5. ASSUME NEW p \in Proc, WriteKey(p) PROVE Sound'
    <2>1. cmd[p].new \in Password
      BY <1>5, CommandKinds DEF WriteKey, Sound, Underway, Rotating
    <2>2. key' \in Password \cup Broken /\ known' \in Password
      BY <1>5, <2>1 DEF WriteKey, Broken
    <2> QED
      BY <1>5, <1>f, <2>2, LeaveSound, UsingSteps DEF WriteKey, Sound, TypeOK
  <1>6. ASSUME NEW p \in Proc, ChangeRefs(p) PROVE Sound'
    <2>1. pc[p] = "refs" /\ cmd[p].op # "rotate" /\ cmd[p].id \in Snapshot /\ Go(p, "load")
          /\ UNCHANGED <<key, side, tmp, content, log, cmd, mem, fd, history>>
      BY <1>6, CommandKinds DEF ChangeRefs, Sound, Underway, Changing
    <2>2. /\ pc' \in [Proc -> Step] /\ pc'[p] = "load" /\ \A q \in Proc \ {p} : pc'[q] = pc[q]
          /\ Underway'
      BY <2>1, GoSound DEF Rotating, Rewriting, Changing, Step
    <2>3. \A q \in Proc : pc'[q] = "fill" <=> fd'[q] # None
      BY <2>1, <2>2 DEF Sound, TypeOK
    <2>4. refs' \subseteq Snapshot
      BY <1>6, <2>1 DEF ChangeRefs, Sound, TypeOK
    <2> QED
      BY <1>f, <2>1, <2>2, <2>3, <2>4, UsingSteps DEF history, Sound, TypeOK
  <1>7. ASSUME NEW p \in Proc, Load(p) PROVE Sound'
    <2>1. pc[p] = "load" /\ cmd[p].op # "rotate" /\ cmd[p].id \in Snapshot /\ Go(p, "create")
          /\ UNCHANGED <<repo, cmd, fd, count, known, recorded, removed, cut>>
      BY <1>7, CommandKinds DEF Load, Sound, Underway, Changing
    <2>2. PICK old : /\ old \in SUBSET Snapshot
                     /\ Learn(p, IF cmd[p].op = "finalize" THEN old \cup {cmd[p].id}
                                 ELSE old \ {cmd[p].id})
      <3>1. side # None => content[side] \in SUBSET Snapshot
        BY <1>7 DEF Load, Sound, TypeOK
      <3> QED
        BY <1>7, <3>1 DEF Load
    <2>3. mem'[p] \in SUBSET Snapshot
      BY <2>1, <2>2 DEF Learn, Sound, Underway
    <2>4. /\ pc' \in [Proc -> Step] /\ pc'[p] = "create" /\ \A q \in Proc \ {p} : pc'[q] = pc[q]
          /\ Underway'
      BY <2>1, <2>2, <2>3, GoSound DEF Rotating, Rewriting, Changing, Step
    <2>5. \A q \in Proc : pc'[q] = "fill" <=> fd'[q] # None
      BY <2>1, <2>4 DEF Sound, TypeOK
    <2>6. clash' \subseteq {"key", "side", "log"}
      BY <1>7, ClashTypes DEF Load
    <2> QED
      BY <1>f, <2>1, <2>4, <2>5, <2>6, UsingSteps DEF repo, Sound, TypeOK
  <1>8. ASSUME NEW p \in Proc, LoadFails(p) PROVE Sound'
    BY <1>8, <1>l DEF LoadFails
  <1>9. ASSUME NEW p \in Proc, CreateTmp(p) PROVE Sound'
    <2>1. pc[p] = "create" /\ cmd[p].op # "rotate" /\ mem[p] \in SUBSET Snapshot /\ Go(p, "fill")
          /\ fd[p] = None
          /\ UNCHANGED <<key, side, log, refs, cmd, mem, history>>
      BY <1>9 DEF CreateTmp, Sound, TypeOK, Underway, Changing, Rewriting
    <2>2. tmp' \in Ino
      BY <1>9, <2>1, FreeIsFree DEF CreateTmp, Sound, TypeOK
    <2>3. content' \in [Ino -> Broken \cup SUBSET Snapshot]
      BY <1>9 DEF CreateTmp, Sound, TypeOK, Broken
    <2>4. /\ pc' \in [Proc -> Step] /\ pc'[p] = "fill" /\ \A q \in Proc \ {p} : pc'[q] = pc[q]
          /\ Underway'
      BY <2>1, GoSound DEF Rotating, Rewriting, Changing, Step
    <2>5. fd' \in [Proc -> Ino \cup {None}] /\ fd'[p] # None /\ \A q \in Proc \ {p} : fd'[q] = fd[q]
      BY <1>9, <2>2 DEF CreateTmp, Sound, TypeOK
    <2>6. \A q \in Proc : pc'[q] = "fill" <=> fd'[q] # None
      BY <2>4, <2>5 DEF Sound, TypeOK
    <2> QED
      BY <1>f, <2>1, <2>2, <2>3, <2>4, <2>5, <2>6, UsingSteps DEF history, Sound, TypeOK
  <1>10. ASSUME NEW p \in Proc, FillTmp(p) PROVE Sound'
    <2>1. pc[p] = "fill" /\ cmd[p].op # "rotate" /\ mem[p] \in SUBSET Snapshot /\ Go(p, "rename")
          /\ UNCHANGED <<key, side, tmp, log, refs, cmd, mem, history>>
      BY <1>10 DEF FillTmp, Sound, Underway, Changing, Rewriting
    <2>2. content' \in [Ino -> Broken \cup SUBSET Snapshot]
      BY <1>10, <2>1 DEF FillTmp, Sound, TypeOK, Broken
    <2>3. /\ pc' \in [Proc -> Step] /\ pc'[p] = "rename" /\ \A q \in Proc \ {p} : pc'[q] = pc[q]
          /\ Underway'
      BY <2>1, GoSound DEF Rotating, Rewriting, Changing, Step
    <2>4. fd' \in [Proc -> Ino \cup {None}] /\ fd'[p] = None /\ \A q \in Proc \ {p} : fd'[q] = fd[q]
      BY <1>10 DEF FillTmp, Sound, TypeOK
    <2>5. \A q \in Proc : pc'[q] = "fill" <=> fd'[q] # None
      BY <2>3, <2>4 DEF Sound, TypeOK
    <2> QED
      BY <1>f, <2>1, <2>2, <2>3, <2>4, <2>5, UsingSteps DEF history, Sound, TypeOK
  <1>11. ASSUME NEW p \in Proc, Rename(p) PROVE Sound'
    <2>1. pc[p] = "rename" /\ cmd[p].op # "rotate" /\ cmd[p].id \in Snapshot /\ Go(p, "last")
          /\ UNCHANGED <<key, content, log, refs, cmd, mem, fd, count, known, clash, cut>>
          /\ side' = tmp /\ tmp' = None
      BY <1>11, CommandKinds DEF Rename, Sound, Underway, Changing, Rewriting
    <2>2. /\ pc' \in [Proc -> Step] /\ pc'[p] = "last" /\ \A q \in Proc \ {p} : pc'[q] = pc[q]
          /\ Underway'
      BY <2>1, GoSound DEF Rotating, Rewriting, Changing, Step
    <2>3. \A q \in Proc : pc'[q] = "fill" <=> fd'[q] # None
      BY <2>1, <2>2 DEF Sound, TypeOK
    <2>4. recorded' \subseteq Snapshot /\ removed' \subseteq Snapshot
      BY <1>11, <2>1 DEF Rename, Sound, TypeOK
    <2> QED
      BY <1>f, <2>1, <2>2, <2>3, <2>4, UsingSteps DEF Sound, TypeOK
  <1>12. ASSUME NEW p \in Proc, RenameFails(p) PROVE Sound'
    BY <1>12, <1>l DEF RenameFails
  <1>13. ASSUME NEW p \in Proc, ReadLast(p) PROVE Sound'
    <2>1. pc[p] = "last" /\ cmd[p].op # "rotate" /\ Learn(p, LastSignature) /\ Go(p, "line")
          /\ UNCHANGED <<repo, cmd, fd, count, known, recorded, removed, cut>>
      BY <1>13 DEF ReadLast, Sound, Underway, Changing
    <2>2. LastSignature \in Nat
      <3>1. Len(log) + 1 \in 1..(Len(log) + 1) /\ log \in Seq(Entry \cup {NL}) /\ HasLast
        BY DEF Sound, TypeOK
      <3> QED
        BY <3>1, LastEntry DEF LastSignature
    <2>3. mem'[p] \in Nat
      BY <2>1, <2>2 DEF Learn, Sound, Underway
    <2>4. /\ pc' \in [Proc -> Step] /\ pc'[p] = "line" /\ \A q \in Proc \ {p} : pc'[q] = pc[q]
          /\ Underway'
      BY <2>1, <2>3, GoSound DEF Rotating, Rewriting, Changing, Step
    <2>5. \A q \in Proc : pc'[q] = "fill" <=> fd'[q] # None
      BY <2>1, <2>4 DEF Sound, TypeOK
    <2>6. clash' \subseteq {"key", "side", "log"}
      BY <1>13, ClashTypes DEF ReadLast
    <2> QED
      BY <1>f, <2>1, <2>4, <2>5, <2>6, UsingSteps DEF repo, Sound, TypeOK
  <1>14. ASSUME NEW p \in Proc, ReadLastFails(p) PROVE Sound'
    BY <1>14, <1>l DEF ReadLastFails
  <1>15. ASSUME NEW p \in Proc, AppendLine(p) PROVE Sound'
    <2>1. pc[p] = "line" /\ cmd[p].op # "rotate" /\ cmd[p] \in Command /\ mem[p] \in Nat
          /\ Go(p, "newline")
          /\ UNCHANGED <<key, side, tmp, content, refs, cmd, mem, fd, history>>
      BY <1>15 DEF AppendLine, Sound, Underway, Changing
    <2>2. [signature |-> Len(log) + 1, prev |-> mem[p], command |-> cmd[p]] \in Entry
      BY <2>1 DEF Entry, Sound, TypeOK
    <2>3. HasLast' /\ log' \in Seq(Entry \cup {NL})
      BY <1>15, <2>2, AppendKeeps DEF AppendLine, Sound, TypeOK
    <2>4. /\ pc' \in [Proc -> Step] /\ pc'[p] = "newline" /\ \A q \in Proc \ {p} : pc'[q] = pc[q]
          /\ Underway'
      BY <2>1, GoSound DEF Rotating, Rewriting, Changing, Step
    <2>5. \A q \in Proc : pc'[q] = "fill" <=> fd'[q] # None
      BY <2>1, <2>4 DEF Sound, TypeOK
    <2> QED
      BY <2>1, <2>3, <2>4, <2>5, UsingSteps DEF history, Sound, TypeOK
  <1>16. ASSUME NEW p \in Proc, AppendNewline(p) PROVE Sound'
    <2>1. HasLast' /\ log' \in Seq(Entry \cup {NL})
      BY <1>16, AppendKeeps DEF AppendNewline, Sound, TypeOK
    <2> QED
      BY <1>16, <2>1, LeaveSound, UsingSteps DEF AppendNewline, history, Sound, TypeOK
  <1>17. ASSUME NEW p \in Proc, Kill(p) PROVE Sound'
    BY <1>17, <1>f, LeaveSound, UsingSteps DEF Kill, repo, Sound, TypeOK
  <1> QED
    BY <1>0, <1>1, <1>2, <1>3, <1>4, <1>5, <1>6, <1>7, <1>8, <1>9, <1>10, <1>11,
       <1>12, <1>13, <1>14, <1>15, <1>16, <1>17 DEF Next

THEOREM SoundAlways == Spec => []Sound
  BY SoundInit, SoundStep, PTL DEF Spec

(* Every variable of RepositoryFiles keeps its type: a command that writes *)
(* the metadata file always finds a file of its own or the one left over.  *)
THEOREM TypeCorrect == Spec => []TypeOK
  <1>1. Sound => TypeOK
    BY DEF Sound
  <1> QED
    BY <1>1, SoundAlways, PTL

-----------------------------------------------------------------------------
(* repo.key: one command rotates at a time, and until it has written the   *)
(* file is empty.                                                          *)
KeyInv ==
    "key" \notin clash =>
        /\ \A p, q \in Proc : pc[p] \in Rotating /\ pc[q] \in Rotating => p = q
        /\ "key" \notin cut =>
             /\ (\E p \in Proc : pc[p] = "write") => key = Empty
             /\ (\A p \in Proc : pc[p] # "write") => key = known

LEMMA KeyInit == Init => KeyInv
  BY DEF Init, KeyInv, Rotating

(* Steps that leave repo.key alone, at most by giving up before the write. *)
LEMMA KeyFrame ==
    ASSUME Sound, KeyInv, UNCHANGED <<key, known>>, clash \subseteq clash', cut \subseteq cut',
           NEW p \in Proc, \A q \in Proc \ {p} : pc'[q] = pc[q],
           pc'[p] \notin Rotating, pc[p] = "write" => "key" \in cut'
    PROVE  KeyInv'
  <1>1. ASSUME "key" \notin clash' PROVE "key" \notin clash
    BY <1>1
  <1>2. ASSUME "key" \notin cut' PROVE "key" \notin cut /\ pc[p] # "write"
    BY <1>2
  <1> QED
    BY <1>1, <1>2 DEF KeyInv, Rotating

LEMMA KeyStep == ASSUME Sound, KeyInv, [Next]_vars PROVE KeyInv'
  <1>0. CASE UNCHANGED vars
    BY <1>0 DEF vars, repo, procs, history, KeyInv
  <1>p. ASSUME NEW p \in Proc, NEW step, Go(p, step)
        PROVE  pc'[p] = step /\ \A q \in Proc \ {p} : pc'[q] = pc[q]
    BY <1>p DEF Go, Sound, TypeOK
  <1>l. ASSUME NEW p \in Proc, Leave(p)
        PROVE  pc'[p] = "idle" /\ \A q \in Proc \ {p} : pc'[q] = pc[q]
    BY <1>l, <1>p DEF Leave
  <1>c. ASSUME NEW p \in Proc, NEW f, Clash(p, f) PROVE clash \subseteq clash'
    BY <1>c DEF Clash
  <1>1. ASSUME NEW p \in Proc, NEW c \in Command, Begin(p, c) PROVE KeyInv'
    BY <1>1, <1>p, KeyFrame DEF Begin, repo, Rotating
  <1>2. ASSUME NEW p \in Proc, OpenKey(p) PROVE KeyInv'
    <2>1. CASE Go(p, "refs") /\ UNCHANGED clash
      BY <1>2, <1>p, <2>1, KeyFrame DEF OpenKey, repo, Rotating
    <2>2. CASE Go(p, "truncate") /\ Clash(p, "key")
      <3>1. /\ pc[p] = "open" /\ pc'[p] = "truncate" /\ UNCHANGED <<key, known, cut>>
            /\ \A q \in Proc \ {p} : pc'[q] = pc[q]
        BY <1>2, <1>p, <2>2 DEF OpenKey, repo
      <3>2. "key" \notin clash' => "key" \notin clash /\ \A q \in Proc \ {p} : pc[q] \notin Rotating
        BY <2>2, UsingSteps DEF Clash
      <3> QED
        BY <3>1, <3>2 DEF KeyInv, Rotating
    <2> QED
      BY <1>2, <2>1, <2>2 DEF OpenKey
  <1>3. ASSUME NEW p \in Proc, TruncateKey(p) PROVE KeyInv'
    <2>1. pc[p] = "truncate" /\ pc'[p] = "write" /\ key' = Empty
          /\ UNCHANGED <<clash, cut>> /\ \A q \in Proc \ {p} : pc'[q] = pc[q]
      BY <1>3, <1>p DEF TruncateKey, history
    <2> QED
      BY <2>1 DEF KeyInv, Rotating
  <1>4. ASSUME NEW p \in Proc, WriteKey(p) PROVE KeyInv'
    <2>1. /\ pc[p] = "write" /\ pc'[p] = "idle" /\ known' = cmd[p].new
          /\ key = Empty => key' = cmd[p].new
          /\ UNCHANGED <<clash, cut>> /\ \A q \in Proc \ {p} : pc'[q] = pc[q]
      BY <1>4, <1>l DEF WriteKey
    <2> QED
      BY <2>1 DEF KeyInv, Rotating
  <1>5. ASSUME NEW p \in Proc, Fail(p), pc[p] \notin Rotating PROVE KeyInv'
    BY <1>5, <1>l, KeyFrame DEF Fail, repo, history, Rotating
  <1>6. ASSUME NEW p \in Proc,
               OpenKeyFails(p) \/ LoadFails(p) \/ RenameFails(p) \/ ReadLastFails(p)
        PROVE  KeyInv'
    BY <1>5, <1>6 DEF OpenKeyFails, LoadFails, RenameFails, ReadLastFails, Rotating
  <1>7. ASSUME NEW p \in Proc,
               ChangeRefs(p) \/ CreateTmp(p) \/ FillTmp(p) \/ Rename(p) \/ AppendLine(p)
        PROVE  KeyInv'
    <2>1. PICK step \in Changing : Go(p, step)
      BY <1>7 DEF ChangeRefs, CreateTmp, FillTmp, Rename, AppendLine, Changing, Rewriting
    <2>2. UNCHANGED <<key, known, clash, cut>> /\ pc[p] # "write"
      BY <1>7 DEF ChangeRefs, CreateTmp, FillTmp, Rename, AppendLine, history
    <2> QED
      BY <1>p, <2>1, <2>2, KeyFrame DEF Rotating, Changing, Rewriting
  <1>8. ASSUME NEW p \in Proc, Load(p) \/ ReadLast(p) PROVE KeyInv'
    <2>1. PICK step \in Changing : Go(p, step)
      BY <1>8 DEF Load, ReadLast, Changing, Rewriting
    <2>2. UNCHANGED <<key, known, cut>> /\ pc[p] # "write" /\ clash \subseteq clash'
      BY <1>8, <1>c DEF Load, ReadLast, repo
    <2> QED
      BY <1>p, <2>1, <2>2, KeyFrame DEF Rotating, Changing, Rewriting
  <1>9. ASSUME NEW p \in Proc, AppendNewline(p) PROVE KeyInv'
    BY <1>9, <1>l, KeyFrame DEF AppendNewline, history, Rotating
  <1>10. ASSUME NEW p \in Proc, Kill(p) PROVE KeyInv'
    BY <1>10, <1>l, KeyFrame DEF Kill, repo, Rotating
  <1> QED
    BY <1>0, <1>1, <1>2, <1>3, <1>4, <1>6, <1>7, <1>8, <1>9, <1>10 DEF Next

(* The repository opens with the password of the last rotation.            *)
THEOREM AlwaysKeyOpens == Spec => []KeyOpens
  <1>1. KeyInv => KeyOpens
    BY DEF KeyInv, KeyOpens
  <1> QED
    BY <1>1, KeyInit, KeyStep, SoundAlways, PTL DEF Spec

-----------------------------------------------------------------------------
(* What the metadata file lists, and what a command makes of it.           *)
Ids == IF side = None THEN {} ELSE content[side]
Changed(p) ==
    IF cmd[p].op = "finalize" THEN Ids \cup {cmd[p].id} ELSE Ids \ {cmd[p].id}

(* One command rewrites the metadata file at a time, through a temporary   *)
(* file that is not the one behind the name.                               *)
SideInv ==
    "side" \notin clash =>
        /\ \A p, q \in Proc : pc[p] \in Rewriting /\ pc[q] \in Rewriting => p = q
        /\ side = None \/ side # tmp
        /\ Ids \in SUBSET Snapshot
        /\ recorded \subseteq Ids /\ removed \cap Ids = {}
        /\ \A p \in Proc :
             /\ pc[p] \in Rewriting => mem[p] = Changed(p)
             /\ pc[p] = "fill" => tmp # None /\ fd[p] = tmp /\ content[tmp] = Empty
             /\ pc[p] = "rename" => tmp # None /\ content[tmp] = mem[p]

LEMMA SideInit == Init => SideInv
  BY DEF Init, SideInv, Ids, Rewriting

(* Steps of commands that do not rewrite the file, or give it up.          *)
LEMMA SideFrame ==
    ASSUME Sound, SideInv, UNCHANGED <<side, tmp, content, recorded, removed>>,
           clash \subseteq clash', NEW p \in Proc,
           \A q \in Proc \ {p} : pc'[q] = pc[q] /\ cmd'[q] = cmd[q] /\ mem'[q] = mem[q] /\ fd'[q] = fd[q],
           pc'[p] \notin Rewriting
    PROVE  SideInv'
  <1> SUFFICES ASSUME "side" \notin clash' PROVE SideInv'
    BY DEF SideInv
  <1>1. "side" \notin clash
    OBVIOUS
  <1>2. Ids' = Ids /\ \A q \in Proc \ {p} : Changed(q)' = Changed(q)
    BY DEF Ids, Changed
  <1> QED
    BY <1>1, <1>2 DEF SideInv, Rewriting

LEMMA SideStep == ASSUME Sound, Sound', SideInv, [Next]_vars PROVE SideInv'
  <1> USE FilesAssumption
  <1>0. CASE UNCHANGED vars
    BY <1>0 DEF vars, repo, procs, history, SideInv, Ids, Changed
  <1>p. ASSUME NEW p \in Proc, NEW step, Go(p, step)
        PROVE  pc'[p] = step /\ \A q \in Proc \ {p} : pc'[q] = pc[q]
    BY <1>p DEF Go, Sound, TypeOK
  <1>m. ASSUME NEW p \in Proc, NEW v, Learn(p, v)
        PROVE  mem'[p] = v /\ \A q \in Proc \ {p} : mem'[q] = mem[q]
    BY <1>m DEF Learn, Sound, Underway
  <1>l. ASSUME NEW p \in Proc, Leave(p)
        PROVE  /\ pc'[p] = "idle"
               /\ \A q \in Proc \ {p} : /\ pc'[q] = pc[q] /\ cmd'[q] = cmd[q]
                                         /\ mem'[q] = mem[q] /\ fd'[q] = fd[q]
    BY <1>l, <1>p, <1>m DEF Leave, Sound, TypeOK
  <1>c. ASSUME NEW p \in Proc, NEW f, Clash(p, f) PROVE clash \subseteq clash'
    BY <1>c DEF Clash
  <1>1. ASSUME NEW p \in Proc, NEW c \in Command, Begin(p, c) PROVE SideInv'
    <2>1. \A q \in Proc \ {p} : cmd'[q] = cmd[q]
      BY <1>1 DEF Begin, Sound, TypeOK
    <2> QED
      BY <1>1, <1>p, <2>1, SideFrame DEF Begin, repo, Rewriting
  <1>2. ASSUME NEW p \in Proc, OpenKey(p) PROVE SideInv'
    <2>1. PICK step \in {"truncate", "refs"} : Go(p, step) /\ clash \subseteq clash'
      BY <1>2, <1>c DEF OpenKey
    <2>2. UNCHANGED <<repo, cmd, mem, fd, recorded, removed>>
      BY <1>2 DEF OpenKey
    <2> QED
      BY <1>p, <2>1, <2>2, SideFrame DEF repo, Rewriting
  <1>3. ASSUME NEW p \in Proc, TruncateKey(p) \/ ChangeRefs(p) \/ AppendLine(p) PROVE SideInv'
    <2>1. PICK step \in {"write", "load", "newline"} : Go(p, step)
      BY <1>3 DEF TruncateKey, ChangeRefs, AppendLine
    <2>2. UNCHANGED <<side, tmp, content, cmd, mem, fd, recorded, removed, clash>>
      BY <1>3 DEF TruncateKey, ChangeRefs, AppendLine, history
    <2> QED
      BY <1>p, <2>1, <2>2, SideFrame DEF Rewriting
  <1>4. ASSUME NEW p \in Proc, WriteKey(p) \/ AppendNewline(p) \/ Kill(p) PROVE SideInv'
    <2>1. UNCHANGED <<side, tmp, content, recorded, removed, clash>> /\ Leave(p)
      BY <1>4 DEF WriteKey, AppendNewline, Kill, repo, history
    <2> QED
      BY <1>l, <2>1, SideFrame DEF Rewriting
  <1>5. ASSUME NEW p \in Proc,
               OpenKeyFails(p) \/ LoadFails(p) \/ RenameFails(p) \/ ReadLastFails(p)
        PROVE  SideInv'
    <2>1. UNCHANGED <<side, tmp, content, recorded, removed, clash>> /\ Leave(p)
      BY <1>5 DEF OpenKeyFails, LoadFails, RenameFails, ReadLastFails, Fail, repo, history
    <2> QED
      BY <1>l, <2>1, SideFrame DEF Rewriting
  <1>6. ASSUME NEW p \in Proc, ReadLast(p) PROVE SideInv'
    <2>1. UNCHANGED <<side, tmp, content, recorded, removed, cmd, fd>> /\ Go(p, "line")
          /\ Learn(p, LastSignature) /\ clash \subseteq clash'
      BY <1>6, <1>c DEF ReadLast, repo
    <2> QED
      BY <1>p, <1>m, <2>1, SideFrame DEF Rewriting
  <1>7. ASSUME NEW p \in Proc, Load(p) PROVE SideInv'
    <2> SUFFICES ASSUME "side" \notin clash' PROVE SideInv'
      BY DEF SideInv
    <2>1. "side" \notin clash /\ \A q \in Proc \ {p} : pc[q] \notin Rewriting
      BY <1>7, UsingSteps DEF Load, Clash
    <2>2. /\ pc'[p] = "create" /\ mem'[p] = Changed(p)
          /\ \A q \in Proc \ {p} : pc'[q] = pc[q]
          /\ UNCHANGED <<side, tmp, content, recorded, removed, cmd, fd>>
      <3>1. Go(p, "create") /\ Learn(p, Changed(p))
        BY <1>7 DEF Load, Changed, Ids
      <3> QED
        BY <1>7, <1>p, <1>m, <3>1 DEF Load, repo
    <2>3. Ids' = Ids /\ Changed(p)' = Changed(p)
      BY <2>2 DEF Ids, Changed
    <2> QED
      BY <2>1, <2>2, <2>3 DEF SideInv, Rewriting
  <1>8. ASSUME NEW p \in Proc, CreateTmp(p) PROVE SideInv'
    <2> SUFFICES ASSUME "side" \notin clash' PROVE SideInv'
      BY DEF SideInv
    <2>1. /\ "side" \notin clash /\ pc[p] = "create"
          /\ pc'[p] = "fill" /\ \A q \in Proc \ {p} : pc'[q] = pc[q]
          /\ UNCHANGED <<side, recorded, removed, cmd, mem>>
      BY <1>8, <1>p DEF CreateTmp, history
    <2>2. \A q \in Proc \ {p} : pc[q] \notin Rewriting
      BY <2>1 DEF SideInv, Rewriting
    <2>3. fd[p] = None
      BY <2>1 DEF Sound, TypeOK
    <2>4. tmp' \in Ino /\ tmp' # side
      <3>1. CASE tmp = None
        BY <1>8, <2>3, <3>1, FreeIsFree DEF CreateTmp, Sound, TypeOK
      <3>2. CASE tmp # None
        BY <1>8, <2>1, <3>2 DEF CreateTmp, Sound, TypeOK, SideInv
      <3> QED
        BY <3>1, <3>2
    <2>5. content'[tmp'] = Empty /\ fd'[p] = tmp' /\ (side # None => content'[side] = content[side])
      BY <1>8, <2>4 DEF CreateTmp, Sound, TypeOK
    <2>6. Ids' = Ids /\ Changed(p)' = Changed(p)
      BY <2>1, <2>5 DEF Ids, Changed
    <2> QED
      BY <2>1, <2>2, <2>4, <2>5, <2>6 DEF SideInv, Rewriting
  <1>9. ASSUME NEW p \in Proc, FillTmp(p) PROVE SideInv'
    <2> SUFFICES ASSUME "side" \notin clash' PROVE SideInv'
      BY DEF SideInv
    <2>1. /\ "side" \notin clash /\ pc[p] = "fill"
          /\ pc'[p] = "rename" /\ \A q \in Proc \ {p} : pc'[q] = pc[q]
          /\ UNCHANGED <<side, tmp, recorded, removed, cmd, mem>>
      BY <1>9, <1>p DEF FillTmp, history
    <2>2. /\ \A q \in Proc \ {p} : pc[q] \notin Rewriting
          /\ tmp # None /\ tmp \in Ino /\ fd[p] = tmp /\ content[tmp] = Empty /\ side # tmp
      BY <2>1 DEF SideInv, Rewriting, Sound, TypeOK
    <2>3. content' = [content EXCEPT ![tmp] = mem[p]]
      BY <1>9, <2>2 DEF FillTmp
    <2>4. content'[tmp] = mem[p] /\ (side # None => content'[side] = content[side])
      BY <2>2, <2>3 DEF Sound, TypeOK
    <2>5. Ids' = Ids /\ Changed(p)' = Changed(p)
      BY <2>1, <2>4 DEF Ids, Changed
    <2> QED
      BY <2>1, <2>2, <2>4, <2>5 DEF SideInv, Rewriting
  <1>10. ASSUME NEW p \in Proc, Rename(p) PROVE SideInv'
    <2> SUFFICES ASSUME "side" \notin clash' PROVE SideInv'
      BY DEF SideInv
    <2>1. /\ "side" \notin clash /\ pc[p] = "rename"
          /\ pc'[p] = "last" /\ \A q \in Proc \ {p} : pc'[q] = pc[q]
          /\ side' = tmp /\ tmp' = None /\ content' = content
      BY <1>10, <1>p DEF Rename
    <2>2. /\ \A q \in Proc \ {p} : pc[q] \notin Rewriting
          /\ tmp # None /\ content[tmp] = mem[p] /\ mem[p] = Changed(p) /\ mem[p] \in SUBSET Snapshot
      BY <2>1 DEF SideInv, Rewriting, Sound, Underway
    <2>3. Ids' = Changed(p)
      BY <2>1, <2>2 DEF Ids
    <2>4. recorded \subseteq Ids /\ removed \cap Ids = {}
      BY <2>1 DEF SideInv
    <2>5. recorded' \subseteq Ids' /\ removed' \cap Ids' = {}
      BY <1>10, <2>3, <2>4 DEF Rename, Changed
    <2> QED
      BY <2>1, <2>2, <2>3, <2>5 DEF SideInv, Rewriting
  <1> QED
    BY <1>0, <1>1, <1>2, <1>3, <1>4, <1>5, <1>6, <1>7, <1>8, <1>9, <1>10 DEF Next

(* The metadata file holds what was put and not what was deleted.          *)
THEOREM AlwaysSidecarKeeps == Spec => []SidecarKeeps
  <1>1. SideInv => SidecarKeeps
    BY FilesAssumption DEF SideInv, SidecarKeeps, Ids
  <1> QED
    BY <1>1, SideInit, SideStep, SoundAlways, PTL DEF Spec

-----------------------------------------------------------------------------
(* One command records at a time, what it chains to is still the last      *)
(* entry, and only it leaves a line without its end.                       *)
Recording == {"line", "newline"}
LogInv ==
    {"log"} \cap (clash \cup cut) = {} =>
        /\ \A p, q \in Proc : pc[p] \in Recording /\ pc[q] \in Recording => p = q
        /\ Readable
        /\ \A i \in Entries : log[i].prev = SignatureBefore(i)
        /\ \A p \in Proc : pc[p] = "line" => mem[p] = LastSignature
        /\ Len(log) \in Entries => \E p \in Proc : pc[p] = "newline"

LEMMA LogInit == Init => LogInv
  BY DEF Init, LogInv, Entries, Readable, Recording

(* Steps of commands that do not record, or give it up before the line.    *)
LEMMA LogFrame ==
    ASSUME Sound, LogInv, UNCHANGED log, clash \subseteq clash', cut \subseteq cut',
           NEW p \in Proc, pc[p] # "newline",
           \A q \in Proc \ {p} : pc'[q] = pc[q] /\ mem'[q] = mem[q],
           pc'[p] \notin Recording
    PROVE  LogInv'
  <1> SUFFICES ASSUME {"log"} \cap (clash' \cup cut') = {} PROVE LogInv'
    BY DEF LogInv
  <1>1. {"log"} \cap (clash \cup cut) = {}
    OBVIOUS
  <1>2. /\ Entries' = Entries /\ Readable' = Readable /\ LastSignature' = LastSignature
        /\ \A i \in Entries : SignatureBefore(i)' = SignatureBefore(i)
    BY DEF Entries, Readable, LastSignature, SignatureBefore, EntriesBefore
  <1> QED
    BY <1>1, <1>2 DEF LogInv, Recording

LEMMA LogStep == ASSUME Sound, Sound', LogInv, [Next]_vars PROVE LogInv'
  <1>0. CASE UNCHANGED vars
    <2>1. /\ Entries' = Entries /\ Readable' = Readable /\ LastSignature' = LastSignature
          /\ \A i \in Entries : SignatureBefore(i)' = SignatureBefore(i)
      BY <1>0 DEF vars, repo, Entries, Readable, LastSignature, SignatureBefore, EntriesBefore
    <2> QED
      BY <1>0, <2>1 DEF vars, repo, procs, history, LogInv
  <1>p. ASSUME NEW p \in Proc, NEW step, Go(p, step)
        PROVE  pc'[p] = step /\ \A q \in Proc \ {p} : pc'[q] = pc[q]
    BY <1>p DEF Go, Sound, TypeOK
  <1>m. ASSUME NEW p \in Proc, NEW v, Learn(p, v)
        PROVE  mem'[p] = v /\ \A q \in Proc \ {p} : mem'[q] = mem[q]
    BY <1>m DEF Learn, Sound, Underway
  <1>l. ASSUME NEW p \in Proc, Leave(p)
        PROVE  pc'[p] = "idle" /\ \A q \in Proc \ {p} : pc'[q] = pc[q] /\ mem'[q] = mem[q]
    BY <1>l, <1>p, <1>m DEF Leave
  <1>c. ASSUME NEW p \in Proc, NEW f, Clash(p, f) PROVE clash \subseteq clash'
    BY <1>c DEF Clash
  <1>s. log \in Seq(Entry \cup {NL}) /\ HasLast /\ Entries \subseteq 1..Len(log) /\ Len(log) \in Nat
    BY DEF Sound, TypeOK, Entries
  <1>1. ASSUME NEW p \in Proc, NEW c \in Command, Begin(p, c) PROVE LogInv'
    BY <1>1, <1>p, LogFrame DEF Begin, repo, Recording
  <1>2. ASSUME NEW p \in Proc, OpenKey(p) \/ Load(p) PROVE LogInv'
    <2>1. PICK step \in {"truncate", "refs", "create"} : Go(p, step) /\ clash \subseteq clash'
      BY <1>2, <1>c DEF OpenKey, Load
    <2>2. UNCHANGED <<repo, cut>> /\ pc[p] # "newline" /\ \A q \in Proc \ {p} : mem'[q] = mem[q]
      <3>1. CASE OpenKey(p)
        BY <3>1 DEF OpenKey
      <3>2. CASE Load(p)
        <4>1. PICK v : Learn(p, v)
          BY <3>2 DEF Load
        <4> QED
          BY <3>2, <4>1, <1>m DEF Load
      <3> QED
        BY <1>2, <3>1, <3>2
    <2> QED
      BY <1>p, <2>1, <2>2, LogFrame DEF repo, Recording
  <1>3. ASSUME NEW p \in Proc,
               TruncateKey(p) \/ ChangeRefs(p) \/ CreateTmp(p) \/ FillTmp(p) \/ Rename(p)
        PROVE  LogInv'
    <2>1. PICK step \in {"write", "load", "fill", "rename", "last"} : Go(p, step)
      BY <1>3 DEF TruncateKey, ChangeRefs, CreateTmp, FillTmp, Rename
    <2>2. UNCHANGED <<log, mem, clash, cut>> /\ pc[p] # "newline"
      BY <1>3 DEF TruncateKey, ChangeRefs, CreateTmp, FillTmp, Rename, history
    <2> QED
      BY <1>p, <2>1, <2>2, LogFrame DEF Recording
  <1>4. ASSUME NEW p \in Proc, Leave(p), pc[p] # "newline",
               UNCHANGED <<log, clash>>, cut \subseteq cut'
        PROVE  LogInv'
    BY <1>4, <1>l, LogFrame DEF Recording
  <1>5. ASSUME NEW p \in Proc,
               \/ WriteKey(p) \/ OpenKeyFails(p) \/ LoadFails(p)
               \/ RenameFails(p) \/ ReadLastFails(p)
        PROVE  LogInv'
    BY <1>5, <1>4 DEF WriteKey, OpenKeyFails, LoadFails, RenameFails, ReadLastFails, Fail, repo, history
  <1>6. ASSUME NEW p \in Proc, Kill(p) PROVE LogInv'
    <2>1. CASE pc[p] = "newline"
      <3>1. "log" \in cut'
        BY <1>6, <2>1 DEF Kill
      <3> QED
        BY <3>1 DEF LogInv
    <2>2. CASE pc[p] # "newline"
      BY <1>6, <1>4, <2>2 DEF Kill, repo
    <2> QED
      BY <2>1, <2>2
  <1>7. ASSUME NEW p \in Proc, ReadLast(p) PROVE LogInv'
    <2> SUFFICES ASSUME {"log"} \cap (clash' \cup cut') = {} PROVE LogInv'
      BY DEF LogInv
    <2>1. /\ UNCHANGED <<log, cut>> /\ clash \subseteq clash' /\ pc[p] = "last"
          /\ pc'[p] = "line" /\ mem'[p] = LastSignature
          /\ \A q \in Proc \ {p} : pc'[q] = pc[q] /\ mem'[q] = mem[q]
      BY <1>7, <1>p, <1>m, <1>c DEF ReadLast, repo
    <2>2. \A q \in Proc \ {p} : pc[q] \notin Recording
      BY <1>7, UsingSteps DEF ReadLast, Clash, Recording
    <2>3. /\ Entries' = Entries /\ Readable' = Readable /\ LastSignature' = LastSignature
          /\ \A i \in Entries : SignatureBefore(i)' = SignatureBefore(i)
      BY <2>1 DEF Entries, Readable, LastSignature, SignatureBefore, EntriesBefore
    <2> QED
      BY <2>1, <2>2, <2>3 DEF LogInv, Recording
  <1>8. ASSUME NEW p \in Proc, AppendLine(p) PROVE LogInv'
    <2> SUFFICES ASSUME {"log"} \cap (clash' \cup cut') = {} PROVE LogInv'
      BY DEF LogInv
    <2> DEFINE e == [signature |-> Len(log) + 1, prev |-> mem[p], command |-> cmd[p]]
    <2>1. /\ pc[p] = "line" /\ pc'[p] = "newline" /\ log' = Append(log, e)
          /\ UNCHANGED <<mem, clash, cut>> /\ \A q \in Proc \ {p} : pc'[q] = pc[q]
      BY <1>8, <1>p DEF AppendLine, history
    <2>2. e \in Entry /\ e # NL
      <3>1. mem[p] \in Nat /\ cmd[p] \in Command
        BY <2>1 DEF Sound, Underway
      <3> QED
        BY <1>s, <3>1, FilesAssumption DEF Entry
    <2>3. e.prev = mem[p]
      OBVIOUS
    <2> HIDE DEF e
    <2>4. /\ Len(log') = Len(log) + 1 /\ log'[Len(log) + 1] = e
          /\ \A i \in 1..Len(log) : log'[i] = log[i]
          /\ Entries' = Entries \cup {Len(log) + 1}
          /\ \A n \in 1..(Len(log) + 1) : SignatureBefore(n)' = SignatureBefore(n)
      BY <1>s, <2>1, <2>2, AppendKeeps
    <2>5. /\ \A q \in Proc \ {p} : pc[q] \notin Recording
          /\ Len(log) \notin Entries /\ Readable
          /\ mem[p] = SignatureBefore(Len(log) + 1)
          /\ \A i \in Entries : log[i].prev = SignatureBefore(i)
      BY <2>1 DEF LogInv, Recording, LastSignature
    <2>6. Readable'
      <3>1. ASSUME NEW i \in Entries', i < Len(log') PROVE log'[i + 1] = NL
        <4>1. i \in Entries /\ i \in 1..Len(log) /\ i < Len(log) /\ i + 1 \in 1..Len(log)
          BY <1>s, <2>4, <2>5, <3>1
        <4>2. log[i + 1] = NL
          BY <2>5, <4>1 DEF Readable
        <4> QED
          BY <2>4, <4>1, <4>2
      <3> QED
        BY <3>1 DEF Readable
    <2>7. ASSUME NEW i \in Entries' PROVE log'[i].prev = SignatureBefore(i)'
      <3>1. CASE i \in Entries
        BY <1>s, <2>4, <2>5, <3>1
      <3>2. CASE i = Len(log) + 1
        BY <1>s, <2>3, <2>4, <2>5, <3>2
      <3> QED
        BY <2>4, <3>1, <3>2
    <2> QED
      BY <2>1, <2>5, <2>6, <2>7 DEF LogInv, Recording
  <1>9. ASSUME NEW p \in Proc, AppendNewline(p) PROVE LogInv'
    <2> SUFFICES ASSUME {"log"} \cap (clash' \cup cut') = {} PROVE LogInv'
      BY DEF LogInv
    <2>1. /\ pc[p] = "newline" /\ pc'[p] = "idle" /\ log' = Append(log, NL)
          /\ UNCHANGED <<clash, cut>>
          /\ \A q \in Proc \ {p} : pc'[q] = pc[q] /\ mem'[q] = mem[q]
      BY <1>9, <1>l DEF AppendNewline, history
    <2>2. /\ Len(log') = Len(log) + 1 /\ log'[Len(log) + 1] = NL
          /\ \A i \in 1..Len(log) : log'[i] = log[i]
          /\ Entries' = Entries
          /\ \A n \in 1..(Len(log) + 1) : SignatureBefore(n)' = SignatureBefore(n)
      BY <1>s, <2>1, AppendKeeps
    <2>3. /\ \A q \in Proc \ {p} : pc[q] \notin Recording
          /\ Readable /\ \A i \in Entries : log[i].prev = SignatureBefore(i)
      BY <2>1 DEF LogInv, Recording
    <2>4. Readable'
      BY <1>s, <2>2, <2>3 DEF Readable
    <2>5. \A i \in Entries' : log'[i].prev = SignatureBefore(i)'
      BY <1>s, <2>2, <2>3
    <2>6. Len(log') \notin Entries'
      BY <1>s, <2>2
    <2> QED
      BY <2>1, <2>3, <2>4, <2>5, <2>6 DEF LogInv, Recording
  <1> QED
    BY <1>0, <1>1, <1>2, <1>3, <1>5, <1>6, <1>7, <1>8, <1>9 DEF Next

(* The log verifies, unless two commands recorded at once or a kill cut a  *)
(* line from its end.                                                      *)
THEOREM AlwaysLogVerifies == Spec => []LogVerifies
  <1>1. LogInv => LogVerifies
    BY DEF LogInv, LogVerifies
  <1> QED
    BY <1>1, LogInit, LogStep, SoundAlways, PTL DEF Spec
=============================================================================
