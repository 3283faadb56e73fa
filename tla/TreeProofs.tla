----------------------------- MODULE TreeProofs -----------------------------
(***************************************************************************)
(* Proofs about TreeBackup and TreeRestore, for every tree, every content, *)
(* every reading of it and every order the workers finish in: the rows of  *)
(* a snapshot name what was read where it was read, and none is missing;   *)
(* and a restore makes of them what was there, however often it is killed  *)
(* and repeated and whichever chunk files are damaged.                     *)
(***************************************************************************)
EXTENDS TreeRestore, Integers, FiniteSetTheorems, FunctionTheorems, SequenceTheorems,
        WellFoundedInduction, TLAPS

USE DEF walk, pipe, catalog

\* The window is a finite set, so that its size means something.
Small == IsFiniteSet(inflight) /\ Cardinality(inflight) <= Depth

-----------------------------------------------------------------------------
(* The nodes and the path of the walk.                                     *)

LEMMA ChildFacts ==
  ASSUME NEW d \in Dirs, NEW n \in Children(d)
  PROVE  n \in Nodes /\ n # Root /\ Parent[n] = d
BY DEF Children

LEMMA CurrentFacts ==
  ASSUME TypeOK, OnPath, open # <<>>
  PROVE  /\ Len(open) \in Nat \ {0}
         /\ Current \in Dirs \intersect objects
         /\ Current # Root => /\ Len(open) >= 2
                              /\ open[Len(open) - 1] = Parent[Current]
                              /\ Current \in left[Parent[Current]]
                              /\ Parent[Current] \in Dirs
<1>1. Len(open) \in Nat \ {0} /\ open \in Seq(Dirs)
  BY EmptySeq DEF TypeOK
<1>2. Current \in Dirs
  BY <1>1, ElementOfSeq DEF Current
<1>3. Current \in objects
  BY <1>1 DEF Current, OnPath
<1>4. ASSUME Current # Root
      PROVE  /\ Len(open) >= 2
             /\ open[Len(open) - 1] = Parent[Current]
             /\ Current \in left[Parent[Current]]
             /\ Parent[Current] \in Dirs
  <2>1. Len(open) >= 2
    BY <1>1, <1>4 DEF Current, OnPath
  <2>2. open[(Len(open) - 1) + 1] \in left[open[Len(open) - 1]]
    BY <1>1, <2>1 DEF OnPath
  <2>3. open[Len(open) - 1] \in Dirs
    BY <1>1, <2>1, ElementOfSeq
  <2>4. (Len(open) - 1) + 1 = Len(open)
    BY <1>1
  <2>5. Current \in left[open[Len(open) - 1]]
    BY <2>2, <2>4 DEF Current
  <2>6. Current \in Children(open[Len(open) - 1])
    BY <2>3, <2>5 DEF OnPath
  <2> QED BY <2>1, <2>3, <2>5, <2>6, ChildFacts
<1> QED BY <1>1, <1>2, <1>3, <1>4

\* A node about to be visited has no row: it is not on the way to where the
\* command is, for the way never comes to a directory twice.
LEMMA AtFresh ==
  ASSUME TypeOK, OnPath, NEW n \in Nodes, At(n)
  PROVE  /\ n \notin objects
         /\ n # Root => /\ pc = "walk" /\ open # <<>>
                        /\ n \in left[Current]
                        /\ Parent[n] = Current
                        /\ n \notin tree
<1>1. CASE pc = "start" /\ n = Root
  BY <1>1 DEF OnPath
<1>2. CASE pc = "walk" /\ n # Root /\ n \in left[Current]
  <2>1. open # <<>>
    BY <1>2 DEF OnPath
  <2>2. /\ Current \in Dirs
        /\ Len(open) \in Nat \ {0}
    BY <2>1, CurrentFacts
  <2>3. n \in Children(Current) \ tree
    BY <1>2, <2>2 DEF OnPath
  <2>4. ASSUME n \in objects PROVE FALSE
    <3>1. PICK i \in 1 .. Len(open) - 1 : open[i] = Current /\ open[i + 1] = n
      BY <1>2, <2>2, <2>4 DEF OnPath
    <3>2. i \in 1 .. Len(open) /\ Len(open) \in 1 .. Len(open)
      BY <2>2
    <3>3. i = Len(open)
      BY <3>1, <3>2 DEF OnPath, Current
    <3> QED BY <2>2, <3>1, <3>3
  <2> QED BY <1>2, <2>1, <2>2, <2>3, <2>4, ChildFacts
<1> QED BY <1>1, <1>2 DEF At

\* The path without its last directory.
LEMMA Popped ==
  ASSUME NEW s \in Seq(Dirs), s # <<>>
  PROVE  /\ SubSeq(s, 1, Len(s) - 1) \in Seq(Dirs)
         /\ Len(SubSeq(s, 1, Len(s) - 1)) = Len(s) - 1
         /\ \A i \in 1 .. Len(s) - 1 : SubSeq(s, 1, Len(s) - 1)[i] = s[i]
<1>1. Len(s) \in Nat \ {0}
  BY EmptySeq
<1>2. \A i \in 1 .. Len(s) - 1 : s[i] \in Dirs
  BY <1>1, ElementOfSeq
<1>3. 1 \in Int /\ Len(s) - 1 \in Int
  BY <1>1
<1>4. /\ SubSeq(s, 1, Len(s) - 1) \in Seq(Dirs)
      /\ Len(SubSeq(s, 1, Len(s) - 1)) = IF 1 <= Len(s) - 1 THEN (Len(s) - 1) - 1 + 1 ELSE 0
      /\ \A i \in 1 .. (Len(s) - 1) - 1 + 1 : SubSeq(s, 1, Len(s) - 1)[i] = s[1 + i - 1]
  BY <1>2, <1>3, SubSeqProperties
<1>5. \A i \in 1 .. Len(s) - 1 : 1 + i - 1 = i /\ i \in 1 .. (Len(s) - 1) - 1 + 1
  BY <1>1
<1>6. Len(SubSeq(s, 1, Len(s) - 1)) = Len(s) - 1
  <2>1. PICK k \in Nat \ {0} : Len(s) = k
    BY <1>1
  <2>2. Len(SubSeq(s, 1, k - 1)) = IF 1 <= k - 1 THEN (k - 1) - 1 + 1 ELSE 0
    BY <1>4, <2>1
  <2>3. (IF 1 <= k - 1 THEN (k - 1) - 1 + 1 ELSE 0) = k - 1
    OBVIOUS
  <2> QED BY <2>1, <2>2, <2>3, Zenon
<1>7. ASSUME NEW i \in 1 .. Len(s) - 1
      PROVE  SubSeq(s, 1, Len(s) - 1)[i] = s[i]
  <2>1. SubSeq(s, 1, Len(s) - 1)[i] = s[1 + i - 1]
    BY <1>4, <1>5
  <2> QED BY <1>5, <2>1
<1> QED BY <1>4, <1>6, <1>7

\* The path with one more directory.
LEMMA Pushed ==
  ASSUME NEW s \in Seq(Dirs), NEW d \in Dirs
  PROVE  /\ Append(s, d) \in Seq(Dirs)
         /\ Append(s, d) # <<>>
         /\ Len(Append(s, d)) = Len(s) + 1
         /\ Append(s, d)[Len(s) + 1] = d
         /\ \A i \in 1 .. Len(s) : Append(s, d)[i] = s[i]
OBVIOUS

-----------------------------------------------------------------------------
(* The walk.                                                               *)

LEMMA InitBookkeeping == Init => TypeOK /\ OnPath
<1> SUFFICES ASSUME Init PROVE TypeOK /\ OnPath
  OBVIOUS
<1>1. TypeOK
  <2>1. open \in Seq(Dirs) /\ \A f \in Files : <<>> \in Seq(Chunks)
    BY EmptySeq DEF Init
  <2>2. reads \in [Files -> Seq(Chunks)]
    BY <2>1 DEF Init
  <2>3. edits \in 0 .. MaxEdits /\ pos \in Nat /\ scheduled \in Nat
    BY PipelineAssumption DEF Init
  <2> QED BY <2>1, <2>2, <2>3, PipelineAssumption DEF Init, TypeOK
<1>2. OnPath
  BY EmptySeq DEF Init, OnPath
<1> QED BY <1>1, <1>2

LEMMA EnterDirectoryOnPath ==
  ASSUME TypeOK, OnPath, NEW d \in Dirs, EnterDirectory(d)
  PROVE  TypeOK' /\ OnPath'
<1>1. /\ At(d) /\ d \notin objects
      /\ d \in Nodes
  BY AtFresh DEF EnterDirectory, Nodes
<1>2. d # Root => /\ open # <<>> /\ d \in left[Current] /\ Parent[d] = Current
                  /\ d \notin tree
  BY <1>1, AtFresh
<1>3. d = Root => open = <<>> /\ objects = {}
  BY <1>1, TreeAssumption DEF At, OnPath, EnterDirectory, TypeOK
<1>4. TypeOK'
  <2>1. open' \in Seq(Dirs)
    BY Pushed DEF EnterDirectory, TypeOK
  <2>2. left' \in [Dirs -> SUBSET Nodes]
    BY DEF EnterDirectory, TypeOK, Children
  <2> QED BY <1>1, <2>1, <2>2 DEF EnterDirectory, TypeOK
<1> DEFINE n == Len(open)
<1>5. /\ n \in Nat /\ Len(open') = n + 1 /\ open'[n + 1] = d
      /\ \A i \in 1 .. n : open'[i] = open[i]
  BY Pushed, LenProperties DEF EnterDirectory, TypeOK
<1>6. \A i \in 1 .. n : open[i] \in objects /\ open[i] \in Dirs
  BY <1>5, ElementOfSeq DEF OnPath, TypeOK
<1> HIDE DEF n
<1>7. (\A m \in objects \ {Root} : Parent[m] \in objects)'
  <2>1. d # Root => Parent[d] \in objects
    BY <1>2, CurrentFacts
  <2> QED BY <2>1 DEF EnterDirectory, OnPath
<1>8. (\A i \in 1 .. Len(open) : open[i] \in objects)'
  BY <1>5, <1>6 DEF EnterDirectory
<1>9. (\A i, j \in 1 .. Len(open) : open[i] = open[j] => i = j)'
  <2>1. \A i \in 1 .. n : open'[i] # d
    BY <1>1, <1>5, <1>6
  <2>2. \A i, j \in 1 .. n : open'[i] = open'[j] => i = j
    BY <1>5 DEF OnPath, n
  <2> QED BY <1>5, <2>1, <2>2
<1>10. (open # <<>> => open[1] = Root)'
  <2>1. CASE d = Root
    BY <1>3, <1>5, <2>1, EmptySeq DEF n
  <2>2. CASE d # Root
    <3>1. n \in Nat \ {0}
      BY <1>2, <2>2, CurrentFacts DEF n
    <3> QED BY <1>2, <1>5, <2>2, <3>1 DEF OnPath
  <2> QED BY <2>1, <2>2
<1>11. \A e \in Dirs : e # d => left'[e] = left[e]
  BY DEF EnterDirectory, TypeOK
<1>12. left'[d] = Children(d)
  BY DEF EnterDirectory, TypeOK
<1>13. (\A i \in 1 .. Len(open) - 1 : open[i + 1] \in left[open[i]])'
  <2> SUFFICES ASSUME NEW i \in 1 .. n PROVE open'[i + 1] \in left'[open'[i]]
    BY <1>5
  <2>1. open'[i] = open[i] /\ open[i] \in Dirs /\ open[i] # d
    BY <1>1, <1>5, <1>6
  <2>2. CASE i = n
    <3>1. d # Root
      BY <1>3, <1>5, <2>2, EmptySeq DEF n
    <3> QED BY <1>2, <1>5, <1>11, <2>1, <2>2, <3>1 DEF Current, n
  <2>3. CASE i # n
    <3>1. i \in 1 .. n - 1 /\ i + 1 \in 1 .. n
      BY <1>5, <2>3
    <3>2. open[i + 1] \in left[open[i]]
      BY <3>1 DEF OnPath, n
    <3> QED BY <1>5, <1>11, <2>1, <3>1, <3>2
  <2> QED BY <2>2, <2>3
<1>14. Children(d) \intersect objects = {}
  BY <1>1, ChildFacts DEF OnPath
<1>15. (\A e \in Dirs : left[e] \subseteq Children(e) \ tree)'
  <2>1. tree' = tree /\ tree \subseteq objects
    BY DEF EnterDirectory, TypeOK
  <2>2. \A e \in Dirs : Children(e)' = Children(e)
    BY DEF Children
  <2> QED BY <1>11, <1>12, <1>14, <2>1, <2>2 DEF OnPath
<1>16. (\A e \in Dirs : \A m \in left[e] \intersect objects :
          \/ pc = "file" /\ m = file
          \/ \E i \in 1 .. Len(open) - 1 : open[i] = e /\ open[i + 1] = m)'
  <2>0. Len(open') - 1 = n
    BY <1>5
  <2> SUFFICES ASSUME NEW e \in Dirs, NEW m \in left'[e], m \in objects'
               PROVE  \E i \in 1 .. n : open'[i] = e /\ open'[i + 1] = m
    BY <2>0, Zenon
  <2>1. e # d
    <3>1. d \notin Children(d)
      BY <1>1, <1>2, ChildFacts, CurrentFacts
    <3> QED BY <1>12, <1>14, <3>1 DEF EnterDirectory
  <2>2. m \in left[e]
    BY <1>11, <2>1
  <2>3. CASE m = d
    <3>1. d \in Children(e)
      BY <2>2, <2>3 DEF OnPath
    <3>2. d # Root /\ Parent[d] = e
      BY <3>1, ChildFacts
    <3>3. n \in 1 .. n /\ open[n] = e
      BY <1>2, <3>2, CurrentFacts DEF Current, n
    <3> QED BY <1>5, <2>3, <3>3
  <2>4. CASE m # d
    <3>1. m \in left[e] \intersect objects
      BY <2>2, <2>4 DEF EnterDirectory
    <3>2. pc # "file"
      BY DEF EnterDirectory, At
    <3>3. PICK i \in 1 .. n - 1 : open[i] = e /\ open[i + 1] = m
      BY <3>1, <3>2 DEF OnPath, n
    <3> QED BY <1>5, <3>3
  <2> QED BY <2>3, <2>4
<1>17. (pc # "failed" => \A e \in Dirs \intersect objects : Children(e) \subseteq left[e] \union tree)'
  <2>1. pc # "failed" /\ tree' = tree /\ objects' = objects \union {d}
    BY DEF EnterDirectory, At
  <2>2. \A e \in Dirs : Children(e)' = Children(e)
    BY DEF Children
  <2> QED BY <1>11, <1>12, <2>1, <2>2 DEF OnPath
<1>18. pc' = "walk" /\ open' # <<>>
  BY Pushed DEF EnterDirectory, TypeOK
<1> QED BY <1>4, <1>7, <1>8, <1>9, <1>10, <1>13, <1>15, <1>16, <1>17, <1>18 DEF OnPath

LEMMA OpenFileOnPath ==
  ASSUME TypeOK, OnPath, NEW f \in Files, OpenFile(f)
  PROVE  TypeOK' /\ OnPath'
<1>1. At(f) /\ f \in Nodes /\ f \notin objects
  BY AtFresh DEF OpenFile, Nodes
<1>2. f # Root => /\ open # <<>> /\ f \in left[Current] /\ Parent[f] = Current
                  /\ Parent[f] \in objects
  BY <1>1, AtFresh, CurrentFacts
<1>3. f = Root => open = <<>>
  BY <1>1, TreeAssumption DEF At, OnPath, OpenFile
<1>4. pc # "file" /\ pc # "failed"
  BY <1>1 DEF At
<1>5. TypeOK'
  BY <1>1 DEF OpenFile, TypeOK
<1>6. UNCHANGED <<open, left, tree>> /\ objects' = objects \union {f}
      /\ file' = f /\ pc' = "file"
  BY DEF OpenFile
<1>7. f \notin Dirs
  BY TreeAssumption
<1>8. (\A m \in objects \ {Root} : Parent[m] \in objects)'
  BY <1>2, <1>6 DEF OnPath
<1>9. (\A e \in Dirs : \A m \in left[e] \intersect objects :
         \/ pc = "file" /\ m = file
         \/ \E i \in 1 .. Len(open) - 1 : open[i] = e /\ open[i + 1] = m)'
  BY <1>4, <1>6 DEF OnPath
<1>10. (\A e \in Dirs \intersect objects : Children(e) \subseteq left[e] \union tree)'
  BY <1>4, <1>6, <1>7 DEF OnPath, Children
<1>11. (\A e \in Dirs : left[e] \subseteq Children(e) \ tree)'
  BY <1>6 DEF OnPath, Children
<1>12. (IF open = <<>> THEN file = Root ELSE file \in left[Current])'
  BY <1>2, <1>3, <1>6 DEF Current
<1> QED BY <1>5, <1>6, <1>8, <1>9, <1>10, <1>11, <1>12 DEF OnPath

\* A node is linked and no longer left to visit.
LEMMA Linked ==
  ASSUME TypeOK, OnPath, pc # "failed", NEW n \in Nodes \ {Root}, Parent[n] \in Dirs,
         Return(n), UNCHANGED objects
  PROVE  /\ tree' = tree \union {n} /\ pc' = "walk"
         /\ left' \in [Dirs -> SUBSET Nodes]
         /\ \A e \in Dirs : left'[e] = left[e] \ {n}
         /\ \A e \in Dirs : left'[e] \subseteq Children(e) \ tree'
         /\ \A e \in Dirs \intersect objects : Children(e) \subseteq left'[e] \union tree'
<1>1. /\ tree' = tree \union {n} /\ pc' = "walk"
      /\ left' = [left EXCEPT ![Parent[n]] = @ \ {n}]
  BY DEF Return
<1>2. left' \in [Dirs -> SUBSET Nodes]
  BY <1>1 DEF TypeOK
<1>3. ASSUME NEW e \in Dirs PROVE left'[e] = left[e] \ {n}
  <2>1. n \in left[e] => Parent[n] = e
    BY ChildFacts DEF OnPath
  <2> QED BY <1>1, <2>1 DEF TypeOK
<1> QED BY <1>1, <1>2, <1>3 DEF OnPath

LEMMA LeaveDirectoryOnPath ==
  ASSUME TypeOK, OnPath, LeaveDirectory
  PROVE  TypeOK' /\ OnPath'
<1> DEFINE n == Len(open)
<1>1. pc = "walk" /\ open # <<>> /\ UNCHANGED <<objects, file, inflight>>
  BY DEF LeaveDirectory, OnPath
<1>2. /\ n \in Nat \ {0}
      /\ Current \in Dirs \intersect objects
      /\ Current # Root => /\ n >= 2 /\ open[n - 1] = Parent[Current]
                           /\ Current \in left[Parent[Current]]
                           /\ Parent[Current] \in Dirs
  BY <1>1, CurrentFacts
<1>3. /\ open' \in Seq(Dirs) /\ Len(open') = n - 1
      /\ \A i \in 1 .. n - 1 : open'[i] = open[i]
  BY <1>1, Popped DEF LeaveDirectory, TypeOK
<1>4. \A i \in 1 .. n - 1 : open[i] # Current
  <2> SUFFICES ASSUME NEW i \in 1 .. n - 1, open[i] = open[n] PROVE FALSE
    BY DEF Current
  <2>1. i \in 1 .. n /\ n \in 1 .. n
    BY <1>2
  <2> QED BY <1>2, <2>1 DEF OnPath
<1>5. (\A m \in objects \ {Root} : Parent[m] \in objects)'
  BY <1>1 DEF OnPath
<1>6. (\A i \in 1 .. Len(open) : open[i] \in objects)'
  BY <1>1, <1>2, <1>3 DEF OnPath
<1>7. (\A i, j \in 1 .. Len(open) : open[i] = open[j] => i = j)'
  <2> SUFFICES ASSUME NEW i \in 1 .. n - 1, NEW j \in 1 .. n - 1, open'[i] = open'[j]
               PROVE  i = j
    BY <1>3
  <2>1. i \in 1 .. n /\ j \in 1 .. n
    BY <1>2
  <2>2. open[i] = open[j]
    BY <1>3
  <2> QED BY <2>1, <2>2 DEF OnPath
<1>8. (open # <<>> => open[1] = Root)'
  <2>1. open' # <<>> => n - 1 \in Nat \ {0}
    BY <1>3, EmptySeq
  <2> QED BY <1>1, <1>2, <1>3, <2>1 DEF OnPath
<1> HIDE DEF n
<1>9. CASE Current = Root
  <2>1. UNCHANGED <<tree, left>> /\ pc' = "captured"
    BY <1>9 DEF LeaveDirectory, Return
  <2>2. TypeOK'
    BY <1>3, <2>1 DEF LeaveDirectory, TypeOK
  <2>3. n = 1
    <3>1. n = 1 \/ 1 \in 1 .. n - 1
      BY <1>2
    <3> QED BY <1>1, <1>4, <1>9, <3>1 DEF OnPath
  <2>4. \A e \in Dirs : left[e] \intersect objects = {}
    BY <1>1, <2>3 DEF OnPath, n
  <2>5. (\A e \in Dirs : left[e] \subseteq Children(e) \ tree)'
    BY <2>1 DEF OnPath, Children
  <2>6. (\A e \in Dirs \intersect objects : Children(e) \subseteq left[e] \union tree)'
    BY <1>1, <2>1 DEF OnPath, Children
  <2>7. Len(open') = 0
    BY <1>3, <2>3
  <2> QED BY <1>1, <1>5, <1>6, <1>7, <1>8, <2>1, <2>2, <2>4, <2>5, <2>6, <2>7 DEF OnPath
<1>10. CASE Current # Root
  <2>1. Return(Current) /\ Current \in Nodes \ {Root}
    BY <1>2, <1>10 DEF LeaveDirectory, Nodes
  <2>2. /\ tree' = tree \union {Current} /\ pc' = "walk"
        /\ left' \in [Dirs -> SUBSET Nodes]
        /\ \A e \in Dirs : left'[e] = left[e] \ {Current}
        /\ \A e \in Dirs : left'[e] \subseteq Children(e) \ tree'
        /\ \A e \in Dirs \intersect objects : Children(e) \subseteq left'[e] \union tree'
    BY <1>1, <1>2, <1>10, <2>1, Linked
  <2>3. TypeOK'
    BY <1>1, <1>2, <1>3, <2>1, <2>2 DEF LeaveDirectory, TypeOK
  <2>4. (\A i \in 1 .. Len(open) - 1 : open[i + 1] \in left[open[i]])'
    <3>0. Len(open') - 1 = n - 2
      BY <1>2, <1>3
    <3> SUFFICES ASSUME NEW i \in 1 .. n - 2 PROVE open'[i + 1] \in left'[open'[i]]
      BY <3>0, Zenon
    <3>1. i \in 1 .. n - 1 /\ i + 1 \in 1 .. n - 1 /\ i \in 1 .. n
      BY <1>2
    <3>2. open[i + 1] \in left[open[i]]
      BY <3>1 DEF OnPath, n
    <3>3. open[i] \in Dirs
      BY <3>1, ElementOfSeq DEF TypeOK, n
    <3> QED BY <1>3, <1>4, <2>2, <3>1, <3>2, <3>3
  <2>5. (\A e \in Dirs : \A m \in left[e] \intersect objects :
           \/ pc = "file" /\ m = file
           \/ \E i \in 1 .. Len(open) - 1 : open[i] = e /\ open[i + 1] = m)'
    <3>0. Len(open') - 1 = n - 2
      BY <1>2, <1>3
    <3> SUFFICES ASSUME NEW e \in Dirs, NEW m \in left'[e], m \in objects'
                 PROVE  \E i \in 1 .. n - 2 : open'[i] = e /\ open'[i + 1] = m
      BY <3>0
    <3>1. m \in left[e] \intersect objects /\ m # Current
      BY <1>1, <2>2
    <3>2. PICK i \in 1 .. n - 1 : open[i] = e /\ open[i + 1] = m
      BY <1>1, <3>1 DEF OnPath, n
    <3>3. i # n - 1
      BY <1>2, <3>1, <3>2 DEF Current, n
    <3>4. i \in 1 .. n - 2 /\ i + 1 \in 1 .. n - 1
      BY <1>2, <3>3
    <3> QED BY <1>3, <3>2, <3>4
  <2>6. (\A e \in Dirs : left[e] \subseteq Children(e) \ tree)'
    BY <2>2 DEF Children
  <2>7. (\A e \in Dirs \intersect objects : Children(e) \subseteq left[e] \union tree)'
    BY <1>1, <2>2 DEF Children
  <2>8. open' # <<>>
    <3>1. Len(open') # 0
      BY <1>2, <1>3, <1>10
    <3> QED BY <3>1, EmptySeq
  <2> QED BY <1>5, <1>6, <1>7, <1>8, <2>2, <2>3, <2>4, <2>5, <2>6, <2>7, <2>8 DEF OnPath
<1> QED BY <1>9, <1>10

LEMMA CloseFileOnPath ==
  ASSUME TypeOK, OnPath, CloseFile
  PROVE  TypeOK' /\ OnPath'
<1>1. /\ pc = "file" /\ UNCHANGED <<objects, open>> /\ Return(file)
      /\ file \in Files \intersect objects
  BY DEF CloseFile, OnPath
<1>2. /\ file' = Root /\ pos' \in Nat /\ eof' \in BOOLEAN /\ scheduled' \in Nat
      /\ inflight' = {}
  BY DEF CloseFile, NoPipe
<1>3. \A e \in Dirs : Root \notin left[e]
  BY ChildFacts DEF OnPath
<1>4. CASE file = Root
  <2>1. open = <<>>
    <3>1. open # <<>> => file \in left[Current] /\ Current \in Dirs
      BY <1>1, CurrentFacts DEF OnPath
    <3> QED BY <1>3, <1>4, <3>1
  <2>2. UNCHANGED <<tree, left>> /\ pc' = "captured"
    BY <1>1, <1>4 DEF Return
  <2>3. TypeOK'
    BY <1>1, <1>2, <2>2 DEF CloseFile, TypeOK
  <2>4. Len(open) = 0
    BY <2>1
  <2>5. \A e \in Dirs : left[e] \intersect objects = {}
    <3>1. \A e \in Dirs : \A m \in left[e] \intersect objects :
             m = file \/ \E i \in 1 .. Len(open) - 1 : open[i] = e /\ open[i + 1] = m
      BY DEF OnPath
    <3> QED BY <1>3, <1>4, <2>4, <3>1
  <2>6. (\A e \in Dirs : left[e] \subseteq Children(e) \ tree)'
    BY <2>2 DEF OnPath, Children
  <2>7. (\A e \in Dirs \intersect objects : Children(e) \subseteq left[e] \union tree)'
    BY <1>1, <2>2 DEF OnPath, Children
  <2> QED BY <1>1, <2>1, <2>2, <2>3, <2>4, <2>5, <2>6, <2>7 DEF OnPath
<1>5. CASE file # Root
  <2>1. open # <<>> /\ file \in left[Current]
    BY <1>1, <1>5 DEF OnPath
  <2>2. Current \in Dirs
    BY <2>1, CurrentFacts
  <2>3. Parent[file] = Current /\ file \in Nodes \ {Root}
    BY <1>5, <2>1, <2>2, ChildFacts DEF OnPath
  <2>4. /\ tree' = tree \union {file} /\ pc' = "walk"
        /\ left' \in [Dirs -> SUBSET Nodes]
        /\ \A e \in Dirs : left'[e] = left[e] \ {file}
        /\ \A e \in Dirs : left'[e] \subseteq Children(e) \ tree'
        /\ \A e \in Dirs \intersect objects : Children(e) \subseteq left'[e] \union tree'
    BY <1>1, <2>2, <2>3, Linked
  <2>5. TypeOK'
    BY <1>1, <1>2, <2>3, <2>4 DEF CloseFile, TypeOK
  <2>6. (\A i \in 1 .. Len(open) - 1 : open[i + 1] \in left[open[i]])'
    <3> SUFFICES ASSUME NEW i \in 1 .. Len(open) - 1 PROVE open[i + 1] \in left'[open[i]]
      BY <1>1
    <3>1. Len(open) \in Nat /\ i \in 1 .. Len(open) /\ i + 1 \in 1 .. Len(open)
      BY LenProperties DEF TypeOK
    <3>2. open[i] \in Dirs /\ open[i + 1] \in Dirs
      BY <3>1, ElementOfSeq DEF TypeOK
    <3>3. open[i + 1] # file
      BY <1>1, <3>2, TreeAssumption
    <3> QED BY <2>4, <3>2, <3>3 DEF OnPath
  <2>7. (\A e \in Dirs : \A m \in left[e] \intersect objects :
           \/ pc = "file" /\ m = file
           \/ \E i \in 1 .. Len(open) - 1 : open[i] = e /\ open[i + 1] = m)'
    BY <1>1, <2>4 DEF OnPath
  <2>8. (\A e \in Dirs : left[e] \subseteq Children(e) \ tree)'
    BY <2>4 DEF Children
  <2>9. (\A e \in Dirs \intersect objects : Children(e) \subseteq left[e] \union tree)'
    BY <1>1, <2>4 DEF Children
  <2> QED BY <1>1, <2>1, <2>4, <2>5, <2>6, <2>7, <2>8, <2>9 DEF OnPath
<1> QED BY <1>4, <1>5

-----------------------------------------------------------------------------
(* The pipeline, and the steps that leave the walk where it is.            *)

LEMMA SameWalk ==
  ASSUME OnPath, UNCHANGED <<objects, tree, pc, open, left, file>>
  PROVE  OnPath'
BY DEF OnPath, Current, Children

\* What a read returns is a chunk: not empty, no longer than the buffer.
LEMMA ReadGivesChunk ==
  ASSUME NEW s \in Seq(Byte), NEW p \in Nat, NEW n \in 1 .. ChunkSize, p + n <= Len(s)
  PROVE  SubSeq(s, p + 1, p + n) \in Chunks
<1>1. n \in Nat \ {0} /\ ChunkSize \in Nat /\ Len(s) \in Nat
  BY PipelineAssumption, LenProperties
<1>2. \A i \in p + 1 .. p + n : s[i] \in Byte
  <2> TAKE i \in p + 1 .. p + n
  <2>1. i \in 1 .. Len(s)
    BY <1>1
  <2> QED BY <2>1, ElementOfSeq
<1>3. p + 1 \in Int /\ p + n \in Int /\ p + 1 <= p + n
  BY <1>1
<1>4. /\ SubSeq(s, p + 1, p + n) \in Seq(Byte)
      /\ Len(SubSeq(s, p + 1, p + n)) = (p + n) - (p + 1) + 1
  BY <1>2, <1>3, SubSeqProperties
<1>5. (p + n) - (p + 1) + 1 = n
  BY <1>1
<1>6. SubSeq(s, p + 1, p + n) \in [1 .. n -> Byte]
  BY <1>4, <1>5, LenProperties
<1> QED BY <1>6 DEF Chunks

LEMMA ReadChunkFacts ==
  ASSUME TypeOK, OnPath, ReadChunk
  PROVE  /\ file \in Files /\ pc = "file"
         /\ \E chunk \in Chunks :
              /\ inflight' = inflight \union {[order |-> scheduled, chunk |-> chunk]}
              /\ reads' = [reads EXCEPT ![file] = Append(@, chunk)]
         /\ pos' \in Nat
         /\ scheduled' = scheduled + 1
<1>1. file \in Files /\ pc = "file" /\ scheduled' = scheduled + 1
  BY DEF ReadChunk, OnPath
<1>2. source[file] \in Seq(Byte) /\ pos \in Nat
  BY <1>1, PipelineAssumption DEF TypeOK
<1>3. PICK n \in 1 .. ChunkSize :
        /\ pos + n <= Len(source[file])
        /\ inflight' = inflight \union
             {[order |-> scheduled, chunk |-> SubSeq(source[file], pos + 1, pos + n)]}
        /\ reads' = [reads EXCEPT ![file] = Append(@, SubSeq(source[file], pos + 1, pos + n))]
        /\ pos' = pos + n
  BY DEF ReadChunk
<1>4. SubSeq(source[file], pos + 1, pos + n) \in Chunks
  BY <1>2, <1>3, ReadGivesChunk
<1>5. pos' \in Nat
  BY <1>2, <1>3
<1> QED BY <1>1, <1>3, <1>4, <1>5

LEMMA TypeAndPath ==
  ASSUME TypeOK, OnPath, [Next]_vars
  PROVE  TypeOK' /\ OnPath'
<1>1. ASSUME NEW d \in Dirs, EnterDirectory(d) PROVE TypeOK' /\ OnPath'
  BY <1>1, EnterDirectoryOnPath
<1>2. ASSUME NEW f \in Files, OpenFile(f) PROVE TypeOK' /\ OnPath'
  BY <1>2, OpenFileOnPath
<1>3. CASE LeaveDirectory
  BY <1>3, LeaveDirectoryOnPath
<1>4. CASE ReadChunk
  <2>1. PICK chunk \in Chunks :
          /\ inflight' = inflight \union {[order |-> scheduled, chunk |-> chunk]}
          /\ reads' = [reads EXCEPT ![file] = Append(@, chunk)]
    BY <1>4, ReadChunkFacts
  <2>2. file \in Files /\ pos' \in Nat /\ scheduled' \in Nat
    BY <1>4, ReadChunkFacts DEF TypeOK
  <2>3. reads' \in [Files -> Seq(Chunks)]
    <3>1. Append(reads[file], chunk) \in Seq(Chunks)
      BY <2>2, AppendProperties DEF TypeOK
    <3> QED BY <2>1, <3>1 DEF TypeOK
  <2>4. inflight' \subseteq Tasks
    BY <2>1 DEF TypeOK, Tasks
  <2>5. TypeOK'
    BY <1>4, <2>2, <2>3, <2>4 DEF ReadChunk, TypeOK
  <2> QED BY <1>4, <2>5, SameWalk DEF ReadChunk
<1>5. CASE ReadEnd
  BY <1>5, SameWalk DEF ReadEnd, TypeOK
<1>6. ASSUME NEW task \in inflight, RecordChunk(task) PROVE TypeOK' /\ OnPath'
  <2>1. file \in Files /\ task \in Tasks
    BY <1>6 DEF RecordChunk, OnPath, TypeOK
  <2>2. task.chunk \in Chunks /\ RowFor(task) \in Rows
    BY <2>1 DEF Tasks, Rows, RowFor
  <2>3. TypeOK'
    BY <1>6, <2>2 DEF RecordChunk, TypeOK
  <2> QED BY <1>6, <2>3, SameWalk DEF RecordChunk
<1>7. CASE CloseFile
  BY <1>7, CloseFileOnPath
<1>8. CASE CreateSnapshot
  <2>1. TypeOK'
    BY <1>8 DEF CreateSnapshot, TypeOK
  <2> QED BY <1>8, <2>1 DEF CreateSnapshot, OnPath, Current, Children
<1>9. CASE Fail
  <2>1. TypeOK'
    BY <1>9, EmptySeq DEF Fail, NoPipe, NoWalk, TypeOK
  <2>2. /\ UNCHANGED <<objects, tree>> /\ open' = <<>> /\ pc' = "failed" /\ Len(open') = 0
        /\ \A d \in Dirs : left'[d] = {}
    BY <1>9 DEF Fail, NoWalk
  <2> QED BY <2>1, <2>2 DEF OnPath
<1>10. ASSUME NEW f \in Files, Edit(f) PROVE TypeOK' /\ OnPath'
  <2>1. PICK c \in Contents : source' = [source EXCEPT ![f] = c]
    BY <1>10 DEF Edit
  <2>2. edits' \in 0 .. MaxEdits
    BY <1>10, PipelineAssumption DEF Edit, TypeOK
  <2>3. TypeOK'
    BY <1>10, <2>1, <2>2 DEF Edit, TypeOK
  <2> QED BY <1>10, <2>3, SameWalk DEF Edit
<1>11. CASE UNCHANGED vars
  <2>1. TypeOK'
    BY <1>11 DEF vars, TypeOK
  <2> QED BY <1>11, <2>1, SameWalk DEF vars
<1> QED BY <1>1, <1>2, <1>3, <1>4, <1>5, <1>6, <1>7, <1>8, <1>9, <1>10, <1>11 DEF Next, Step

\* The state that is recorded is always of the type the code stores it in.
THEOREM TypeCorrect == Spec => []TypeOK
<1>1. Init => TypeOK /\ OnPath
  BY InitBookkeeping
<1>2. TypeOK /\ OnPath /\ [Next]_vars => TypeOK' /\ OnPath'
  BY TypeAndPath
<1> QED BY <1>1, <1>2, PTL DEF Spec

-----------------------------------------------------------------------------
(* What is recorded.                                                       *)

\* A file that is being read is not linked yet.
LEMMA FileNotReturned ==
  ASSUME TypeOK, OnPath, pc = "file"
  PROVE  ~ Returned(file)
<1>1. CASE open = <<>>
  BY <1>1 DEF OnPath, TypeOK, Returned
<1>2. CASE open # <<>>
  BY <1>2, CurrentFacts DEF OnPath, Returned
<1> QED BY <1>1, <1>2

LEMMA InitAccounted == Init => Accounted /\ RowsInOrder /\ SetMatchesRows /\ Small
<1> SUFFICES ASSUME Init PROVE Accounted /\ RowsInOrder /\ SetMatchesRows /\ Small
  OBVIOUS
<1>1. Accounted /\ RowsInOrder /\ SetMatchesRows
  BY DEF Init, Accounted, RowsInOrder, SetMatchesRows, RowsOf
<1>2. Small
  BY FS_EmptySet, PipelineAssumption DEF Init, Small
<1> QED BY <1>1, <1>2

LEMMA ReadChunkAccounted ==
  ASSUME TypeOK, OnPath, Accounted, RowsInOrder, ReadChunk
  PROVE  Accounted' /\ RowsInOrder'
<1>1. /\ file \in Files \intersect objects /\ pc = "file"
      /\ UNCHANGED <<pc, file, objects, rows>> /\ scheduled' = scheduled + 1
  BY ReadChunkFacts DEF ReadChunk, OnPath
<1>2. PICK chunk \in Chunks :
        /\ inflight' = inflight \union {[order |-> scheduled, chunk |-> chunk]}
        /\ reads' = [reads EXCEPT ![file] = Append(@, chunk)]
  BY ReadChunkFacts
<1>3. /\ reads[file] \in Seq(Chunks) /\ scheduled = Len(reads[file])
      /\ scheduled \in Nat
  BY <1>1 DEF TypeOK, Accounted
<1>4. /\ reads'[file] = Append(reads[file], chunk)
      /\ \A f \in Files : f # file => reads'[f] = reads[f]
  BY <1>1, <1>2 DEF TypeOK
<1>5. /\ Len(reads'[file]) = scheduled + 1
      /\ reads'[file][scheduled + 1] = chunk
      /\ \A i \in 1 .. scheduled : reads'[file][i] = reads[file][i]
  BY <1>3, <1>4, AppendProperties
<1>6. \A k \in Nat : k < scheduled => /\ k < Len(reads'[file])
                                      /\ reads'[file][k + 1] = reads[file][k + 1]
  BY <1>3, <1>5
<1>7. RowsInOrder'
  <2> SUFFICES ASSUME NEW r \in rows
               PROVE  r.order < Len(reads'[r.file]) /\ r.chunk = reads'[r.file][r.order + 1]
    BY <1>1 DEF RowsInOrder
  <2>1. r.order \in Nat /\ r.file \in Files
    BY DEF TypeOK, Rows
  <2>2. CASE r.file = file
    BY <1>3, <1>6, <2>1, <2>2 DEF RowsInOrder
  <2>3. CASE r.file # file
    BY <1>4, <2>1, <2>3 DEF RowsInOrder
  <2> QED BY <2>2, <2>3
<1>8. (\A t \in inflight : /\ t.order < Len(reads[file])
                           /\ t.chunk = reads[file][t.order + 1])'
  <2> SUFFICES ASSUME NEW t \in inflight'
               PROVE  t.order < Len(reads'[file]) /\ t.chunk = reads'[file][t.order + 1]
    BY <1>1
  <2>1. CASE t \in inflight
    <3>1. t.order \in Nat
      BY <2>1 DEF TypeOK, Tasks
    <3> QED BY <1>3, <1>6, <2>1, <3>1 DEF Accounted
  <2>2. CASE t = [order |-> scheduled, chunk |-> chunk]
    BY <1>3, <1>5, <2>2
  <2> QED BY <1>2, <2>1, <2>2
<1>9. ({r.order : r \in RowsOf(file)} \union {t.order : t \in inflight} = 0 .. scheduled - 1)'
  <2>1. RowsOf(file)' = RowsOf(file)
    BY <1>1 DEF RowsOf
  <2>2. {t.order : t \in inflight'} = {t.order : t \in inflight} \union {scheduled}
    <3> DEFINE new == [order |-> scheduled, chunk |-> chunk]
    <3>1. new.order = scheduled /\ inflight' = inflight \union {new}
      BY <1>2
    <3> HIDE DEF new
    <3> QED BY <3>1
  <2>3. {r.order : r \in RowsOf(file)} \union {t.order : t \in inflight} = 0 .. scheduled - 1
    BY <1>1 DEF Accounted
  <2>4. 0 .. scheduled' - 1 = (0 .. scheduled - 1) \union {scheduled}
    BY <1>1, <1>3
  <2> QED BY <2>1, <2>2, <2>3, <2>4
<1>10. (scheduled = Len(reads[file]))'
  BY <1>1, <1>5
<1>11. (\A f \in Files \ objects : reads[f] = <<>> /\ RowsOf(f) = {})'
  BY <1>1, <1>4 DEF Accounted, RowsOf
<1>12. (pc # "file" => inflight = {})'
  BY <1>1
<1> QED BY <1>7, <1>8, <1>9, <1>10, <1>11, <1>12 DEF Accounted

LEMMA RecordChunkAccounted ==
  ASSUME TypeOK, OnPath, Accounted, RowsInOrder, NEW task \in inflight, RecordChunk(task)
  PROVE  Accounted' /\ RowsInOrder'
<1>1. /\ file \in Files \intersect objects /\ pc = "file"
      /\ UNCHANGED <<pc, file, objects, reads, scheduled>>
      /\ inflight' = inflight \ {task}
      /\ rows' = rows \union {RowFor(task)}
  BY DEF RecordChunk, OnPath
<1>2. /\ RowFor(task).file = file /\ RowFor(task).order = task.order
      /\ RowFor(task).chunk = task.chunk
  BY DEF RowFor
<1>3. RowsInOrder'
  BY <1>1, <1>2 DEF RowsInOrder, Accounted
<1>4. RowsOf(file)' = RowsOf(file) \union {RowFor(task)}
  BY <1>1, <1>2 DEF RowsOf
<1>5. \A f \in Files : f # file => RowsOf(f)' = RowsOf(f)
  BY <1>1, <1>2 DEF RowsOf
<1>6. ({r.order : r \in RowsOf(file)} \union {t.order : t \in inflight} = 0 .. scheduled - 1)'
  <2>1. {r.order : r \in RowsOf(file)'} = {r.order : r \in RowsOf(file)} \union {task.order}
    BY <1>2, <1>4
  <2>2. {t.order : t \in inflight} = {t.order : t \in inflight'} \union {task.order}
    BY <1>1
  <2>3. {r.order : r \in RowsOf(file)} \union {t.order : t \in inflight} = 0 .. scheduled - 1
    BY <1>1 DEF Accounted
  <2> QED BY <1>1, <2>1, <2>2, <2>3
<1>7. (\A f \in Files \ objects : reads[f] = <<>> /\ RowsOf(f) = {})'
  BY <1>1, <1>5 DEF Accounted
<1> QED BY <1>1, <1>3, <1>6, <1>7 DEF Accounted

LEMMA OpenFileAccounted ==
  ASSUME TypeOK, OnPath, Accounted, NEW f \in Files, OpenFile(f)
  PROVE  Accounted'
<1>1. f \notin objects /\ pc # "file"
  BY AtFresh DEF OpenFile, Nodes, At
<1>2. /\ reads[f] = <<>> /\ RowsOf(f) = {} /\ inflight = {}
  BY <1>1 DEF Accounted
<1>3. /\ UNCHANGED <<rows, reads, inflight>> /\ file' = f /\ scheduled' = 0 /\ pc' = "file"
      /\ objects' = objects \union {f}
  BY DEF OpenFile
<1>4. RowsOf(f)' = {} /\ Len(reads'[f]) = 0
  BY <1>2, <1>3 DEF RowsOf
<1>5. {r.order : r \in RowsOf(f)'} \union {t.order : t \in inflight'} = 0 .. scheduled' - 1
  BY <1>2, <1>3, <1>4
<1> QED BY <1>2, <1>3, <1>4, <1>5 DEF Accounted, RowsOf

\* The steps that touch neither the rows nor the reads.
LEMMA SameRows ==
  ASSUME RowsInOrder, SetMatchesRows, UNCHANGED <<rows, reads, chunkSet>>
  PROVE  RowsInOrder' /\ SetMatchesRows'
BY DEF RowsInOrder, SetMatchesRows

LEMMA RowsAccounted ==
  ASSUME TypeOK, OnPath, Accounted, RowsInOrder, SetMatchesRows, [Next]_vars
  PROVE  Accounted' /\ RowsInOrder' /\ SetMatchesRows'
<1>1. ASSUME NEW d \in Dirs, EnterDirectory(d)
      PROVE  Accounted' /\ RowsInOrder' /\ SetMatchesRows'
  <2>1. pc # "file" /\ pc' = "walk"
    BY <1>1 DEF EnterDirectory, At
  <2>2. Accounted'
    BY <1>1, <2>1 DEF EnterDirectory, Accounted, RowsOf
  <2> QED BY <1>1, <2>2, SameRows DEF EnterDirectory
<1>2. ASSUME NEW f \in Files, OpenFile(f)
      PROVE  Accounted' /\ RowsInOrder' /\ SetMatchesRows'
  <2>1. Accounted'
    BY <1>2, OpenFileAccounted
  <2> QED BY <1>2, <2>1, SameRows DEF OpenFile
<1>3. CASE LeaveDirectory
  <2>1. pc # "file" /\ pc' # "file" /\ UNCHANGED <<inflight, rows, reads, chunkSet, objects>>
    BY <1>3 DEF LeaveDirectory, Return
  <2>2. Accounted'
    BY <2>1 DEF Accounted, RowsOf
  <2> QED BY <2>1, <2>2, SameRows
<1>4. CASE ReadChunk
  <2>1. SetMatchesRows'
    BY <1>4 DEF ReadChunk, SetMatchesRows
  <2> QED BY <1>4, <2>1, ReadChunkAccounted
<1>5. CASE ReadEnd
  <2>1. Accounted'
    BY <1>5 DEF ReadEnd, Accounted, RowsOf
  <2> QED BY <1>5, <2>1, SameRows DEF ReadEnd
<1>6. ASSUME NEW task \in inflight, RecordChunk(task)
      PROVE  Accounted' /\ RowsInOrder' /\ SetMatchesRows'
  <2>1. SetMatchesRows'
    <3>1. RowFor(task).chunk = task.chunk
      BY DEF RowFor
    <3>2. /\ rows' = rows \union {RowFor(task)}
          /\ chunkSet' = chunkSet \union {task.chunk}
      BY <1>6 DEF RecordChunk
    <3> QED BY <3>1, <3>2 DEF SetMatchesRows
  <2> QED BY <1>6, <2>1, RecordChunkAccounted
<1>7. CASE CloseFile
  <2>1. pc' # "file" /\ inflight' = {} /\ UNCHANGED <<rows, reads, chunkSet, objects>>
    BY <1>7 DEF CloseFile, Return, NoPipe
  <2>2. Accounted'
    BY <2>1 DEF Accounted, RowsOf
  <2> QED BY <2>1, <2>2, SameRows
<1>8. CASE CreateSnapshot
  <2>1. Accounted'
    BY <1>8 DEF CreateSnapshot, Accounted, RowsOf
  <2> QED BY <1>8, <2>1, SameRows DEF CreateSnapshot
<1>9. CASE Fail
  <2>1. pc' # "file" /\ inflight' = {} /\ UNCHANGED <<rows, reads, chunkSet, objects>>
    BY <1>9 DEF Fail, NoPipe
  <2>2. Accounted'
    BY <2>1 DEF Accounted, RowsOf
  <2> QED BY <2>1, <2>2, SameRows
<1>10. ASSUME NEW f \in Files, Edit(f)
       PROVE  Accounted' /\ RowsInOrder' /\ SetMatchesRows'
  <2>1. Accounted'
    BY <1>10 DEF Edit, Accounted, RowsOf
  <2> QED BY <1>10, <2>1, SameRows DEF Edit
<1>11. CASE UNCHANGED vars
  <2>1. Accounted'
    BY <1>11 DEF vars, Accounted, RowsOf
  <2> QED BY <1>11, <2>1, SameRows DEF vars
<1> QED BY <1>1, <1>2, <1>3, <1>4, <1>5, <1>6, <1>7, <1>8, <1>9, <1>10, <1>11 DEF Next, Step

\* The steps that leave a file's rows and reads, and what has returned, alone.
LEMMA SameFiles ==
  ASSUME FilesComplete, UNCHANGED <<rows, reads>>,
         \A f \in Files : Returned(f)' => Returned(f)
  PROVE  FilesComplete'
BY DEF FilesComplete, RowsOf

LEMMA FilesStayComplete ==
  ASSUME TypeOK, OnPath, Accounted, FilesComplete, [Next]_vars
  PROVE  FilesComplete'
<1>1. ASSUME NEW d \in Dirs, EnterDirectory(d) PROVE FilesComplete'
  BY <1>1, SameFiles DEF EnterDirectory, Returned
<1>2. ASSUME NEW f \in Files, OpenFile(f) PROVE FilesComplete'
  BY <1>2, SameFiles DEF OpenFile, Returned
<1>3. CASE LeaveDirectory
  <2>1. Current \in Dirs /\ Current \notin Files
    BY <1>3, CurrentFacts, TreeAssumption DEF LeaveDirectory, OnPath
  <2>2. \A f \in Files : Returned(f)' => Returned(f)
    BY <1>3, <2>1 DEF LeaveDirectory, Return, Returned
  <2> QED BY <1>3, <2>2, SameFiles DEF LeaveDirectory
<1>4. CASE ReadChunk
  <2>1. file \in Files /\ ~ Returned(file)
    BY <1>4, ReadChunkFacts, FileNotReturned
  <2>2. \A f \in Files : f # file => reads'[f] = reads[f]
    BY <1>4, ReadChunkFacts DEF TypeOK
  <2>3. UNCHANGED <<rows, tree, pc>>
    BY <1>4 DEF ReadChunk
  <2> QED BY <2>1, <2>2, <2>3 DEF FilesComplete, RowsOf, Returned
<1>5. CASE ReadEnd
  BY <1>5, SameFiles DEF ReadEnd, Returned
<1>6. ASSUME NEW task \in inflight, RecordChunk(task) PROVE FilesComplete'
  <2>1. file \in Files /\ ~ Returned(file)
    BY <1>6, FileNotReturned DEF RecordChunk, OnPath
  <2>2. /\ UNCHANGED <<reads, tree, pc>>
        /\ rows' = rows \union {RowFor(task)} /\ RowFor(task).file = file
    BY <1>6 DEF RecordChunk, RowFor
  <2>3. \A f \in Files : f # file => RowsOf(f)' = RowsOf(f)
    BY <2>2 DEF RowsOf
  <2> QED BY <2>1, <2>2, <2>3 DEF FilesComplete, Returned
<1>7. CASE CloseFile
  <2>1. /\ UNCHANGED <<rows, reads>> /\ inflight = {}
        /\ pc = "file" /\ file \in Files
    BY <1>7 DEF CloseFile, OnPath
  <2>2. {r.order : r \in RowsOf(file)} = 0 .. Len(reads[file]) - 1
    BY <2>1 DEF Accounted
  <2>3. \A f \in Files : f # file => (Returned(f)' => Returned(f))
    BY <1>7 DEF CloseFile, Return, Returned
  <2> QED BY <2>1, <2>2, <2>3 DEF FilesComplete, RowsOf
<1>8. CASE CreateSnapshot
  BY <1>8, SameFiles DEF CreateSnapshot, Returned
<1>9. CASE Fail
  <2>1. UNCHANGED <<tree, rows, reads>> /\ pc' = "failed"
    BY <1>9 DEF Fail
  <2> QED BY <2>1, SameFiles DEF Returned
<1>10. ASSUME NEW f \in Files, Edit(f) PROVE FilesComplete'
  BY <1>10, SameFiles DEF Edit, Returned
<1>11. CASE UNCHANGED vars
  BY <1>11, SameFiles DEF vars, Returned
<1> QED BY <1>1, <1>2, <1>3, <1>4, <1>5, <1>6, <1>7, <1>8, <1>9, <1>10, <1>11 DEF Next, Step

\* The steps after which no other directory has returned.
LEMMA SameDirectories ==
  ASSUME LinkedWhole, objects \subseteq objects', tree \subseteq tree',
         \A d \in Dirs : Returned(d)' => Returned(d)
  PROVE  LinkedWhole'
BY DEF LinkedWhole, Children

LEMMA StaysLinkedWhole ==
  ASSUME TypeOK, OnPath, LinkedWhole, [Next]_vars
  PROVE  LinkedWhole'
<1>1. ASSUME NEW d \in Dirs, EnterDirectory(d) PROVE LinkedWhole'
  BY <1>1, SameDirectories DEF EnterDirectory, Returned
<1>2. ASSUME NEW f \in Files, OpenFile(f) PROVE LinkedWhole'
  BY <1>2, SameDirectories DEF OpenFile, Returned
<1>3. CASE LeaveDirectory
  <2>1. /\ Current \in Dirs \intersect objects /\ left[Current] = {} /\ pc = "walk"
        /\ UNCHANGED objects /\ tree \subseteq tree'
    BY <1>3, CurrentFacts DEF LeaveDirectory, OnPath, Return
  <2>2. Children(Current) \subseteq tree
    BY <2>1 DEF OnPath
  <2>3. \A d \in Dirs : d # Current => (Returned(d)' => Returned(d))
    BY <1>3 DEF LeaveDirectory, Return, Returned
  <2> QED BY <2>1, <2>2, <2>3 DEF LinkedWhole, Children
<1>4. CASE ReadChunk
  BY <1>4, SameDirectories DEF ReadChunk, Returned
<1>5. CASE ReadEnd
  BY <1>5, SameDirectories DEF ReadEnd, Returned
<1>6. ASSUME NEW task \in inflight, RecordChunk(task) PROVE LinkedWhole'
  BY <1>6, SameDirectories DEF RecordChunk, Returned
<1>7. CASE CloseFile
  <2>1. file \notin Dirs
    BY <1>7, TreeAssumption DEF CloseFile, OnPath
  <2>2. \A d \in Dirs : Returned(d)' => Returned(d)
    BY <1>7, <2>1 DEF CloseFile, Return, Returned
  <2>3. UNCHANGED objects /\ tree \subseteq tree'
    BY <1>7 DEF CloseFile, Return
  <2> QED BY <2>2, <2>3, SameDirectories
<1>8. CASE CreateSnapshot
  BY <1>8, SameDirectories DEF CreateSnapshot, Returned
<1>9. CASE Fail
  BY <1>9, SameDirectories DEF Fail, Returned
<1>10. ASSUME NEW f \in Files, Edit(f) PROVE LinkedWhole'
  BY <1>10, SameDirectories DEF Edit, Returned
<1>11. CASE UNCHANGED vars
  BY <1>11, SameDirectories DEF vars, Returned
<1> QED BY <1>1, <1>2, <1>3, <1>4, <1>5, <1>6, <1>7, <1>8, <1>9, <1>10, <1>11 DEF Next, Step

\* The window fills up to pipeline_depth and no further.
LEMMA StaysSmall ==
  ASSUME TypeOK, OnPath, Small, [Next]_vars
  PROVE  Small'
<1>1. CASE ReadChunk
  <2>1. PICK chunk \in Chunks :
          inflight' = inflight \union {[order |-> scheduled, chunk |-> chunk]}
    BY <1>1, ReadChunkFacts
  <2> DEFINE new == [order |-> scheduled, chunk |-> chunk]
  <2>2. inflight' = inflight \union {new}
    BY <2>1
  <2> HIDE DEF new
  <2>3. IsFiniteSet(inflight) /\ Cardinality(inflight) \in Nat /\ Cardinality(inflight) < Depth
    BY <1>1, FS_CardinalityType DEF ReadChunk, Window, Small
  <2>4. /\ IsFiniteSet(inflight')
        /\ Cardinality(inflight') \in {Cardinality(inflight), Cardinality(inflight) + 1}
    BY <2>2, <2>3, FS_AddElement
  <2>5. Cardinality(inflight') <= Depth
    BY <2>3, <2>4, PipelineAssumption
  <2> QED BY <2>4, <2>5 DEF Small
<1>2. ASSUME NEW task \in inflight, RecordChunk(task) PROVE Small'
  <2>1. inflight' = inflight \ {task} /\ IsFiniteSet(inflight)
    BY <1>2 DEF RecordChunk, Small
  <2>2. /\ IsFiniteSet(inflight')
        /\ Cardinality(inflight') = Cardinality(inflight) - 1
        /\ Cardinality(inflight) \in Nat
    BY <2>1, FS_RemoveElement, FS_CardinalityType
  <2>3. Cardinality(inflight') <= Depth
    BY <2>2, PipelineAssumption DEF Small
  <2> QED BY <2>2, <2>3 DEF Small
<1>3. CASE inflight' = {}
  BY <1>3, FS_EmptySet, PipelineAssumption DEF Small
<1>4. CASE UNCHANGED inflight
  BY <1>4 DEF Small
<1>5. \/ ReadChunk
      \/ \E task \in inflight : RecordChunk(task)
      \/ inflight' = {}
      \/ UNCHANGED inflight
  BY DEF Next, Step, EnterDirectory, OpenFile, LeaveDirectory, ReadEnd, CloseFile,
         CreateSnapshot, Fail, Edit, NoPipe, vars
<1> QED BY <1>1, <1>2, <1>3, <1>4, <1>5

-----------------------------------------------------------------------------
(* The theorems.                                                           *)

\* What holds at every step, as one invariant.
TreeInvariant ==
  /\ TypeOK
  /\ OnPath
  /\ Accounted
  /\ RowsInOrder
  /\ FilesComplete
  /\ LinkedWhole
  /\ SetMatchesRows
  /\ Small

LEMMA TreeInvariantStep ==
  ASSUME TreeInvariant, [Next]_vars
  PROVE  TreeInvariant'
BY TypeAndPath, RowsAccounted, FilesStayComplete, StaysLinkedWhole, StaysSmall
   DEF TreeInvariant

LEMMA TreeInvariantInit == Init => TreeInvariant
<1> SUFFICES ASSUME Init PROVE TreeInvariant
  OBVIOUS
<1>1. \A n \in Nodes : ~ Returned(n)
  BY DEF Init, Returned
<1>2. FilesComplete /\ LinkedWhole
  BY <1>1 DEF FilesComplete, LinkedWhole, Nodes
<1> QED BY <1>2, InitBookkeeping, InitAccounted DEF TreeInvariant

\* The strengthening the safety properties are proved with: none of them is
\* inductive without where the walk is and what is in flight.
THEOREM TreeInvariantHolds == Spec => []TreeInvariant
<1>1. TreeInvariant /\ [Next]_vars => TreeInvariant'
  BY TreeInvariantStep
<1> QED BY <1>1, TreeInvariantInit, PTL DEF Spec

\* Whatever order the workers finish in, a row names the chunk that was read in
\* its place (spawn_chunk_processing, handle_processed_chunk).
THEOREM RowsAreInOrder == Spec => []RowsInOrder
<1>1. TreeInvariant => RowsInOrder
  BY DEF TreeInvariant
<1> QED BY <1>1, TreeInvariantHolds, PTL

\* backup_file returns with a row for every chunk it read.
THEOREM FilesAreComplete == Spec => []FilesComplete
<1>1. TreeInvariant => FilesComplete
  BY DEF TreeInvariant
<1> QED BY <1>1, TreeInvariantHolds, PTL

\* backup_directory returns with everything below the directory linked.
THEOREM DirectoriesAreWhole == Spec => []LinkedWhole
<1>1. TreeInvariant => LinkedWhole
  BY DEF TreeInvariant
<1> QED BY <1>1, TreeInvariantHolds, PTL

\* chunk_set, from which the snapshot's references are written, is what its
\* rows link.
THEOREM ReferencesMatchRows == Spec => []SetMatchesRows
<1>1. TreeInvariant => SetMatchesRows
  BY DEF TreeInvariant
<1> QED BY <1>1, TreeInvariantHolds, PTL

\* A backup records what it has read, in its place, and nothing else.
THEOREM BackupIsFaithful == Spec => []BackupFaithful
<1>1. RowsInOrder /\ FilesComplete /\ LinkedWhole /\ SetMatchesRows => BackupFaithful
  BY DEF BackupFaithful
<1> QED BY <1>1, RowsAreInOrder, FilesAreComplete, DirectoriesAreWhole,
           ReferencesMatchRows, PTL

\* The pipeline never holds more than pipeline_depth chunks.
THEOREM MemoryIsBounded == Spec => []MemoryBounded
<1>1. TreeInvariant => MemoryBounded
  BY DEF TreeInvariant, Small, MemoryBounded
<1> QED BY <1>1, TreeInvariantHolds, PTL

-----------------------------------------------------------------------------
(* What a finished backup hands to a restore.                              *)

\* A backup that has listed its snapshot takes no step any more.
LEMMA ListedIsFinal ==
  ASSUME pc = "listed", [Next]_vars
  PROVE  UNCHANGED vars
BY DEF Next, Step, EnterDirectory, OpenFile, At, LeaveDirectory, ReadChunk, ReadEnd,
       RecordChunk, CloseFile, CreateSnapshot, Fail, Edit

\* All nodes are linked: what returned holds Root and, with a directory, all its
\* entries.
LEMMA ListedIsWhole ==
  ASSUME TreeInvariant, pc = "listed"
  PROVE  /\ tree = Nodes \ {Root}
         /\ \A n \in Nodes : Returned(n)
<1> DEFINE S == {n \in Nodes : Returned(n)}
<1>1. Root \in S
  BY TreeAssumption DEF Returned
<1>2. ASSUME NEW n \in Nodes \ {Root}, Parent[n] \in S
      PROVE  n \in S
  <2>1. Parent[n] \in Dirs /\ Returned(Parent[n])
    BY <1>2, TreeAssumption
  <2>2. n \in tree
    BY <2>1 DEF TreeInvariant, LinkedWhole, Children
  <2> QED BY <2>2 DEF Returned
<1>3. S = Nodes
  <2>1. S \in SUBSET Nodes
    OBVIOUS
  <2> HIDE DEF S
  <2> QED BY <1>1, <1>2, <2>1, RootedAssumption
<1>4. \A n \in Nodes : Returned(n)
  BY <1>3
<1>5. tree \subseteq Nodes \ {Root}
  BY DEF TreeInvariant, TypeOK
<1> QED BY <1>4, <1>5 DEF Returned

\* The rows of a file that is done, one for each chunk read.
LEMMA RowsByOrder ==
  ASSUME TreeInvariant, NEW f \in Files, Returned(f)
  PROVE  /\ \A r \in RowsOf(f) : /\ r \in Rows /\ r.file = f
                                 /\ r.order \in 0 .. Len(reads[f]) - 1
                                 /\ r.chunk = reads[f][r.order + 1]
         /\ \A r, q \in RowsOf(f) : r.order = q.order => r = q
         /\ \A k \in 0 .. Len(reads[f]) - 1 : \E r \in RowsOf(f) : r.order = k
<1>1. RowsOf(f) \subseteq Rows
  BY DEF RowsOf, TreeInvariant, TypeOK
<1>2. ASSUME NEW r \in RowsOf(f)
      PROVE  /\ r \in Rows /\ r.file = f
             /\ r.order \in 0 .. Len(reads[f]) - 1
             /\ r.chunk = reads[f][r.order + 1]
  <2>1. r \in rows /\ r.file = f
    BY DEF RowsOf
  <2>2. r.order \in Nat /\ Len(reads[f]) \in Nat
    BY <1>1, LenProperties DEF Rows, TreeInvariant, TypeOK
  <2>3. r.order < Len(reads[f]) /\ r.chunk = reads[f][r.order + 1]
    BY <2>1 DEF TreeInvariant, RowsInOrder
  <2> QED BY <1>1, <2>1, <2>2, <2>3
<1>3. ASSUME NEW r \in RowsOf(f), NEW q \in RowsOf(f), r.order = q.order
      PROVE  r = q
  <2>1. r \in Rows /\ q \in Rows /\ r.file = q.file /\ r.chunk = q.chunk
    BY <1>2, <1>3
  <2> QED BY <1>3, <2>1 DEF Rows
<1>4. {r.order : r \in RowsOf(f)} = 0 .. Len(reads[f]) - 1
  BY DEF TreeInvariant, FilesComplete
<1> QED BY <1>2, <1>3, <1>4

\* ORDER BY: the rank of a row is its order.
LEMMA RankIsOrder ==
  ASSUME TreeInvariant, NEW f \in Files, Returned(f), NEW n \in 0 .. Len(reads[f])
  PROVE  Cardinality({q \in RowsOf(f) : q.order < n}) = n
<1> DEFINE B == {q \in RowsOf(f) : q.order < n}
           I == 0 .. n - 1
           g == [q \in B |-> q.order]
<1>1. Len(reads[f]) \in Nat
  BY LenProperties DEF TreeInvariant, TypeOK
<1>2. g \in [B -> I]
  BY <1>1, RowsByOrder
<1>3. \A r, q \in B : g[r] = g[q] => r = q
  BY RowsByOrder
<1>4. \A k \in I : \E q \in B : g[q] = k
  <2> SUFFICES ASSUME NEW k \in I PROVE \E q \in B : g[q] = k
    OBVIOUS
  <2>1. k \in 0 .. Len(reads[f]) - 1 /\ k < n
    BY <1>1
  <2>2. PICK q \in RowsOf(f) : q.order = k
    BY <2>1, RowsByOrder
  <2> QED BY <2>1, <2>2
<1> HIDE DEF g, B, I
<1>5. g \in Bijection(B, I)
  BY <1>2, <1>3, <1>4 DEF Bijection, Injection, Surjection, IsInjective
<1>6. ExistsBijection(I, B)
  BY <1>5, Fun_ExistsBijSymmetric DEF ExistsBijection
<1>7. IsFiniteSet(I) /\ Cardinality(I) = n
  <2>1. n \in Nat /\ 0 \in Int /\ n - 1 \in Int
    BY <1>1
  <2>2. IsFiniteSet(0 .. n - 1) /\ Cardinality(0 .. n - 1) = IF 0 > n - 1 THEN 0 ELSE (n - 1) - 0 + 1
    BY <2>1, FS_Interval
  <2> QED BY <2>1, <2>2 DEF I
<1>8. Cardinality(B) = n
  BY <1>6, <1>7, FS_Bijection
<1> QED BY <1>8 DEF B

LEMMA FileChunksAreReads ==
  ASSUME TreeInvariant, NEW f \in Files, Returned(f)
  PROVE  FileChunks(f) = reads[f]
<1> DEFINE N == Len(reads[f])
           before(r) == {q \in RowsOf(f) : q.order < r.order}
<1>1. N \in Nat /\ reads[f] \in Seq(Chunks)
  BY LenProperties DEF TreeInvariant, TypeOK
<1>2. Cardinality(RowsOf(f)) = N
  <2>1. {q \in RowsOf(f) : q.order < N} = RowsOf(f)
    BY <1>1, RowsByOrder
  <2> QED BY <1>1, <2>1, RankIsOrder
<1>3. \A r \in RowsOf(f) : r.order \in 0 .. N - 1 /\ Cardinality(before(r)) = r.order
  BY <1>1, RowsByOrder, RankIsOrder
<1>4. ASSUME NEW k \in 1 .. N
      PROVE  (CHOOSE r \in RowsOf(f) : Cardinality(before(r)) = k - 1).chunk = reads[f][k]
  <2>0. k - 1 \in 0 .. Len(reads[f]) - 1
    BY <1>1
  <2>1. PICK r \in RowsOf(f) : r.order = k - 1
    BY <2>0, RowsByOrder
  <2>2. \A q \in RowsOf(f) : Cardinality(before(q)) = k - 1 <=> q = r
    BY <1>3, <2>1, RowsByOrder
  <2> HIDE DEF before
  <2>3. (CHOOSE q \in RowsOf(f) : Cardinality(before(q)) = k - 1) = r
    BY <2>1, <2>2
  <2>4. r.chunk = reads[f][r.order + 1] /\ r.order + 1 = k
    BY <1>1, <2>1, RowsByOrder
  <2> QED BY <2>3, <2>4
<1>5. FileChunks(f) = [k \in 1 .. N |-> reads[f][k]]
  BY <1>2, <1>4 DEF FileChunks
<1>6. reads[f] = [k \in 1 .. N |-> reads[f][k]]
  BY <1>1, LenProperties
<1> QED BY <1>5, <1>6


-----------------------------------------------------------------------------
(* Where the restore is, and what it may find at a place.                  *)

Restoring == TreeInvariant /\ RestoreTypeOK /\ OnRestorePath

LEMMA RestoreIsStuttering ==
  ASSUME [RestoreNext]_allvars
  PROVE  [Next]_vars
BY DEF RestoreNext, RestoreStep, allvars, StartRestore, RestoreDirectory, DirectoryRefused,
       CreateFile, FileRefused, WriteChunk, ChunkRefused, RFail, FinishFile, FinishDirectory,
       KillRestore, Damage

LEMMA PlaceFacts ==
  ASSUME RestoreTypeOK, NEW n \in Nodes
  PROVE  /\ Place[n] \in Places
         /\ dest[Place[n]] \in Entry
         /\ dest[Place[n]].kind \in {"none", "file", "dir"}
         /\ dest[Place[n]].data \in Seq(Chunks)
         /\ dest[Place[n]].sealed \in BOOLEAN
         /\ dest[Place[n]].dated \in BOOLEAN
         /\ dest[Place[n]].kind # "file" => dest[Place[n]].data = <<>>
         /\ n # Root => Parent[n] \in Dirs /\ Parent[n] \in Nodes
<1>1. Place[n] \in Places
  BY DEF Places
<1>2. dest[Place[n]] \in Entry
  BY <1>1 DEF RestoreTypeOK
<1>3. n # Root => Parent[n] \in Dirs /\ Parent[n] \in Nodes
  BY TreeAssumption DEF Nodes
<1>4. dest[Place[n]].kind # "file" => dest[Place[n]].data = <<>>
  BY <1>1 DEF RestoreTypeOK
<1> QED BY <1>1, <1>2, <1>3, <1>4 DEF Entry

LEMMA MetadataFacts ==
  ASSUME NEW n, NEW e \in Entry
  PROVE  /\ WithMetadata(n, e) \in Entry
         /\ WithMetadata(n, e).kind = e.kind
         /\ WithMetadata(n, e).data = e.data
         /\ WithMetadata(n, e).sealed = (n \in readOnly)
         /\ WithMetadata(n, e).dated = TRUE
<1> DEFINE b == n \in readOnly
           new == [e EXCEPT !.sealed = b, !.dated = TRUE]
<1>1. b \in BOOLEAN
  OBVIOUS
<1>2. WithMetadata(n, e) = new
  BY DEF WithMetadata
<1> HIDE DEF b
<1>3. /\ new \in Entry /\ new.kind = e.kind /\ new.data = e.data
      /\ new.sealed = b /\ new.dated = TRUE
  BY <1>1 DEF Entry
<1> QED BY <1>2, <1>3 DEF b

\* What a step puts at a place is an entry, and what it leaves elsewhere too.
LEMMA PutFacts ==
  ASSUME RestoreTypeOK, NEW n \in Nodes, NEW e \in Entry, e.kind # "file" => e.data = <<>>
  PROVE  /\ Put(n, e) \in [Places -> Entry]
         /\ \A p \in Places : Put(n, e)[p].kind # "file" => Put(n, e)[p].data = <<>>
         /\ Put(n, e)[Place[n]].kind = e.kind
         /\ Put(n, e)[Place[n]].data = e.data
<1>1. /\ dest \in [Places -> Entry] /\ Place[n] \in Places
      /\ \A p \in Places : dest[p].kind # "file" => dest[p].data = <<>>
  BY PlaceFacts DEF RestoreTypeOK
<1> DEFINE one == [dest EXCEPT ![Place[n]] = e]
<1>2. /\ one \in [Places -> Entry] /\ one[Place[n]] = e
      /\ \A p \in Places : one[p].kind # "file" => one[p].data = <<>>
  BY <1>1
<1>3. CASE ~ (n # Root /\ dest[Place[n]].kind = "none")
  <2>1. Put(n, e) = one
    BY <1>3 DEF Put
  <2> QED BY <1>2, <2>1
<1>4. CASE n # Root /\ dest[Place[n]].kind = "none"
  <2> DEFINE q == Place[Parent[n]]
  <2>1. q \in Places
    BY <1>4, PlaceFacts
  <2>2. Put(n, e) = [one EXCEPT ![q].dated = FALSE]
    BY <1>4 DEF Put
  <2>3. one[q] \in Entry
    BY <1>2, <2>1
  <2> DEFINE undated == [one[q] EXCEPT !.dated = FALSE]
  <2>4. /\ undated \in Entry /\ undated.kind = one[q].kind /\ undated.data = one[q].data
    BY <2>3 DEF Entry
  <2>5. Put(n, e) = [one EXCEPT ![q] = undated]
    BY <2>2
  <2> HIDE DEF one, undated, q
  <2>6. \A p \in Places : Put(n, e)[p] = IF p = q THEN undated ELSE one[p]
    BY <1>2, <2>1, <2>5
  <2>7. Put(n, e) \in [Places -> Entry]
    BY <1>2, <2>1, <2>4, <2>5
  <2> QED BY <1>1, <1>2, <2>1, <2>4, <2>6, <2>7
<1> QED BY <1>3, <1>4

LEMMA RCurrentFacts ==
  ASSUME RestoreTypeOK, OnRestorePath, ropen # <<>>
  PROVE  /\ Len(ropen) \in Nat \ {0}
         /\ RCurrent \in Dirs
         /\ RCurrent # Root => /\ Len(ropen) >= 2
                               /\ ropen[Len(ropen) - 1] = Parent[RCurrent]
                               /\ RCurrent \in rleft[Parent[RCurrent]]
                               /\ Parent[RCurrent] \in Dirs
<1>1. Len(ropen) \in Nat \ {0} /\ ropen \in Seq(Dirs)
  BY EmptySeq DEF RestoreTypeOK
<1>2. RCurrent \in Dirs
  BY <1>1, ElementOfSeq DEF RCurrent
<1>3. ASSUME RCurrent # Root
      PROVE  /\ Len(ropen) >= 2
             /\ ropen[Len(ropen) - 1] = Parent[RCurrent]
             /\ RCurrent \in rleft[Parent[RCurrent]]
             /\ Parent[RCurrent] \in Dirs
  <2>1. Len(ropen) >= 2
    BY <1>1, <1>3 DEF RCurrent, OnRestorePath
  <2>2. ropen[(Len(ropen) - 1) + 1] \in rleft[ropen[Len(ropen) - 1]]
    BY <1>1, <2>1 DEF OnRestorePath
  <2>3. ropen[Len(ropen) - 1] \in Dirs
    BY <1>1, <2>1, ElementOfSeq
  <2>4. (Len(ropen) - 1) + 1 = Len(ropen)
    BY <1>1
  <2>5. RCurrent \in rleft[ropen[Len(ropen) - 1]]
    BY <2>2, <2>4 DEF RCurrent
  <2>6. RCurrent \in Children(ropen[Len(ropen) - 1])
    BY <2>3, <2>5 DEF OnRestorePath
  <2> QED BY <2>1, <2>3, <2>5, <2>6, ChildFacts
<1> QED BY <1>1, <1>2, <1>3

\* A node about to be restored is not on the way to where the restore is.
LEMMA RAtFresh ==
  ASSUME RestoreTypeOK, OnRestorePath, NEW n \in Nodes, RAt(n)
  PROVE  /\ pc = "listed"
         /\ rpc \in {"start", "walk"}
         /\ \A i \in 1 .. Len(ropen) : ropen[i] # n
         /\ n = Root => rpc = "start" /\ ropen = <<>>
         /\ n # Root => /\ rpc = "walk" /\ ropen # <<>>
                        /\ n \in rleft[RCurrent]
                        /\ Parent[n] = RCurrent
<1>1. CASE rpc = "start" /\ n = Root
  <2>1. pc = "listed" /\ ropen = <<>>
    BY <1>1 DEF OnRestorePath
  <2>2. 1 .. Len(ropen) = {}
    BY <2>1, EmptySeq
  <2> QED BY <1>1, <2>1, <2>2
<1>2. CASE rpc = "walk" /\ n # Root /\ n \in rleft[RCurrent]
  <2>1. pc = "listed" /\ ropen # <<>>
    BY <1>2 DEF OnRestorePath
  <2>2. RCurrent \in Dirs /\ Len(ropen) \in Nat \ {0}
    BY <2>1, RCurrentFacts
  <2>3. Parent[n] = RCurrent
    BY <1>2, <2>2, ChildFacts DEF OnRestorePath
  <2>4. ASSUME NEW i \in 1 .. Len(ropen), ropen[i] = n PROVE FALSE
    <3>1. i - 1 \in 1 .. Len(ropen) - 1
      BY <1>2, <2>1, <2>2, <2>4 DEF OnRestorePath
    <3>2. /\ ropen[(i - 1) + 1] \in rleft[ropen[i - 1]]
          /\ i - 1 \in 1 .. Len(ropen)
      BY <2>2, <3>1 DEF OnRestorePath
    <3>3. (i - 1) + 1 = i /\ ropen[i - 1] \in Dirs
      BY <3>2, ElementOfSeq DEF RestoreTypeOK
    <3>4. n \in rleft[ropen[i - 1]]
      BY <2>4, <3>2, <3>3
    <3>5. Parent[n] = ropen[i - 1]
      BY <3>3, <3>4, ChildFacts DEF OnRestorePath
    <3>6. ropen[i - 1] = ropen[Len(ropen)] /\ Len(ropen) \in 1 .. Len(ropen)
      BY <2>2, <2>3, <3>5 DEF RCurrent
    <3>7. i - 1 = Len(ropen)
      BY <3>2, <3>6 DEF OnRestorePath
    <3> QED BY <2>2, <3>1, <3>7
  <2> QED BY <1>2, <2>1, <2>3, <2>4
<1> QED BY <1>1, <1>2 DEF RAt


\* The frame of the steps of a restore: storage, backup and bounds.
LEMMA RestoreFrame ==
  ASSUME RestoreTypeOK, TypeOK', UNCHANGED <<storage, restores>>,
         dest' \in [Places -> Entry],
         \A p \in Places : dest'[p].kind # "file" => dest'[p].data = <<>>,
         rpc' \in {"idle", "start", "walk", "file", "ok", "failed", "killed"},
         ropen' \in Seq(Dirs),
         rleft' \in [Dirs -> SUBSET Nodes],
         rfile' \in Files \union {Root},
         next' \in Nat,
         rpc' = "file" => /\ dest'[Place[rfile']].kind = "file"
                          /\ next' = Len(dest'[Place[rfile']].data)
  PROVE  RestoreTypeOK'
BY DEF RestoreTypeOK, storage, Places

\* A restore that has stopped is nowhere.
LEMMA StoppedOnPath ==
  ASSUME RestoreTypeOK, OnRestorePath, TypeOK', UNCHANGED <<vars, storage, dest, restores>>,
         rpc # "idle", rpc' \in {"failed", "killed"}, NoFile, NoRWalk
  PROVE  RestoreTypeOK' /\ OnRestorePath'
<1>1. /\ ropen' = <<>> /\ rleft' = [d \in Dirs |-> {}]
      /\ rfile' = Root /\ next' = 0
  BY DEF NoFile, NoRWalk
<1>2. <<>> \in Seq(Dirs) /\ Len(<<>>) = 0
  BY EmptySeq
<1>3. UNCHANGED <<pc, damage, dest>>
  BY DEF vars, storage
<1>4. RestoreTypeOK'
  <2>1. dest \in [Places -> Entry] /\ \A p \in Places : dest[p].kind # "file" => dest[p].data = <<>>
    BY DEF RestoreTypeOK
  <2>2. ropen' \in Seq(Dirs) /\ rleft' \in [Dirs -> SUBSET Nodes]
    BY <1>1, <1>2
  <2> QED BY <1>1, <1>3, <2>1, <2>2, RestoreFrame
<1>5. OnRestorePath'
  BY <1>1, <1>2, <1>3 DEF OnRestorePath, Children
<1> QED BY <1>4, <1>5

LEMMA RestoreDirectoryOnPath ==
  ASSUME RestoreTypeOK, OnRestorePath, TypeOK', NEW d \in Dirs, RestoreDirectory(d)
  PROVE  RestoreTypeOK' /\ OnRestorePath'
<1> DEFINE n == Len(ropen)
<1>1. /\ d \in Nodes
      /\ pc = "listed"
      /\ \A i \in 1 .. n : ropen[i] # d
      /\ d = Root => ropen = <<>>
      /\ d # Root => ropen # <<>> /\ d \in rleft[RCurrent] /\ Parent[d] = RCurrent
  BY RAtFresh DEF RestoreDirectory, Nodes
<1>2. /\ rpc' = "walk" /\ ropen' = Append(ropen, d)
      /\ rleft' = [rleft EXCEPT ![d] = tree \intersect Children(d)]
      /\ UNCHANGED <<pc, damage, rfile, next, vars, storage, restores>>
  BY DEF RestoreDirectory, vars, storage
<1>3. dest' \in [Places -> Entry] /\ \A p \in Places : dest'[p].kind # "file" => dest'[p].data = <<>>
  <2> DEFINE e == WithMetadata(d, [Nothing EXCEPT !.kind = "dir"])
  <2>1. <<>> \in Seq(Chunks)
    BY EmptySeq
  <2>2. e \in Entry /\ e.kind = "dir" /\ e.data = <<>>
    <3> DEFINE new == [Nothing EXCEPT !.kind = "dir"]
    <3>1. new \in Entry /\ new.kind = "dir" /\ new.data = <<>>
      BY <2>1 DEF Entry, Nothing
    <3>2. e = WithMetadata(d, new)
      OBVIOUS
    <3> HIDE DEF new, e
    <3> QED BY <3>1, <3>2, MetadataFacts
  <2>3. dest' = Put(d, e)
    BY DEF RestoreDirectory
  <2> HIDE DEF e
  <2> QED BY <1>1, <2>2, <2>3, PutFacts
<1>4. /\ n \in Nat /\ Len(ropen') = n + 1 /\ ropen'[n + 1] = d
      /\ \A i \in 1 .. n : ropen'[i] = ropen[i] /\ ropen[i] \in Dirs
      /\ ropen' \in Seq(Dirs) /\ ropen' # <<>>
  BY <1>2, Pushed, LenProperties, ElementOfSeq DEF RestoreTypeOK
<1>5. /\ rleft' \in [Dirs -> SUBSET Nodes]
      /\ \A e \in Dirs : e # d => rleft'[e] = rleft[e]
      /\ rleft'[d] \subseteq Children(d)
  BY <1>2 DEF RestoreTypeOK, Children
<1>6. RestoreTypeOK'
  <2>1. rfile \in Files \union {Root} /\ next \in Nat
    BY DEF RestoreTypeOK
  <2> QED BY <1>2, <1>3, <1>4, <1>5, <2>1, RestoreFrame
<1>7. n = 0 <=> ropen = <<>>
  BY EmptySeq DEF RestoreTypeOK
<1>8. RCurrent = ropen[n]
  BY DEF RCurrent
<1> HIDE DEF n
<1>9. (\A i, j \in 1 .. Len(ropen) : ropen[i] = ropen[j] => i = j)'
  <2>1. \A i, j \in 1 .. n : ropen[i] = ropen[j] => i = j
    BY DEF OnRestorePath, n
  <2>2. \A i \in 1 .. n : ropen'[i] # d
    BY <1>1, <1>4
  <2> QED BY <1>4, <2>1, <2>2
<1>10. (ropen # <<>> => ropen[1] = Root)'
  <2>1. CASE d = Root
    BY <1>1, <1>4, <1>7, <2>1
  <2>2. CASE d # Root
    <3>1. n \in Nat \ {0} /\ ropen[1] = Root
      BY <1>1, <1>4, <1>7, <2>2 DEF OnRestorePath
    <3> QED BY <1>4, <3>1
  <2> QED BY <2>1, <2>2
<1>11. (\A i \in 1 .. Len(ropen) - 1 : ropen[i + 1] \in rleft[ropen[i]])'
  <2> SUFFICES ASSUME NEW i \in 1 .. n PROVE ropen'[i + 1] \in rleft'[ropen'[i]]
    BY <1>4
  <2>1. ropen'[i] = ropen[i] /\ ropen[i] \in Dirs /\ ropen[i] # d
    BY <1>1, <1>4 DEF n
  <2>2. CASE i = n
    <3>1. d # Root
      BY <1>1, <1>4, <1>7, <2>2
    <3> QED BY <1>1, <1>4, <1>5, <1>8, <2>1, <2>2, <3>1
  <2>3. CASE i # n
    <3>1. i \in 1 .. n - 1 /\ i + 1 \in 1 .. n
      BY <1>4, <2>3
    <3>2. ropen[i + 1] \in rleft[ropen[i]]
      BY <3>1 DEF OnRestorePath, n
    <3> QED BY <1>4, <1>5, <2>1, <3>1, <3>2
  <2> QED BY <2>2, <2>3
<1>12. (\A e \in Dirs : rleft[e] \subseteq Children(e))'
  <2>1. \A e \in Dirs : Children(e)' = Children(e)
    BY DEF Children
  <2> QED BY <1>5, <2>1 DEF OnRestorePath
<1> QED BY <1>1, <1>2, <1>4, <1>6, <1>9, <1>10, <1>11, <1>12 DEF OnRestorePath

LEMMA CreateFileOnPath ==
  ASSUME RestoreTypeOK, OnRestorePath, TypeOK', NEW f \in Files, CreateFile(f)
  PROVE  RestoreTypeOK' /\ OnRestorePath'
<1>1. /\ f \in Nodes
      /\ pc = "listed"
      /\ f = Root => ropen = <<>>
      /\ f # Root => ropen # <<>> /\ f \in rleft[RCurrent]
  BY RAtFresh DEF CreateFile, Nodes
<1>2. /\ rpc' = "file" /\ rfile' = f /\ next' = 0
      /\ UNCHANGED <<pc, damage, vars, storage, ropen, rleft, restores>>
  BY DEF CreateFile, vars, storage
<1>3. /\ dest' \in [Places -> Entry]
      /\ \A p \in Places : dest'[p].kind # "file" => dest'[p].data = <<>>
      /\ dest'[Place[f]].kind = "file" /\ dest'[Place[f]].data = <<>>
  <2> DEFINE e == [Nothing EXCEPT !.kind = "file", !.sealed = dest[Place[f]].sealed]
  <2>1. <<>> \in Seq(Chunks) /\ dest[Place[f]].sealed \in BOOLEAN
    BY <1>1, EmptySeq, PlaceFacts
  <2>2. e \in Entry /\ e.kind = "file" /\ e.data = <<>>
    BY <2>1 DEF Entry, Nothing
  <2>3. dest' = Put(f, e)
    BY DEF CreateFile
  <2> HIDE DEF e
  <2> QED BY <1>1, <2>2, <2>3, PutFacts
<1>4. RestoreTypeOK'
  <2>1. ropen \in Seq(Dirs) /\ rleft \in [Dirs -> SUBSET Nodes] /\ Len(<<>>) = 0
    BY EmptySeq DEF RestoreTypeOK
  <2> QED BY <1>2, <1>3, <2>1, RestoreFrame
<1> QED BY <1>1, <1>2, <1>4 DEF OnRestorePath, Children, RCurrent

\* The call for a node returns: it is no longer left to restore.
LEMMA RDone ==
  ASSUME RestoreTypeOK, OnRestorePath, NEW n \in Nodes, RReturn(n)
  PROVE  /\ rleft' \in [Dirs -> SUBSET Nodes]
         /\ \A e \in Dirs : rleft'[e] \subseteq Children(e)
         /\ n = Root => rpc' = "ok" /\ UNCHANGED rleft
         /\ n # Root => rpc' = "walk" /\ \A e \in Dirs : rleft'[e] = rleft[e] \ {n}
<1>1. CASE n = Root
  BY <1>1 DEF RReturn, RestoreTypeOK, OnRestorePath
<1>2. CASE n # Root
  <2>1. rpc' = "walk" /\ rleft' = [rleft EXCEPT ![Parent[n]] = @ \ {n}]
    BY <1>2 DEF RReturn
  <2>2. rleft' \in [Dirs -> SUBSET Nodes]
    BY <2>1 DEF RestoreTypeOK
  <2>3. ASSUME NEW e \in Dirs PROVE rleft'[e] = rleft[e] \ {n}
    <3>1. n \in rleft[e] => Parent[n] = e
      BY ChildFacts DEF OnRestorePath
    <3> QED BY <2>1, <3>1 DEF RestoreTypeOK
  <2>4. \A e \in Dirs : rleft'[e] \subseteq Children(e)
    BY <2>3 DEF OnRestorePath
  <2> QED BY <1>2, <2>1, <2>2, <2>3, <2>4
<1> QED BY <1>1, <1>2

LEMMA FinishFileOnPath ==
  ASSUME RestoreTypeOK, OnRestorePath, TypeOK', FinishFile
  PROVE  RestoreTypeOK' /\ OnRestorePath'
<1>1. /\ rpc = "file" /\ rfile \in Files \intersect Nodes /\ rfile \notin Dirs
      /\ IF ropen = <<>> THEN rfile = Root ELSE rfile \in rleft[RCurrent]
      /\ pc = "listed"
  BY TreeAssumption DEF FinishFile, OnRestorePath, Nodes
<1>2. /\ RReturn(rfile) /\ rfile' = Root /\ next' = 0
      /\ UNCHANGED ropen /\ UNCHANGED <<storage, restores>> /\ UNCHANGED <<pc, damage>>
  BY DEF FinishFile, NoFile, vars, storage
<1>3. /\ rleft' \in [Dirs -> SUBSET Nodes]
      /\ \A e \in Dirs : rleft'[e] \subseteq Children(e)
      /\ rfile = Root => rpc' = "ok"
      /\ rfile # Root => rpc' = "walk" /\ \A e \in Dirs : rleft'[e] = rleft[e] \ {rfile}
      /\ \A e \in Dirs : rleft'[e] = rleft[e] \/ rleft'[e] = rleft[e] \ {rfile}
  BY <1>1, <1>2, RDone
<1>4. /\ dest' \in [Places -> Entry]
      /\ \A p \in Places : dest'[p].kind # "file" => dest'[p].data = <<>>
  <2> DEFINE new == WithMetadata(rfile, dest[Place[rfile]])
  <2>1. /\ Place[rfile] \in Places /\ dest[Place[rfile]] \in Entry
        /\ dest[Place[rfile]].kind # "file" => dest[Place[rfile]].data = <<>>
    BY <1>1, PlaceFacts
  <2>2. /\ new \in Entry
        /\ new.kind # "file" => new.data = <<>>
    BY <2>1, MetadataFacts
  <2>3. dest' = [dest EXCEPT ![Place[rfile]] = new]
    BY DEF FinishFile
  <2>4. /\ dest \in [Places -> Entry]
        /\ \A p \in Places : dest[p].kind # "file" => dest[p].data = <<>>
    BY DEF RestoreTypeOK
  <2> HIDE DEF new
  <2> QED BY <2>1, <2>2, <2>3, <2>4
<1>5. ropen \in Seq(Dirs) /\ rpc' \in {"ok", "walk"}
  BY <1>3 DEF RestoreTypeOK
<1>6. RestoreTypeOK'
  BY <1>2, <1>3, <1>4, <1>5, RestoreFrame
<1>7. ropen = <<>> <=> rfile = Root
  <2>1. ASSUME ropen # <<>> PROVE rfile # Root
    BY <1>1, <2>1, RCurrentFacts, ChildFacts DEF OnRestorePath
  <2> QED BY <1>1, <2>1
<1>8. \A i \in 1 .. Len(ropen) : ropen[i] \in Dirs
  BY <1>5, ElementOfSeq
<1>9. \A i \in 1 .. Len(ropen) - 1 : i \in 1 .. Len(ropen) /\ i + 1 \in 1 .. Len(ropen)
  BY <1>5, LenProperties
<1>10. (\A i \in 1 .. Len(ropen) - 1 : ropen[i + 1] \in rleft[ropen[i]])'
  <2> SUFFICES ASSUME NEW i \in 1 .. Len(ropen) - 1 PROVE ropen[i + 1] \in rleft'[ropen[i]]
    BY <1>2
  <2>1. ropen[i] \in Dirs /\ ropen[i + 1] \in Dirs
    BY <1>8, <1>9
  <2>2. ropen[i + 1] \in rleft[ropen[i]]
    BY DEF OnRestorePath
  <2> QED BY <1>1, <1>3, <2>1, <2>2
<1>11. (\A e \in Dirs : rleft[e] \subseteq Children(e))'
  BY <1>3 DEF Children
<1> QED BY <1>1, <1>2, <1>3, <1>6, <1>7, <1>10, <1>11 DEF OnRestorePath

LEMMA FinishDirectoryOnPath ==
  ASSUME RestoreTypeOK, OnRestorePath, TypeOK', FinishDirectory
  PROVE  RestoreTypeOK' /\ OnRestorePath'
<1> DEFINE n == Len(ropen)
<1>1. rpc = "walk" /\ ropen # <<>> /\ ropen \in Seq(Dirs) /\ pc = "listed"
  BY DEF FinishDirectory, OnRestorePath, RestoreTypeOK
<1>2. /\ n \in Nat \ {0}
      /\ RCurrent \in Dirs /\ RCurrent \in Nodes
      /\ RCurrent # Root => n >= 2
  BY <1>1, RCurrentFacts DEF Nodes
<1>3. /\ RReturn(RCurrent) /\ UNCHANGED <<dest, rfile, next>>
      /\ UNCHANGED <<storage, restores>> /\ UNCHANGED <<pc, damage>>
      /\ ropen' = SubSeq(ropen, 1, n - 1)
  BY DEF FinishDirectory, vars, storage
<1>4. /\ ropen' \in Seq(Dirs) /\ Len(ropen') = n - 1
      /\ \A i \in 1 .. n - 1 : ropen'[i] = ropen[i]
  BY <1>1, <1>3, Popped
<1>5. /\ rleft' \in [Dirs -> SUBSET Nodes]
      /\ \A e \in Dirs : rleft'[e] \subseteq Children(e)
      /\ RCurrent = Root => rpc' = "ok" /\ UNCHANGED rleft
      /\ RCurrent # Root => rpc' = "walk" /\ \A e \in Dirs : rleft'[e] = rleft[e] \ {RCurrent}
  BY <1>2, <1>3, RDone
<1>6. /\ dest \in [Places -> Entry]
      /\ \A p \in Places : dest[p].kind # "file" => dest[p].data = <<>>
      /\ rfile \in Files \union {Root} /\ next \in Nat
  BY DEF RestoreTypeOK
<1>7. RestoreTypeOK'
  <2>1. rpc' \in {"walk", "ok"}
    BY <1>5
  <2> QED BY <1>3, <1>4, <1>5, <1>6, <2>1, RestoreFrame
<1>8. RCurrent = ropen[n]
  BY DEF RCurrent
<1>9. /\ \A i, j \in 1 .. n : ropen[i] = ropen[j] => i = j
      /\ ropen[1] = Root
      /\ \A i \in 1 .. n - 1 : ropen[i + 1] \in rleft[ropen[i]]
  BY <1>1 DEF OnRestorePath
<1>10. \A i \in 1 .. n : ropen[i] \in Dirs
  BY <1>1, ElementOfSeq
<1>11. n = 1 <=> RCurrent = Root
  <2>1. 1 \in 1 .. n /\ n \in 1 .. n
    BY <1>2
  <2> HIDE DEF n
  <2> QED BY <1>8, <1>9, <2>1
<1>12. n = 1 => ropen' = <<>>
  BY <1>4, EmptySeq
<1>13. ropen' = <<>> => n = 1
  BY <1>2, <1>4, EmptySeq
<1> HIDE DEF n
<1>14. (\A i, j \in 1 .. Len(ropen) : ropen[i] = ropen[j] => i = j)'
  BY <1>2, <1>4, <1>9
<1>15. (ropen # <<>> => ropen[1] = Root)'
  BY <1>2, <1>4, <1>9, <1>12
<1>16. (\A i \in 1 .. Len(ropen) - 1 : ropen[i + 1] \in rleft[ropen[i]])'
  <2> SUFFICES ASSUME NEW i \in 1 .. n - 2 PROVE ropen'[i + 1] \in rleft'[ropen'[i]]
    BY <1>2, <1>4
  <2>1. /\ i \in 1 .. n - 1 /\ i + 1 \in 1 .. n - 1
        /\ i + 1 \in 1 .. n /\ n \in 1 .. n /\ i + 1 # n /\ RCurrent # Root
    BY <1>2, <1>11
  <2>2. ropen[i + 1] # RCurrent
    BY <1>8, <1>9, <2>1
  <2>3. ropen[i] \in Dirs /\ ropen[i + 1] \in rleft[ropen[i]]
    BY <1>9, <1>10, <2>1
  <2> QED BY <1>4, <1>5, <2>1, <2>2, <2>3
<1>17. (\A e \in Dirs : rleft[e] \subseteq Children(e))'
  BY <1>5 DEF Children
<1> QED BY <1>1, <1>3, <1>5, <1>7, <1>11, <1>12, <1>13, <1>14, <1>15, <1>16, <1>17 DEF OnRestorePath

\* What is written next is what was read there.
LEMMA WriteChunkFacts ==
  ASSUME Restoring, WriteChunk
  PROVE  /\ rfile \in Files /\ rfile \in Nodes /\ rpc = "file" /\ pc = "listed"
         /\ next \in Nat /\ next = Len(dest[Place[rfile]].data)
         /\ next + 1 \in 1 .. Len(reads[rfile])
         /\ dest' = [dest EXCEPT ![Place[rfile]].data = Append(@, reads[rfile][next + 1]),
                                 ![Place[rfile]].dated = FALSE]
         /\ reads[rfile][next + 1] \in Chunks
<1>1. /\ rfile \in Files /\ rfile \in Nodes /\ rpc = "file" /\ pc = "listed"
      /\ next \in Nat /\ next = Len(dest[Place[rfile]].data)
  BY DEF WriteChunk, Restoring, OnRestorePath, RestoreTypeOK, Nodes
<1>2. FileChunks(rfile) = reads[rfile]
  <2>1. TreeInvariant /\ Returned(rfile)
    BY <1>1, ListedIsWhole DEF Restoring
  <2> QED BY <1>1, <2>1, FileChunksAreReads
<1>3. reads[rfile] \in Seq(Chunks)
  BY <1>1 DEF Restoring, TreeInvariant, TypeOK
<1>4. next + 1 \in 1 .. Len(reads[rfile])
  <2>1. next < Len(reads[rfile])
    BY <1>2 DEF WriteChunk
  <2>2. Len(reads[rfile]) \in Nat
    BY <1>3, LenProperties
  <2> QED BY <1>1, <2>1, <2>2
<1>5. reads[rfile][next + 1] \in Chunks
  BY <1>3, <1>4, ElementOfSeq
<1>6. /\ blob[reads[rfile][next + 1]] = reads[rfile][next + 1]
      /\ dest' = [dest EXCEPT ![Place[rfile]].data = Append(@, blob[reads[rfile][next + 1]]),
                              ![Place[rfile]].dated = FALSE]
  BY <1>2 DEF WriteChunk, Verified
<1> QED BY <1>1, <1>4, <1>5, <1>6

\* What writing a chunk makes of an entry.
LEMMA AppendFacts ==
  ASSUME RestoreTypeOK, NEW q \in Places, NEW c \in Chunks,
         dest' = [dest EXCEPT ![q].data = Append(@, c), ![q].dated = FALSE]
  PROVE  /\ dest' \in [Places -> Entry]
         /\ dest'[q].kind = dest[q].kind
         /\ dest'[q].sealed = dest[q].sealed
         /\ dest'[q].data = Append(dest[q].data, c)
         /\ \A p \in Places : p # q => dest'[p] = dest[p]
<1> DEFINE new == [dest[q] EXCEPT !.data = Append(@, c), !.dated = FALSE]
<1>1. dest \in [Places -> Entry] /\ dest[q] \in Entry /\ dest[q].data \in Seq(Chunks)
  BY DEF RestoreTypeOK, Entry
<1>2. Append(dest[q].data, c) \in Seq(Chunks)
  BY <1>1, AppendProperties
<1>3. /\ new \in Entry /\ new.kind = dest[q].kind /\ new.sealed = dest[q].sealed
      /\ new.data = Append(dest[q].data, c)
  BY <1>1, <1>2 DEF Entry
<1>4. dest' = [dest EXCEPT ![q] = new]
  BY <1>1
<1> HIDE DEF new
<1> QED BY <1>1, <1>3, <1>4

LEMMA WriteChunkOnPath ==
  ASSUME Restoring, TypeOK', WriteChunk
  PROVE  RestoreTypeOK' /\ OnRestorePath'
<1>1. /\ RestoreTypeOK /\ OnRestorePath /\ Place[rfile] \in Places
      /\ rfile \in Files /\ rpc = "file" /\ next = Len(dest[Place[rfile]].data)
      /\ dest[Place[rfile]].kind = "file" /\ dest[Place[rfile]].data \in Seq(Chunks)
  BY WriteChunkFacts, PlaceFacts DEF Restoring, RestoreTypeOK
<1>2. /\ UNCHANGED <<storage, restores>> /\ UNCHANGED <<rpc, ropen, rleft, rfile, pc, damage>>
      /\ next' = next + 1
  BY DEF WriteChunk, vars, storage
<1> DEFINE q == Place[rfile]
           c == reads[rfile][next + 1]
<1>3. c \in Chunks /\ dest' = [dest EXCEPT ![q].data = Append(@, c), ![q].dated = FALSE]
  BY WriteChunkFacts
<1> HIDE DEF q, c
<1>4. q \in Places
  BY <1>1 DEF q
<1>5. /\ dest' \in [Places -> Entry]
      /\ dest'[q].kind = dest[q].kind
      /\ dest'[q].data = Append(dest[q].data, c)
      /\ \A p \in Places : p # q => dest'[p] = dest[p]
  BY <1>1, <1>3, <1>4, AppendFacts
<1>6. \A p \in Places : dest'[p].kind # "file" => dest'[p].data = <<>>
  <2>1. \A p \in Places : dest[p].kind # "file" => dest[p].data = <<>>
    BY <1>1 DEF RestoreTypeOK
  <2> QED BY <1>1, <1>5, <2>1 DEF q
<1>7. dest'[q].kind = "file" /\ next' = Len(dest'[q].data) /\ next' \in Nat
  <2>1. Len(Append(dest[q].data, c)) = Len(dest[q].data) + 1 /\ Len(dest[q].data) \in Nat
    BY <1>1, <1>3, AppendProperties, LenProperties DEF q
  <2> QED BY <1>1, <1>2, <1>5, <2>1 DEF q
<1>8. /\ ropen \in Seq(Dirs) /\ rleft \in [Dirs -> SUBSET Nodes]
      /\ rfile \in Files \union {Root}
  BY <1>1 DEF RestoreTypeOK
<1>9. q = Place[rfile']
  BY <1>2 DEF q
<1>10. RestoreTypeOK'
  BY <1>1, <1>2, <1>5, <1>6, <1>7, <1>8, <1>9, RestoreFrame
<1>11. OnRestorePath'
  BY <1>1, <1>2 DEF OnRestorePath, Children, RCurrent
<1> QED BY <1>10, <1>11

LEMMA DamageOnPath ==
  ASSUME RestoreTypeOK, OnRestorePath, TypeOK', NEW c \in stored, Damage(c)
  PROVE  RestoreTypeOK' /\ OnRestorePath'
<1>1. /\ UNCHANGED rvars /\ UNCHANGED <<readOnly, privileged>> /\ pc' = "listed"
      /\ damage < MaxDamage /\ damage' = damage + 1
  BY DEF Damage, vars
<1>2. PICK other \in Rot : blob' = [blob EXCEPT ![c] = other]
  BY DEF Damage
<1>3. blob' \in [Chunks -> Chunks \union {Garbled}]
  BY <1>2, RestoreAssumption DEF RestoreTypeOK
<1>4. damage' \in 0 .. MaxDamage
  BY <1>1, RestoreAssumption DEF RestoreTypeOK
<1>5. RestoreTypeOK'
  BY <1>1, <1>3, <1>4 DEF RestoreTypeOK, rvars, Places
<1>6. OnRestorePath'
  BY <1>1 DEF OnRestorePath, rvars, Children, RCurrent
<1> QED BY <1>5, <1>6

\* The steps of the backup leave the restore where it is.
LEMMA BackupOnPath ==
  ASSUME RestoreTypeOK, OnRestorePath, TypeOK', [Next]_vars, UNCHANGED <<storage, rvars>>
  PROVE  RestoreTypeOK' /\ OnRestorePath'
<1>1. UNCHANGED storage /\ UNCHANGED rvars
  OBVIOUS
<1>2. RestoreTypeOK'
  BY <1>1 DEF RestoreTypeOK, storage, rvars, Places
<1>3. pc = "listed" => pc' = "listed"
  BY ListedIsFinal DEF vars
<1>4. OnRestorePath'
  BY <1>1, <1>3 DEF OnRestorePath, storage, rvars, Children, RCurrent
<1> QED BY <1>2, <1>4

LEMMA StartRestoreOnPath ==
  ASSUME RestoreTypeOK, OnRestorePath, TypeOK', StartRestore
  PROVE  RestoreTypeOK' /\ OnRestorePath'
<1>1. /\ UNCHANGED storage /\ UNCHANGED <<dest, ropen, rleft, rfile, next, pc, damage>>
      /\ rpc \notin {"walk", "file"} /\ rpc' = "start" /\ pc = "listed"
      /\ restores < MaxRestores /\ restores' = restores + 1
  BY DEF StartRestore, vars, storage
<1>2. restores' \in 0 .. MaxRestores
  BY <1>1, RestoreAssumption DEF RestoreTypeOK
<1>3. RestoreTypeOK'
  BY <1>1, <1>2 DEF RestoreTypeOK, storage, Places
<1> QED BY <1>1, <1>3 DEF OnRestorePath, Children

LEMMA RestoringStep ==
  ASSUME Restoring, [RestoreNext]_allvars
  PROVE  Restoring'
<1>1. [Next]_vars /\ TreeInvariant'
  BY RestoreIsStuttering, TreeInvariantStep DEF Restoring
<1>2. TypeOK' /\ RestoreTypeOK /\ OnRestorePath
  BY <1>1 DEF Restoring, TreeInvariant
<1>3. CASE Next /\ UNCHANGED <<storage, rvars>>
  BY <1>1, <1>2, <1>3, BackupOnPath DEF Restoring
<1>4. CASE StartRestore
  BY <1>1, <1>2, <1>4, StartRestoreOnPath DEF Restoring
<1>5. ASSUME NEW d \in Dirs, RestoreDirectory(d) PROVE Restoring'
  BY <1>1, <1>2, <1>5, RestoreDirectoryOnPath DEF Restoring
<1>6. ASSUME NEW f \in Files, CreateFile(f) PROVE Restoring'
  BY <1>1, <1>2, <1>6, CreateFileOnPath DEF Restoring
<1>7. CASE RFail /\ rpc # "idle"
  BY <1>1, <1>2, <1>7, StoppedOnPath DEF Restoring, RFail
<1>8. CASE WriteChunk
  BY <1>1, <1>2, <1>8, WriteChunkOnPath DEF Restoring
<1>9. CASE FinishFile
  BY <1>1, <1>2, <1>9, FinishFileOnPath DEF Restoring
<1>10. CASE FinishDirectory
  BY <1>1, <1>2, <1>10, FinishDirectoryOnPath DEF Restoring
<1>11. CASE KillRestore
  BY <1>1, <1>2, <1>11, StoppedOnPath DEF Restoring, KillRestore
<1>12. ASSUME NEW c \in stored, Damage(c) PROVE Restoring'
  BY <1>1, <1>2, <1>12, DamageOnPath DEF Restoring
<1>13. CASE UNCHANGED allvars
  <2>1. UNCHANGED <<storage, rvars>>
    BY <1>13 DEF allvars
  <2> QED BY <1>1, <1>2, <2>1, BackupOnPath DEF Restoring
<1> QED
  BY <1>3, <1>4, <1>5, <1>6, <1>7, <1>8, <1>9, <1>10, <1>11, <1>12, <1>13
     DEF RestoreNext, RestoreStep, DirectoryRefused, FileRefused, ChunkRefused, RAt

-----------------------------------------------------------------------------
(* What is at the places, if no two nodes share one.                       *)

\* What is put for one node is not put for another.
LEMMA OtherPlaces ==
  ASSUME FaithfulNames, RestoreTypeOK, NEW n \in Nodes, NEW e \in Entry,
         e.kind # "file" => e.data = <<>>
  PROVE  /\ Put(n, e)[Place[n]].sealed = e.sealed
         /\ n \in Files => Put(n, e)[Place[n]] = e
         /\ \A m \in Nodes \ {n} :
              /\ Put(n, e)[Place[m]].kind = dest[Place[m]].kind
              /\ Put(n, e)[Place[m]].data = dest[Place[m]].data
              /\ Put(n, e)[Place[m]].sealed = dest[Place[m]].sealed
              /\ m \in Files => Put(n, e)[Place[m]] = dest[Place[m]]
<1>1. /\ dest \in [Places -> Entry]
      /\ \A m \in Nodes : Place[m] \in Places /\ (m # n => Place[m] # Place[n])
  BY PlaceFacts DEF RestoreTypeOK, FaithfulNames
<1> DEFINE one == [dest EXCEPT ![Place[n]] = e]
<1>2. /\ one \in [Places -> Entry] /\ one[Place[n]] = e
      /\ \A m \in Nodes \ {n} : one[Place[m]] = dest[Place[m]]
  BY <1>1
<1>3. CASE ~ (n # Root /\ dest[Place[n]].kind = "none")
  <2>1. Put(n, e) = one
    BY <1>3 DEF Put
  <2> QED BY <1>2, <2>1
<1>4. CASE n # Root /\ dest[Place[n]].kind = "none"
  <2> DEFINE q == Place[Parent[n]]
  <2>1. q \in Places /\ Parent[n] \in Dirs /\ Parent[n] \in Nodes
    BY <1>4, PlaceFacts
  <2>2. Put(n, e) = [one EXCEPT ![q].dated = FALSE]
    BY <1>4 DEF Put
  <2>3. one[q] \in Entry
    BY <1>2, <2>1
  <2> DEFINE undated == [one[q] EXCEPT !.dated = FALSE]
  <2>4. /\ undated.kind = one[q].kind /\ undated.data = one[q].data
        /\ undated.sealed = one[q].sealed
    BY <2>3 DEF Entry
  <2>5. Put(n, e) = [one EXCEPT ![q] = undated]
    BY <2>2
  <2>6. \A m \in Files : m \in Nodes /\ Place[m] # q
    BY <2>1, TreeAssumption DEF FaithfulNames, Nodes
  <2> HIDE DEF one, undated, q
  <2>7. \A p \in Places : Put(n, e)[p] = IF p = q THEN undated ELSE one[p]
    BY <1>2, <2>1, <2>5
  <2> QED BY <1>1, <1>2, <2>4, <2>6, <2>7
<1> QED BY <1>3, <1>4

\* AtPlace of one node, after a step that may have touched its place.
LEMMA OnePlace ==
  ASSUME AtPlace, Restoring, NEW n \in Nodes,
         UNCHANGED <<reads, readOnly>>,
         UNCHANGED <<dest[Place[n]].kind, dest[Place[n]].data, dest[Place[n]].sealed>>
  PROVE  /\ dest'[Place[n]].kind \in {"none", OwnKind(n)}
         /\ dest'[Place[n]].sealed => n \in readOnly'
         /\ n \in Files => /\ Len(dest'[Place[n]].data) <= Len(reads'[n])
                           /\ \A i \in 1 .. Len(dest'[Place[n]].data) :
                                dest'[Place[n]].data[i] = reads'[n][i]
BY DEF AtPlace

\* AtPlace after a step of a running restore, for the node it touched and the
\* others.
LEMMA StepAtPlace ==
  ASSUME AtPlace, Restoring, NEW n \in Nodes,
         rpc' # "idle", UNCHANGED vars, UNCHANGED storage,
         \A m \in Nodes \ {n} :
           UNCHANGED <<dest[Place[m]].kind, dest[Place[m]].data, dest[Place[m]].sealed>>,
         dest'[Place[n]].kind \in {"none", OwnKind(n)},
         dest'[Place[n]].sealed => n \in readOnly,
         n \in Files => /\ Len(dest'[Place[n]].data) <= Len(reads[n])
                        /\ \A i \in 1 .. Len(dest'[Place[n]].data) :
                             dest'[Place[n]].data[i] = reads[n][i]
  PROVE  AtPlace'
<1>1. UNCHANGED <<reads, readOnly, damage, blob>>
  BY DEF vars, storage
<1>2. \A m \in Nodes :
        /\ dest'[Place[m]].kind \in {"none", OwnKind(m)}
        /\ dest'[Place[m]].sealed => m \in readOnly'
        /\ m \in Files => /\ Len(dest'[Place[m]].data) <= Len(reads'[m])
                          /\ \A i \in 1 .. Len(dest'[Place[m]].data) :
                               dest'[Place[m]].data[i] = reads'[m][i]
  <2> SUFFICES ASSUME NEW m \in Nodes
               PROVE  /\ dest'[Place[m]].kind \in {"none", OwnKind(m)}
                      /\ dest'[Place[m]].sealed => m \in readOnly'
                      /\ m \in Files => /\ Len(dest'[Place[m]].data) <= Len(reads'[m])
                                        /\ \A i \in 1 .. Len(dest'[Place[m]].data) :
                                             dest'[Place[m]].data[i] = reads'[m][i]
    OBVIOUS
  <2>1. CASE m = n
    BY <1>1, <2>1
  <2>2. CASE m # n
    <3>1. UNCHANGED <<dest[Place[m]].kind, dest[Place[m]].data, dest[Place[m]].sealed>>
      BY <2>2
    <3> QED BY <1>1, <3>1, OnePlace
  <2> QED BY <2>1, <2>2
<1> QED BY <1>1, <1>2 DEF AtPlace, OwnKind, Nodes

LEMMA RestoreDirectoryAtPlace ==
  ASSUME FaithfulNames, Restoring, AtPlace, NEW d \in Dirs, RestoreDirectory(d)
  PROVE  AtPlace'
<1>1. d \in Nodes /\ d \notin Files /\ RestoreTypeOK
  BY TreeAssumption DEF Nodes, Restoring
<1> DEFINE new == [Nothing EXCEPT !.kind = "dir"]
           e == WithMetadata(d, new)
<1>2. new \in Entry /\ new.kind = "dir" /\ new.data = <<>>
  BY EmptySeq DEF Entry, Nothing
<1>3. dest' = Put(d, e) /\ UNCHANGED vars /\ UNCHANGED storage /\ rpc' # "idle"
  BY DEF RestoreDirectory
<1> HIDE DEF new
<1>4. e \in Entry /\ e.kind = "dir" /\ e.data = <<>> /\ e.sealed = (d \in readOnly)
  BY <1>2, MetadataFacts
<1> HIDE DEF e
<1>5. /\ \A m \in Nodes \ {d} :
           UNCHANGED <<dest[Place[m]].kind, dest[Place[m]].data, dest[Place[m]].sealed>>
      /\ dest'[Place[d]].sealed = e.sealed
  BY <1>1, <1>3, <1>4, OtherPlaces
<1>6. dest'[Place[d]].kind = OwnKind(d)
  BY <1>1, <1>3, <1>4, PutFacts DEF OwnKind
<1> QED BY <1>1, <1>3, <1>4, <1>5, <1>6, StepAtPlace

LEMMA CreateFileAtPlace ==
  ASSUME FaithfulNames, Restoring, AtPlace, NEW f \in Files, CreateFile(f)
  PROVE  AtPlace'
<1>1. /\ f \in Nodes /\ f \notin Dirs /\ RestoreTypeOK
      /\ dest[Place[f]].sealed \in BOOLEAN
  BY TreeAssumption, PlaceFacts DEF Nodes, Restoring
<1> DEFINE e == [Nothing EXCEPT !.kind = "file", !.sealed = dest[Place[f]].sealed]
<1>2. /\ e \in Entry /\ e.kind = "file" /\ e.data = <<>>
      /\ e.sealed = dest[Place[f]].sealed
  BY <1>1, EmptySeq DEF Entry, Nothing
<1>3. dest' = Put(f, e) /\ UNCHANGED vars /\ UNCHANGED storage /\ rpc' # "idle"
  BY DEF CreateFile
<1> HIDE DEF e
<1>4. /\ \A m \in Nodes \ {f} :
           UNCHANGED <<dest[Place[m]].kind, dest[Place[m]].data, dest[Place[m]].sealed>>
      /\ dest'[Place[f]].sealed = e.sealed
  BY <1>1, <1>2, <1>3, OtherPlaces
<1>5. dest'[Place[f]].kind = OwnKind(f) /\ dest'[Place[f]].data = <<>>
  BY <1>1, <1>2, <1>3, PutFacts DEF OwnKind
<1>6. Len(<<>>) = 0 /\ Len(reads[f]) \in Nat
  BY EmptySeq, LenProperties DEF Restoring, TreeInvariant, TypeOK
<1>7. e.sealed => f \in readOnly
  BY <1>1, <1>2 DEF AtPlace
<1> QED BY <1>1, <1>3, <1>4, <1>5, <1>6, <1>7, StepAtPlace

LEMMA WriteChunkAtPlace ==
  ASSUME FaithfulNames, Restoring, AtPlace, WriteChunk
  PROVE  AtPlace'
<1> DEFINE q == Place[rfile]
           c == reads[rfile][next + 1]
           data == dest[q].data
<1>1. /\ rfile \in Files /\ rfile \in Nodes /\ rpc = "file"
      /\ next \in Nat /\ next = Len(data)
      /\ next + 1 \in 1 .. Len(reads[rfile])
      /\ dest' = [dest EXCEPT ![q].data = Append(@, c), ![q].dated = FALSE]
      /\ c \in Chunks
  BY WriteChunkFacts
<1>2. RestoreTypeOK /\ q \in Places /\ data \in Seq(Chunks) /\ Len(reads[rfile]) \in Nat
  BY <1>1, PlaceFacts, LenProperties DEF Restoring, TreeInvariant, TypeOK
<1>3. UNCHANGED vars /\ UNCHANGED storage /\ rpc' # "idle"
  BY <1>1 DEF WriteChunk
<1>4. /\ dest'[q].kind = dest[q].kind
      /\ dest'[q].sealed = dest[q].sealed
      /\ dest'[q].data = Append(data, c)
      /\ \A p \in Places : p # q => dest'[p] = dest[p]
  <2> HIDE DEF q, c
  <2> QED BY <1>1, <1>2, AppendFacts
<1>5. \A m \in Nodes \ {rfile} : dest'[Place[m]] = dest[Place[m]]
  BY <1>1, <1>4, <1>2, PlaceFacts DEF FaithfulNames
<1>6. /\ dest[q].kind \in {"none", OwnKind(rfile)}
      /\ dest[q].sealed => rfile \in readOnly
      /\ \A i \in 1 .. Len(data) : data[i] = reads[rfile][i]
  BY <1>1 DEF AtPlace
<1>7. /\ Len(Append(data, c)) = next + 1
      /\ \A i \in 1 .. next : Append(data, c)[i] = data[i]
      /\ Append(data, c)[next + 1] = c
  <2> HIDE DEF data, c
  <2> QED BY <1>1, <1>2, AppendProperties
<1>8. /\ Len(dest'[q].data) <= Len(reads[rfile])
      /\ \A i \in 1 .. Len(dest'[q].data) : dest'[q].data[i] = reads[rfile][i]
  <2> DEFINE new == Append(data, c)
  <2>1. \A i \in 1 .. next : new[i] = reads[rfile][i]
    BY <1>1, <1>6, <1>7
  <2>2. new[next + 1] = reads[rfile][next + 1] /\ Len(new) = next + 1
    BY <1>7
  <2> HIDE DEF new, data, c, q
  <2>3. \A i \in 1 .. next + 1 : new[i] = reads[rfile][i]
    BY <1>1, <2>1, <2>2
  <2>4. dest'[q].data = new
    BY <1>4 DEF new
  <2>5. next + 1 <= Len(reads[rfile])
    BY <1>1, <1>2
  <2> QED BY <2>2, <2>3, <2>4, <2>5
<1>9. \A m \in Nodes \ {rfile} :
        UNCHANGED <<dest[Place[m]].kind, dest[Place[m]].data, dest[Place[m]].sealed>>
  BY <1>5
<1> HIDE DEF c, data
<1> QED BY <1>1, <1>3, <1>4, <1>6, <1>8, <1>9, StepAtPlace

\* What finishing a file makes of its entry.
LEMMA FinishFileFacts ==
  ASSUME FaithfulNames, Restoring, FinishFile
  PROVE  /\ rfile \in Files /\ rfile \in Nodes /\ rpc = "file" /\ pc = "listed"
         /\ dest'[Place[rfile]].kind = dest[Place[rfile]].kind
         /\ dest'[Place[rfile]].data = dest[Place[rfile]].data
         /\ dest'[Place[rfile]].sealed = (rfile \in readOnly)
         /\ dest'[Place[rfile]].dated = TRUE
         /\ \A m \in Nodes \ {rfile} : dest'[Place[m]] = dest[Place[m]]
         /\ Len(dest[Place[rfile]].data) = Len(reads[rfile])
<1>1. /\ rfile \in Files /\ rfile \in Nodes /\ rpc = "file" /\ pc = "listed"
      /\ next = Len(dest[Place[rfile]].data) /\ RestoreTypeOK
  BY DEF FinishFile, Restoring, OnRestorePath, RestoreTypeOK, Nodes
<1>2. FileChunks(rfile) = reads[rfile]
  <2>1. TreeInvariant /\ Returned(rfile)
    BY <1>1, ListedIsWhole DEF Restoring
  <2> QED BY <1>1, <2>1, FileChunksAreReads
<1> DEFINE new == WithMetadata(rfile, dest[Place[rfile]])
<1>3. /\ new.kind = dest[Place[rfile]].kind
      /\ new.data = dest[Place[rfile]].data
      /\ new.sealed = (rfile \in readOnly)
      /\ new.dated = TRUE
  <2> DEFINE e == dest[Place[rfile]]
  <2>1. e \in Entry
    BY <1>1, PlaceFacts
  <2> HIDE DEF e
  <2>2. /\ WithMetadata(rfile, e).kind = e.kind
        /\ WithMetadata(rfile, e).data = e.data
        /\ WithMetadata(rfile, e).sealed = (rfile \in readOnly)
        /\ WithMetadata(rfile, e).dated = TRUE
    BY <2>1, MetadataFacts
  <2> QED BY <2>2 DEF e
<1>4. dest' = [dest EXCEPT ![Place[rfile]] = new]
  BY DEF FinishFile
<1> HIDE DEF new
<1>5. dest \in [Places -> Entry] /\ \A m \in Nodes : Place[m] \in Places
  BY <1>1, PlaceFacts DEF RestoreTypeOK
<1>6. dest'[Place[rfile]] = new /\ \A m \in Nodes \ {rfile} : dest'[Place[m]] = dest[Place[m]]
  BY <1>1, <1>4, <1>5 DEF FaithfulNames
<1>7. next = Len(reads[rfile])
  BY <1>2 DEF FinishFile
<1> QED BY <1>1, <1>3, <1>6, <1>7

LEMMA FinishFileAtPlace ==
  ASSUME FaithfulNames, Restoring, AtPlace, FinishFile
  PROVE  AtPlace'
<1>1. /\ rfile \in Files /\ rfile \in Nodes
      /\ dest'[Place[rfile]].kind = dest[Place[rfile]].kind
      /\ dest'[Place[rfile]].data = dest[Place[rfile]].data
      /\ dest'[Place[rfile]].sealed = (rfile \in readOnly)
      /\ \A m \in Nodes \ {rfile} : dest'[Place[m]] = dest[Place[m]]
  BY FinishFileFacts
<1>2. UNCHANGED vars /\ UNCHANGED storage /\ rpc' # "idle"
  BY DEF FinishFile, RReturn
<1>3. dest'[Place[rfile]].sealed => rfile \in readOnly
  BY <1>1
<1>4. /\ dest'[Place[rfile]].kind \in {"none", OwnKind(rfile)}
      /\ Len(dest'[Place[rfile]].data) <= Len(reads[rfile])
      /\ \A i \in 1 .. Len(dest'[Place[rfile]].data) :
           dest'[Place[rfile]].data[i] = reads[rfile][i]
  BY <1>1 DEF AtPlace
<1>5. \A m \in Nodes \ {rfile} :
        UNCHANGED <<dest[Place[m]].kind, dest[Place[m]].data, dest[Place[m]].sealed>>
  BY <1>1
<1> QED BY <1>1, <1>2, <1>3, <1>4, <1>5, StepAtPlace

\* The steps of a restore that leave the destination alone, and damage.
LEMMA SameDestAtPlace ==
  ASSUME Restoring, AtPlace,
         UNCHANGED <<dest, readOnly>>, UNCHANGED vars,
         rpc' = "idle" => rpc = "idle",
         damage' = 0 => damage = 0 /\ UNCHANGED blob
  PROVE  AtPlace'
<1>1. UNCHANGED reads
  BY DEF vars
<1> QED BY <1>1 DEF AtPlace, OwnKind, Places

\* The steps of the backup come before the first restore.
LEMMA BackupAtPlace ==
  ASSUME Restoring, AtPlace, [Next]_vars, UNCHANGED <<storage, rvars>>, TypeOK'
  PROVE  AtPlace'
<1>1. CASE UNCHANGED vars
  BY <1>1, SameDestAtPlace DEF storage, rvars
<1>2. CASE ~ UNCHANGED vars
  <2>1. rpc = "idle"
    BY <1>2, ListedIsFinal DEF Restoring, OnRestorePath
  <2>2. dest = [p \in Places |-> Nothing] /\ UNCHANGED <<dest, rpc, blob, damage, readOnly>>
    BY <2>1 DEF AtPlace, storage, rvars
  <2>3. \A n \in Nodes : dest[Place[n]] = Nothing
    BY <2>2, PlaceFacts DEF Restoring
  <2>4. \A f \in Files : Len(reads'[f]) \in Nat /\ f \in Nodes
    BY LenProperties DEF TypeOK, Nodes
  <2>5. Nothing.kind = "none" /\ Nothing.sealed = FALSE /\ Nothing.data = <<>> /\ Len(<<>>) = 0
    BY EmptySeq DEF Nothing
  <2> QED BY <2>2, <2>3, <2>4, <2>5 DEF AtPlace, Places, OwnKind
<1> QED BY <1>1, <1>2

\* Nobody but the restore that fails decides that it does, and not for what
\* was there before.
LEMMA RefusedForCause ==
  ASSUME FaithfulNames, Restoring, AtPlace, NEW n \in Nodes, RAt(n), ~ CanCreate(n)
  PROVE  ~ privileged /\ readOnly # {}
<1>1. ~ privileged /\ Above(n).sealed
  BY DEF CanCreate
<1>2. n # Root
  BY <1>1 DEF Above, Nothing
<1>3. Parent[n] \in Nodes /\ dest[Place[Parent[n]]].sealed
  BY <1>1, <1>2, PlaceFacts DEF Above, Restoring
<1> QED BY <1>1, <1>3 DEF AtPlace

LEMMA ChunksAreChunks ==
  ASSUME NEW c \in Chunks
  PROVE  c # Garbled
<1>1. PICK n \in 1 .. ChunkSize : c \in [1 .. n -> Byte]
  BY DEF Chunks
<1>2. DOMAIN c = 1 .. n /\ 1 \in 1 .. n
  BY <1>1, PipelineAssumption
<1>3. DOMAIN Garbled = {}
  BY DEF Garbled
<1> QED BY <1>2, <1>3

LEMMA FailureHasCause ==
  ASSUME FaithfulNames, Restoring, AtPlace, FailsForCause, [RestoreNext]_allvars
  PROVE  FailsForCause'
<1> USE DEF FailsForCause
<1>1. ASSUME NEW d \in Dirs, DirectoryRefused(d) PROVE FailsForCause'
  <2>1. d \in Nodes /\ d \notin Files /\ RAt(d) /\ UNCHANGED storage
    BY <1>1, TreeAssumption DEF DirectoryRefused, RFail, Nodes
  <2>2. dest[Place[d]].kind # "file"
    BY <2>1 DEF AtPlace, OwnKind
  <2>3. ~ CanCreate(d)
    BY <1>1, <2>2 DEF DirectoryRefused
  <2> QED BY <2>1, <2>3, RefusedForCause DEF storage
<1>2. ASSUME NEW f \in Files, FileRefused(f) PROVE FailsForCause'
  <2>1. f \in Nodes /\ f \notin Dirs /\ RAt(f) /\ UNCHANGED storage /\ ~ CanOpen(f)
    BY <1>2, TreeAssumption DEF FileRefused, RFail, Nodes
  <2>2. dest[Place[f]].kind \in {"none", "file"} /\ (dest[Place[f]].sealed => f \in readOnly)
    BY <2>1 DEF AtPlace, OwnKind
  <2>3. ~ CanCreate(f) \/ (~ privileged /\ dest[Place[f]].sealed)
    BY <2>1, <2>2 DEF CanOpen
  <2> QED BY <2>1, <2>2, <2>3, RefusedForCause DEF storage
<1>3. CASE ChunkRefused
  <2>1. /\ rfile \in Files /\ rpc = "file" /\ pc = "listed" /\ UNCHANGED storage
        /\ next \in Nat /\ next < Len(FileChunks(rfile))
        /\ ~ Verified(FileChunks(rfile)[next + 1])
    BY <1>3 DEF ChunkRefused, RFail, Restoring, OnRestorePath, RestoreTypeOK
  <2>2. FileChunks(rfile) \in Seq(Chunks)
    BY <2>1, ListedIsWhole, FileChunksAreReads DEF Restoring, TreeInvariant, TypeOK, Nodes
  <2>3. next + 1 \in 1 .. Len(FileChunks(rfile))
    BY <2>1, <2>2, LenProperties
  <2>4. FileChunks(rfile)[next + 1] \in Chunks
    BY <2>2, <2>3, ElementOfSeq
  <2>5. damage = 0 => Verified(FileChunks(rfile)[next + 1])
    BY <2>4, ChunksAreChunks DEF AtPlace, Verified
  <2>6. damage \in Nat
    BY RestoreAssumption DEF Restoring, RestoreTypeOK
  <2> QED BY <2>1, <2>5, <2>6 DEF storage
<1>4. ASSUME NEW c \in stored, Damage(c) PROVE FailsForCause'
  <2>1. damage \in Nat
    BY RestoreAssumption DEF Restoring, RestoreTypeOK
  <2> QED BY <1>4, <2>1 DEF Damage
<1>5. CASE rpc' # "failed"
  BY <1>5
<1>6. CASE UNCHANGED <<storage, rvars>>
  BY <1>6 DEF storage, rvars
<1> QED
  BY <1>1, <1>2, <1>3, <1>4, <1>5, <1>6
     DEF RestoreNext, RestoreStep, StartRestore, RestoreDirectory, CreateFile, WriteChunk,
         FinishFile, FinishDirectory, RReturn, KillRestore, allvars

LEMMA AtPlaceStep ==
  ASSUME FaithfulNames, Restoring, AtPlace, [RestoreNext]_allvars
  PROVE  AtPlace'
<1>1. [Next]_vars /\ TypeOK'
  BY RestoreIsStuttering, RestoringStep DEF Restoring, TreeInvariant
<1>2. CASE Next /\ UNCHANGED <<storage, rvars>>
  BY <1>1, <1>2, BackupAtPlace
<1>3. CASE UNCHANGED allvars
  BY <1>1, <1>3, BackupAtPlace DEF allvars
<1>4. CASE StartRestore
  BY <1>4, SameDestAtPlace DEF StartRestore, storage
<1>5. CASE RFail
  BY <1>5, SameDestAtPlace DEF RFail, storage
<1>6. CASE FinishDirectory
  <2>1. rpc' # "idle"
    BY <1>6 DEF FinishDirectory, RReturn
  <2> QED BY <1>6, <2>1, SameDestAtPlace DEF FinishDirectory, storage
<1>7. CASE KillRestore
  BY <1>7, SameDestAtPlace DEF KillRestore, storage
<1>8. ASSUME NEW c \in stored, Damage(c) PROVE AtPlace'
  <2>1. damage' # 0
    BY <1>8, RestoreAssumption DEF Damage, Restoring, RestoreTypeOK
  <2> QED BY <1>8, <2>1, SameDestAtPlace DEF Damage, rvars
<1> QED
  BY <1>2, <1>3, <1>4, <1>5, <1>6, <1>7, <1>8, RestoreDirectoryAtPlace, CreateFileAtPlace,
     WriteChunkAtPlace, FinishFileAtPlace
     DEF RestoreNext, RestoreStep, DirectoryRefused, FileRefused, ChunkRefused

-----------------------------------------------------------------------------
(* What lies below a node.                                                 *)

LEMMA BelowSelf ==
  ASSUME NEW n \in Nodes
  PROVE  n \in Below(n)
BY DEF Below

LEMMA BelowClosed ==
  ASSUME NEW n \in Nodes, NEW k \in Nodes \ {Root}, Parent[k] \in Below(n)
  PROVE  k \in Below(n)
BY DEF Below

LEMMA BelowRoot == Below(Root) = Nodes
<1> SUFFICES ASSUME NEW m \in Nodes, NEW S \in SUBSET Nodes, Root \in S,
                    \A k \in Nodes \ {Root} : Parent[k] \in S => k \in S
             PROVE  m \in S
  BY DEF Below
<1> QED BY RootedAssumption

\* Nothing lies below a file.
LEMMA BelowFile ==
  ASSUME NEW f \in Files, NEW m \in Below(f)
  PROVE  m = f
<1>1. \A k \in Nodes \ {Root} : Parent[k] # f
  BY TreeAssumption
<1>2. {f} \in SUBSET Nodes /\ f \in {f}
  BY DEF Nodes
<1>3. \A k \in Nodes \ {Root} : Parent[k] \in {f} => k \in {f}
  BY <1>1
<1>4. m \in {f}
  <2> DEFINE S == {f}
  <2>1. S \in SUBSET Nodes /\ f \in S /\ \A k \in Nodes \ {Root} : Parent[k] \in S => k \in S
    BY <1>2, <1>3
  <2> HIDE DEF S
  <2>2. m \in S
    BY <2>1 DEF Below
  <2> QED BY <2>2 DEF S
<1> QED BY <1>4

\* What lies below a directory lies below one of its entries.
LEMMA BelowDirectory ==
  ASSUME NEW d \in Dirs, NEW m \in Below(d), m # d
  PROVE  \E k \in Children(d) : m \in Below(k)
<1> DEFINE S == {d} \union {n \in Nodes : \E k \in Children(d) : n \in Below(k)}
<1>1. S \in SUBSET Nodes /\ d \in S
  BY DEF Nodes
<1>2. ASSUME NEW n \in Nodes \ {Root}, Parent[n] \in S
      PROVE  n \in S
  <2>1. CASE Parent[n] = d
    BY <2>1, BelowSelf DEF Children
  <2>2. CASE Parent[n] # d
    <3>1. PICK k \in Children(d) : Parent[n] \in Below(k)
      BY <1>2, <2>2
    <3>2. n \in Below(k)
      BY <3>1, BelowClosed, ChildFacts
    <3> QED BY <3>2
  <2> QED BY <2>1, <2>2
<1> HIDE DEF S
<1>3. m \in S
  BY <1>1, <1>2 DEF Below
<1> QED BY <1>3 DEF S

-----------------------------------------------------------------------------
(* No node is forgotten.                                                   *)

\* A node whose place a step leaves alone stays restored.
LEMMA StaysWhole ==
  ASSUME NEW n \in Nodes, Whole(n), UNCHANGED <<reads, readOnly>>,
         UNCHANGED <<dest[Place[n]].kind, dest[Place[n]].data, dest[Place[n]].sealed>>,
         n \in Files => dest'[Place[n]] = dest[Place[n]]
  PROVE  Whole(n)'
BY DEF Whole, OwnKind

\* The steps of a running restore that change neither the destination nor the
\* walk.
LEMMA SameProgress ==
  ASSUME Progress, UNCHANGED <<reads, readOnly, dest>>, UNCHANGED <<rpc, ropen, rleft>>
  PROVE  Progress'
BY DEF Progress, Whole, Pending, OwnKind, Below

\* Directory d is made: what lies below it, but for itself, lies below one of
\* its entries, which are all left.
LEMMA RestoreDirectoryProgress ==
  ASSUME FaithfulNames, Restoring, Progress, NEW d \in Dirs, RestoreDirectory(d)
  PROVE  Progress'
<1> DEFINE n == Len(ropen)
<1>1. /\ d \in Nodes /\ d \notin Files /\ RestoreTypeOK /\ OnRestorePath
      /\ pc = "listed"
      /\ rpc \in {"start", "walk"}
      /\ \A i \in 1 .. n : ropen[i] # d
      /\ d = Root => rpc = "start" /\ ropen = <<>>
      /\ d # Root => rpc = "walk" /\ ropen # <<>> /\ d \in rleft[RCurrent]
  BY RAtFresh, TreeAssumption DEF RestoreDirectory, Restoring, Nodes
<1> DEFINE new == [Nothing EXCEPT !.kind = "dir"]
           e == WithMetadata(d, new)
<1>2. new \in Entry /\ new.kind = "dir" /\ new.data = <<>>
  BY EmptySeq DEF Entry, Nothing
<1>3. /\ dest' = Put(d, e) /\ rpc' = "walk" /\ ropen' = Append(ropen, d)
      /\ rleft' = [rleft EXCEPT ![d] = tree \intersect Children(d)]
      /\ UNCHANGED vars /\ UNCHANGED storage
  BY DEF RestoreDirectory
<1>4. UNCHANGED <<reads, readOnly>>
  BY <1>3 DEF vars, storage
<1> HIDE DEF new
<1>5. e \in Entry /\ e.kind = "dir" /\ e.data = <<>>
  BY <1>2, MetadataFacts
<1> HIDE DEF e
<1>6. Whole(d)'
  <2>1. dest'[Place[d]].kind = "dir"
    BY <1>1, <1>3, <1>5, PutFacts
  <2> QED BY <1>1, <2>1 DEF Whole, OwnKind
<1>7. ASSUME NEW m \in Nodes \ {d}, Whole(m) PROVE Whole(m)'
  <2>1. /\ UNCHANGED <<dest[Place[m]].kind, dest[Place[m]].data, dest[Place[m]].sealed>>
        /\ m \in Files => dest'[Place[m]] = dest[Place[m]]
    BY <1>1, <1>3, <1>5, OtherPlaces
  <2> QED BY <1>4, <1>7, <2>1, StaysWhole
<1>8. /\ n \in Nat /\ Len(ropen') = n + 1 /\ ropen'[n + 1] = d
      /\ \A i \in 1 .. n : ropen'[i] = ropen[i] /\ ropen[i] \in Dirs
  BY <1>1, <1>3, Pushed, LenProperties, ElementOfSeq DEF RestoreTypeOK
<1>9. /\ \A i \in 1 .. n : rleft'[ropen'[i]] = rleft[ropen[i]]
      /\ rleft'[d] = Children(d)
  <2>1. tree \intersect Children(d) = Children(d)
    BY <1>1, ListedIsWhole DEF Restoring, Children
  <2> QED BY <1>1, <1>3, <1>8, <2>1 DEF RestoreTypeOK
<1>10. RCurrent = ropen[n] /\ (ropen # <<>> => n \in 1 .. n)
  BY <1>1, <1>8, RCurrentFacts DEF RCurrent
<1> HIDE DEF n
<1>11. ASSUME NEW m \in Below(d) PROVE Whole(m)' \/ Pending(m)'
  <2>1. CASE m = d
    BY <1>6, <2>1
  <2>2. CASE m # d
    <3>1. PICK k \in Children(d) : m \in Below(k)
      BY <2>2, BelowDirectory
    <3>2. /\ n + 1 \in 1 .. Len(ropen') /\ k \in rleft'[ropen'[n + 1]]
          /\ ~ (n + 1 < Len(ropen'))
      BY <1>8, <1>9, <3>1
    <3>3. Pending(m)'
      BY <3>1, <3>2 DEF Pending, Below
    <3> QED BY <3>3
  <2> QED BY <2>1, <2>2
<1>12. ASSUME NEW m \in Nodes PROVE Whole(m)' \/ Pending(m)'
  <2>1. CASE d = Root
    BY <1>11, <2>1, BelowRoot
  <2>2. CASE d # Root /\ m = d
    BY <1>6, <2>2
  <2>3. CASE d # Root /\ m # d /\ Whole(m)
    BY <1>7, <2>3
  <2>4. CASE d # Root /\ ~ Whole(m)
    <3>1. Pending(m)
      BY <1>1, <2>4 DEF Progress
    <3>0. PICK i \in 1 .. n : \E k \in rleft[ropen[i]] :
            /\ i < n => k # ropen[i + 1]
            /\ m \in Below(k)
      BY <1>1, <2>4, <3>1 DEF Pending, n
    <3>2. PICK k \in rleft[ropen[i]] :
            /\ i < n => k # ropen[i + 1]
            /\ m \in Below(k)
      BY <3>0
    <3>3. CASE i = n /\ k = d
      BY <1>11, <3>2, <3>3
    <3>4. CASE ~ (i = n /\ k = d)
      <4>1. i < n + 1 /\ i \in 1 .. Len(ropen') /\ k \in rleft'[ropen'[i]]
        BY <1>8, <1>9
      <4>2. k # ropen'[i + 1]
        BY <1>8, <3>2, <3>4
      <4>3. Pending(m)'
        BY <1>8, <3>2, <4>1, <4>2 DEF Pending, Below
      <4> QED BY <4>3
    <3> QED BY <3>3, <3>4
  <2> QED BY <2>1, <2>2, <2>3, <2>4
<1> QED BY <1>3, <1>12 DEF Progress, Nodes

\* A file being written is still left: of the others nothing changes.
LEMMA WritingProgress ==
  ASSUME Restoring, Restoring', Progress, NEW f \in Files,
         rpc \in {"start", "walk", "file"}, rpc' = "file", rfile' = f,
         UNCHANGED <<ropen, rleft>>, UNCHANGED <<reads, readOnly>>,
         \A m \in Nodes \ {f} : dest'[Place[m]].kind = dest[Place[m]].kind,
         \A m \in Nodes \ {f} : dest'[Place[m]].data = dest[Place[m]].data,
         \A m \in Nodes \ {f} : dest'[Place[m]].sealed = dest[Place[m]].sealed,
         \A m \in Files \ {f} : dest'[Place[m]] = dest[Place[m]]
  PROVE  Progress'
<1>1. /\ RestoreTypeOK' /\ OnRestorePath' /\ f \in Nodes
  BY DEF Restoring, Nodes
<1>2. CASE ropen' = <<>>
  BY <1>2 DEF Progress, Pending
<1>3. CASE ropen' # <<>>
  <2>1. f \in rleft'[RCurrent'] /\ RCurrent' = ropen'[Len(ropen')] /\ Len(ropen') \in 1 .. Len(ropen')
    <3>1. Len(ropen') \in Nat \ {0}
      BY <1>1, <1>3, EmptySeq DEF RestoreTypeOK
    <3> QED BY <1>1, <1>3, <3>1 DEF OnRestorePath, RCurrent
  <2>2. Pending(f)'
    <3>1. f \in Below(f)
      BY <1>1, BelowSelf
    <3>2. ~ (Len(ropen') < Len(ropen'))
      BY <2>1
    <3> QED BY <2>1, <3>1, <3>2 DEF Pending, Below
  <2>3. ASSUME NEW m \in Nodes \ {f}, Whole(m) PROVE Whole(m)'
    BY <2>3, StaysWhole
  <2>4. ASSUME NEW m \in Nodes \ {f}, Pending(m), rpc # "start" PROVE Pending(m)'
    BY <1>3, <2>4 DEF Pending, Below
  <2>5. rpc # "start"
    <3>1. rpc = "start" => ropen = <<>>
      BY DEF Restoring, OnRestorePath
    <3> QED BY <1>3, <3>1
  <2> QED BY <2>2, <2>3, <2>4, <2>5 DEF Progress, Nodes
<1> QED BY <1>2, <1>3

LEMMA CreateFileProgress ==
  ASSUME FaithfulNames, Restoring, Restoring', Progress, NEW f \in Files, CreateFile(f)
  PROVE  Progress'
<1>1. /\ f \in Nodes /\ f \notin Dirs /\ RestoreTypeOK
      /\ dest[Place[f]].sealed \in BOOLEAN
      /\ rpc \in {"start", "walk"}
  BY TreeAssumption, PlaceFacts DEF Nodes, Restoring, CreateFile, RAt
<1> DEFINE e == [Nothing EXCEPT !.kind = "file", !.sealed = dest[Place[f]].sealed]
<1>2. e \in Entry /\ e.kind = "file" /\ e.data = <<>>
  BY <1>1, EmptySeq DEF Entry, Nothing
<1>3. /\ dest' = Put(f, e) /\ rpc' = "file" /\ rfile' = f
      /\ UNCHANGED <<ropen, rleft>> /\ UNCHANGED <<reads, readOnly>>
  BY DEF CreateFile, vars, storage
<1> HIDE DEF e
<1>4. \A m \in Nodes \ {f} :
        /\ dest'[Place[m]].kind = dest[Place[m]].kind
        /\ dest'[Place[m]].data = dest[Place[m]].data
        /\ dest'[Place[m]].sealed = dest[Place[m]].sealed
        /\ m \in Files => dest'[Place[m]] = dest[Place[m]]
  BY <1>1, <1>2, <1>3, OtherPlaces
<1> QED BY <1>1, <1>3, <1>4, WritingProgress DEF Nodes

LEMMA WriteChunkProgress ==
  ASSUME FaithfulNames, Restoring, Restoring', Progress, WriteChunk
  PROVE  Progress'
<1>1. /\ rfile \in Files /\ rfile \in Nodes /\ rpc = "file"
      /\ dest' = [dest EXCEPT ![Place[rfile]].data = Append(@, reads[rfile][next + 1]),
                              ![Place[rfile]].dated = FALSE]
      /\ reads[rfile][next + 1] \in Chunks /\ RestoreTypeOK
  BY WriteChunkFacts DEF Restoring
<1>2. \A p \in Places : p # Place[rfile] => dest'[p] = dest[p]
  BY <1>1, PlaceFacts, AppendFacts
<1>3. \A m \in Nodes \ {rfile} : dest'[Place[m]] = dest[Place[m]]
  BY <1>1, <1>2, PlaceFacts DEF FaithfulNames
<1>4. /\ rpc' = "file" /\ rfile' = rfile
      /\ UNCHANGED <<ropen, rleft>> /\ UNCHANGED <<reads, readOnly>>
  BY <1>1 DEF WriteChunk, vars, storage
<1> QED BY <1>1, <1>3, <1>4, WritingProgress DEF Nodes

\* A file that is finished is what was read of it.
LEMMA FinishedIsWhole ==
  ASSUME FaithfulNames, Restoring, AtPlace, FinishFile, NEW f \in Files, f = rfile
  PROVE  Whole(f)'
<1> DEFINE data == dest[Place[rfile]].data
<1>1. /\ rfile \in Files /\ rfile \in Nodes /\ rfile \notin Dirs /\ rpc = "file"
      /\ dest'[Place[rfile]].kind = dest[Place[rfile]].kind
      /\ dest'[Place[rfile]].data = data
      /\ dest'[Place[rfile]].sealed = (rfile \in readOnly)
      /\ dest'[Place[rfile]].dated = TRUE
      /\ Len(data) = Len(reads[rfile])
  BY FinishFileFacts, TreeAssumption
<1>2. UNCHANGED <<reads, readOnly>>
  BY DEF FinishFile, vars, storage
<1>3. data = reads[rfile]
  <2>1. data \in Seq(Chunks) /\ reads[rfile] \in Seq(Chunks)
    BY <1>1, PlaceFacts DEF Restoring, TreeInvariant, TypeOK
  <2>2. \A i \in 1 .. Len(data) : data[i] = reads[rfile][i]
    BY <1>1 DEF AtPlace
  <2> HIDE DEF data
  <2> QED BY <1>1, <2>1, <2>2, SeqEqual
<1>4. dest[Place[rfile]].kind = "file"
  BY <1>1 DEF Restoring, RestoreTypeOK
<1>5. /\ dest'[Place[f]].kind = "file" /\ dest'[Place[f]].data = reads'[f]
      /\ dest'[Place[f]].dated
      /\ dest'[Place[f]].sealed = (f \in readOnly')
      /\ f \notin Dirs
  BY <1>1, <1>2, <1>3, <1>4
<1> QED BY <1>5 DEF Whole, OwnKind

LEMMA FinishFileProgress ==
  ASSUME FaithfulNames, Restoring, AtPlace, Progress, FinishFile
  PROVE  Progress'
<1>1. /\ rfile \in Files /\ rfile \in Nodes /\ rpc = "file"
      /\ \A m \in Nodes \ {rfile} : dest'[Place[m]] = dest[Place[m]]
      /\ RestoreTypeOK /\ OnRestorePath
  BY FinishFileFacts DEF Restoring
<1>2. /\ UNCHANGED ropen /\ UNCHANGED <<reads, readOnly>> /\ RReturn(rfile)
  BY DEF FinishFile, vars, storage
<1>3. PICK f \in Files : f = rfile
  BY <1>1
<1>4. Whole(f)'
  BY <1>3, FinishedIsWhole
<1>5. ASSUME NEW m \in Nodes \ {f}, Whole(m) PROVE Whole(m)'
  BY <1>1, <1>2, <1>3, <1>5, StaysWhole
<1>6. /\ f = Root => rpc' = "ok"
      /\ f # Root => rpc' = "walk" /\ \A e \in Dirs : rleft'[e] = rleft[e] \ {f}
  BY <1>1, <1>2, <1>3, RDone
<1>7. CASE f = Root
  <2>1. \A m \in Nodes : m = f
    BY <1>7, BelowRoot, BelowFile
  <2> QED BY <1>4, <1>6, <1>7, <2>1 DEF Progress, Nodes
<1>8. CASE f # Root
  <2>1. ropen # <<>> /\ \A i \in 1 .. Len(ropen) : ropen[i] \in Dirs
    BY <1>1, <1>3, <1>8, ElementOfSeq DEF OnRestorePath, RestoreTypeOK
  <2>2. ASSUME NEW m \in Nodes \ {f}, Pending(m) PROVE Pending(m)'
    <3>1. PICK i \in 1 .. Len(ropen) : \E k \in rleft[ropen[i]] :
            /\ i < Len(ropen) => k # ropen[i + 1]
            /\ m \in Below(k)
      BY <1>1, <2>1, <2>2 DEF Pending
    <3>2. PICK k \in rleft[ropen[i]] :
            /\ i < Len(ropen) => k # ropen[i + 1]
            /\ m \in Below(k)
      BY <3>1
    <3>3. k # f
      BY <2>2, <3>2, BelowFile
    <3>4. k \in rleft'[ropen'[i]]
      BY <1>2, <1>6, <1>8, <2>1, <3>3
    <3> QED BY <1>2, <3>2, <3>4 DEF Pending, Below
  <2>3. \A m \in Nodes : Whole(m) \/ Pending(m)
    BY <1>1 DEF Progress
  <2> QED BY <1>4, <1>5, <1>6, <1>8, <2>2, <2>3 DEF Progress, Nodes
<1> QED BY <1>7, <1>8

LEMMA FinishDirectoryProgress ==
  ASSUME Restoring, Progress, FinishDirectory
  PROVE  Progress'
<1> DEFINE n == Len(ropen)
<1>1. rpc = "walk" /\ ropen # <<>> /\ RestoreTypeOK /\ OnRestorePath /\ ropen \in Seq(Dirs)
  BY DEF FinishDirectory, Restoring, OnRestorePath, RestoreTypeOK
<1>2. /\ n \in Nat \ {0} /\ n \in 1 .. n
      /\ RCurrent \in Dirs /\ RCurrent \in Nodes
      /\ RCurrent = ropen[n]
      /\ \A i \in 1 .. n : ropen[i] \in Dirs
      /\ RCurrent # Root => Parent[RCurrent] = ropen[n - 1]
      /\ RCurrent # Root => n >= 2
  BY <1>1, RCurrentFacts, ElementOfSeq DEF Nodes, RCurrent
<1>3. /\ RReturn(RCurrent) /\ UNCHANGED <<dest, reads, readOnly>>
      /\ ropen' = SubSeq(ropen, 1, n - 1) /\ rleft[RCurrent] = {}
  BY DEF FinishDirectory, vars, storage
<1>4. /\ Len(ropen') = n - 1
      /\ \A i \in 1 .. n - 1 : ropen'[i] = ropen[i]
  BY <1>1, <1>3, Popped
<1>5. /\ RCurrent = Root => rpc' = "ok"
      /\ RCurrent # Root => rpc' = "walk" /\ \A e \in Dirs : rleft'[e] = rleft[e] \ {RCurrent}
  BY <1>1, <1>2, <1>3, RDone
<1>6. \A m \in Nodes : Whole(m) => Whole(m)'
  BY <1>3 DEF Whole, OwnKind
<1>7. /\ \A i, j \in 1 .. n : ropen[i] = ropen[j] => i = j
      /\ ropen[1] = Root
  BY <1>1 DEF OnRestorePath
<1> HIDE DEF n
<1>8. ASSUME NEW m \in Nodes, Pending(m) PROVE RCurrent # Root /\ Pending(m)'
  <2>1. PICK i \in 1 .. n : \E k \in rleft[ropen[i]] :
          /\ i < n => k # ropen[i + 1]
          /\ m \in Below(k)
    BY <1>1, <1>8 DEF Pending, n
  <2>2. PICK k \in rleft[ropen[i]] :
          /\ i < n => k # ropen[i + 1]
          /\ m \in Below(k)
    BY <2>1
  <2>3. i \in 1 .. n - 1 /\ i < n /\ n # 1
    BY <1>2, <1>3, <2>2
  <2>4. RCurrent # Root
    <3>1. 1 \in 1 .. n
      BY <1>2
    <3> QED BY <1>2, <1>7, <2>3, <3>1
  <2>5. k # RCurrent
    <3>1. CASE i = n - 1
      BY <1>2, <2>2, <2>3, <3>1
    <3>2. CASE i # n - 1
      <4>1. n - 1 \in 1 .. n
        BY <1>2, <2>4
      <4>2. ropen[i] # Parent[RCurrent]
        BY <1>2, <1>7, <2>4, <3>2, <4>1
      <4>3. k \in Children(ropen[i])
        BY <1>1, <1>2, <2>2 DEF OnRestorePath
      <4> QED BY <1>2, <4>2, <4>3, ChildFacts
    <3> QED BY <3>1, <3>2
  <2>6. k \in rleft'[ropen'[i]]
    BY <1>2, <1>4, <1>5, <2>2, <2>3, <2>4, <2>5
  <2>7. i < Len(ropen') => k # ropen'[i + 1]
    <3> SUFFICES ASSUME i < n - 1 PROVE k # ropen'[i + 1]
      BY <1>4
    <3>1. i + 1 \in 1 .. n - 1
      BY <1>2, <2>3
    <3> QED BY <1>4, <2>2, <2>3, <3>1
  <2>8. i \in 1 .. Len(ropen')
    BY <1>4, <2>3
  <2> QED BY <2>2, <2>4, <2>6, <2>7, <2>8 DEF Pending, Below
<1>9. \A m \in Nodes : Whole(m) \/ Pending(m)
  BY <1>1 DEF Progress
<1>10. CASE RCurrent = Root
  BY <1>5, <1>6, <1>8, <1>9, <1>10 DEF Progress, Nodes
<1>11. CASE RCurrent # Root
  BY <1>5, <1>6, <1>8, <1>9, <1>11 DEF Progress, Nodes
<1> QED BY <1>10, <1>11

LEMMA ProgressStep ==
  ASSUME FaithfulNames, Restoring, Restoring', AtPlace, Progress, [RestoreNext]_allvars
  PROVE  Progress'
<1>1. CASE UNCHANGED <<storage, rvars>> /\ [Next]_vars
  <2>1. UNCHANGED <<readOnly, dest>> /\ UNCHANGED <<rpc, ropen, rleft>>
    BY <1>1 DEF storage, rvars
  <2>2. CASE UNCHANGED vars
    BY <2>1, <2>2, SameProgress DEF vars
  <2>3. CASE ~ UNCHANGED vars
    <3>1. rpc = "idle"
      BY <1>1, <2>3, ListedIsFinal DEF Restoring, OnRestorePath
    <3> QED BY <2>1, <3>1 DEF Progress
  <2> QED BY <2>2, <2>3
<1>2. CASE StartRestore
  BY <1>2 DEF StartRestore, Progress, Pending
<1>3. CASE RFail
  BY <1>3 DEF RFail, Progress
<1>4. CASE KillRestore
  BY <1>4 DEF KillRestore, Progress
<1>5. ASSUME NEW c \in stored, Damage(c) PROVE Progress'
  BY <1>5, SameProgress DEF Damage, vars, rvars
<1>6. CASE UNCHANGED allvars
  BY <1>1, <1>6 DEF allvars
<1>7. CASE Next /\ UNCHANGED <<storage, rvars>>
  BY <1>1, <1>7
<1> QED
  BY <1>2, <1>3, <1>4, <1>5, <1>6, <1>7, RestoreDirectoryProgress, CreateFileProgress,
     WriteChunkProgress, FinishFileProgress, FinishDirectoryProgress
     DEF RestoreNext, RestoreStep, DirectoryRefused, FileRefused, ChunkRefused

-----------------------------------------------------------------------------
(* FlattenSeq, which is defined by recursion, one chunk further.           *)

\* Induction over the naturals, as a fact about a set: the least element of
\* what is missing from it can neither be zero nor follow another.
LEMMA NatSet ==
  ASSUME NEW S, 0 \in S, \A n \in Nat : n \in S => n + 1 \in S
  PROVE  Nat \subseteq S
<1> DEFINE R == {ss \in Nat \X Nat : ss[1] < ss[2]}
<1>1. IsWellFoundedOn(R, Nat)
  BY NatLessThanWellFounded DEF OpToRel
<1> SUFFICES ASSUME Nat \ S # {} PROVE FALSE
  OBVIOUS
<1>2. \E x \in Nat \ S : \A y \in Nat \ S : ~ (<<y, x>> \in R)
  <2> HIDE DEF R
  <2> QED BY <1>1, WFMin
<1>3. PICK x \in Nat \ S : \A y \in Nat \ S : ~ (<<y, x>> \in R)
  BY <1>2
<1>4. x - 1 \in Nat /\ x - 1 \notin S
  BY <1>3
<1>5. <<x - 1, x>> \in R
  <2> DEFINE p == <<x - 1, x>>
  <2>1. p \in Nat \X Nat /\ p[1] < p[2]
    BY <1>4
  <2> HIDE DEF p
  <2>2. p \in R
    BY <2>1
  <2> QED BY <2>2 DEF p
<1> QED
  <2> HIDE DEF R
  <2> QED BY <1>3, <1>4, <1>5

\* The recursion of FlattenSeq.
Flattens(s, g) ==
  /\ DOMAIN g = 1 .. Len(s)
  /\ \A i \in 1 .. Len(s) : g[i] = IF i = 1 THEN s[i] ELSE g[i - 1] \o s[i]

LEMMA FlattenExists ==
  ASSUME NEW s, Len(s) \in Nat
  PROVE  \E g : g = [i \in 1 .. Len(s) |-> IF i = 1 THEN s[i] ELSE g[i - 1] \o s[i]]
<1> DEFINE P(k) == \E g : g = [i \in 1 .. k |-> IF i = 1 THEN s[i] ELSE g[i - 1] \o s[i]]
           K == {k \in Nat : P(k)}
<1>1. P(0)
  <2> DEFINE g == [i \in {} |-> i]
  <2>1. g = [i \in 1 .. 0 |-> IF i = 1 THEN s[i] ELSE g[i - 1] \o s[i]]
    OBVIOUS
  <2> QED BY <2>1
<1>2. ASSUME NEW k \in Nat, P(k) PROVE P(k + 1)
  <2>1. PICK g : g = [i \in 1 .. k |-> IF i = 1 THEN s[i] ELSE g[i - 1] \o s[i]]
    BY <1>2
  <2> DEFINE h == [i \in 1 .. k + 1 |->
                    IF i = k + 1 THEN (IF k = 0 THEN s[1] ELSE g[k] \o s[k + 1]) ELSE g[i]]
  <2>2. ASSUME NEW i \in 1 .. k + 1
        PROVE  h[i] = IF i = 1 THEN s[i] ELSE h[i - 1] \o s[i]
    <3>1. CASE i = k + 1 /\ k = 0
      BY <3>1
    <3>2. CASE i = k + 1 /\ k # 0
      <4>1. i - 1 = k /\ k \in 1 .. k + 1 /\ k # k + 1 /\ i # 1
        BY <3>2
      <4>2. h[k] = g[k] /\ h[i] = g[k] \o s[k + 1]
        BY <3>2, <4>1
      <4> HIDE DEF h
      <4> QED BY <3>2, <4>1, <4>2
    <3>3. CASE i # k + 1 /\ i = 1
      <4>1. 1 \in 1 .. k
        BY <3>3
      <4>2. g[1] = s[1]
        BY <2>1, <4>1
      <4> QED BY <3>3, <4>2
    <3>4. CASE i # k + 1 /\ i # 1
      <4>1. i \in 1 .. k /\ i - 1 \in 1 .. k + 1 /\ i - 1 # k + 1
        BY <3>4
      <4>2. g[i] = g[i - 1] \o s[i]
        BY <2>1, <3>4, <4>1
      <4>3. h[i] = g[i] /\ h[i - 1] = g[i - 1]
        BY <3>4, <4>1
      <4> HIDE DEF h
      <4> QED BY <3>4, <4>2, <4>3
    <3> QED BY <3>1, <3>2, <3>3, <3>4
  <2>3. h = [i \in 1 .. k + 1 |-> h[i]]
    OBVIOUS
  <2> HIDE DEF h
  <2>4. h = [i \in 1 .. k + 1 |-> IF i = 1 THEN s[i] ELSE h[i - 1] \o s[i]]
    <3> DEFINE b(i) == IF i = 1 THEN s[i] ELSE h[i - 1] \o s[i]
    <3>1. \A i \in 1 .. k + 1 : h[i] = b(i)
      BY <2>2
    <3> HIDE DEF b
    <3>2. h = [i \in 1 .. k + 1 |-> b(i)]
      BY <2>3, <3>1
    <3> QED BY <3>2 DEF b
  <2> QED BY <2>4
<1>3. P(Len(s))
  <2> HIDE DEF P
  <2>1. 0 \in K /\ \A k \in Nat : k \in K => k + 1 \in K
    BY <1>1, <1>2
  <2> HIDE DEF K
  <2>2. Nat \subseteq K
    BY <2>1, NatSet
  <2>3. Len(s) \in K
    BY <2>2
  <2> QED BY <2>3 DEF K
<1> QED BY <1>3

LEMMA FlattenIs ==
  ASSUME NEW s, Len(s) \in Nat, Len(s) # 0
  PROVE  \E g : Flattens(s, g) /\ FlattenSeq(s) = g[Len(s)]
<1> DEFINE G == CHOOSE g : g = [i \in 1 .. Len(s) |-> IF i = 1 THEN s[i] ELSE g[i - 1] \o s[i]]
<1>1. FlattenSeq(s) = G[Len(s)]
  BY DEF FlattenSeq
<1>2. G = [i \in 1 .. Len(s) |-> IF i = 1 THEN s[i] ELSE G[i - 1] \o s[i]]
  <2>1. \E g : g = [i \in 1 .. Len(s) |-> IF i = 1 THEN s[i] ELSE g[i - 1] \o s[i]]
    BY FlattenExists
  <2> QED BY <2>1
<1> HIDE DEF G
<1>3. Flattens(s, G)
  BY <1>2 DEF Flattens
<1> QED BY <1>1, <1>3

LEMMA FlattenAppend ==
  ASSUME NEW S, NEW s \in Seq(Seq(S)), NEW e \in Seq(S)
  PROVE  FlattenSeq(Append(s, e)) = FlattenSeq(s) \o e
<1> DEFINE t == Append(s, e)
           n == Len(s)
<1>1. /\ n \in Nat /\ Len(t) = n + 1 /\ t[n + 1] = e
      /\ \A i \in 1 .. n : t[i] = s[i]
  BY AppendProperties, LenProperties
<1> HIDE DEF t
<1>2. PICK h : Flattens(t, h) /\ FlattenSeq(t) = h[n + 1]
  BY <1>1, FlattenIs
<1>3. CASE n = 0
  <2>1. s = <<>>
    BY <1>3, EmptySeq
  <2>2. FlattenSeq(s) = <<>>
    BY <1>3, <2>1 DEF FlattenSeq
  <2>3. h[1] = e
    BY <1>1, <1>2, <1>3 DEF Flattens
  <2>4. <<>> \o e = e
    BY ConcatEmptySeq
  <2> QED BY <1>2, <1>3, <2>2, <2>3, <2>4 DEF t
<1>4. CASE n # 0
  <2>1. PICK g : Flattens(s, g) /\ FlattenSeq(s) = g[n]
    BY <1>1, <1>4, FlattenIs
  <2> DEFINE K == {k \in Nat : k \in 1 .. n => g[k] = h[k]}
  <2>2. 0 \in K
    OBVIOUS
  <2>3. ASSUME NEW k \in Nat, k \in K PROVE k + 1 \in K
    <3> SUFFICES ASSUME k + 1 \in 1 .. n PROVE g[k + 1] = h[k + 1]
      OBVIOUS
    <3>1. k + 1 \in 1 .. n + 1 /\ t[k + 1] = s[k + 1] /\ (k + 1) - 1 = k
      BY <1>1
    <3>2. CASE k = 0
      <4>1. 1 \in 1 .. n /\ 1 \in 1 .. n + 1 /\ k + 1 = 1
        BY <1>1, <1>4, <3>2
      <4>2. g[1] = s[1] /\ h[1] = t[1] /\ t[1] = s[1]
        BY <1>1, <1>2, <2>1, <4>1 DEF Flattens
      <4> QED BY <4>1, <4>2
    <3>3. CASE k # 0
      <4>1. k + 1 # 1 /\ k \in 1 .. n
        BY <3>3, <1>1
      <4>2. g[k] = h[k]
        BY <2>3, <4>1
      <4>3. g[k + 1] = g[k] \o s[k + 1] /\ h[k + 1] = h[k] \o t[k + 1]
        BY <1>1, <1>2, <2>1, <3>1, <4>1 DEF Flattens
      <4> QED BY <3>1, <4>2, <4>3
    <3> QED BY <3>2, <3>3
  <2>4. n \in K
    <3> HIDE DEF K
    <3>1. Nat \subseteq K
      BY <2>2, <2>3, NatSet
    <3> QED BY <1>1, <3>1
  <2>5. g[n] = h[n]
    BY <1>1, <1>4, <2>4
  <2>6. h[n + 1] = h[n] \o e
    <3>1. n + 1 \in 1 .. n + 1 /\ n + 1 # 1 /\ (n + 1) - 1 = n
      BY <1>1, <1>4
    <3> QED BY <1>1, <1>2, <3>1 DEF Flattens
  <2> QED BY <1>2, <2>1, <2>5, <2>6 DEF t
<1> QED BY <1>3, <1>4

-----------------------------------------------------------------------------
(* As long as nobody writes to the source, the chunks read of a file are    *)
(* what it holds.                                                          *)

LEMMA ReadsAreSeqs ==
  ASSUME TypeOK, NEW f \in Files
  PROVE  /\ reads[f] \in Seq(Seq(Byte))
         /\ source[f] \in Seq(Byte)
         /\ Len(source[f]) \in Nat
<1>1. Chunks \subseteq Seq(Byte)
  <2> SUFFICES ASSUME NEW n \in 1 .. ChunkSize, NEW c \in [1 .. n -> Byte]
               PROVE  c \in Seq(Byte)
    BY DEF Chunks
  <2>1. n \in Nat
    BY PipelineAssumption
  <2> QED BY <2>1, SeqDef
<1>2. reads[f] \in Seq(Chunks)
  BY DEF TypeOK
<1>3. reads[f] \in Seq(Seq(Byte))
  BY <1>1, <1>2, SeqMonotonic
<1>4. source[f] \in Seq(Byte)
  BY PipelineAssumption DEF TypeOK
<1> QED BY <1>3, <1>4, LenProperties

LEMMA ReadsSourceInit ==
  ASSUME Init
  PROVE  ReadsSource
BY DEF Init, ReadsSource, Returned, Nodes

\* The steps that touch neither the source, the reads nor the reader.
LEMMA SameReadsSource ==
  ASSUME ReadsSource, UNCHANGED <<source, edits, reads>>,
         pc' = "file" => pc = "file" /\ UNCHANGED <<file, pos, eof>>,
         \A f \in Files : Returned(f)' => Returned(f)
  PROVE  ReadsSource'
BY DEF ReadsSource

LEMMA ReadChunkReadsSource ==
  ASSUME TreeInvariant, ReadsSource, ReadChunk
  PROVE  ReadsSource'
<1> SUFFICES ASSUME edits' = 0 PROVE ReadsSource'
  BY DEF ReadsSource
<1>1. /\ TypeOK /\ OnPath
  BY DEF TreeInvariant
<1>2. /\ file \in Files /\ pc = "file" /\ ~ Returned(file)
  BY <1>1, FileNotReturned, ReadChunkFacts
<1>3. /\ UNCHANGED <<source, edits, file, eof, pc, tree>> /\ ~ eof
  BY DEF ReadChunk
<1> DEFINE s == source[file]
<1>4. PICK n \in 1 .. ChunkSize :
        /\ pos + n <= Len(s)
        /\ reads' = [reads EXCEPT ![file] = Append(@, SubSeq(s, pos + 1, pos + n))]
        /\ pos' = pos + n
  BY DEF ReadChunk
<1> DEFINE c == SubSeq(s, pos + 1, pos + n)
<1>5. /\ pos \in Nat /\ n \in Nat /\ s \in Seq(Byte) /\ Len(s) \in Nat
      /\ reads[file] \in Seq(Seq(Byte)) /\ reads \in [Files -> Seq(Chunks)]
  BY <1>1, <1>2, ReadsAreSeqs, PipelineAssumption DEF TypeOK
<1>6. c \in Seq(Byte)
  <2>1. c \in Chunks
    BY <1>4, <1>5, ReadGivesChunk
  <2>2. PICK k \in 1 .. ChunkSize : c \in [1 .. k -> Byte]
    BY <2>1 DEF Chunks
  <2>3. k \in Nat
    BY PipelineAssumption
  <2> HIDE DEF c
  <2> QED BY <2>2, <2>3, SeqDef
<1>7. FlattenSeq(reads[file]) = SubSeq(s, 1, pos)
  BY <1>2, <1>3 DEF ReadsSource
<1>8. SubSeq(s, 1, pos) \o c = SubSeq(s, 1, pos + n)
  <2>1. 1 \in 1 .. Len(s) + 1 /\ pos \in 1 - 1 .. Len(s) /\ pos + n \in pos .. Len(s)
    BY <1>4, <1>5
  <2> HIDE DEF s
  <2> QED BY <1>5, <2>1, ConcatAdjacentSubSeq
<1>9. reads'[file] = Append(reads[file], c) /\ \A f \in Files : f # file => reads'[f] = reads[f]
  BY <1>2, <1>4, <1>5
<1> HIDE DEF c, s
<1>10. FlattenSeq(reads'[file]) = SubSeq(s, 1, pos')
  <2>1. FlattenSeq(Append(reads[file], c)) = FlattenSeq(reads[file]) \o c
    BY <1>5, <1>6, FlattenAppend
  <2> QED BY <1>4, <1>7, <1>8, <1>9, <2>1
<1>11. \A f \in Files : Returned(f)' => f # file /\ Returned(f)
  BY <1>2, <1>3 DEF Returned
<1>12. pos' <= Len(s) /\ s = source[file]
  BY <1>4 DEF s
<1> QED BY <1>3, <1>9, <1>10, <1>11, <1>12 DEF ReadsSource

LEMMA ReadsSourceStep ==
  ASSUME TreeInvariant, ReadsSource, [Next]_vars
  PROVE  ReadsSource'
<1>0. TypeOK /\ OnPath /\ edits \in Nat
  BY PipelineAssumption DEF TreeInvariant, TypeOK
<1>1. ASSUME NEW d \in Dirs, EnterDirectory(d) PROVE ReadsSource'
  BY <1>1, SameReadsSource DEF EnterDirectory, Returned
<1>2. ASSUME NEW f \in Files, OpenFile(f) PROVE ReadsSource'
  <2>1. f \notin objects
    BY <1>0, <1>2, AtFresh DEF OpenFile, Nodes
  <2>2. reads[f] = <<>>
    BY <2>1 DEF TreeInvariant, Accounted
  <2>3. /\ UNCHANGED <<source, edits, reads, tree>> /\ pc' = "file" /\ file' = f
        /\ pos' = 0 /\ eof' = FALSE
    BY <1>2 DEF OpenFile
  <2>4. FlattenSeq(<<>>) = <<>> /\ SubSeq(source[f], 1, 0) = <<>>
    BY EmptySeq, SubSeqEmpty DEF FlattenSeq
  <2>5. 0 <= Len(source[f])
    BY <1>0, ReadsAreSeqs
  <2>6. \A g \in Files : Returned(g)' => Returned(g)
    BY <2>3 DEF Returned
  <2> QED BY <2>2, <2>3, <2>4, <2>5, <2>6 DEF ReadsSource
<1>3. CASE LeaveDirectory
  <2>1. Current \in Dirs /\ Current \notin Files
    BY <1>0, <1>3, CurrentFacts, TreeAssumption DEF LeaveDirectory, OnPath
  <2>2. \A f \in Files : Returned(f)' => Returned(f)
    BY <1>3, <2>1 DEF LeaveDirectory, Return, Returned
  <2> QED BY <1>3, <2>2, SameReadsSource DEF LeaveDirectory, Return
<1>4. CASE ReadChunk
  BY <1>4, ReadChunkReadsSource
<1>5. CASE ReadEnd
  <2>1. /\ UNCHANGED <<source, edits, reads, tree, pc, file, pos>> /\ pc = "file"
        /\ pos >= Len(source[file]) /\ file \in Files
    BY <1>0, <1>5 DEF ReadEnd, OnPath
  <2>2. edits = 0 => pos = Len(source[file])
    BY <1>0, <2>1, ReadsAreSeqs DEF ReadsSource, TypeOK
  <2>3. \A f \in Files : Returned(f)' => Returned(f)
    BY <2>1 DEF Returned
  <2> QED BY <2>1, <2>2, <2>3 DEF ReadsSource
<1>6. ASSUME NEW task \in inflight, RecordChunk(task) PROVE ReadsSource'
  BY <1>6, SameReadsSource DEF RecordChunk, Returned
<1>7. CASE CloseFile
  <2>1. /\ UNCHANGED <<source, edits, reads>> /\ pc = "file" /\ pc' # "file"
        /\ eof /\ file \in Files /\ Return(file)
    BY <1>0, <1>7 DEF CloseFile, OnPath, Return
  <2>2. edits = 0 => FlattenSeq(reads[file]) = source[file]
    <3>1. SubSeq(source[file], 1, Len(source[file])) = source[file]
      BY <1>0, <2>1, ReadsAreSeqs, SubSeqFull
    <3> QED BY <2>1, <3>1 DEF ReadsSource
  <2>3. \A f \in Files : Returned(f)' => f = file \/ Returned(f)
    BY <2>1 DEF Return, Returned
  <2> QED BY <2>1, <2>2, <2>3 DEF ReadsSource
<1>8. CASE CreateSnapshot
  BY <1>8, SameReadsSource DEF CreateSnapshot, Returned
<1>9. CASE Fail
  <2>1. UNCHANGED <<source, edits, reads, tree>> /\ pc' = "failed"
    BY <1>9 DEF Fail
  <2> QED BY <2>1, SameReadsSource DEF Returned
<1>10. ASSUME NEW f \in Files, Edit(f) PROVE ReadsSource'
  <2>1. edits' # 0
    BY <1>0, <1>10 DEF Edit
  <2> QED BY <2>1 DEF ReadsSource
<1>11. CASE UNCHANGED vars
  BY <1>11, SameReadsSource DEF vars, Returned
<1> QED BY <1>1, <1>2, <1>3, <1>4, <1>5, <1>6, <1>7, <1>8, <1>9, <1>10, <1>11 DEF Next, Step

-----------------------------------------------------------------------------
(* The theorems about restores.                                            *)

LEMMA RestoreInitially ==
  ASSUME RestoreInit
  PROVE  Restoring /\ AtPlace /\ Progress /\ ReadsSource /\ FailsForCause
<1>1. TreeInvariant /\ ReadsSource
  BY TreeInvariantInit, ReadsSourceInit DEF RestoreInit
<1>2. Len(<<>>) = 0 /\ <<>> \in Seq(Dirs) /\ <<>> \in Seq(Chunks)
  BY EmptySeq
<1>3. \A n \in Nodes : Place[n] \in Places
  BY DEF Places
<1>4. Nothing \in Entry /\ Nothing.kind = "none" /\ Nothing.data = <<>> /\ Nothing.sealed = FALSE
  BY <1>2 DEF Nothing, Entry
<1>5. RestoreTypeOK
  <2>1. damage \in 0 .. MaxDamage /\ restores \in 0 .. MaxRestores
    BY RestoreAssumption DEF RestoreInit
  <2>2. blob \in [Chunks -> Chunks \union {Garbled}]
    BY DEF RestoreInit
  <2> QED BY <1>1, <1>2, <1>4, <2>1, <2>2 DEF RestoreInit, RestoreTypeOK, TreeInvariant
<1>6. OnRestorePath
  BY <1>2 DEF RestoreInit, OnRestorePath
<1>7. AtPlace
  <2>1. \A f \in Files : Len(reads[f]) \in Nat /\ f \in Nodes
    BY <1>1, LenProperties DEF TreeInvariant, TypeOK, Nodes
  <2>2. \A n \in Nodes : dest[Place[n]] = Nothing
    BY <1>3 DEF RestoreInit
  <2> QED BY <1>2, <1>4, <2>1, <2>2 DEF RestoreInit, AtPlace
<1> QED BY <1>1, <1>5, <1>6, <1>7 DEF Restoring, RestoreInit, Progress, FailsForCause

\* Whatever is damaged and however often a restore is killed and repeated, the
\* restore's variables keep their types: the chunk written next exists, and a
\* file is being written at its own end.
THEOREM RestoreKeepsTypes == RestoreSpec => []RestoreTypeOK
<1>1. RestoreInit => Restoring
  BY RestoreInitially
<1>2. Restoring /\ [RestoreNext]_allvars => Restoring'
  BY RestoringStep
<1>3. Restoring => RestoreTypeOK
  BY DEF Restoring
<1> QED BY <1>1, <1>2, <1>3, PTL DEF RestoreSpec

\* What holds at every step of backup and restores, as one invariant.
RestoreInvariant ==
  Restoring /\ AtPlace /\ Progress /\ ReadsSource /\ FailsForCause

LEMMA RestoreInvariantHolds ==
  ASSUME FaithfulNames
  PROVE  RestoreSpec => []RestoreInvariant
<1>1. RestoreInit => RestoreInvariant
  BY RestoreInitially DEF RestoreInvariant
<1>2. RestoreInvariant /\ [RestoreNext]_allvars => RestoreInvariant'
  <2> SUFFICES ASSUME RestoreInvariant, [RestoreNext]_allvars PROVE RestoreInvariant'
    OBVIOUS
  <2>1. Restoring'
    BY RestoringStep DEF RestoreInvariant
  <2>2. AtPlace'
    BY AtPlaceStep DEF RestoreInvariant
  <2>3. Progress'
    BY <2>1, ProgressStep DEF RestoreInvariant
  <2>4. ReadsSource'
    BY RestoreIsStuttering, ReadsSourceStep DEF RestoreInvariant, Restoring
  <2>5. FailsForCause'
    BY FailureHasCause DEF RestoreInvariant
  <2> QED BY <2>1, <2>2, <2>3, <2>4, <2>5 DEF RestoreInvariant
<1> QED BY <1>1, <1>2, PTL DEF RestoreSpec

LEMMA InvariantIsFaithful ==
  ASSUME RestoreInvariant
  PROVE  RestoreFaithful
<1>1. \A f \in Files : f \in Nodes /\ f \notin Dirs
  BY TreeAssumption DEF Nodes
<1>2. OnlyWhatWasRead
  <2> SUFFICES ASSUME NEW f \in Files PROVE IsPrefix(dest[Place[f]].data, reads[f])
    BY DEF OnlyWhatWasRead
  <2> DEFINE s == dest[Place[f]].data
             t == reads[f]
  <2>1. s \in Seq(Chunks) /\ t \in Seq(Chunks)
    BY <1>1, PlaceFacts DEF RestoreInvariant, Restoring, TreeInvariant, TypeOK
  <2>2. Len(s) <= Len(t) /\ \A i \in 1 .. Len(s) : s[i] = t[i]
    BY DEF RestoreInvariant, AtPlace
  <2> HIDE DEF s, t
  <2>3. Len(s) \in Nat /\ Len(t) \in Nat
    BY <2>1, LenProperties
  <2>4. SubSeq(s, 1, Len(s)) = s
    BY <2>1, SubSeqFull
  <2> DEFINE u == SubSeq(t, 1, Len(s))
  <2>5. /\ u \in Seq(Chunks) /\ Len(u) = Len(s)
        /\ \A i \in 1 .. Len(s) : u[i] = t[i]
    <3>1. \A i \in 1 .. Len(s) : t[i] \in Chunks
      BY <2>1, <2>2, <2>3, ElementOfSeq
    <3>2. /\ u \in Seq(Chunks)
          /\ Len(u) = IF 1 <= Len(s) THEN Len(s) - 1 + 1 ELSE 0
          /\ \A i \in 1 .. Len(s) - 1 + 1 : u[i] = t[1 + i - 1]
      BY <2>3, <3>1, SubSeqProperties
    <3>3. \A i \in 1 .. Len(s) : i \in 1 .. Len(s) - 1 + 1 /\ 1 + i - 1 = i
      BY <2>3
    <3> HIDE DEF u
    <3> QED BY <2>3, <3>2, <3>3
  <2> HIDE DEF u
  <2>6. s = u
    BY <2>1, <2>2, <2>5, SeqEqual
  <2>7. IsPrefix(s, t)
    BY <2>2, <2>4, <2>6 DEF IsPrefix, u
  <2> QED BY <2>7 DEF s, t
<1>3. rpc = "ok" => \A n \in Nodes : Whole(n)
  BY DEF RestoreInvariant, Progress
<1>4. RestoredWhole
  BY <1>1, <1>3 DEF RestoredWhole, Whole, OwnKind
<1>5. FilesKeepMetadata
  BY <1>1, <1>3 DEF FilesKeepMetadata, Whole
<1>6. RoundTrip
  <2> SUFFICES ASSUME rpc = "ok", edits = 0, NEW f \in Files
               PROVE  FlattenSeq(dest[Place[f]].data) = source[f]
    BY DEF RoundTrip
  <2>1. dest[Place[f]].data = reads[f]
    BY <1>1, <1>3 DEF Whole
  <2>2. Returned(f)
    BY <1>1, ListedIsWhole DEF RestoreInvariant, Restoring, OnRestorePath
  <2> QED BY <2>1, <2>2 DEF RestoreInvariant, ReadsSource
<1> QED BY <1>2, <1>4, <1>5, <1>6 DEF RestoreFaithful

\* If no two names come out the same, a restore makes at no time anything but
\* what the backup read, and one that reports success has restored every node,
\* every file whole and with its own mode and times; if nobody wrote to the
\* source, byte for byte (restore_directory, restore_file).
THEOREM RestoreIsFaithful ==
  ASSUME FaithfulNames
  PROVE  RestoreSpec => []RestoreFaithful
<1>1. RestoreInvariant => RestoreFaithful
  BY InvariantIsFaithful
<1> QED BY <1>1, RestoreInvariantHolds, PTL

\* Under the same condition a restore that fails has met a damaged chunk file
\* or a place it may not write: it is never stopped by what an interrupted
\* restore has left.
THEOREM RestoreFailsForCause ==
  ASSUME FaithfulNames
  PROVE  RestoreSpec => []FailsForCause
<1>1. RestoreInvariant => FailsForCause
  BY DEF RestoreInvariant
<1> QED BY <1>1, RestoreInvariantHolds, PTL

=============================================================================
