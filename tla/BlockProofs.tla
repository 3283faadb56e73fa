---------------------------- MODULE BlockProofs ----------------------------
(***************************************************************************)
(* Proofs about BlockImage, for every device, every choice of extents,     *)
(* pieces and window, and every order the workers finish in: the manifest  *)
(* covers what was allocated, names what was read and passes restore's own *)
(* checks, and what restore makes of it is the image.                      *)
(***************************************************************************)
EXTENDS BlockImage, Integers, FiniteSetTheorems, FunctionTheorems, WellFoundedInduction, TLAPS

-----------------------------------------------------------------------------
(* Numbers.                                                                *)

\* BlockAssumption, one by one.
LEMMA Parameters ==
  /\ Size \in Nat \ {0} /\ MaxExtent \in Nat \ {0} /\ ChunkSize \in Nat \ {0}
  /\ 0 \in Unit
  /\ Depth \in Nat /\ Depth > 1
  /\ MaxEdits \in Nat /\ MaxRestores \in Nat
BY BlockAssumption

\* Induction over the naturals, as a fact about a set: the least element of
\* what is missing from it can neither be zero nor follow another.
LEMMA NatSet ==
  ASSUME NEW S, 0 \in S, \A n \in Nat : n \in S => n + 1 \in S
  PROVE  Nat \subseteq S
<1> DEFINE R == {ss \in Nat \X Nat : ss[1] < ss[2]}
<1>1. IsWellFoundedOn(R, Nat)
  BY NatLessThanWellFounded DEF OpToRel
<1> SUFFICES ASSUME Nat \ S # {} PROVE FALSE
  OBVIOUS
<1>2. \E x \in Nat \ S : \A y \in Nat \ S : ~ (<<y, x>> \in R)
  <2> HIDE DEF R
  <2> QED BY <1>1, WFMin
<1>3. PICK x \in Nat \ S : \A y \in Nat \ S : ~ (<<y, x>> \in R)
  BY <1>2
<1>4. x - 1 \in Nat /\ x - 1 \notin S
  BY <1>3
<1>5. <<x - 1, x>> \in R
  <2> DEFINE p == <<x - 1, x>>
  <2>1. p \in Nat \X Nat /\ p[1] < p[2]
    BY <1>4
  <2> HIDE DEF p
  <2>2. p \in R
    BY <2>1
  <2> QED BY <2>2 DEF p
<1> QED
  <2> HIDE DEF R
  <2> QED BY <1>3, <1>4, <1>5

\* Pieces of c units, laid one after another.
LEMMA Multiples ==
  ASSUME NEW i \in Nat, NEW j \in Nat, NEW c \in Nat \ {0}
  PROVE  /\ i * c \in Nat
         /\ i < j => i * c + c <= j * c
         /\ i <= j => i * c <= j * c
         /\ i * c < j * c => i < j
         /\ i * c < j * c + c => i <= j
         /\ (i + 1) * c = i * c + c
<1>1. i * c \in Nat /\ j * c \in Nat /\ (i + 1) * c = i * c + c
  OBVIOUS
<1>2. ASSUME i < j PROVE i * c + c <= j * c
  <2> DEFINE d == j - i - 1
  <2>1. d \in Nat /\ j = i + 1 + d
    BY <1>2
  <2> HIDE DEF d
  <2>2. j * c = i * c + c + d * c /\ d * c \in Nat
    BY <2>1
  <2> QED BY <1>1, <2>2
<1>3. ASSUME j < i PROVE j * c + c <= i * c
  <2> DEFINE d == i - j - 1
  <2>1. d \in Nat /\ i = j + 1 + d
    BY <1>3
  <2> HIDE DEF d
  <2>2. i * c = j * c + c + d * c /\ d * c \in Nat
    BY <2>1
  <2> QED BY <1>1, <2>2
<1> QED BY <1>1, <1>2, <1>3

LEMMA Grows ==
  ASSUME NEW i \in Nat, NEW c \in Nat \ {0}
  PROVE  i <= i * c
<1> DEFINE d == c - 1
<1>1. d \in Nat /\ c = d + 1
  OBVIOUS
<1> HIDE DEF d
<1>2. i * c = i * d + i /\ i * d \in Nat
  BY <1>1
<1> QED BY <1>2

LEMMA Division ==
  ASSUME NEW m \in Nat, NEW c \in Nat \ {0}
  PROVE  /\ m \div c \in Nat
         /\ (m \div c) * c <= m
         /\ m < (m \div c) * c + c
OBVIOUS

\* Unit j from place r of an extent at o.
LEMMA Shift ==
  ASSUME NEW o \in Nat, NEW l \in Nat, NEW r \in Nat, NEW j \in Nat, 1 <= j, j <= l - r
  PROVE  /\ o + r + j - 1 \in o .. o + l - 1
         /\ o + (r + j) - 1 = o + r + j - 1
         /\ r + j \in 1 .. l
OBVIOUS

-----------------------------------------------------------------------------
(* InOrder: a finite set whose elements have different keys has one way to *)
(* be put in order.  An element's place is the number of those before it.  *)

LEMMA RanksAreOrdered ==
  ASSUME NEW S, IsFiniteSet(S), NEW key \in [S -> Nat],
         NEW Rank, Rank = [x \in S |-> Cardinality({z \in S : key[z] < key[x]}) + 1]
  PROVE  /\ Cardinality(S) \in Nat
         /\ Rank \in [S -> 1 .. Cardinality(S)]
         /\ \A x, y \in S : key[x] < key[y] => Rank[x] < Rank[y]
<1> DEFINE Below(x) == {z \in S : key[z] < key[x]}
<1>1. Cardinality(S) \in Nat
  BY FS_CardinalityType
<1>2. ASSUME NEW x \in S
      PROVE  /\ IsFiniteSet(Below(x))
             /\ Cardinality(Below(x)) \in Nat
             /\ Cardinality(Below(x)) < Cardinality(S)
  <2>1. Below(x) \in SUBSET S /\ x \notin Below(x)
    OBVIOUS
  <2> HIDE DEF Below
  <2>2. IsFiniteSet(Below(x)) /\ Cardinality(Below(x)) <= Cardinality(S)
        /\ (Cardinality(S) = Cardinality(Below(x)) => S = Below(x))
    BY <2>1, FS_Subset
  <2>3. Cardinality(Below(x)) \in Nat
    BY <2>2, FS_CardinalityType
  <2> QED BY <1>1, <2>1, <2>2, <2>3
<1>3. ASSUME NEW x \in S, NEW y \in S, key[x] < key[y]
      PROVE  Cardinality(Below(x)) < Cardinality(Below(y))
  <2>1. Below(x) \in SUBSET Below(y) /\ x \in Below(y) /\ x \notin Below(x)
    BY <1>3
  <2> HIDE DEF Below
  <2>2. Cardinality(Below(x)) <= Cardinality(Below(y))
        /\ (Cardinality(Below(y)) = Cardinality(Below(x)) => Below(y) = Below(x))
    BY <1>2, <2>1, FS_Subset
  <2> QED BY <1>2, <2>1, <2>2
<1>4. \A x \in S : Rank[x] = Cardinality(Below(x)) + 1
  OBVIOUS
<1>5. Rank \in [S -> 1 .. Cardinality(S)]
  <2>1. \A x \in S : Cardinality(Below(x)) + 1 \in 1 .. Cardinality(S)
    <3> HIDE DEF Below
    <3> QED BY <1>1, <1>2
  <2> QED BY <2>1
<1> QED
  <2> HIDE DEF Below
  <2> QED BY <1>1, <1>2, <1>3, <1>4, <1>5

LEMMA InOrderIs ==
  ASSUME NEW S, IsFiniteSet(S), NEW key \in [S -> Nat],
         \A x, y \in S : key[x] = key[y] => x = y
  PROVE  /\ Cardinality(S) \in Nat
         /\ InOrder(S, key) \in [1 .. Cardinality(S) -> S]
         /\ \A i, j \in 1 .. Cardinality(S) :
              i < j => key[InOrder(S, key)[i]] < key[InOrder(S, key)[j]]
         /\ \A x \in S : \E i \in 1 .. Cardinality(S) : InOrder(S, key)[i] = x
<1> DEFINE n == Cardinality(S)
           Rank == [x \in S |-> Cardinality({z \in S : key[z] < key[x]}) + 1]
           Ordered(s) == \A i, j \in 1 .. n : i < j => key[s[i]] <= key[s[j]]
<1>1. /\ n \in Nat
      /\ Rank \in [S -> 1 .. n]
      /\ \A x, y \in S : key[x] < key[y] => Rank[x] < Rank[y]
  <2> HIDE DEF Rank
  <2>1. Rank = [x \in S |-> Cardinality({z \in S : key[z] < key[x]}) + 1]
    BY DEF Rank
  <2> QED BY <2>1, RanksAreOrdered
<1> HIDE DEF Rank
<1>2. \A x, y \in S : Rank[x] = Rank[y] => x = y
  BY <1>1
<1>3. IsFiniteSet(1 .. n) /\ Cardinality(1 .. n) = n
  BY <1>1, FS_Interval
<1>4. \A i \in 1 .. n : \E x \in S : Rank[x] = i
  <2>1. Rank \in Injection(S, 1 .. n)
    BY <1>1, <1>2 DEF Injection, IsInjective
  <2>2. Rank \in Surjection(S, 1 .. n)
    BY <1>3, <2>1, FS_Injection
  <2> QED BY <2>2 DEF Surjection
<1> DEFINE s == [i \in 1 .. n |-> CHOOSE x \in S : Rank[x] = i]
<1>5. \A i \in 1 .. n : s[i] \in S /\ Rank[s[i]] = i
  BY <1>4
<1>6. s \in [1 .. n -> S]
  BY <1>4
<1> HIDE DEF s
<1>7. s \in Injection(1 .. n, S)
  BY <1>5, <1>6 DEF Injection, IsInjective
<1>8. Ordered(s)
  <2> SUFFICES ASSUME NEW i \in 1 .. n, NEW j \in 1 .. n, i < j PROVE key[s[i]] <= key[s[j]]
    OBVIOUS
  <2>1. s[i] \in S /\ s[j] \in S /\ Rank[s[i]] = i /\ Rank[s[j]] = j
    BY <1>5
  <2> QED BY <1>1, <2>1
<1> DEFINE t == InOrder(S, key)
<1>9. t \in Injection(1 .. n, S) /\ Ordered(t)
  <2>1. t = CHOOSE u \in Injection(1 .. n, S) : Ordered(u)
    BY DEF InOrder
  <2> HIDE DEF Ordered, t, n
  <2> QED BY <1>7, <1>8, <2>1
<1> HIDE DEF t
<1>10. t \in [1 .. n -> S] /\ \A i, j \in 1 .. n : t[i] = t[j] => i = j
  BY <1>9 DEF Injection, IsInjective
<1>11. \A i, j \in 1 .. n : i < j => key[t[i]] < key[t[j]]
  <2> SUFFICES ASSUME NEW i \in 1 .. n, NEW j \in 1 .. n, i < j PROVE key[t[i]] < key[t[j]]
    OBVIOUS
  <2>1. t[i] \in S /\ t[j] \in S
    BY <1>10
  <2>2. i # j
    BY <1>1
  <2>3. key[t[i]] <= key[t[j]]
    BY <1>9
  <2>4. key[t[i]] # key[t[j]]
    BY <1>10, <2>1, <2>2
  <2>5. key[t[i]] \in Nat /\ key[t[j]] \in Nat
    BY <2>1
  <2> QED BY <2>3, <2>4, <2>5
<1>12. \A x \in S : \E i \in 1 .. n : t[i] = x
  <2>1. t \in Surjection(1 .. n, S)
    BY <1>3, <1>9, FS_Injection
  <2> QED BY <2>1 DEF Surjection
<1> QED BY <1>1, <1>10, <1>11, <1>12 DEF t

-----------------------------------------------------------------------------
(* Extents.                                                                *)

\* The blocks of an extent.
Span(e) == e.offset .. EndOf(e) - 1

\* A run starts at its block, ends where the set does, and has no gap.
LEMMA RunFacts ==
  ASSUME NEW S \in SUBSET Blocks, NEW b \in S
  PROVE  /\ RunFrom(S, b).offset = b
         /\ RunFrom(S, b).length \in 1 .. Size
         /\ b .. b + RunFrom(S, b).length - 1 \subseteq S
         /\ b + RunFrom(S, b).length \notin S
<1> USE Parameters DEF Blocks
<1> DEFINE Ends(n) == b .. b + n - 1 \subseteq S /\ b + n \notin S
<1>1. \E n \in 1 .. Size : Ends(n)
  <2> SUFFICES ASSUME \A n \in 1 .. Size : ~ Ends(n)
               PROVE  FALSE
    OBVIOUS
  <2> DEFINE K == {n \in Nat : b .. b + n \subseteq S}
  <2>1. 0 \in K
    OBVIOUS
  <2>2. ASSUME NEW n \in Nat, n \in K PROVE n + 1 \in K
    <3>1. b + n \in S
      BY <2>2
    <3>2. n + 1 \in 1 .. Size /\ b + (n + 1) - 1 = b + n
      BY <3>1
    <3>3. b + (n + 1) \in S
      BY <2>2, <3>2
    <3>4. \A x \in b .. b + (n + 1) : x \in b .. b + n \/ x = b + (n + 1)
      OBVIOUS
    <3> QED BY <2>2, <3>3, <3>4
  <2>3. Size \in K
    <3> HIDE DEF K
    <3>1. Nat \subseteq K
      BY <2>1, <2>2, NatSet
    <3> QED BY <3>1
  <2>4. b + Size \in S
    BY <2>3
  <2> QED BY <2>4
<1>2. RunFrom(S, b).length = (CHOOSE n \in 1 .. Size : Ends(n)) /\ RunFrom(S, b).offset = b
  BY DEF RunFrom
<1>3. RunFrom(S, b).length \in 1 .. Size /\ Ends(RunFrom(S, b).length)
  <2> HIDE DEF Ends
  <2> QED BY <1>1, <1>2
<1> QED BY <1>2, <1>3

\* Every block of the set lies in a run.
LEMMA RunOf ==
  ASSUME NEW S \in SUBSET Blocks, NEW x \in S
  PROVE  \E e \in DataRuns(S) : x \in Span(e)
<1> USE Parameters DEF Blocks
<1>1. \E b \in S : b <= x /\ b .. x \subseteq S /\ (b = 0 \/ b - 1 \notin S)
  <2> SUFFICES ASSUME \A b \in S : b <= x /\ b .. x \subseteq S => b # 0 /\ b - 1 \in S
               PROVE  FALSE
    OBVIOUS
  <2> DEFINE K == {n \in Nat : n <= x => x - n .. x \subseteq S}
  <2>1. 0 \in K
    OBVIOUS
  <2>2. ASSUME NEW n \in Nat, n \in K PROVE n + 1 \in K
    <3> SUFFICES ASSUME n + 1 <= x PROVE x - (n + 1) .. x \subseteq S
      OBVIOUS
    <3>1. x - n .. x \subseteq S /\ x - n \in S
      BY <2>2
    <3>2. x - (n + 1) \in S
      BY <3>1
    <3>3. \A y \in x - (n + 1) .. x : y = x - (n + 1) \/ y \in x - n .. x
      OBVIOUS
    <3> QED BY <3>1, <3>2, <3>3
  <2>3. x \in K
    <3> HIDE DEF K
    <3>1. Nat \subseteq K
      BY <2>1, <2>2, NatSet
    <3> QED BY <3>1
  <2>4. 0 .. x \subseteq S /\ 0 \in S
    BY <2>3
  <2> QED BY <2>4
<1>2. PICK b \in S : b <= x /\ b .. x \subseteq S /\ (b = 0 \/ b - 1 \notin S)
  BY <1>1
<1>3. RunFrom(S, b) \in DataRuns(S)
  BY <1>2 DEF DataRuns
<1> DEFINE n == RunFrom(S, b).length
<1>4. RunFrom(S, b).offset = b /\ n \in 1 .. Size /\ b + n \notin S
  BY RunFacts
<1>5. x < b + n
  <2> HIDE DEF n
  <2> SUFFICES ASSUME b + n <= x PROVE FALSE
    BY <1>2, <1>4
  <2>1. b + n \in b .. x
    BY <1>4
  <2> QED BY <1>2, <1>4, <2>1
<1>6. x \in Span(RunFrom(S, b))
  <2> HIDE DEF n
  <2> QED BY <1>2, <1>4, <1>5 DEF Span, EndOf, n
<1> QED BY <1>3, <1>6

\* What an extent of a run looks like after split_extents.
LEMMA PieceOf ==
  ASSUME NEW e, e.offset \in Nat, e.length \in Nat \ {0}, NEW p \in Split(e)
  PROVE  \E k \in Nat : /\ k * MaxExtent \in Nat
                        /\ k * MaxExtent < e.length
                        /\ p.offset = e.offset + k * MaxExtent
                        /\ p.length = IF MaxExtent <= e.length - k * MaxExtent
                                      THEN MaxExtent ELSE e.length - k * MaxExtent
                        /\ p = [offset |-> p.offset, length |-> p.length]
<1> USE Parameters
<1> DEFINE q == (e.length - 1) \div MaxExtent
<1>1. q \in Nat /\ q * MaxExtent <= e.length - 1
  BY Division
<1>2. PICK k \in 0 .. q :
        p = [offset |-> e.offset + k * MaxExtent,
             length |-> IF MaxExtent <= e.length - k * MaxExtent
                        THEN MaxExtent ELSE e.length - k * MaxExtent]
  BY DEF Split
<1> HIDE DEF q
<1>3. k \in Nat /\ k <= q
  BY <1>1
<1>4. k * MaxExtent \in Nat /\ k * MaxExtent <= q * MaxExtent
  BY <1>1, <1>3, Multiples
<1>5. k * MaxExtent < e.length
  BY <1>1, <1>4, Multiples
<1> QED BY <1>2, <1>3, <1>4, <1>5

\* The pieces of a run lie in it, one after another, and leave nothing out.
LEMMA SplitFacts ==
  ASSUME NEW e, e.offset \in Nat, e.length \in Nat \ {0}
  PROVE  /\ \A p \in Split(e) :
              /\ p.offset \in Nat /\ p.offset >= e.offset
              /\ p.length \in Nat \ {0} /\ p.length <= MaxExtent
              /\ p = [offset |-> p.offset, length |-> p.length]
              /\ EndOf(p) <= EndOf(e)
         /\ \A p, r \in Split(e) : p.offset < r.offset => EndOf(p) <= r.offset
         /\ \A p, r \in Split(e) : p.offset = r.offset => p = r
         /\ \A x \in Span(e) : \E p \in Split(e) : x \in Span(p)
<1> USE Parameters DEF EndOf, Span
<1>1. ASSUME NEW p \in Split(e)
      PROVE  /\ p.offset \in Nat /\ p.offset >= e.offset
             /\ p.length \in Nat \ {0} /\ p.length <= MaxExtent
             /\ p = [offset |-> p.offset, length |-> p.length]
             /\ EndOf(p) <= EndOf(e)
  <2>1. PICK k \in Nat : /\ k * MaxExtent \in Nat
                         /\ k * MaxExtent < e.length
                         /\ p.offset = e.offset + k * MaxExtent
                         /\ p.length = IF MaxExtent <= e.length - k * MaxExtent
                                       THEN MaxExtent ELSE e.length - k * MaxExtent
                         /\ p = [offset |-> p.offset, length |-> p.length]
    BY PieceOf
  <2> QED BY <2>1
<1>2. ASSUME NEW p \in Split(e), NEW r \in Split(e)
      PROVE  /\ p.offset < r.offset => EndOf(p) <= r.offset
             /\ p.offset = r.offset => p = r
  <2>1. PICK k \in Nat : /\ k * MaxExtent \in Nat
                         /\ k * MaxExtent < e.length
                         /\ p.offset = e.offset + k * MaxExtent
                         /\ p.length = IF MaxExtent <= e.length - k * MaxExtent
                                       THEN MaxExtent ELSE e.length - k * MaxExtent
                         /\ p = [offset |-> p.offset, length |-> p.length]
    BY PieceOf
  <2>2. PICK j \in Nat : /\ j * MaxExtent \in Nat
                         /\ j * MaxExtent < e.length
                         /\ r.offset = e.offset + j * MaxExtent
                         /\ r.length = IF MaxExtent <= e.length - j * MaxExtent
                                       THEN MaxExtent ELSE e.length - j * MaxExtent
                         /\ r = [offset |-> r.offset, length |-> r.length]
    BY PieceOf
  <2> DEFINE a == k * MaxExtent
             c == j * MaxExtent
  <2>3. a < c => a + MaxExtent <= c
    BY Multiples
  <2> HIDE DEF a, c
  <2>4. /\ a \in Nat /\ a < e.length
        /\ p.offset = e.offset + a
        /\ p.length = IF MaxExtent <= e.length - a THEN MaxExtent ELSE e.length - a
        /\ p = [offset |-> p.offset, length |-> p.length]
    BY <2>1 DEF a
  <2>5. /\ c \in Nat /\ c < e.length
        /\ r.offset = e.offset + c
        /\ r.length = IF MaxExtent <= e.length - c THEN MaxExtent ELSE e.length - c
        /\ r = [offset |-> r.offset, length |-> r.length]
    BY <2>2 DEF c
  <2>6. p.offset < r.offset => EndOf(p) <= r.offset
    BY <2>3, <2>4, <2>5
  <2>7. ASSUME p.offset = r.offset PROVE p = r
    <3>1. a = c
      BY <2>4, <2>5, <2>7
    <3>2. p.length = r.length
      BY <2>4, <2>5, <3>1
    <3> QED BY <2>4, <2>5, <2>7, <3>2
  <2> QED BY <2>6, <2>7
<1>3. ASSUME NEW x \in Span(e)
      PROVE  \E p \in Split(e) : x \in Span(p)
  <2> DEFINE m == x - e.offset
             k == m \div MaxExtent
             q == (e.length - 1) \div MaxExtent
             p == [offset |-> e.offset + k * MaxExtent,
                   length |-> IF MaxExtent <= e.length - k * MaxExtent
                              THEN MaxExtent ELSE e.length - k * MaxExtent]
  <2>1. m \in Nat /\ m < e.length /\ x = e.offset + m
    BY <1>3
  <2> HIDE DEF m
  <2>2. k \in Nat /\ k * MaxExtent <= m /\ m < k * MaxExtent + MaxExtent
    BY <2>1, Division
  <2>3. q \in Nat /\ q * MaxExtent <= e.length - 1 /\ e.length - 1 < q * MaxExtent + MaxExtent
    <3>1. e.length - 1 \in Nat /\ MaxExtent \in Nat \ {0}
      OBVIOUS
    <3> QED BY <3>1, Division
  <2> HIDE DEF k, q
  <2>4. k * MaxExtent \in Nat /\ q * MaxExtent \in Nat
    BY <2>2, <2>3, Multiples
  <2>5. k * MaxExtent < q * MaxExtent + MaxExtent
    BY <2>1, <2>2, <2>3, <2>4
  <2>6. k \in 0 .. q
    BY <2>2, <2>3, <2>5, Multiples
  <2>7. p \in Split(e)
    BY <2>6 DEF Split, q
  <2>8. p.offset = e.offset + k * MaxExtent
        /\ p.length = IF MaxExtent <= e.length - k * MaxExtent
                      THEN MaxExtent ELSE e.length - k * MaxExtent
    OBVIOUS
  <2> HIDE DEF p
  <2>9. x \in Span(p)
    BY <2>1, <2>2, <2>4, <2>8
  <2> QED BY <2>7, <2>9
<1> QED BY <1>1, <1>2, <1>3

\* All pieces of all runs of a set of blocks.
AllPieces(S) == UNION {Split(e) : e \in DataRuns(S)}

LEMMA RunBounds ==
  ASSUME NEW S \in SUBSET Blocks, NEW e \in DataRuns(S)
  PROVE  /\ e.offset \in Nat /\ e.length \in Nat \ {0}
         /\ Span(e) \subseteq S
         /\ EndOf(e) \notin S
         /\ e.offset = 0 \/ e.offset - 1 \notin S
         /\ e = RunFrom(S, e.offset)
<1>1. PICK b \in S : e = RunFrom(S, b) /\ (b = 0 \/ b - 1 \notin S)
  BY DEF DataRuns
<1>2. e.offset = b
  BY <1>1, RunFacts
<1>3. e.length \in 1 .. Size /\ b .. b + e.length - 1 \subseteq S /\ b + e.length \notin S
  BY <1>1, RunFacts
<1>4. b \in Nat /\ e.length \in Nat \ {0}
  BY <1>3, Parameters DEF Blocks
<1>5. Span(e) = b .. b + e.length - 1 /\ EndOf(e) = b + e.length
  BY <1>2, <1>4 DEF Span, EndOf
<1> QED BY <1>1, <1>2, <1>3, <1>4, <1>5

\* Different runs are apart.
LEMMA RunsApart ==
  ASSUME NEW S \in SUBSET Blocks, NEW d \in DataRuns(S), NEW e \in DataRuns(S),
         d.offset <= e.offset
  PROVE  d = e \/ EndOf(d) <= e.offset
<1> USE Parameters
<1>1. CASE d.offset = e.offset
  BY <1>1, RunBounds
<1>2. CASE d.offset < e.offset
  <2>1. /\ d.offset \in Nat /\ d.length \in Nat /\ Span(d) \subseteq S
        /\ e.offset \in Nat /\ (e.offset = 0 \/ e.offset - 1 \notin S)
    BY RunBounds
  <2> SUFFICES ASSUME e.offset < EndOf(d) PROVE FALSE
    BY <2>1 DEF EndOf
  <2>2. e.offset - 1 \in Span(d)
    BY <1>2, <2>1 DEF Span, EndOf
  <2> QED BY <1>2, <2>1, <2>2
<1>3. d.offset \in Nat /\ e.offset \in Nat
  BY RunBounds
<1> QED BY <1>1, <1>2, <1>3

LEMMA PiecesFacts ==
  ASSUME NEW S \in SUBSET Blocks
  PROVE  /\ \A p \in AllPieces(S) :
              /\ p \in Extent /\ p.length <= MaxExtent /\ EndOf(p) <= Size
              /\ Span(p) \subseteq S
         /\ \A p, r \in AllPieces(S) : p.offset < r.offset => EndOf(p) <= r.offset
         /\ \A p, r \in AllPieces(S) : p.offset = r.offset => p = r
         /\ \A x \in S : \E p \in AllPieces(S) : x \in Span(p)
<1> USE Parameters
<1>1. ASSUME NEW p \in AllPieces(S)
      PROVE  \E e \in DataRuns(S) : p \in Split(e)
  BY DEF AllPieces
<1>2. ASSUME NEW e \in DataRuns(S)
      PROVE  e.offset \in Nat /\ e.length \in Nat \ {0}
  BY RunBounds
<1>3. ASSUME NEW e \in DataRuns(S), NEW p \in Split(e)
      PROVE  /\ p.offset \in Nat /\ p.offset >= e.offset
             /\ p.length \in Nat \ {0} /\ p.length <= MaxExtent
             /\ p = [offset |-> p.offset, length |-> p.length]
             /\ EndOf(p) <= EndOf(e)
  BY <1>2, SplitFacts
<1>4. ASSUME NEW p \in AllPieces(S)
      PROVE  /\ p \in Extent /\ p.length <= MaxExtent /\ EndOf(p) <= Size
             /\ Span(p) \subseteq S
  <2>1. PICK e \in DataRuns(S) : p \in Split(e)
    BY <1>1
  <2>2. /\ p.offset \in Nat /\ p.offset >= e.offset
        /\ p.length \in Nat \ {0} /\ p.length <= MaxExtent
        /\ p = [offset |-> p.offset, length |-> p.length]
        /\ EndOf(p) <= EndOf(e)
    BY <1>3, <2>1
  <2>3. e.offset \in Nat /\ e.length \in Nat \ {0} /\ Span(e) \subseteq S
    BY <1>2, RunBounds
  <2>4. Span(p) \subseteq S
    BY <2>2, <2>3 DEF Span, EndOf
  <2>5. p.offset \in Span(p) /\ EndOf(p) - 1 \in Span(p)
    BY <2>2 DEF Span, EndOf
  <2>6. p.offset \in Blocks /\ EndOf(p) <= Size
    BY <2>2, <2>4, <2>5 DEF Blocks, EndOf
  <2>7. p.length \in 1 .. Size
    BY <2>2, <2>6 DEF EndOf
  <2>8. p \in Extent
    BY <2>2, <2>6, <2>7 DEF Extent
  <2> QED BY <2>2, <2>4, <2>6, <2>8
<1>5. ASSUME NEW p \in AllPieces(S), NEW r \in AllPieces(S)
      PROVE  /\ p.offset < r.offset => EndOf(p) <= r.offset
             /\ p.offset = r.offset => p = r
  <2>1. PICK d \in DataRuns(S) : p \in Split(d)
    BY <1>1
  <2>2. PICK e \in DataRuns(S) : r \in Split(e)
    BY <1>1
  <2>3. CASE d = e
    BY <1>2, <2>1, <2>2, <2>3, SplitFacts
  <2>4. CASE d # e
    <3>1. EndOf(d) <= e.offset \/ EndOf(e) <= d.offset
      <4>1. d.offset <= e.offset \/ e.offset <= d.offset
        BY <1>2
      <4> QED BY <2>4, <4>1, RunsApart
    <3>2. /\ p.offset \in Nat /\ p.offset >= d.offset /\ p.length \in Nat \ {0}
          /\ EndOf(p) <= EndOf(d)
      BY <1>3, <2>1
    <3>3. /\ r.offset \in Nat /\ r.offset >= e.offset /\ r.length \in Nat \ {0}
          /\ EndOf(r) <= EndOf(e)
      BY <1>3, <2>2
    <3>4. /\ d.offset \in Nat /\ d.length \in Nat \ {0}
          /\ e.offset \in Nat /\ e.length \in Nat \ {0}
      BY <1>2
    <3>5. (p.offset < r.offset /\ EndOf(p) <= r.offset) \/ r.offset < p.offset
      BY <3>1, <3>2, <3>3, <3>4 DEF EndOf
    <3> QED BY <3>2, <3>3, <3>5
  <2> QED BY <2>3, <2>4
<1>6. ASSUME NEW x \in S
      PROVE  \E p \in AllPieces(S) : x \in Span(p)
  <2>1. PICK e \in DataRuns(S) : x \in Span(e)
    BY RunOf
  <2>2. PICK p \in Split(e) : x \in Span(p)
    BY <1>2, <2>1, SplitFacts
  <2>3. p \in AllPieces(S)
    BY DEF AllPieces
  <2> QED BY <2>2, <2>3
<1> QED BY <1>4, <1>5, <1>6

LEMMA PiecesFinite ==
  ASSUME NEW S \in SUBSET Blocks
  PROVE  IsFiniteSet(AllPieces(S))
<1> DEFINE A == AllPieces(S)
           f == [p \in A |-> p.offset]
<1>1. \A p \in A : p \in Extent
  BY PiecesFacts
<1>2. \A p, r \in A : p.offset = r.offset => p = r
  BY PiecesFacts
<1> HIDE DEF A
<1>3. f \in [A -> Blocks]
  BY <1>1 DEF Extent
<1>4. f \in Injection(A, Blocks)
  BY <1>2, <1>3 DEF Injection, IsInjective
<1>5. IsFiniteSet(Blocks)
  BY Parameters, FS_Interval DEF Blocks
<1> QED
  <2> HIDE DEF f
  <2>1. IsFiniteSet(A)
    BY <1>4, <1>5, FS_Injection
  <2> QED BY <2>1 DEF A

\* used_extents: every block that was found, in ascending extents that are
\* not too long.
LEMMA UsedExtentsFacts ==
  ASSUME NEW S \in SUBSET Blocks
  PROVE  /\ UsedExtents(S) \in Seq(Extent)
         /\ \A k \in DOMAIN UsedExtents(S) :
              /\ UsedExtents(S)[k].length <= MaxExtent
              /\ EndOf(UsedExtents(S)[k]) <= Size
              /\ Span(UsedExtents(S)[k]) \subseteq S
         /\ \A j, k \in DOMAIN UsedExtents(S) :
              j < k => EndOf(UsedExtents(S)[j]) <= UsedExtents(S)[k].offset
         /\ \A x \in S : \E k \in DOMAIN UsedExtents(S) : x \in Span(UsedExtents(S)[k])
<1> DEFINE A == AllPieces(S)
           key == [e \in A |-> e.offset]
           n == Cardinality(A)
           u == InOrder(A, key)
<1>1. UsedExtents(S) = u
  BY DEF UsedExtents, AllPieces
<1>2. /\ \A p \in A : p \in Extent /\ p.length <= MaxExtent /\ EndOf(p) <= Size
                      /\ Span(p) \subseteq S
      /\ \A p, r \in A : p.offset < r.offset => EndOf(p) <= r.offset
      /\ \A p, r \in A : p.offset = r.offset => p = r
      /\ \A x \in S : \E p \in A : x \in Span(p)
  BY PiecesFacts
<1>3. IsFiniteSet(A)
  BY PiecesFinite
<1> HIDE DEF A
<1>4. key \in [A -> Nat] /\ \A p, r \in A : key[p] = key[r] => p = r
  BY <1>2, Parameters DEF Extent, Blocks
<1>5. \A p \in A : key[p] = p.offset
  OBVIOUS
<1> HIDE DEF key
<1>6. /\ n \in Nat
      /\ u \in [1 .. n -> A]
      /\ \A i, j \in 1 .. n : i < j => key[u[i]] < key[u[j]]
      /\ \A p \in A : \E i \in 1 .. n : u[i] = p
  BY <1>3, <1>4, InOrderIs
<1> HIDE DEF u, n
<1>7. u \in Seq(Extent) /\ DOMAIN u = 1 .. n
  BY <1>2, <1>6
<1>8. \A k \in 1 .. n : u[k] \in A
  BY <1>6
<1>9. \A j, k \in 1 .. n : j < k => EndOf(u[j]) <= u[k].offset
  BY <1>2, <1>5, <1>6, <1>8
<1>10. \A x \in S : \E k \in 1 .. n : x \in Span(u[k])
  BY <1>2, <1>6
<1> QED BY <1>1, <1>2, <1>7, <1>8, <1>9, <1>10

-----------------------------------------------------------------------------
(* The inductive invariant.                                                *)

\* The extents lie on the device, in order, and cover what was found.
ExtentsSound ==
  /\ \A k \in DOMAIN extents : EndOf(extents[k]) <= Size /\ extents[k].length <= MaxExtent
  /\ \A j, k \in DOMAIN extents : j < k => EndOf(extents[j]) <= extents[k].offset
  /\ pc # "start" => Covered(extents) = scanned
  /\ pc = "start" => extents = <<>> /\ scanned = {} /\ edits = 0

\* Extents begun have a row and are in the image; the last one is in memory.
Begun ==
  /\ Len(extentRows) = current
  /\ \A k \in 1 .. current : extentRows[k] = extents[k]
  /\ current = 0 => data = <<>>
  /\ current > 0 =>
       /\ Len(data) = extents[current].length
       /\ \A k \in 1 .. Len(data) : data[k] = image[extents[current].offset + k - 1]
  /\ \A b \in Blocks : (\A k \in 1 .. current : b \notin Span(extents[k])) => image[b] = 0

\* The loop over the extent in memory.
Scheduled ==
  /\ rel <= piece * ChunkSize
  /\ rel < Len(data) => rel = piece * ChunkSize
  /\ pc \in {"drain", "listed"} => current = Len(extents) /\ rel = Len(data)
  /\ pc = "listed" => inflight = {}

Least(m, n) == IF m <= n THEN m ELSE n

\* Units c are what stands in the image where the piece i of extent k begins.
Fits(k, i, r, c) ==
  /\ k <= current
  /\ r = i * ChunkSize
  /\ r < extents[k].length
  /\ Len(c) = Least(ChunkSize, extents[k].length - r)
  /\ \A j \in 1 .. Len(c) : c[j] = image[extents[k].offset + r + j - 1]

\* Every piece, in flight or recorded, belongs where it says.
InPlace ==
  /\ \A p \in inflight : Fits(p.extent, p.idx, p.rel, p.chunk)
  /\ \A r \in chunkRows : Fits(r.extent, r.idx, r.rel, r.hash) /\ r.len = Len(r.hash)

\* How much of an extent has been scheduled.
ScheduledOf(k) == IF k = current THEN rel ELSE extents[k].length

\* No piece that was scheduled is lost.
Complete ==
  pc # "failed" =>
    \A k \in 1 .. current, i \in Nat : i * ChunkSize < ScheduledOf(k) =>
      \/ \E p \in inflight : p.extent = k /\ p.idx = i
      \/ \E r \in chunkRows : r.extent = k /\ r.idx = i

\* As long as nobody writes to the device, what was read is what it holds.
Steady ==
  edits = 0 =>
    /\ pc \notin {"start", "failed"} => alloc \subseteq scanned
    /\ \A k \in 1 .. current, b \in Blocks : b \in Span(extents[k]) => image[b] = device[b]

\* Where a chunk goes.
PlaceOf(r) == Offset(r) .. Offset(r) + r.len - 1

\* A block of the target holds what it should or is still to be written.
Restoring ==
  /\ rpc # "idle" => pc = "listed"
  /\ rpc \in {"write", "ok"} => Blocks \subseteq DOMAIN target.content
  /\ rpc = "write" /\ blank =>
       \A b \in Blocks :
         \/ target.content[b] = image[b]
         \/ \E r \in chunkRows :
              /\ b \in PlaceOf(r)
              /\ r.extent > outExtent \/ (r.extent = outExtent /\ r.idx + 1 >= outChunk)
  /\ rpc = "ok" /\ blank => \A b \in Blocks : target.content[b] = image[b]

BlockInvariant ==
  TypeOK /\ IsFiniteSet(inflight) /\ ExtentsSound /\ Begun /\ Scheduled /\ InPlace /\ Complete /\ Steady /\ Restoring

USE DEF source, capture, restore

-----------------------------------------------------------------------------
(* Types.                                                                  *)

LEMMA ExtentFacts ==
  ASSUME NEW e \in Extent
  PROVE  /\ e.offset \in Nat /\ e.length \in Nat \ {0}
         /\ EndOf(e) = e.offset + e.length /\ EndOf(e) \in Nat
BY Parameters DEF Extent, Blocks, EndOf

LEMMA ChunkFacts ==
  ASSUME NEW c \in Seq(Unit), Len(c) \in 1 .. ChunkSize
  PROVE  c \in Chunks
<1>1. c \in [1 .. Len(c) -> Unit]
  OBVIOUS
<1> QED BY <1>1 DEF Chunks

LEMMA ChunksAreSeqs ==
  ASSUME NEW c \in Chunks
  PROVE  c \in Seq(Unit) /\ Len(c) \in 1 .. ChunkSize
<1> USE Parameters
<1>1. PICK n \in 1 .. ChunkSize : c \in [1 .. n -> Unit]
  BY DEF Chunks
<1>2. n \in Nat
  OBVIOUS
<1>3. c \in Seq(Unit)
  BY <1>1, <1>2
<1> QED BY <1>1, <1>2, <1>3

\* A target that is not empty is a file or a device of about the right size.
LEMMA ContentFacts ==
  ASSUME NEW c \in Contents \union {<<>>}
  PROVE  /\ c # <<>> => c \in [DOMAIN c -> Unit]
         /\ IsFiniteSet(DOMAIN c)
         /\ Cardinality(DOMAIN c) >= Size => Blocks \subseteq DOMAIN c
         /\ \A d : c # <<>> /\ d \in [DOMAIN c -> Unit] => d \in Contents
<1> USE Parameters
<1>1. CASE c = <<>>
  <2>1. DOMAIN c = {}
    BY <1>1
  <2>2. Cardinality(DOMAIN c) = 0 /\ IsFiniteSet(DOMAIN c)
    BY <2>1, FS_EmptySet
  <2> QED BY <1>1, <2>2
<1>2. CASE c \in Contents
  <2>1. PICK n \in (Size - 1) .. (Size + 1) : c \in [0 .. n - 1 -> Unit]
    BY <1>2 DEF Contents
  <2>2. n \in Nat /\ DOMAIN c = 0 .. n - 1
    BY <2>1
  <2>3. Cardinality(DOMAIN c) = n /\ IsFiniteSet(DOMAIN c)
    <3>1. n - 1 \in Int /\ 0 \in Int
      BY <2>2
    <3>2. IsFiniteSet(0 .. n - 1) /\ Cardinality(0 .. n - 1) = IF 0 > n - 1 THEN 0 ELSE n - 1 - 0 + 1
      BY <3>1, FS_Interval
    <3> QED BY <2>2, <3>2
  <2>4. n >= Size => Blocks \subseteq 0 .. n - 1
    BY <2>2 DEF Blocks
  <2>5. \A d : d \in [DOMAIN c -> Unit] => d \in Contents
    BY <2>1, <2>2 DEF Contents
  <2> QED BY <2>1, <2>2, <2>3, <2>4, <2>5
<1> QED BY <1>1, <1>2

LEMMA InitInvariant == Init => BlockInvariant
<1> USE Parameters
<1> SUFFICES ASSUME Init PROVE BlockInvariant
  OBVIOUS
<1>1. TypeOK /\ IsFiniteSet(inflight)
  <2>1. IsFiniteSet({}) /\ Cardinality({}) = 0
    BY FS_EmptySet
  <2>2. target \in Targets
    BY DEF Init, Absent, Targets
  <2>3. image \in [Blocks -> Unit]
    BY DEF Init
  <2>4. extents \in Seq(Extent) /\ extentRows \in Seq(Extent) /\ data \in Seq(Unit)
    BY DEF Init
  <2>5. current \in 0 .. Len(extents) /\ rel \in 0 .. Len(data)
    BY DEF Init
  <2> QED BY <2>1, <2>2, <2>3, <2>4, <2>5 DEF Init, TypeOK
<1>2. ExtentsSound /\ Begun /\ Scheduled
  BY DEF Init, ExtentsSound, Begun, Scheduled, Span
<1>3. InPlace /\ Complete /\ Steady /\ Restoring
  BY DEF Init, InPlace, Complete, Steady, Restoring
<1> QED BY <1>1, <1>2, <1>3 DEF BlockInvariant

\* Who changes what.
LEMMA Frames ==
  ASSUME Next
  PROVE  /\ Scan \/ UNCHANGED <<extents, scanned>>
         /\ ReadExtent \/ UNCHANGED <<current, extentRows, data, image>>
         /\ ReadExtent \/ SchedulePiece \/ UNCHANGED <<rel, piece>>
         /\ (\E p \in inflight : RecordPiece(p)) \/ UNCHANGED chunkRows
         /\ (\E b \in Blocks : Edit(b)) \/ UNCHANGED source
         /\ (\E t \in Candidates, overwrite \in BOOLEAN : StartRestore(t, overwrite))
            \/ WriteChunk \/ NextExtent \/ FinishRestore \/ KillRestore \/ UNCHANGED restore
<1>1. CASE Scan
  BY <1>1 DEF Scan
<1>2. CASE ReadExtent
  BY <1>2 DEF ReadExtent
<1>3. CASE SchedulePiece
  BY <1>3 DEF SchedulePiece
<1>4. ASSUME NEW p \in inflight, RecordPiece(p)
      PROVE  UNCHANGED <<source, restore, extents, scanned, current, extentRows, data, image, rel, piece>>
  BY <1>4 DEF RecordPiece
<1>5. CASE LastExtent \/ CreateSnapshot \/ Fail
  BY <1>5 DEF LastExtent, CreateSnapshot, Fail
<1>6. CASE WriteChunk \/ NextExtent \/ FinishRestore \/ KillRestore
  BY <1>6 DEF WriteChunk, NextExtent, FinishRestore, KillRestore
<1>7. ASSUME NEW b \in Blocks, Edit(b)
      PROVE  UNCHANGED <<capture, restore>>
  BY <1>7 DEF Edit
<1>8. ASSUME NEW t \in Candidates, NEW overwrite \in BOOLEAN, StartRestore(t, overwrite)
      PROVE  UNCHANGED <<source, capture>>
  BY <1>8 DEF StartRestore, Refuse
<1> QED BY <1>1, <1>2, <1>3, <1>4, <1>5, <1>6, <1>7, <1>8 DEF Next, Step

LEMMA CaptureTypes ==
  ASSUME BlockInvariant, Next
  PROVE  /\ extents' \in Seq(Extent) /\ scanned' \subseteq Blocks
         /\ current' \in 0 .. Len(extents')
         /\ data' \in Seq(Unit) /\ rel' \in 0 .. Len(data') /\ piece' \in Nat
         /\ extentRows' \in Seq(Extent) /\ image' \in [Blocks -> Unit]
<1> USE Parameters DEF BlockInvariant, TypeOK
<1>1. CASE Scan
  <2>1. scanned' \in SUBSET Blocks
    BY <1>1 DEF Scan
  <2>2. extents' \in Seq(Extent)
    <3>1. extents' = UsedExtents(scanned')
      BY <1>1 DEF Scan
    <3> QED BY <2>1, <3>1, UsedExtentsFacts
  <2>3. current' = 0
    BY <1>1 DEF Scan, ExtentsSound
  <2> QED BY <1>1, <2>1, <2>2, <2>3 DEF Scan
<1>2. CASE ReadExtent
  <2> DEFINE e == extents[current + 1]
  <2>1. current + 1 \in 1 .. Len(extents) /\ e \in Extent /\ EndOf(e) <= Size
    BY <1>2 DEF ReadExtent, ExtentsSound
  <2>2. /\ extentRows' = Append(extentRows, e)
        /\ data' = [k \in 1 .. e.length |-> device[e.offset + k - 1]]
        /\ image' = [b \in Blocks |-> IF b \in e.offset .. e.offset + e.length - 1
                                      THEN device[b] ELSE image[b]]
        /\ current' = current + 1 /\ rel' = 0 /\ piece' = 0
        /\ UNCHANGED <<extents, scanned>>
    BY <1>2 DEF ReadExtent
  <2>3. device \in [Blocks -> Unit] /\ image \in [Blocks -> Unit] /\ extentRows \in Seq(Extent)
        /\ extents \in Seq(Extent) /\ scanned \subseteq Blocks
    OBVIOUS
  <2> HIDE DEF e, BlockInvariant, TypeOK
  <2>4. e.offset \in Nat /\ e.length \in Nat /\ e.offset + e.length <= Size
    BY <2>1 DEF Extent, Blocks, EndOf
  <2>5. \A k \in 1 .. e.length : device[e.offset + k - 1] \in Unit
    BY <2>3, <2>4 DEF Blocks
  <2>6. data' \in [1 .. e.length -> Unit]
    BY <2>2, <2>5
  <2>7. data' \in Seq(Unit) /\ Len(data') \in Nat
    BY <2>4, <2>6
  <2>8. image' \in [Blocks -> Unit]
    BY <2>2, <2>3
  <2>9. extentRows' \in Seq(Extent)
    BY <2>1, <2>2, <2>3
  <2>10. current' \in 0 .. Len(extents') /\ extents' \in Seq(Extent) /\ scanned' \subseteq Blocks
    BY <2>1, <2>2, <2>3
  <2>11. rel' \in 0 .. Len(data') /\ piece' \in Nat
    <3>1. rel' = 0 /\ piece' = 0
      BY <2>2
    <3> QED BY <2>7, <3>1
  <2> QED BY <2>7, <2>8, <2>9, <2>10, <2>11
<1>3. CASE SchedulePiece
  <2>1. /\ UNCHANGED <<extents, scanned, current, data, extentRows, image>>
        /\ rel < Len(data) /\ piece' = piece + 1
        /\ rel' = rel + Least(ChunkSize, Len(data) - rel)
    BY <1>3 DEF SchedulePiece, Least
  <2>2. rel' \in 0 .. Len(data')
    BY <2>1 DEF Least
  <2> QED BY <2>1, <2>2
<1>4. CASE UNCHANGED <<extents, scanned>> /\ UNCHANGED <<current, extentRows, data, image>>
           /\ UNCHANGED <<rel, piece>>
  BY <1>4
<1> QED BY <1>1, <1>2, <1>3, <1>4, Frames

LEMMA PositionFacts ==
  ASSUME TypeOK, current > 0, rel < Len(data),
         NEW len \in 1 .. ChunkSize, rel + len <= Len(data)
  PROVE  /\ Position(len) \in Pieces
         /\ Position(len).extent = current /\ Position(len).idx = piece
         /\ Position(len).rel = rel
         /\ Len(Position(len).chunk) = len
         /\ \A j \in 1 .. len : Position(len).chunk[j] = data[rel + j]
<1> USE Parameters
<1>1. /\ current \in Nat \ {0} /\ piece \in Nat /\ rel \in Nat
      /\ data \in Seq(Unit) /\ Len(data) \in Nat
  BY DEF TypeOK
<1> DEFINE c == SubSeq(data, rel + 1, rel + len)
<1>2. c \in Seq(Unit) /\ Len(c) = len /\ \A j \in 1 .. len : c[j] = data[rel + j]
  <2>1. len \in Nat /\ rel + 1 \in 1 .. Len(data) + 1 /\ rel + len \in rel .. Len(data)
    BY <1>1
  <2>2. c = [i \in 1 .. len |-> data[rel + 1 + i - 1]]
    BY <1>1, <2>1
  <2> HIDE DEF c
  <2>3. \A i \in 1 .. len : rel + 1 + i - 1 = rel + i /\ rel + i \in 1 .. Len(data)
    BY <1>1, <2>1
  <2>4. \A j \in 1 .. len : c[j] = data[rel + j] /\ c[j] \in Unit
    BY <1>1, <2>2, <2>3
  <2>5. c \in [1 .. len -> Unit]
    BY <2>2, <2>4
  <2> QED BY <2>1, <2>4, <2>5
<1> HIDE DEF c
<1>3. c \in Chunks
  BY <1>2, ChunkFacts
<1>4. Position(len) = [extent |-> current, idx |-> piece, rel |-> rel, chunk |-> c]
  BY DEF Position, c
<1>5. Position(len) \in Pieces
  BY <1>1, <1>3, <1>4 DEF Pieces
<1> QED BY <1>2, <1>4, <1>5

LEMMA RowFacts ==
  ASSUME NEW p \in Pieces
  PROVE  /\ RowOf(p) \in Rows
         /\ RowOf(p).extent = p.extent /\ RowOf(p).idx = p.idx /\ RowOf(p).rel = p.rel
         /\ RowOf(p).hash = p.chunk /\ RowOf(p).len = Len(p.chunk)
BY ChunksAreSeqs DEF Pieces, Rows, RowOf

\* The window holds at most Depth pieces.
LEMMA WindowTypes ==
  ASSUME BlockInvariant, Next
  PROVE  /\ inflight' \subseteq Pieces /\ IsFiniteSet(inflight')
         /\ Cardinality(inflight') <= Depth
         /\ chunkRows' \subseteq Rows
<1> USE Parameters
<1>1. /\ inflight \subseteq Pieces /\ IsFiniteSet(inflight) /\ Cardinality(inflight) <= Depth
      /\ chunkRows \subseteq Rows
      /\ rel \in 0 .. Len(data) /\ data \in Seq(Unit) /\ current \in Nat
      /\ current = 0 => data = <<>>
  BY DEF BlockInvariant, TypeOK, Begun
<1>2. Cardinality(inflight) \in Nat
  BY <1>1, FS_CardinalityType
<1>3. CASE SchedulePiece
  <2> DEFINE len == Least(ChunkSize, Len(data) - rel)
  <2>1. /\ rel < Len(data) /\ ~ Full /\ inflight' = inflight \union {Position(len)}
        /\ UNCHANGED chunkRows
    BY <1>3 DEF SchedulePiece, Least
  <2>2. current > 0 /\ len \in 1 .. ChunkSize /\ rel + len <= Len(data)
    BY <1>1, <2>1 DEF Least
  <2> HIDE DEF len
  <2>3. Position(len) \in Pieces
    BY <2>1, <2>2, PositionFacts DEF BlockInvariant
  <2>4. Cardinality(inflight) < Depth
    <3>1. ~ (Cardinality(inflight) >= Depth)
      BY <2>1 DEF Full
    <3>2. Depth \in Nat
      OBVIOUS
    <3> QED BY <1>2, <3>1, <3>2
  <2>5. IsFiniteSet(inflight') /\ Cardinality(inflight') <= Cardinality(inflight) + 1
    <3> DEFINE x == Position(len)
    <3>1. inflight' = inflight \union {x}
      BY <2>1
    <3> HIDE DEF x
    <3>2. IsFiniteSet(inflight \union {x})
          /\ Cardinality(inflight \union {x}) = IF x \in inflight THEN Cardinality(inflight)
                                                 ELSE Cardinality(inflight) + 1
      BY <1>1, FS_AddElement
    <3> QED BY <1>2, <3>1, <3>2
  <2>6. Cardinality(inflight') \in Nat
    BY <2>5, FS_CardinalityType
  <2> QED BY <1>1, <1>2, <2>1, <2>3, <2>4, <2>5, <2>6
<1>4. ASSUME NEW p \in inflight, RecordPiece(p)
      PROVE  /\ inflight' \subseteq Pieces /\ IsFiniteSet(inflight')
             /\ Cardinality(inflight') <= Depth
             /\ chunkRows' \subseteq Rows
  <2>1. inflight' = inflight \ {p} /\ chunkRows' = chunkRows \union {RowOf(p)}
    BY <1>4 DEF RecordPiece
  <2>2. RowOf(p) \in Rows
    BY <1>1, RowFacts
  <2>3. IsFiniteSet(inflight') /\ Cardinality(inflight') <= Cardinality(inflight)
    BY <1>1, <2>1, FS_Subset
  <2>4. Cardinality(inflight') \in Nat
    BY <2>3, FS_CardinalityType
  <2> QED BY <1>1, <1>2, <2>1, <2>2, <2>3, <2>4
<1>5. CASE Fail
  <2>1. inflight' = {} /\ UNCHANGED chunkRows
    BY <1>5 DEF Fail
  <2> QED BY <1>1, <2>1, FS_EmptySet
<1>6. CASE UNCHANGED <<inflight, chunkRows>>
  BY <1>1, <1>6
<1>7. SchedulePiece \/ (\E p \in inflight : RecordPiece(p)) \/ Fail \/ UNCHANGED <<inflight, chunkRows>>
  BY DEF Next, Step, Scan, ReadExtent, LastExtent, CreateSnapshot, WriteChunk, NextExtent,
     FinishRestore, KillRestore, Edit, StartRestore, Refuse
<1> QED BY <1>3, <1>4, <1>5, <1>6, <1>7

LEMMA SourceTypes ==
  ASSUME BlockInvariant, Next
  PROVE  /\ device' \in [Blocks -> Unit] /\ alloc' \subseteq Blocks
         /\ \A b \in Blocks \ alloc' : device'[b] = 0
         /\ edits' \in 0 .. MaxEdits
         /\ pc' \in {"start", "extents", "drain", "listed", "failed"}
<1> USE Parameters
<1>1. /\ device \in [Blocks -> Unit] /\ alloc \subseteq Blocks
      /\ \A b \in Blocks \ alloc : device[b] = 0
      /\ edits \in 0 .. MaxEdits
      /\ pc \in {"start", "extents", "drain", "listed", "failed"}
  BY DEF BlockInvariant, TypeOK
<1>2. pc' \in {"start", "extents", "drain", "listed", "failed"}
  BY <1>1 DEF Next, Step, Scan, ReadExtent, SchedulePiece, RecordPiece, LastExtent, CreateSnapshot,
     Fail, WriteChunk, NextExtent, FinishRestore, KillRestore, Edit, StartRestore, Refuse
<1>3. ASSUME NEW b \in Blocks, Edit(b)
      PROVE  /\ device' \in [Blocks -> Unit] /\ alloc' \subseteq Blocks
             /\ \A a \in Blocks \ alloc' : device'[a] = 0
             /\ edits' \in 0 .. MaxEdits
  <2>1. edits' \in 0 .. MaxEdits
    BY <1>1, <1>3 DEF Edit
  <2>2. \/ \E u \in Unit : device' = [device EXCEPT ![b] = u] /\ alloc' = alloc \union {b}
        \/ device' = [device EXCEPT ![b] = 0] /\ alloc' = alloc \ {b}
    BY <1>3 DEF Edit
  <2>3. CASE \E u \in Unit : device' = [device EXCEPT ![b] = u] /\ alloc' = alloc \union {b}
    BY <1>1, <2>1, <2>3
  <2>4. CASE device' = [device EXCEPT ![b] = 0] /\ alloc' = alloc \ {b}
    BY <1>1, <2>1, <2>4
  <2> QED BY <2>2, <2>3, <2>4
<1> QED BY <1>1, <1>2, <1>3, Frames

-----------------------------------------------------------------------------
(* The capture keeps its invariants.                                       *)

LEMMA NextExtentsSound ==
  ASSUME BlockInvariant, Next
  PROVE  ExtentsSound'
<1> USE Parameters
<1>1. CASE Scan
  <2>1. /\ pc' = "extents" /\ scanned' \in SUBSET Blocks /\ extents' = UsedExtents(scanned')
    BY <1>1 DEF Scan, BlockInvariant, TypeOK
  <2> DEFINE u == UsedExtents(scanned')
  <2>2. /\ u \in Seq(Extent)
        /\ \A k \in DOMAIN u : u[k].length <= MaxExtent /\ EndOf(u[k]) <= Size
                               /\ Span(u[k]) \subseteq scanned'
        /\ \A j, k \in DOMAIN u : j < k => EndOf(u[j]) <= u[k].offset
        /\ \A x \in scanned' : \E k \in DOMAIN u : x \in Span(u[k])
    BY <2>1, UsedExtentsFacts
  <2> HIDE DEF u
  <2>3. extents' = u
    BY <2>1 DEF u
  <2>4. Covered(u) = UNION {Span(u[k]) : k \in DOMAIN u}
    BY DEF Covered, Span
  <2>5. Covered(u) = scanned'
    BY <2>2, <2>4
  <2>6. Covered(extents)' = scanned'
    BY <2>3, <2>5 DEF Covered
  <2> QED BY <2>1, <2>2, <2>3, <2>6 DEF ExtentsSound
<1>2. CASE UNCHANGED <<extents, scanned>>
  <2>1. pc' = "start" => pc = "start" /\ edits' = 0
    BY DEF Next, Step, Scan, ReadExtent, SchedulePiece, RecordPiece, LastExtent, CreateSnapshot,
       Fail, WriteChunk, NextExtent, FinishRestore, KillRestore, Edit, StartRestore, Refuse,
       BlockInvariant, ExtentsSound
  <2>2. pc = "start" => scanned = {} /\ extents = <<>>
    BY DEF BlockInvariant, ExtentsSound
  <2> QED BY <1>2, <2>1, <2>2 DEF ExtentsSound, Covered, BlockInvariant
<1> QED BY <1>1, <1>2, Frames

\* What ReadExtent does, in terms of the extents.
LEMMA ReadFacts ==
  ASSUME BlockInvariant, ReadExtent
  PROVE  /\ current \in Nat /\ current + 1 \in 1 .. Len(extents)
         /\ \A k \in 1 .. current + 1 : k \in DOMAIN extents /\ extents[k] \in Extent
         /\ current' = current + 1 /\ UNCHANGED extents
         /\ extents[current + 1].offset \in Nat /\ extents[current + 1].length \in Nat \ {0}
         /\ EndOf(extents[current + 1]) <= Size
         /\ data' = [k \in 1 .. extents[current + 1].length |->
                       device[extents[current + 1].offset + k - 1]]
         /\ image' = [b \in Blocks |-> IF b \in Span(extents[current + 1])
                                       THEN device[b] ELSE image[b]]
         /\ extentRows' = Append(extentRows, extents[current + 1])
         /\ rel' = 0 /\ piece' = 0
<1> USE Parameters
<1>1. extents \in Seq(Extent) /\ current \in 0 .. Len(extents) /\ current < Len(extents)
  BY DEF ReadExtent, BlockInvariant, TypeOK
<1>2. current \in Nat /\ current + 1 \in 1 .. Len(extents)
  BY <1>1
<1>3. \A k \in 1 .. current + 1 : k \in DOMAIN extents /\ extents[k] \in Extent
  BY <1>1, <1>2
<1>4. EndOf(extents[current + 1]) <= Size
  BY <1>3, <1>2 DEF BlockInvariant, ExtentsSound
<1> DEFINE e == extents[current + 1]
<1>5. e.offset \in Nat /\ e.length \in Nat \ {0} /\ e \in Extent
  <2>1. e \in Extent
    BY <1>2, <1>3
  <2> QED BY <2>1, ExtentFacts
<1>6. /\ current' = current + 1 /\ UNCHANGED extents
      /\ data' = [k \in 1 .. e.length |-> device[e.offset + k - 1]]
      /\ image' = [b \in Blocks |-> IF b \in e.offset .. e.offset + e.length - 1
                                    THEN device[b] ELSE image[b]]
      /\ extentRows' = Append(extentRows, e)
      /\ rel' = 0 /\ piece' = 0
  BY DEF ReadExtent
<1>7. Span(e) = e.offset .. e.offset + e.length - 1
  BY <1>5 DEF Span, EndOf
<1> QED BY <1>2, <1>3, <1>4, <1>5, <1>6, <1>7

\* The extent that is read next shares no block with those before it.
LEMMA Disjoint ==
  ASSUME BlockInvariant, NEW j \in 1 .. Len(extents), NEW k \in 1 .. Len(extents),
         NEW b \in Span(extents[j]), b \in Span(extents[k])
  PROVE  j = k
<1> USE Parameters
<1>1. extents \in Seq(Extent) /\ extents[j] \in Extent /\ extents[k] \in Extent
  BY DEF BlockInvariant, TypeOK
<1>2. /\ extents[j].offset \in Nat /\ EndOf(extents[j]) \in Nat
      /\ extents[k].offset \in Nat /\ EndOf(extents[k]) \in Nat
  BY <1>1, ExtentFacts
<1>3. /\ j < k => EndOf(extents[j]) <= extents[k].offset
      /\ k < j => EndOf(extents[k]) <= extents[j].offset
  BY <1>1 DEF BlockInvariant, ExtentsSound
<1>4. j \in Nat /\ k \in Nat
  BY <1>1
<1>5. /\ b \in Int
      /\ extents[j].offset <= b /\ b < EndOf(extents[j])
      /\ extents[k].offset <= b /\ b < EndOf(extents[k])
  BY <1>2 DEF Span
<1> QED BY <1>2, <1>3, <1>4, <1>5

LEMMA NextBegun ==
  ASSUME BlockInvariant, Next
  PROVE  Begun'
<1> USE Parameters
<1>1. CASE ReadExtent
  <2> DEFINE e == extents[current + 1]
  <2>1. /\ current \in Nat /\ current + 1 \in 1 .. Len(extents)
        /\ current' = current + 1 /\ UNCHANGED extents
        /\ e.offset \in Nat /\ e.length \in Nat \ {0} /\ EndOf(e) <= Size
        /\ data' = [k \in 1 .. e.length |-> device[e.offset + k - 1]]
        /\ image' = [b \in Blocks |-> IF b \in Span(e) THEN device[b] ELSE image[b]]
        /\ extentRows' = Append(extentRows, e)
    BY <1>1, ReadFacts
  <2>2. /\ extentRows \in Seq(Extent) /\ Len(extentRows) = current
        /\ \A k \in 1 .. current : extentRows[k] = extents[k]
        /\ \A b \in Blocks : (\A k \in 1 .. current : b \notin Span(extents[k])) => image[b] = 0
    BY DEF BlockInvariant, TypeOK, Begun
  <2>3. extents[current'] = e
    BY <2>1
  <2> HIDE DEF e
  <2>4. Len(extentRows') = current' /\ \A k \in 1 .. current' : extentRows'[k] = extents[k]
    <3>1. Len(extentRows') = current + 1
      BY <2>1, <2>2
    <3>2. \A k \in 1 .. current : extentRows'[k] = extents[k]
      BY <2>1, <2>2
    <3>3. extentRows'[current + 1] = e
      BY <2>1, <2>2
    <3> QED BY <2>1, <2>3, <3>1, <3>2, <3>3
  <2>5. Len(data') = e.length
    BY <2>1
  <2>6. ASSUME NEW k \in 1 .. e.length PROVE data'[k] = image'[e.offset + k - 1]
    <3>1. e.offset \in Nat /\ e.length \in Nat /\ e.offset + e.length <= Size /\ k \in 1 .. e.length
      BY <2>1, <2>6 DEF EndOf
    <3>2. e.offset + k - 1 \in Blocks /\ e.offset + k - 1 \in Span(e)
      BY <3>1 DEF Blocks, Span, EndOf
    <3> QED BY <2>1, <3>2
  <2>7. ASSUME NEW b \in Blocks, \A k \in 1 .. current' : b \notin Span(extents[k])
        PROVE  image'[b] = 0
    <3>1. b \notin Span(e) /\ \A k \in 1 .. current : b \notin Span(extents[k])
      BY <2>1, <2>3, <2>7
    <3> QED BY <2>1, <2>2, <3>1
  <2>8. current' > 0 /\ current' # 0
    BY <2>1
  <2>9. extents' = extents
    BY <2>1
  <2> QED BY <2>3, <2>4, <2>5, <2>6, <2>7, <2>8, <2>9 DEF Begun
<1>2. CASE UNCHANGED <<current, extentRows, data, image>>
  <2>1. CASE UNCHANGED extents
    BY <1>2, <2>1 DEF BlockInvariant, Begun
  <2>2. CASE Scan
    <3>1. current = 0
      BY <2>2 DEF Scan, BlockInvariant, ExtentsSound, TypeOK
    <3>2. \A E : \A k \in 1 .. current : FALSE
      BY <3>1
    <3> QED BY <1>2, <3>1, <3>2 DEF BlockInvariant, Begun
  <2> QED BY <2>1, <2>2, Frames
<1> QED BY <1>1, <1>2, Frames

\* Where the capture may go.
LEMMA Moves ==
  ASSUME Next
  PROVE  /\ pc = "failed" => pc' = "failed"
         /\ Scan \/ pc' # "start" \/ pc = "start"
         /\ pc' = pc \/ Scan \/ LastExtent \/ CreateSnapshot \/ Fail
         /\ \/ SchedulePiece \/ (\E p \in inflight : RecordPiece(p)) \/ Fail
            \/ UNCHANGED <<inflight, chunkRows>>
BY DEF Next, Step, Scan, ReadExtent, SchedulePiece, RecordPiece, LastExtent, CreateSnapshot, Fail,
   WriteChunk, NextExtent, FinishRestore, KillRestore, Edit, StartRestore, Refuse

\* How far SchedulePiece gets.
LEMMA ScheduleFacts ==
  ASSUME BlockInvariant, SchedulePiece
  PROVE  \E len \in 1 .. ChunkSize :
           /\ current \in Nat \ {0} /\ current <= Len(extents)
           /\ piece \in Nat /\ rel \in Nat /\ Len(data) \in Nat
           /\ len = Least(ChunkSize, Len(data) - rel)
           /\ rel < Len(data) /\ rel = piece * ChunkSize
           /\ rel + len <= Len(data)
           /\ inflight' = inflight \union {Position(len)}
           /\ rel' = rel + len /\ piece' = piece + 1
           /\ UNCHANGED <<pc, extents, scanned, current, data, extentRows, chunkRows, image>>
<1> USE Parameters
<1>1. /\ rel \in 0 .. Len(data) /\ data \in Seq(Unit) /\ Len(data) \in Nat /\ piece \in Nat
      /\ current \in 0 .. Len(extents) /\ Len(extents) \in Nat
  BY DEF BlockInvariant, TypeOK
<1> DEFINE len == Least(ChunkSize, Len(data) - rel)
<1>2. /\ rel < Len(data) /\ inflight' = inflight \union {Position(len)}
      /\ rel' = rel + len /\ piece' = piece + 1
      /\ UNCHANGED <<pc, extents, scanned, current, data, extentRows, chunkRows, image>>
  BY DEF SchedulePiece, Least
<1>3. len \in 1 .. ChunkSize /\ rel + len <= Len(data)
  BY <1>1, <1>2 DEF Least
<1>4. rel = piece * ChunkSize
  BY <1>2 DEF BlockInvariant, Scheduled
<1>5. current # 0
  BY <1>1, <1>2 DEF BlockInvariant, Begun
<1>6. rel \in Nat /\ current \in Nat /\ current <= Len(extents)
  BY <1>1
<1> HIDE DEF len
<1> QED BY <1>1, <1>2, <1>3, <1>4, <1>5, <1>6 DEF len

LEMMA NextScheduled ==
  ASSUME BlockInvariant, Next
  PROVE  Scheduled'
<1> USE Parameters
<1>1. CASE SchedulePiece
  <2>1. PICK len \in 1 .. ChunkSize :
           /\ current \in Nat \ {0} /\ current <= Len(extents)
           /\ piece \in Nat /\ rel \in Nat /\ Len(data) \in Nat
           /\ len = Least(ChunkSize, Len(data) - rel)
           /\ rel < Len(data) /\ rel = piece * ChunkSize
           /\ rel + len <= Len(data)
           /\ inflight' = inflight \union {Position(len)}
           /\ rel' = rel + len /\ piece' = piece + 1
           /\ UNCHANGED <<pc, extents, scanned, current, data, extentRows, chunkRows, image>>
    BY <1>1, ScheduleFacts
  <2>2. pc' = "extents"
    BY <1>1 DEF SchedulePiece
  <2> DEFINE a == piece * ChunkSize
  <2>3. a \in Nat /\ (piece + 1) * ChunkSize = a + ChunkSize
    BY <2>1, Multiples
  <2>4. piece' * ChunkSize = a + ChunkSize
    BY <2>1, <2>3
  <2>5. rel = a
    BY <2>1
  <2> HIDE DEF a
  <2>6. rel' <= a + ChunkSize /\ (rel' < Len(data') => rel' = a + ChunkSize)
    <3>1. /\ rel' = a + len /\ data' = data /\ Len(data) \in Nat
          /\ len = Least(ChunkSize, Len(data) - a)
      BY <2>1, <2>5
    <3>2. len <= ChunkSize /\ (a + len < Len(data) => len = ChunkSize)
      BY <2>3, <3>1 DEF Least
    <3> QED BY <2>3, <3>1, <3>2
  <2> QED BY <2>2, <2>4, <2>6 DEF Scheduled
<1>2. CASE ReadExtent
  <2>1. rel' = 0 /\ piece' = 0 /\ pc' = "extents"
    BY <1>2 DEF ReadExtent
  <2>2. piece' * ChunkSize = 0
    BY <2>1
  <2> QED BY <2>1, <2>2 DEF Scheduled
<1>3. CASE UNCHANGED <<rel, piece>> /\ ~ ReadExtent
  <2>1. rel' <= piece' * ChunkSize
    BY <1>3 DEF BlockInvariant, Scheduled
  <2>2. UNCHANGED <<current, data>>
    BY <1>3, Frames
  <2>3. rel' < Len(data') => rel' = piece' * ChunkSize
    BY <1>3, <2>2 DEF BlockInvariant, Scheduled
  <2>4. pc' \in {"drain", "listed"} => current' = Len(extents') /\ rel' = Len(data')
    <3>1. CASE Scan
      BY <3>1 DEF Scan
    <3>2. CASE LastExtent
      BY <3>2 DEF LastExtent
    <3>3. CASE CreateSnapshot
      BY <3>3 DEF CreateSnapshot, BlockInvariant, Scheduled
    <3>4. CASE Fail
      BY <3>4 DEF Fail
    <3>5. CASE pc' = pc /\ UNCHANGED extents
      BY <1>3, <2>2, <3>5 DEF BlockInvariant, Scheduled
    <3> QED BY <3>1, <3>2, <3>3, <3>4, <3>5, Moves, Frames
  <2>5. pc' = "listed" => inflight' = {}
    <3>1. CASE Scan \/ LastExtent \/ Fail
      BY <3>1 DEF Scan, LastExtent, Fail
    <3>2. CASE CreateSnapshot
      BY <3>2 DEF CreateSnapshot
    <3>3. ASSUME pc' = pc, pc = "listed" PROVE UNCHANGED inflight
      BY <3>3, Moves DEF SchedulePiece, RecordPiece, Fail
    <3> QED BY <3>1, <3>2, <3>3, Moves DEF BlockInvariant, Scheduled
  <2> QED BY <2>1, <2>3, <2>4, <2>5 DEF Scheduled
<1>4. SchedulePiece => ~ ReadExtent
  BY DEF SchedulePiece, ReadExtent
<1> QED BY <1>1, <1>2, <1>3, <1>4, Frames

LEMMA NextSteady ==
  ASSUME BlockInvariant, Next
  PROVE  Steady'
<1>1. ASSUME NEW b \in Blocks, Edit(b) PROVE Steady'
  <2>1. edits' # 0
    BY <1>1 DEF Edit, BlockInvariant, TypeOK
  <2> QED BY <2>1 DEF Steady
<1>2. CASE Scan
  <2>1. current' = 0 /\ pc' = "extents"
    BY <1>2 DEF Scan, BlockInvariant, TypeOK, ExtentsSound
  <2>2. alloc' \subseteq scanned'
    BY <1>2 DEF Scan, BlockInvariant, TypeOK
  <2>3. \A k \in 1 .. current' : FALSE
    BY <2>1
  <2> QED BY <2>2, <2>3 DEF Steady
<1>3. CASE ReadExtent
  <2> DEFINE e == extents[current + 1]
  <2>1. /\ current \in Nat /\ current + 1 \in 1 .. Len(extents)
        /\ current' = current + 1 /\ UNCHANGED extents
        /\ image' = [b \in Blocks |-> IF b \in Span(e) THEN device[b] ELSE image[b]]
    BY <1>3, ReadFacts
  <2>2. pc = "extents" /\ UNCHANGED <<pc, alloc, device, edits, scanned>>
    BY <1>3 DEF ReadExtent
  <2>3. ASSUME edits = 0, NEW k \in 1 .. current', NEW b \in Blocks, b \in Span(extents[k])
        PROVE  image'[b] = device[b]
    <3>1. CASE b \in Span(e)
      BY <2>1, <3>1
    <3>2. CASE b \notin Span(e)
      <4>1. k \in 1 .. current
        BY <2>1, <2>3, <3>2
      <4>2. image[b] = device[b]
        BY <2>3, <4>1 DEF BlockInvariant, Steady
      <4> QED BY <2>1, <3>2, <4>2
    <3> QED BY <3>1, <3>2
  <2>4. edits = 0 => alloc \subseteq scanned
    BY <2>2 DEF BlockInvariant, Steady
  <2> HIDE DEF e
  <2>5. extents' = extents /\ device' = device /\ alloc' = alloc /\ scanned' = scanned /\ edits' = edits
    BY <2>1, <2>2
  <2> QED BY <2>3, <2>4, <2>5 DEF Steady
<1>4. CASE UNCHANGED source /\ UNCHANGED <<extents, scanned>>
           /\ UNCHANGED <<current, extentRows, data, image>> /\ ~ Scan
  <2>1. pc' \notin {"start", "failed"} => pc \notin {"start", "failed"}
    BY <1>4, Moves DEF Scan, LastExtent, CreateSnapshot, Fail
  <2> QED BY <1>4, <2>1 DEF BlockInvariant, Steady
<1> QED BY <1>1, <1>2, <1>3, <1>4, Frames

\* What was read of an extent stays in the image.
LEMMA FitsStays ==
  ASSUME BlockInvariant, Next, NEW k \in Nat \ {0}, NEW i \in Nat, NEW r \in Nat, NEW c \in Chunks,
         Fits(k, i, r, c)
  PROVE  Fits(k, i, r, c)'
<1> USE Parameters
<1>1. c \in Seq(Unit) /\ Len(c) \in Nat
  BY ChunksAreSeqs
<1>2. /\ k <= current /\ r < extents[k].length
      /\ Len(c) = Least(ChunkSize, extents[k].length - r)
      /\ \A j \in 1 .. Len(c) : c[j] = image[extents[k].offset + r + j - 1]
  BY DEF Fits
<1>3. current \in 0 .. Len(extents) /\ extents \in Seq(Extent)
  BY DEF BlockInvariant, TypeOK
<1>4. CASE Scan
  <2>1. current = 0
    BY <1>4 DEF Scan, BlockInvariant, ExtentsSound, TypeOK
  <2> QED BY <1>2, <2>1
<1>5. CASE ReadExtent
  <2> DEFINE e == extents[current + 1]
             d == extents[k]
  <2>1. /\ current \in Nat /\ current + 1 \in 1 .. Len(extents)
        /\ current' = current + 1 /\ UNCHANGED extents
        /\ image' = [b \in Blocks |-> IF b \in Span(e) THEN device[b] ELSE image[b]]
    BY <1>5, ReadFacts
  <2>2. k \in 1 .. Len(extents) /\ k # current + 1 /\ d \in Extent
    BY <1>2, <1>3, <2>1
  <2>3. d.offset \in Nat /\ d.length \in Nat /\ EndOf(d) = d.offset + d.length
    BY <2>2, ExtentFacts
  <2>4. EndOf(d) <= Size
    BY <2>2 DEF BlockInvariant, ExtentsSound
  <2>5. ASSUME NEW j \in 1 .. Len(c)
        PROVE  image'[d.offset + r + j - 1] = image[d.offset + r + j - 1]
    <3> DEFINE b == d.offset + r + j - 1
    <3>1. Len(c) <= d.length - r
      BY <1>2, <2>3 DEF Least
    <3> HIDE DEF d
    <3>2. b \in d.offset .. d.offset + d.length - 1
      <4>1. j \in Nat /\ 1 <= j /\ j <= d.length - r
        BY <1>1, <2>3, <3>1
      <4> QED BY <2>3, <4>1, Shift
    <3>3. b \in Blocks /\ b \in Span(d)
      <4> HIDE DEF b
      <4> QED BY <2>3, <2>4, <3>2 DEF Blocks, Span
    <3> HIDE DEF b
    <3>4. b \notin Span(e)
      BY <2>1, <2>2, <3>3, Disjoint DEF d
    <3>5. image'[b] = image[b]
      <4> HIDE DEF e
      <4> QED BY <2>1, <3>3, <3>4
    <3> QED BY <3>5 DEF b
  <2>6. k <= current' /\ extents' = extents
    BY <1>2, <2>1
  <2>7. r = i * ChunkSize
    BY DEF Fits
  <2>8. \A j \in 1 .. Len(c) : c[j] = image'[extents'[k].offset + r + j - 1]
    BY <1>2, <2>5, <2>6
  <2>9. r < extents'[k].length /\ Len(c) = Least(ChunkSize, extents'[k].length - r)
    BY <1>2, <2>6
  <2> QED BY <2>6, <2>7, <2>8, <2>9 DEF Fits
<1>6. CASE UNCHANGED <<extents, scanned>> /\ UNCHANGED <<current, extentRows, data, image>>
  BY <1>6 DEF Fits
<1> QED BY <1>4, <1>5, <1>6, Frames

LEMMA NextInPlace ==
  ASSUME BlockInvariant, Next
  PROVE  InPlace'
<1> USE Parameters
<1>1. inflight \subseteq Pieces /\ chunkRows \subseteq Rows
  BY DEF BlockInvariant, TypeOK
<1>2. ASSUME NEW p \in inflight PROVE Fits(p.extent, p.idx, p.rel, p.chunk)'
  <2>1. p.extent \in Nat \ {0} /\ p.idx \in Nat /\ p.rel \in Nat /\ p.chunk \in Chunks
    BY <1>1 DEF Pieces
  <2>2. Fits(p.extent, p.idx, p.rel, p.chunk)
    BY DEF BlockInvariant, InPlace
  <2> QED BY <2>1, <2>2, FitsStays
<1>3. ASSUME NEW r \in chunkRows
      PROVE  Fits(r.extent, r.idx, r.rel, r.hash)' /\ r.len = Len(r.hash)
  <2>1. r.extent \in Nat \ {0} /\ r.idx \in Nat /\ r.rel \in Nat /\ r.hash \in Chunks
    BY <1>1 DEF Rows
  <2>2. Fits(r.extent, r.idx, r.rel, r.hash) /\ r.len = Len(r.hash)
    BY DEF BlockInvariant, InPlace
  <2> QED BY <2>1, <2>2, FitsStays
<1>4. CASE SchedulePiece
  <2>1. PICK len \in 1 .. ChunkSize :
           /\ current \in Nat \ {0} /\ current <= Len(extents)
           /\ piece \in Nat /\ rel \in Nat /\ Len(data) \in Nat
           /\ len = Least(ChunkSize, Len(data) - rel)
           /\ rel < Len(data) /\ rel = piece * ChunkSize
           /\ rel + len <= Len(data)
           /\ inflight' = inflight \union {Position(len)}
           /\ rel' = rel + len /\ piece' = piece + 1
           /\ UNCHANGED <<pc, extents, scanned, current, data, extentRows, chunkRows, image>>
    BY <1>4, ScheduleFacts
  <2>2. /\ current \in 1 .. Len(extents) /\ current > 0 /\ rel \in Nat /\ Len(data) \in Nat
        /\ rel < Len(data) /\ rel + len <= Len(data)
        /\ UNCHANGED <<extents, current, image>> /\ chunkRows' = chunkRows
    BY <2>1
  <2>3. PICK p : /\ inflight' = inflight \union {p}
                 /\ p.extent = current /\ p.idx = piece /\ p.rel = rel /\ Len(p.chunk) = len
                 /\ \A j \in 1 .. len : p.chunk[j] = data[rel + j]
    <3>1. inflight' = inflight \union {Position(len)}
      BY <2>1
    <3> QED BY <2>2, <3>1, PositionFacts DEF BlockInvariant
  <2> DEFINE e == extents[current]
  <2>4. Len(data) = e.length /\ \A j \in 1 .. Len(data) : data[j] = image[e.offset + j - 1]
    BY <2>2 DEF BlockInvariant, Begun
  <2>5. e.offset \in Nat
    <3>1. e \in Extent
      BY <2>2 DEF BlockInvariant, TypeOK
    <3> QED BY <3>1, ExtentFacts
  <2> HIDE DEF e
  <2>6. \A j \in 1 .. len : p.chunk[j] = image[e.offset + rel + j - 1]
    <3>1. ASSUME NEW j \in 1 .. len
          PROVE  p.chunk[j] = image[e.offset + rel + j - 1]
      <4>1. j \in Nat /\ 1 <= j /\ j <= Len(data) - rel
        BY <2>2
      <4>2. rel + j \in 1 .. Len(data) /\ e.offset + (rel + j) - 1 = e.offset + rel + j - 1
        BY <2>2, <2>5, <4>1, Shift
      <4>3. p.chunk[j] = data[rel + j]
        BY <2>3
      <4>4. data[rel + j] = image[e.offset + (rel + j) - 1]
        BY <2>4, <4>2
      <4> QED BY <4>2, <4>3, <4>4
    <3> QED BY <3>1
  <2>7. p.rel = p.idx * ChunkSize /\ len = Least(ChunkSize, e.length - rel)
    BY <2>1, <2>3, <2>4
  <2>8. Fits(p.extent, p.idx, p.rel, p.chunk)'
    <3>1. p.extent = current' /\ e = extents'[p.extent] /\ image' = image
      BY <2>2, <2>3 DEF e
    <3>2. p.extent <= current'
      BY <2>2, <3>1
    <3>3. p.rel < e.length /\ Len(p.chunk) = Least(ChunkSize, e.length - p.rel)
      BY <2>2, <2>3, <2>4, <2>7
    <3>4. \A j \in 1 .. Len(p.chunk) : p.chunk[j] = image[e.offset + p.rel + j - 1]
      BY <2>3, <2>6
    <3> HIDE DEF e
    <3> QED BY <2>7, <3>1, <3>2, <3>3, <3>4 DEF Fits
  <2> QED BY <1>2, <1>3, <2>2, <2>3, <2>8 DEF InPlace
<1>5. ASSUME NEW p \in inflight, RecordPiece(p) PROVE InPlace'
  <2>1. inflight' = inflight \ {p} /\ chunkRows' = chunkRows \union {RowOf(p)}
    BY <1>5 DEF RecordPiece
  <2> DEFINE r == RowOf(p)
  <2>2. r.extent = p.extent /\ r.idx = p.idx /\ r.rel = p.rel /\ r.hash = p.chunk
        /\ r.len = Len(p.chunk)
    BY <1>1, RowFacts
  <2> HIDE DEF r
  <2>3. Fits(r.extent, r.idx, r.rel, r.hash)' /\ r.len = Len(r.hash)
    BY <1>2, <2>2
  <2>4. chunkRows' = chunkRows \union {r}
    BY <2>1 DEF r
  <2> QED BY <1>2, <1>3, <2>1, <2>3, <2>4 DEF InPlace
<1>6. CASE Fail
  BY <1>3, <1>6 DEF Fail, InPlace
<1>7. CASE UNCHANGED <<inflight, chunkRows>>
  BY <1>2, <1>3, <1>7 DEF InPlace
<1> QED BY <1>4, <1>5, <1>6, <1>7, Moves

\* A piece that was scheduled is in flight or has a row.
Kept(k, i) ==
  \/ \E p \in inflight : p.extent = k /\ p.idx = i
  \/ \E r \in chunkRows : r.extent = k /\ r.idx = i

LEMMA KeptStays ==
  ASSUME BlockInvariant, Next, pc' # "failed", NEW k, NEW i, Kept(k, i)
  PROVE  Kept(k, i)'
<1>1. CASE SchedulePiece
  BY <1>1 DEF SchedulePiece, Kept
<1>2. ASSUME NEW p \in inflight, RecordPiece(p) PROVE Kept(k, i)'
  <2>1. inflight' = inflight \ {p} /\ chunkRows' = chunkRows \union {RowOf(p)}
    BY <1>2 DEF RecordPiece
  <2>2. RowOf(p).extent = p.extent /\ RowOf(p).idx = p.idx
    BY RowFacts DEF BlockInvariant, TypeOK
  <2>3. CASE \E q \in inflight : q.extent = k /\ q.idx = i
    BY <2>1, <2>2, <2>3 DEF Kept
  <2>4. CASE \E r \in chunkRows : r.extent = k /\ r.idx = i
    BY <2>1, <2>4 DEF Kept
  <2> QED BY <2>3, <2>4 DEF Kept
<1>3. CASE Fail
  BY <1>3 DEF Fail
<1>4. CASE UNCHANGED <<inflight, chunkRows>>
  BY <1>4 DEF Kept
<1> QED BY <1>1, <1>2, <1>3, <1>4, Moves

LEMMA NextComplete ==
  ASSUME BlockInvariant, Next
  PROVE  Complete'
<1> USE Parameters
<1> SUFFICES ASSUME pc' # "failed", NEW k \in 1 .. current', NEW i \in Nat,
                    i * ChunkSize < ScheduledOf(k)'
             PROVE  Kept(k, i)'
  BY DEF Complete, Kept
<1>1. pc # "failed"
  BY Moves
<1>2. ASSUME k \in 1 .. current, i * ChunkSize < ScheduledOf(k) PROVE Kept(k, i)'
  <2>1. Kept(k, i)
    BY <1>1, <1>2 DEF BlockInvariant, Complete, Kept
  <2> QED BY <2>1, KeptStays
<1>3. /\ current \in 0 .. Len(extents) /\ rel \in 0 .. Len(data) /\ Len(data) \in Nat
      /\ current > 0 => Len(data) = extents[current].length
  BY DEF BlockInvariant, TypeOK, Begun
<1>4. i * ChunkSize \in Nat
  BY Multiples
<1>5. CASE SchedulePiece
  <2>1. PICK len \in 1 .. ChunkSize :
           /\ current \in Nat \ {0} /\ current <= Len(extents)
           /\ piece \in Nat /\ rel \in Nat /\ Len(data) \in Nat
           /\ len = Least(ChunkSize, Len(data) - rel)
           /\ rel < Len(data) /\ rel = piece * ChunkSize
           /\ rel + len <= Len(data)
           /\ inflight' = inflight \union {Position(len)}
           /\ rel' = rel + len /\ piece' = piece + 1
           /\ UNCHANGED <<pc, extents, scanned, current, data, extentRows, chunkRows, image>>
    BY <1>5, ScheduleFacts
  <2>2. /\ k \in 1 .. current /\ UNCHANGED <<current, extents>>
        /\ rel' \in Nat /\ rel' <= rel + ChunkSize
    <3>1. rel \in Nat /\ rel' = rel + len /\ UNCHANGED <<current, extents>>
      BY <2>1
    <3> QED BY <3>1
  <2>3. CASE k # current
    BY <1>2, <2>2, <2>3 DEF ScheduledOf
  <2>4. CASE k = current
    <3>1. i * ChunkSize < rel'
      BY <2>2, <2>4 DEF ScheduledOf
    <3>2. CASE i * ChunkSize < rel
      BY <1>2, <2>2, <2>4, <3>2 DEF ScheduledOf
    <3>3. CASE rel <= i * ChunkSize
      <4>1. i = piece
        <5>1. i * ChunkSize < piece * ChunkSize + ChunkSize
          <6>1. piece * ChunkSize = rel /\ rel \in Nat
            BY <2>1
          <6> QED BY <1>4, <2>2, <3>1, <6>1
        <5>2. i <= piece
          BY <2>1, <5>1, Multiples
        <5>3. ASSUME i < piece PROVE FALSE
          <6>1. i * ChunkSize + ChunkSize <= piece * ChunkSize
            BY <2>1, <5>3, Multiples
          <6>2. piece * ChunkSize = rel /\ rel \in Nat
            BY <2>1
          <6> QED BY <1>4, <3>3, <6>1, <6>2
        <5>4. piece \in Nat
          BY <2>1
        <5> QED BY <5>2, <5>3, <5>4
      <4>2. Position(len) \in inflight'
        BY <2>1
      <4>3. Position(len).extent = current /\ Position(len).idx = piece
        BY DEF Position
      <4> QED BY <2>4, <4>1, <4>2, <4>3 DEF Kept
    <3>4. rel \in Nat
      BY <2>1
    <3> QED BY <1>4, <3>2, <3>3, <3>4
  <2> QED BY <2>3, <2>4
<1>6. CASE ReadExtent
  <2>1. /\ current \in Nat /\ current' = current + 1 /\ UNCHANGED extents /\ rel' = 0
    BY <1>6, ReadFacts
  <2>2. rel = Len(data)
    BY <1>6 DEF ReadExtent
  <2>3. k # current'
    BY <1>4, <2>1 DEF ScheduledOf
  <2>4. k \in 1 .. current
    BY <2>1, <2>3
  <2>5. ScheduledOf(k) = extents[k].length
    BY <1>3, <2>2, <2>4 DEF ScheduledOf
  <2>6. ScheduledOf(k)' = extents[k].length
    BY <2>1, <2>3 DEF ScheduledOf
  <2> QED BY <1>2, <2>4, <2>5, <2>6
<1>7. CASE Scan
  <2>1. current' = 0
    BY <1>7 DEF Scan, BlockInvariant, ExtentsSound, TypeOK
  <2> QED BY <2>1
<1>8. CASE UNCHANGED <<extents, scanned>> /\ UNCHANGED <<current, extentRows, data, image>>
           /\ UNCHANGED <<rel, piece>>
  BY <1>2, <1>8 DEF ScheduledOf
<1> QED BY <1>5, <1>6, <1>7, <1>8, Frames

-----------------------------------------------------------------------------
(* The layout of a finished capture.                                       *)

\* Ascending naturals that leave none out below any of them are 0, 1, 2, ...
LEMMA Consecutive ==
  ASSUME NEW n \in Nat, NEW f, \A j \in 1 .. n : f[j] \in Nat,
         \A i, j \in 1 .. n : i < j => f[i] < f[j],
         \A j \in 1 .. n : \A m \in Nat : m <= f[j] => \E i \in 1 .. n : f[i] = m
  PROVE  \A j \in 1 .. n : f[j] = j - 1
<1> DEFINE K == {m \in Nat : m < n => f[m + 1] = m}
<1>1. 0 \in K
  <2> SUFFICES ASSUME 0 < n PROVE f[1] = 0
    OBVIOUS
  <2>1. 1 \in 1 .. n /\ f[1] \in Nat
    OBVIOUS
  <2>2. PICK i \in 1 .. n : f[i] = 0
    BY <2>1
  <2>3. i = 1 \/ f[1] < f[i]
    BY <2>1
  <2> QED BY <2>1, <2>2, <2>3
<1>2. ASSUME NEW m \in Nat, m \in K PROVE m + 1 \in K
  <2> SUFFICES ASSUME m + 1 < n PROVE f[(m + 1) + 1] = m + 1
    OBVIOUS
  <2>1. /\ m + 1 \in 1 .. n /\ m + 2 \in 1 .. n /\ (m + 1) + 1 = m + 2
        /\ f[m + 1] = m
    BY <1>2
  <2>2. f[m + 2] \in Nat /\ f[m + 2] >= m + 1
    BY <2>1
  <2>3. PICK i \in 1 .. n : f[i] = m + 1
    BY <2>1, <2>2
  <2>4. i > m + 1
    <3>1. i # m + 1
      BY <2>1, <2>3
    <3>2. i < m + 1 => f[i] < f[m + 1]
      BY <2>1
    <3> QED BY <2>1, <2>3, <3>1, <3>2
  <2>5. i = m + 2 \/ f[m + 2] < f[i]
    BY <2>1, <2>4
  <2> QED BY <2>1, <2>2, <2>3, <2>5
<1>3. Nat \subseteq K
  <2> HIDE DEF K
  <2> QED BY <1>1, <1>2, NatSet
<1>4. ASSUME NEW j \in 1 .. n PROVE f[j] = j - 1
  <2>1. j - 1 \in Nat /\ j - 1 < n /\ (j - 1) + 1 = j
    OBVIOUS
  <2>2. j - 1 \in K
    <3> HIDE DEF K
    <3> QED BY <1>3, <2>1
  <2> QED BY <2>1, <2>2
<1> QED BY <1>4

\* A listed image: its extents are those found, each with its row.
LEMMA ListedFacts ==
  ASSUME BlockInvariant, pc = "listed", NEW k \in 1 .. Len(extentRows)
  PROVE  /\ k \in Nat \ {0} /\ k <= current
         /\ extentRows[k] = extents[k] /\ extents[k] \in Extent
         /\ extents[k].offset \in Nat /\ extents[k].length \in Nat \ {0}
         /\ EndOf(extents[k]) = extents[k].offset + extents[k].length
         /\ EndOf(extents[k]) <= Size
         /\ ScheduledOf(k) = extents[k].length
<1>1. /\ Len(extentRows) = current /\ current = Len(extents) /\ rel = Len(data)
      /\ extents \in Seq(Extent) /\ current \in Nat
  BY DEF BlockInvariant, TypeOK, Begun, Scheduled
<1>2. k \in 1 .. current /\ k \in DOMAIN extents
  BY <1>1
<1>3. extentRows[k] = extents[k]
  BY <1>2 DEF BlockInvariant, Begun
<1>4. extents[k] \in Extent /\ EndOf(extents[k]) <= Size
  BY <1>1, <1>2 DEF BlockInvariant, ExtentsSound
<1>5. ScheduledOf(k) = extents[k].length
  BY <1>1, <1>2 DEF ScheduledOf, BlockInvariant, Begun
<1> QED BY <1>1, <1>2, <1>3, <1>4, <1>5, ExtentFacts

\* What a row of an extent says.
LEMMA RowFits ==
  ASSUME BlockInvariant, NEW k, NEW r \in RowsOf(k)
  PROVE  /\ r.idx \in Nat /\ r.rel \in Nat /\ r.hash \in Chunks /\ k \in Nat \ {0}
         /\ r = [extent |-> r.extent, idx |-> r.idx, hash |-> r.hash, rel |-> r.rel, len |-> r.len]
         /\ k <= current
         /\ r.rel = r.idx * ChunkSize /\ r.rel < extents[k].length
         /\ Len(r.hash) = Least(ChunkSize, extents[k].length - r.rel)
         /\ \A j \in 1 .. Len(r.hash) :
              r.hash[j] = image[extents[k].offset + r.rel + j - 1]
         /\ r.len = Len(r.hash)
<1>1. r \in Rows /\ r \in chunkRows /\ r.extent = k
  BY DEF RowsOf, BlockInvariant, TypeOK
<1>2. /\ r.idx \in Nat /\ r.rel \in Nat /\ r.hash \in Chunks /\ k \in Nat \ {0}
      /\ r = [extent |-> r.extent, idx |-> r.idx, hash |-> r.hash, rel |-> r.rel, len |-> r.len]
  BY <1>1 DEF Rows
<1>3. Fits(k, r.idx, r.rel, r.hash) /\ r.len = Len(r.hash)
  BY <1>1 DEF BlockInvariant, InPlace
<1> QED BY <1>2, <1>3 DEF Fits

\* The rows of an extent differ in their index.
LEMMA RowsOfFacts ==
  ASSUME BlockInvariant, NEW k
  PROVE  /\ IsFiniteSet(RowsOf(k))
         /\ \A r \in RowsOf(k) : r \in Rows /\ r \in chunkRows /\ r.extent = k /\ r.idx \in Nat
         /\ \A r, q \in RowsOf(k) : r.idx = q.idx => r = q
         /\ \A r \in RowsOf(k) : k \in 1 .. Len(extents) /\ r.idx < extents[k].length
<1> USE Parameters
<1>1. \A r \in RowsOf(k) : r \in Rows /\ r \in chunkRows /\ r.extent = k
  BY DEF RowsOf, BlockInvariant, TypeOK
<1>2. ASSUME NEW r \in RowsOf(k)
      PROVE  /\ r.idx \in Nat /\ r.rel \in Nat /\ r.hash \in Chunks /\ k \in Nat \ {0}
             /\ r = [extent |-> r.extent, idx |-> r.idx, hash |-> r.hash, rel |-> r.rel, len |-> r.len]
             /\ k <= current
             /\ r.rel = r.idx * ChunkSize /\ r.rel < extents[k].length
             /\ Len(r.hash) = Least(ChunkSize, extents[k].length - r.rel)
             /\ \A j \in 1 .. Len(r.hash) :
                  r.hash[j] = image[extents[k].offset + r.rel + j - 1]
             /\ r.len = Len(r.hash)
  BY RowFits
<1>3. ASSUME NEW r \in RowsOf(k), NEW q \in RowsOf(k), r.idx = q.idx PROVE r = q
  <2>1. r.rel = q.rel /\ r.extent = q.extent
    BY <1>1, <1>2, <1>3
  <2>2. Len(r.hash) = Len(q.hash)
    BY <1>2, <2>1
  <2>3. ASSUME NEW j \in 1 .. Len(r.hash) PROVE r.hash[j] = q.hash[j]
    <3>1. r.hash[j] = image[extents[k].offset + r.rel + j - 1]
      BY <1>2
    <3>2. q.hash[j] = image[extents[k].offset + q.rel + j - 1]
      BY <1>2, <2>2
    <3> QED BY <2>1, <3>1, <3>2
  <2>4. r.hash \in Seq(Unit) /\ q.hash \in Seq(Unit)
    BY <1>2, ChunksAreSeqs
  <2>5. r.hash = q.hash
    BY <2>2, <2>3, <2>4
  <2>6. r.len = q.len
    BY <1>2, <2>2
  <2> QED BY <1>2, <1>3, <2>1, <2>5, <2>6
<1>4. ASSUME NEW r \in RowsOf(k)
      PROVE  k \in 1 .. Len(extents) /\ r.idx < extents[k].length /\ extents[k].length \in Nat
  <2>1. k \in 1 .. Len(extents)
    <3>1. k \in Nat \ {0} /\ k <= current
      BY <1>2
    <3>2. current \in 0 .. Len(extents) /\ Len(extents) \in Nat
      BY DEF BlockInvariant, TypeOK
    <3> QED BY <3>1, <3>2
  <2>2. extents[k].length \in Nat
    BY <2>1, ExtentFacts DEF BlockInvariant, TypeOK
  <2>3. r.idx <= r.idx * ChunkSize
    BY <1>2, Grows
  <2>4. /\ r.idx \in Nat /\ r.rel \in Nat
        /\ r.idx <= r.rel /\ r.rel < extents[k].length
    BY <1>2, <2>3
  <2> QED BY <2>1, <2>2, <2>4
<1>5. IsFiniteSet(RowsOf(k))
  <2> DEFINE f == [r \in RowsOf(k) |-> r.idx]
             T == 0 .. extents[k].length
  <2>1. CASE RowsOf(k) = {}
    BY <2>1, FS_EmptySet
  <2>2. CASE RowsOf(k) # {}
    <3>1. extents[k].length \in Nat
      BY <1>4, <2>2
    <3>2. f \in [RowsOf(k) -> T]
      BY <1>2, <1>4
    <3>3. f \in Injection(RowsOf(k), T)
      BY <1>3, <3>2 DEF Injection, IsInjective
    <3>4. IsFiniteSet(T)
      <4>1. 0 \in Int /\ extents[k].length \in Int
        BY <3>1
      <4> QED BY <4>1, FS_Interval
    <3> QED
      <4> HIDE DEF f, T
      <4> QED BY <3>3, <3>4, FS_Injection
  <2> QED BY <2>1, <2>2
<1> QED BY <1>1, <1>2, <1>3, <1>4, <1>5

\* get_block_extent_chunks: the pieces of an extent in order, none missing.
LEMMA ChunksFacts ==
  ASSUME BlockInvariant, pc = "listed", NEW k \in 1 .. Len(extentRows)
  PROVE  \E n \in Nat \ {0} :
           /\ DOMAIN ChunksOf(k) = 1 .. n /\ Len(ChunksOf(k)) = n
           /\ \A j \in 1 .. n : ChunksOf(k)[j] \in RowsOf(k) /\ ChunksOf(k)[j].idx = j - 1
           /\ \A r \in RowsOf(k) : \E j \in 1 .. n : ChunksOf(k)[j] = r
           /\ (n - 1) * ChunkSize < extents[k].length
           /\ extents[k].length <= n * ChunkSize
<1> USE Parameters
<1> DEFINE S == RowsOf(k)
           key == [r \in S |-> r.idx]
           c == ChunksOf(k)
           n == Cardinality(S)
           l == extents[k].length
           f == [j \in 1 .. n |-> c[j].idx]
<1>1. k \in 1 .. current /\ ScheduledOf(k) = l /\ l \in Nat \ {0}
  BY ListedFacts
<1>2. /\ IsFiniteSet(S)
      /\ \A r \in S : r \in chunkRows /\ r.extent = k /\ r.idx \in Nat
      /\ \A r, q \in S : r.idx = q.idx => r = q
  BY RowsOfFacts
<1>3. ASSUME NEW i \in Nat, i * ChunkSize < l PROVE \E r \in S : r.idx = i
  <2>1. inflight = {}
    BY DEF BlockInvariant, Scheduled
  <2>2. \E r \in chunkRows : r.extent = k /\ r.idx = i
    BY <1>1, <1>3, <2>1 DEF BlockInvariant, Complete
  <2> QED BY <2>2 DEF RowsOf
<1>4. \A r \in S : r.idx * ChunkSize < l
  <2> TAKE r \in S
  <2>1. r.rel = r.idx * ChunkSize /\ r.rel < l
    BY RowFits
  <2> QED BY <2>1
<1> HIDE DEF S, l
<1>5. key \in [S -> Nat] /\ (\A r, q \in S : key[r] = key[q] => r = q) /\ \A r \in S : key[r] = r.idx
  BY <1>2
<1>6. c = InOrder(S, key)
  BY DEF ChunksOf, S
<1> HIDE DEF key, c
<1>7. /\ n \in Nat
      /\ c \in [1 .. n -> S]
      /\ \A i, j \in 1 .. n : i < j => key[c[i]] < key[c[j]]
      /\ \A r \in S : \E j \in 1 .. n : c[j] = r
  BY <1>2, <1>5, <1>6, InOrderIs
<1> HIDE DEF n
<1>8. \A j \in 1 .. n : f[j] = c[j].idx /\ f[j] = key[c[j]] /\ f[j] \in Nat /\ c[j] \in S
  BY <1>2, <1>5, <1>7
<1> HIDE DEF f
<1>9. \A i, j \in 1 .. n : i < j => f[i] < f[j]
  BY <1>7, <1>8
<1>10. ASSUME NEW j \in 1 .. n, NEW m \in Nat, m <= f[j] PROVE \E i \in 1 .. n : f[i] = m
  <2>1. f[j] * ChunkSize < l /\ f[j] \in Nat
    BY <1>4, <1>8
  <2>2. m * ChunkSize <= f[j] * ChunkSize /\ m * ChunkSize \in Nat /\ f[j] * ChunkSize \in Nat
    BY <1>10, <2>1, Multiples
  <2>3. m * ChunkSize < l
    BY <1>1, <2>1, <2>2
  <2>4. PICK r \in S : r.idx = m
    BY <1>3, <2>3
  <2>5. PICK i \in 1 .. n : c[i] = r
    BY <1>7
  <2> QED BY <1>8, <2>4, <2>5
<1>11. \A j \in 1 .. n : f[j] = j - 1
  <2>1. n \in Nat /\ \A j \in 1 .. n : f[j] \in Nat
    BY <1>7, <1>8
  <2>2. \A j \in 1 .. n : \A m \in Nat : m <= f[j] => \E i \in 1 .. n : f[i] = m
    BY <1>10
  <2> QED BY <1>9, <2>1, <2>2, Consecutive
<1>12. n \in Nat \ {0}
  <2>1. \E r \in S : r.idx = 0
    BY <1>1, <1>3
  <2> QED BY <1>7, <2>1
<1>13. (n - 1) * ChunkSize < l
  <2>1. n \in 1 .. n
    BY <1>12
  <2>2. f[n] = n - 1 /\ c[n] \in S /\ c[n].idx = f[n]
    BY <1>8, <1>11, <2>1
  <2> QED BY <1>4, <2>2
<1>14. l <= n * ChunkSize
  <2> SUFFICES ASSUME n * ChunkSize < l PROVE FALSE
    <3>1. n * ChunkSize \in Nat
      BY <1>7, Multiples
    <3> QED BY <1>1, <3>1
  <2>1. PICK r \in S : r.idx = n
    BY <1>3, <1>7
  <2>2. PICK j \in 1 .. n : c[j] = r
    BY <1>7
  <2>3. n = j - 1
    BY <1>8, <1>11, <2>1, <2>2
  <2> QED BY <1>7, <2>3
<1>15. DOMAIN c = 1 .. n /\ Len(c) = n
  <2>1. c \in [1 .. n -> S] /\ n \in Nat
    BY <1>7
  <2> QED BY <2>1
<1>16. \A j \in 1 .. n : c[j] \in S /\ c[j].idx = j - 1
  BY <1>8, <1>11
<1> QED BY <1>7, <1>12, <1>13, <1>14, <1>15, <1>16 DEF S, l, c

\* What a finished capture has recorded passes validate_block_layout.
LEMMA LayoutIsValid ==
  ASSUME BlockInvariant, pc = "listed"
  PROVE  ValidLayout(Layout)
<1> USE Parameters
<1> SUFFICES ASSUME NEW k \in 1 .. Len(extentRows)
             PROVE  /\ k > 1 => extentRows[k].offset >= EndOf(extentRows[k - 1])
                    /\ EndOf(extentRows[k]) <= Size
                    /\ \A j \in DOMAIN ChunksOf(k) :
                         ChunksOf(k)[j].rel = ExpectedRel(ChunksOf(k), j - 1)
                    /\ ExpectedRel(ChunksOf(k), Len(ChunksOf(k))) = extentRows[k].length
  <2>1. Len(extentRows) \in Nat
    BY DEF BlockInvariant, TypeOK
  <2> QED BY <2>1 DEF ValidLayout, Layout
<1>1. Len(extentRows) \in Nat /\ Len(extentRows) = Len(extents)
  BY DEF BlockInvariant, TypeOK, Begun, Scheduled
<1>2. extentRows[k] = extents[k] /\ EndOf(extents[k]) <= Size /\ extents[k].length \in Nat
  BY ListedFacts
<1>3. ASSUME k > 1 PROVE extentRows[k].offset >= EndOf(extentRows[k - 1])
  <2>1. k - 1 \in 1 .. Len(extentRows) /\ k - 1 < k
    BY <1>1, <1>3
  <2>2. extentRows[k - 1] = extents[k - 1]
    BY <2>1, ListedFacts
  <2>3. EndOf(extents[k - 1]) <= extents[k].offset
    <3>1. extents \in Seq(Extent)
      BY DEF BlockInvariant, TypeOK
    <3>2. k - 1 \in DOMAIN extents /\ k \in DOMAIN extents
      BY <1>1, <2>1, <3>1
    <3> QED BY <2>1, <3>2 DEF BlockInvariant, ExtentsSound
  <2>4. EndOf(extents[k - 1]) \in Nat /\ extents[k].offset \in Nat
    <3>1. extents[k - 1] \in Extent /\ extents[k] \in Extent
      BY <2>1, ListedFacts
    <3> QED BY <3>1, ExtentFacts
  <2> QED BY <1>2, <2>2, <2>3, <2>4
<1> DEFINE c == ChunksOf(k)
           l == extents[k].length
<1>4. PICK n \in Nat \ {0} :
        /\ DOMAIN c = 1 .. n /\ Len(c) = n
        /\ \A j \in 1 .. n : c[j] \in RowsOf(k) /\ c[j].idx = j - 1
        /\ (n - 1) * ChunkSize < l
        /\ l <= n * ChunkSize
  BY ChunksFacts
<1>5. ASSUME NEW j \in 1 .. n
      PROVE  /\ c[j].rel = (j - 1) * ChunkSize
             /\ c[j].len = Least(ChunkSize, l - c[j].rel)
  <2>1. c[j] \in RowsOf(k) /\ c[j].idx = j - 1
    BY <1>4
  <2> HIDE DEF c
  <2>2. PICK r \in RowsOf(k) : r = c[j]
    BY <2>1
  <2>3. r.rel = r.idx * ChunkSize /\ r.len = Least(ChunkSize, l - r.rel)
    BY RowFits
  <2> QED BY <2>1, <2>2, <2>3
<1> HIDE DEF c, l
<1>6. ASSUME NEW j \in 1 .. n PROVE c[j].rel = ExpectedRel(c, j - 1)
  <2>1. CASE j = 1
    <3>1. c[j].rel = 0 * ChunkSize
      BY <1>5, <2>1
    <3> QED BY <2>1, <3>1 DEF ExpectedRel
  <2>2. CASE j # 1
    <3> DEFINE a == (j - 2) * ChunkSize
    <3>1. j - 1 \in 1 .. n /\ j - 1 # 0 /\ (j - 1) - 1 = j - 2 /\ j - 2 \in Nat /\ j - 1 \in Nat
      BY <2>2
    <3>2. c[j - 1].rel = a /\ c[j - 1].len = Least(ChunkSize, l - a)
      BY <1>5, <3>1
    <3>3. (j - 1) * ChunkSize = a + ChunkSize /\ a \in Nat
      <4>1. ((j - 2) + 1) * ChunkSize = (j - 2) * ChunkSize + ChunkSize /\ (j - 2) * ChunkSize \in Nat
        BY <3>1, Multiples
      <4>2. (j - 2) + 1 = j - 1
        OBVIOUS
      <4> QED BY <4>1, <4>2
    <3>4. c[j].rel = a + ChunkSize
      BY <1>5, <3>3
    <3>5. a + ChunkSize < l
      <4>1. c[j] \in RowsOf(k)
        BY <1>4
      <4>2. c[j].rel < l
        <5> HIDE DEF a
        <5> QED BY <4>1, RowFits DEF l
      <4> QED BY <3>4, <4>2
    <3> HIDE DEF a
    <3>6. Least(ChunkSize, l - a) = ChunkSize
      BY <1>2, <3>3, <3>5 DEF Least, l
    <3> QED BY <3>1, <3>2, <3>4, <3>6 DEF ExpectedRel
  <2> QED BY <2>1, <2>2
<1>7. ExpectedRel(c, n) = l
  <2> DEFINE a == (n - 1) * ChunkSize
  <2>1. n \in 1 .. n /\ n # 0 /\ n - 1 \in Nat /\ (n - 1) + 1 = n
    BY <1>4
  <2>2. c[n].rel = a /\ c[n].len = Least(ChunkSize, l - a)
    BY <1>5, <2>1
  <2>3. n * ChunkSize = a + ChunkSize /\ a \in Nat
    BY <2>1, Multiples
  <2>4. a < l /\ l <= a + ChunkSize
    BY <1>4, <2>3
  <2> HIDE DEF a
  <2>5. l \in Nat /\ ChunkSize \in Nat /\ a \in Nat
    BY <1>2, <2>3 DEF l
  <2>6. a + Least(ChunkSize, l - a) = l
    BY <2>4, <2>5 DEF Least
  <2> QED BY <2>1, <2>2, <2>6 DEF ExpectedRel
<1> QED BY <1>2, <1>3, <1>4, <1>6, <1>7 DEF c, l

-----------------------------------------------------------------------------
(* The way back.                                                           *)

\* A block of a place, in numbers.
LEMMA Within ==
  ASSUME NEW p \in Nat, NEW n \in Nat, NEW b \in p .. p + n - 1
  PROVE  b \in Nat /\ b - p + 1 \in 1 .. n /\ p + (b - p + 1) - 1 = b
OBVIOUS

\* A row lies on the device and holds what the image has there.
LEMMA PlaceFacts ==
  ASSUME BlockInvariant, NEW r \in chunkRows
  PROVE  /\ r \in RowsOf(r.extent) /\ r.extent \in 1 .. Len(extentRows)
         /\ r.idx \in Nat /\ r.len \in Nat \ {0}
         /\ Offset(r) = extents[r.extent].offset + r.rel
         /\ Offset(r) \in Nat /\ Offset(r) + r.len <= Size
         /\ r.hash \in [1 .. r.len -> Unit]
         /\ \A j \in 1 .. r.len : r.hash[j] = image[Offset(r) + j - 1]
         /\ PlaceOf(r) \subseteq Blocks
         /\ \A b \in PlaceOf(r) : b - Offset(r) + 1 \in 1 .. r.len
                                  /\ r.hash[b - Offset(r) + 1] = image[b]
<1> USE Parameters
<1> DEFINE k == r.extent
           o == extents[k].offset
           l == extents[k].length
<1>1. r \in RowsOf(k)
  BY DEF RowsOf
<1>2. /\ r.idx \in Nat /\ r.rel \in Nat /\ r.hash \in Chunks /\ k \in Nat \ {0} /\ k <= current
      /\ r.rel < l /\ Len(r.hash) = Least(ChunkSize, l - r.rel)
      /\ \A j \in 1 .. Len(r.hash) : r.hash[j] = image[o + r.rel + j - 1]
      /\ r.len = Len(r.hash)
  BY <1>1, RowFits
<1>3. /\ Len(extentRows) = current /\ current \in 0 .. Len(extents) /\ extents \in Seq(Extent)
      /\ extentRows \in Seq(Extent)
  BY DEF BlockInvariant, TypeOK, Begun
<1>4. k \in 1 .. current /\ k \in DOMAIN extents
  BY <1>2, <1>3
<1>5. extentRows[k] = extents[k] /\ extents[k] \in Extent /\ EndOf(extents[k]) <= Size
  BY <1>3, <1>4 DEF BlockInvariant, Begun, ExtentsSound
<1>6. o \in Nat /\ l \in Nat /\ o + l <= Size
  <2>1. extents[k].offset \in Nat /\ extents[k].length \in Nat \ {0}
        /\ EndOf(extents[k]) = extents[k].offset + extents[k].length
    BY <1>5, ExtentFacts
  <2> QED BY <1>5, <2>1
<1>7. r.hash \in [1 .. r.len -> Unit]
  <2>1. r.hash \in Seq(Unit) /\ Len(r.hash) \in 1 .. ChunkSize
    BY <1>2, ChunksAreSeqs
  <2> QED BY <1>2, <2>1
<1>8. Offset(r) = o + r.rel
  BY <1>5 DEF Offset
<1> HIDE DEF o, l
<1>9. r.len \in Nat \ {0} /\ (o + r.rel) + r.len <= Size
  <2>1. Size \in Nat /\ ChunkSize \in Nat \ {0}
    OBVIOUS
  <2>2. r.len \in Nat /\ r.rel \in Nat /\ r.rel < l /\ r.len = Least(ChunkSize, l - r.rel)
    <3>1. Len(r.hash) \in Nat
      BY <1>2, ChunksAreSeqs
    <3> QED BY <1>2, <3>1
  <2> DEFINE a == r.rel
             n == r.len
  <2>3. n \in Nat /\ a \in Nat /\ a < l /\ n = Least(ChunkSize, l - a)
    BY <2>2
  <2> HIDE DEF a, n
  <2>4. n \in Nat \ {0} /\ (o + a) + n <= Size
    BY <1>6, <2>1, <2>3 DEF Least
  <2> QED BY <2>4 DEF a, n
<1> DEFINE p == Offset(r)
<1>10. p \in Nat /\ p = o + r.rel /\ p + r.len <= Size
  BY <1>2, <1>6, <1>8, <1>9
<1>11. \A j \in 1 .. r.len : r.hash[j] = image[p + j - 1]
  BY <1>2, <1>10
<1>12. PlaceOf(r) = p .. p + r.len - 1
  BY DEF PlaceOf
<1> HIDE DEF p
<1>13. PlaceOf(r) \subseteq Blocks
  BY <1>9, <1>10, <1>12 DEF Blocks
<1>14. ASSUME NEW b \in PlaceOf(r)
       PROVE  b - p + 1 \in 1 .. r.len /\ r.hash[b - p + 1] = image[b]
  <2>1. b \in Nat /\ b - p + 1 \in 1 .. r.len /\ p + (b - p + 1) - 1 = b
    <3>1. p \in Nat /\ r.len \in Nat /\ b \in p .. p + r.len - 1
      BY <1>9, <1>10, <1>12
    <3> QED BY <3>1, Within
  <2> QED BY <1>11, <2>1
<1>15. k \in 1 .. Len(extentRows)
  BY <1>3, <1>4
<1>16. Offset(r) = extents[r.extent].offset + r.rel
  BY <1>8 DEF o
<1> QED BY <1>1, <1>2, <1>7, <1>9, <1>10, <1>11, <1>13, <1>14, <1>15, <1>16 DEF p

\* The row that is written next.
LEMMA WriteFacts ==
  ASSUME BlockInvariant, WriteChunk
  PROVE  \E r \in chunkRows :
           /\ r.extent = outExtent /\ r.idx + 1 = outChunk
           /\ \A q \in chunkRows : q.extent = outExtent /\ q.idx + 1 = outChunk => q = r
           /\ target' = [target EXCEPT !.content =
                [b \in DOMAIN target.content |->
                   IF b \in PlaceOf(r) THEN r.hash[b - Offset(r) + 1] ELSE target.content[b]]]
           /\ outChunk' = outChunk + 1
           /\ UNCHANGED <<source, capture, rpc, blank, outExtent, restores>>
<1> USE Parameters
<1>1. pc = "listed"
  BY DEF WriteChunk, BlockInvariant, Restoring
<1>2. outExtent \in 1 .. Len(extentRows) /\ Layout[outExtent].chunks = ChunksOf(outExtent)
  BY DEF WriteChunk, Layout, BlockInvariant, TypeOK
<1> DEFINE c == ChunksOf(outExtent)
<1>3. PICK n \in Nat \ {0} :
        /\ DOMAIN c = 1 .. n
        /\ \A j \in 1 .. n : c[j] \in RowsOf(outExtent) /\ c[j].idx = j - 1
        /\ \A r \in RowsOf(outExtent) : \E j \in 1 .. n : c[j] = r
  BY <1>1, <1>2, ChunksFacts
<1>4. outChunk \in 1 .. n
  BY <1>2, <1>3 DEF WriteChunk
<1> DEFINE r == c[outChunk]
<1>5. r \in RowsOf(outExtent) /\ r.idx = outChunk - 1
  BY <1>3, <1>4
<1>6. /\ target' = [target EXCEPT !.content =
                [b \in DOMAIN target.content |->
                   IF b \in PlaceOf(r) THEN r.hash[b - Offset(r) + 1] ELSE target.content[b]]]
      /\ outChunk' = outChunk + 1
      /\ UNCHANGED <<source, capture, rpc, blank, outExtent, restores>>
  BY <1>2 DEF WriteChunk, PlaceOf
<1> HIDE DEF r, c
<1>7. r \in chunkRows /\ r.extent = outExtent /\ r.idx + 1 = outChunk
  BY <1>4, <1>5 DEF RowsOf
<1>8. ASSUME NEW q \in chunkRows, q.extent = outExtent, q.idx + 1 = outChunk PROVE q = r
  <2>1. q \in RowsOf(outExtent) /\ q.idx \in Nat
    BY <1>8, RowsOfFacts DEF RowsOf
  <2>2. q.idx = r.idx
    BY <1>4, <1>5, <1>8, <2>1
  <2> QED BY <1>5, <2>1, <2>2, RowsOfFacts
<1> QED BY <1>6, <1>7, <1>8

\* What the operator may name is a target; a file is opened as zeros.
LEMMA TargetFacts ==
  /\ TypeOK => Candidates \subseteq Targets
  /\ \A t : OpenFile(t) \in [Blocks -> {0}] /\ [kind |-> "file", content |-> OpenFile(t)] \in Targets
<1> USE Parameters
<1>1. Absent \in Targets
  BY DEF Absent, Targets
<1>2. ASSUME NEW n \in {Size - 1, Size, Size + 1}, NEW c \in [0 .. n - 1 -> Unit] PROVE c \in Contents
  <2>1. n \in (Size - 1) .. (Size + 1)
    OBVIOUS
  <2> QED BY <2>1 DEF Contents
<1>3. ASSUME TypeOK PROVE Candidates \subseteq Targets
  <2>1. target \in Targets
    BY <1>3 DEF TypeOK
  <2>2. ASSUME NEW kind \in {"file", "device"}, NEW n \in {Size - 1, Size, Size + 1}, NEW u \in Unit
        PROVE  [kind |-> kind, content |-> [b \in 0 .. n - 1 |-> u]] \in Targets
    <3>1. [b \in 0 .. n - 1 |-> u] \in [0 .. n - 1 -> Unit]
      OBVIOUS
    <3>2. [b \in 0 .. n - 1 |-> u] \in Contents
      BY <1>2, <3>1
    <3> QED BY <3>2 DEF Targets
  <2>3. ASSUME NEW t \in Candidates PROVE t \in Targets
    <3>1. \/ t \in {Absent, target}
          \/ \E kind \in {"file", "device"}, n \in {Size - 1, Size, Size + 1}, u \in Unit :
               t = [kind |-> kind, content |-> [b \in 0 .. n - 1 |-> u]]
      BY DEF Candidates
    <3> QED BY <1>1, <2>1, <2>2, <3>1
  <2> QED BY <2>3
<1>4. ASSUME NEW t
      PROVE  /\ OpenFile(t) \in [Blocks -> {0}]
             /\ [kind |-> "file", content |-> OpenFile(t)] \in Targets
  <2>1. OpenFile(t) \in [Blocks -> {0}]
    BY DEF OpenFile
  <2>2. OpenFile(t) \in [0 .. Size - 1 -> Unit]
    BY <2>1 DEF Blocks
  <2>3. OpenFile(t) \in Contents
    BY <1>2, <2>2
  <2> QED BY <2>1, <2>3 DEF Targets
<1> QED BY <1>3, <1>4

\* StartRestore in terms of what it leaves.
LEMMA StartFacts ==
  ASSUME BlockInvariant, NEW t \in Candidates, NEW overwrite \in BOOLEAN, StartRestore(t, overwrite)
  PROVE  /\ pc = "listed" /\ UNCHANGED <<source, capture>>
         /\ restores' \in 0 .. MaxRestores /\ blank' \in BOOLEAN /\ t \in Targets
         /\ \/ rpc' = "refused" /\ target' = t /\ UNCHANGED <<outExtent, outChunk>>
            \/ /\ rpc' = "write" /\ outExtent' = 1 /\ outChunk' = 1
               /\ target' \in Targets /\ Blocks \subseteq DOMAIN target'.content
               /\ blank' => \A b \in Blocks : target'.content[b] = 0
<1> USE Parameters
<1>1. t \in Targets
  BY TargetFacts DEF BlockInvariant
<1>2. pc = "listed" /\ restores < MaxRestores /\ restores' = restores + 1
      /\ blank' = (t.kind # "device" \/ \A b \in DOMAIN t.content : t.content[b] = 0)
  BY DEF StartRestore
<1>3. restores' \in 0 .. MaxRestores /\ blank' \in BOOLEAN
  BY <1>2 DEF BlockInvariant, TypeOK
<1>4. \/ Refuse(t)
      \/ /\ rpc' = "write" /\ outExtent' = 1 /\ outChunk' = 1 /\ UNCHANGED <<source, capture>>
         /\ target' = IF t.kind = "device" THEN t ELSE [kind |-> "file", content |-> OpenFile(t)]
         /\ ~ (t.kind = "device" /\ Cardinality(DOMAIN t.content) < Size)
  BY DEF StartRestore
<1>5. CASE Refuse(t)
  BY <1>1, <1>2, <1>3, <1>5 DEF Refuse
<1>6. CASE /\ rpc' = "write" /\ outExtent' = 1 /\ outChunk' = 1 /\ UNCHANGED <<source, capture>>
           /\ target' = IF t.kind = "device" THEN t ELSE [kind |-> "file", content |-> OpenFile(t)]
           /\ ~ (t.kind = "device" /\ Cardinality(DOMAIN t.content) < Size)
  <2>1. CASE t.kind = "device"
    <3>1. target' = t /\ ~ (Cardinality(DOMAIN t.content) < Size)
      BY <1>6, <2>1
    <3>2. t.content \in Contents \union {<<>>}
      BY <1>1 DEF Targets
    <3>3. IsFiniteSet(DOMAIN t.content)
      BY <3>2, ContentFacts
    <3>4. Cardinality(DOMAIN t.content) \in Nat
      BY <3>3, FS_CardinalityType
    <3>5. Blocks \subseteq DOMAIN t.content
      <4>1. Cardinality(DOMAIN t.content) >= Size
        BY <3>1, <3>4
      <4> QED BY <3>2, <4>1, ContentFacts
    <3>6. blank' => \A b \in Blocks : t.content[b] = 0
      BY <1>2, <2>1, <3>5
    <3> QED BY <1>1, <1>2, <1>3, <1>6, <3>1, <3>5, <3>6
  <2>2. CASE t.kind # "device"
    <3> DEFINE f == [kind |-> "file", content |-> OpenFile(t)]
    <3>1. target' = f
      BY <1>6, <2>2
    <3>2. f \in Targets /\ f.content \in [Blocks -> {0}]
      BY TargetFacts
    <3> HIDE DEF f
    <3>3. Blocks \subseteq DOMAIN f.content /\ \A b \in Blocks : f.content[b] = 0
      BY <3>2
    <3> QED BY <1>1, <1>2, <1>3, <1>6, <3>1, <3>2, <3>3
  <2> QED BY <2>1, <2>2
<1> QED BY <1>4, <1>5, <1>6

LEMMA RestoreTypes ==
  ASSUME BlockInvariant, Next
  PROVE  /\ rpc' \in {"idle", "write", "ok", "refused", "killed"}
         /\ target' \in Targets /\ blank' \in BOOLEAN
         /\ {outExtent, outChunk}' \subseteq Nat \ {0}
         /\ restores' \in 0 .. MaxRestores
<1> USE Parameters
<1>1. /\ rpc \in {"idle", "write", "ok", "refused", "killed"}
      /\ target \in Targets /\ blank \in BOOLEAN
      /\ {outExtent, outChunk} \subseteq Nat \ {0}
      /\ restores \in 0 .. MaxRestores
  BY DEF BlockInvariant, TypeOK
<1>2. ASSUME NEW t \in Candidates, NEW overwrite \in BOOLEAN, StartRestore(t, overwrite)
      PROVE  /\ rpc' \in {"idle", "write", "ok", "refused", "killed"}
             /\ target' \in Targets /\ blank' \in BOOLEAN
             /\ {outExtent, outChunk}' \subseteq Nat \ {0}
             /\ restores' \in 0 .. MaxRestores
  <2>1. CASE rpc' = "refused" /\ target' = t /\ UNCHANGED <<outExtent, outChunk>>
    BY <1>1, <1>2, <2>1, StartFacts
  <2>2. CASE rpc' = "write" /\ outExtent' = 1 /\ outChunk' = 1 /\ target' \in Targets
    BY <1>2, <2>2, StartFacts
  <2> QED BY <1>2, <2>1, <2>2, StartFacts
<1>3. CASE WriteChunk
  <2> DEFINE c == target.content
  <2>1. PICK r \in chunkRows :
          /\ target' = [target EXCEPT !.content =
               [b \in DOMAIN c |-> IF b \in PlaceOf(r) THEN r.hash[b - Offset(r) + 1] ELSE c[b]]]
          /\ outChunk' = outChunk + 1
          /\ UNCHANGED <<source, capture, rpc, blank, outExtent, restores>>
    BY <1>3, WriteFacts
  <2>2. c \in Contents \union {<<>>} /\ Blocks \subseteq DOMAIN c /\ 0 \in Blocks
    BY <1>1, <1>3 DEF Targets, WriteChunk, BlockInvariant, Restoring, Blocks
  <2>3. c # <<>>
    BY <2>2
  <2>4. c \in [DOMAIN c -> Unit]
    BY <2>2, <2>3, ContentFacts
  <2> DEFINE d == [b \in DOMAIN c |-> IF b \in PlaceOf(r) THEN r.hash[b - Offset(r) + 1] ELSE c[b]]
  <2>5. d \in [DOMAIN c -> Unit]
    <3>1. ASSUME NEW b \in PlaceOf(r) PROVE r.hash[b - Offset(r) + 1] \in Unit
      BY PlaceFacts
    <3> QED BY <2>4, <3>1
  <2>6. d \in Contents
    <3> HIDE DEF d
    <3> QED BY <2>2, <2>3, <2>5, ContentFacts
  <2>7. target' = [target EXCEPT !.content = d]
    BY <2>1
  <2> HIDE DEF c, d
  <2>8. target' \in Targets
    BY <1>1, <2>6, <2>7 DEF Targets
  <2> QED BY <1>1, <2>1, <2>8
<1>4. CASE NextExtent \/ FinishRestore \/ KillRestore
  BY <1>1, <1>4 DEF NextExtent, FinishRestore, KillRestore
<1>5. CASE UNCHANGED restore
  BY <1>1, <1>5
<1> QED BY <1>2, <1>3, <1>4, <1>5, Frames

LEMMA NextTypeOK ==
  ASSUME BlockInvariant, Next
  PROVE  TypeOK' /\ IsFiniteSet(inflight')
BY CaptureTypes, WindowTypes, SourceTypes, RestoreTypes DEF TypeOK

\* A finished capture stays as it is.
LEMMA ListedStays ==
  ASSUME Next, pc = "listed"
  PROVE  UNCHANGED capture
BY DEF Next, Step, Scan, ReadExtent, SchedulePiece, RecordPiece, LastExtent, CreateSnapshot,
   Fail, WriteChunk, NextExtent, FinishRestore, KillRestore, Edit, StartRestore, Refuse

\* Every block that is not zero in the image has a row.
LEMMA EveryBlockHasARow ==
  ASSUME BlockInvariant, pc = "listed", NEW b \in Blocks, image[b] # 0
  PROVE  \E r \in chunkRows : b \in PlaceOf(r)
<1> USE Parameters
<1>1. PICK k \in 1 .. current : b \in Span(extents[k])
  BY DEF BlockInvariant, Begun
<1> DEFINE o == extents[k].offset
           l == extents[k].length
           m == b - o
           i == m \div ChunkSize
<1>2. k \in 1 .. Len(extentRows)
  BY DEF BlockInvariant, Begun
<1>3. o \in Nat /\ l \in Nat \ {0} /\ EndOf(extents[k]) = o + l /\ ScheduledOf(k) = l
  BY <1>2, ListedFacts
<1>4. b \in o .. o + l - 1
  BY <1>1, <1>3 DEF Span
<1> HIDE DEF o, l
<1>5. m \in Nat /\ m < l /\ b = o + m
  BY <1>3, <1>4
<1> HIDE DEF m
<1>6. i \in Nat /\ i * ChunkSize \in Nat /\ i * ChunkSize <= m /\ m < i * ChunkSize + ChunkSize
  BY <1>5, Division
<1> HIDE DEF i
<1>7. i * ChunkSize < l
  BY <1>3, <1>5, <1>6
<1>8. inflight = {}
  BY DEF BlockInvariant, Scheduled
<1>9. PICK r \in chunkRows : r.extent = k /\ r.idx = i
  BY <1>3, <1>6, <1>7, <1>8 DEF BlockInvariant, Complete
<1>10. r \in RowsOf(k)
  BY <1>9 DEF RowsOf
<1>11. r.rel = i * ChunkSize /\ r.len = Least(ChunkSize, l - r.rel)
  BY <1>9, <1>10, RowFits DEF l
<1>12. Offset(r) = o + r.rel
  BY <1>9, PlaceFacts DEF o
<1> DEFINE a == r.rel
<1>13. a \in Nat /\ a <= m /\ m < a + ChunkSize /\ r.len = Least(ChunkSize, l - a)
  BY <1>6, <1>11
<1> HIDE DEF a
<1>14. o + a <= b /\ b <= o + a + r.len - 1
  BY <1>3, <1>5, <1>13 DEF Least
<1>15. b \in o + a .. o + a + r.len - 1
  <2>1. r.len \in Nat
    BY <1>9, PlaceFacts
  <2> QED BY <1>3, <1>5, <1>13, <1>14, <2>1
<1> QED BY <1>12, <1>15 DEF PlaceOf, a

LEMMA StartKeepsRestoring ==
  ASSUME BlockInvariant, NEW t \in Candidates, NEW overwrite \in BOOLEAN, StartRestore(t, overwrite)
  PROVE  Restoring'
<1> USE Parameters
<1>1. pc' = "listed" /\ UNCHANGED <<pc, chunkRows, extentRows, image>> /\ pc = "listed"
  BY StartFacts
<1>2. CASE rpc' = "refused"
  BY <1>1, <1>2 DEF Restoring
<1>3. CASE /\ rpc' = "write" /\ outExtent' = 1 /\ outChunk' = 1
           /\ Blocks \subseteq DOMAIN target'.content
           /\ blank' => \A b \in Blocks : target'.content[b] = 0
  <2>1. ASSUME blank', NEW b \in Blocks, target'.content[b] # image[b]
        PROVE  \E r \in chunkRows : b \in PlaceOf(r)
                 /\ (r.extent > 1 \/ (r.extent = 1 /\ r.idx + 1 >= 1))
    <3>1. image[b] # 0
      BY <1>3, <2>1
    <3>2. PICK r \in chunkRows : b \in PlaceOf(r)
      BY <1>1, <3>1, EveryBlockHasARow
    <3>3. r.extent \in 1 .. Len(extentRows) /\ r.idx \in Nat
      BY PlaceFacts
    <3>4. r.extent > 1 \/ (r.extent = 1 /\ r.idx + 1 >= 1)
      BY <3>3
    <3> QED BY <3>2, <3>4
  <2>2. \A r : PlaceOf(r)' = PlaceOf(r)
    BY <1>1 DEF PlaceOf, Offset
  <2> QED BY <1>1, <1>3, <2>1, <2>2 DEF Restoring
<1> QED BY <1>2, <1>3, StartFacts

LEMMA WriteKeepsRestoring ==
  ASSUME BlockInvariant, WriteChunk
  PROVE  Restoring'
<1> USE Parameters
<1> DEFINE c == target.content
<1>1. PICK r \in chunkRows :
        /\ r.extent = outExtent /\ r.idx + 1 = outChunk
        /\ \A q \in chunkRows : q.extent = outExtent /\ q.idx + 1 = outChunk => q = r
        /\ target' = [target EXCEPT !.content =
             [b \in DOMAIN c |-> IF b \in PlaceOf(r) THEN r.hash[b - Offset(r) + 1] ELSE c[b]]]
        /\ outChunk' = outChunk + 1
        /\ UNCHANGED <<source, capture, rpc, blank, outExtent, restores>>
  BY WriteFacts
<1>2. rpc = "write" /\ pc = "listed" /\ Blocks \subseteq DOMAIN c
  BY DEF WriteChunk, BlockInvariant, Restoring
<1>3. target'.content = [b \in DOMAIN c |->
                           IF b \in PlaceOf(r) THEN r.hash[b - Offset(r) + 1] ELSE c[b]]
  BY <1>1 DEF BlockInvariant, TypeOK, Targets
<1>4. Blocks \subseteq DOMAIN target'.content
  BY <1>2, <1>3
<1>5. ASSUME blank, NEW b \in Blocks, target'.content[b] # image[b]
      PROVE  \E q \in chunkRows : b \in PlaceOf(q)
               /\ (q.extent > outExtent \/ (q.extent = outExtent /\ q.idx + 1 >= outChunk + 1))
  <2>1. b \notin PlaceOf(r)
    BY <1>2, <1>3, <1>5, PlaceFacts
  <2>2. c[b] # image[b]
    BY <1>2, <1>3, <1>5, <2>1
  <2>3. PICK q \in chunkRows :
          /\ b \in PlaceOf(q)
          /\ q.extent > outExtent \/ (q.extent = outExtent /\ q.idx + 1 >= outChunk)
    BY <1>2, <1>5, <2>2 DEF BlockInvariant, Restoring
  <2>4. ~ (q.extent = outExtent /\ q.idx + 1 = outChunk)
    BY <1>1, <2>1, <2>3
  <2>5. q.idx \in Nat /\ outChunk \in Nat
    BY PlaceFacts DEF BlockInvariant, TypeOK
  <2>6. q.extent > outExtent \/ (q.extent = outExtent /\ q.idx + 1 >= outChunk + 1)
    BY <2>3, <2>4, <2>5
  <2> QED BY <2>3, <2>6
<1>6. \A q : PlaceOf(q)' = PlaceOf(q)
  BY <1>1 DEF PlaceOf, Offset
<1> QED BY <1>1, <1>2, <1>4, <1>5, <1>6 DEF Restoring

\* An extent is left when none of its rows is still to be written.
LEMMA NextExtentKeepsRestoring ==
  ASSUME BlockInvariant, NextExtent
  PROVE  Restoring'
<1> USE Parameters
<1>1. /\ rpc = "write" /\ pc = "listed" /\ outExtent' = outExtent + 1 /\ outChunk' = 1
      /\ UNCHANGED <<source, capture, rpc, target, blank, restores>>
  BY DEF NextExtent, BlockInvariant, Restoring
<1>2. outExtent \in 1 .. Len(extentRows) /\ Layout[outExtent].chunks = ChunksOf(outExtent)
      /\ outExtent \in Nat /\ outChunk \in Nat \ {0}
  <2>1. extentRows \in Seq(Extent) /\ outExtent \in Nat /\ outChunk \in Nat \ {0}
    BY DEF BlockInvariant, TypeOK
  <2> QED BY <2>1 DEF NextExtent, Layout
<1>3. PICK n \in Nat \ {0} :
        /\ DOMAIN ChunksOf(outExtent) = 1 .. n /\ Len(ChunksOf(outExtent)) = n
        /\ \A j \in 1 .. n : ChunksOf(outExtent)[j] \in RowsOf(outExtent)
                             /\ ChunksOf(outExtent)[j].idx = j - 1
        /\ \A r \in RowsOf(outExtent) : \E j \in 1 .. n : ChunksOf(outExtent)[j] = r
  BY <1>1, <1>2, ChunksFacts
<1>4. outChunk > n
  BY <1>2, <1>3 DEF NextExtent
<1>5. ASSUME NEW r \in chunkRows, r.extent > outExtent \/ (r.extent = outExtent /\ r.idx + 1 >= outChunk)
      PROVE  r.extent > outExtent + 1 \/ (r.extent = outExtent + 1 /\ r.idx + 1 >= 1)
  <2>1. r.extent \in Nat /\ r.idx \in Nat /\ r \in RowsOf(r.extent)
    BY PlaceFacts
  <2>2. CASE r.extent = outExtent
    <3>1. PICK j \in 1 .. n : ChunksOf(outExtent)[j] = r
      BY <1>3, <2>1, <2>2
    <3>2. r.idx = j - 1
      BY <1>3, <3>1
    <3> QED BY <1>2, <1>4, <1>5, <2>2, <3>2
  <2> QED BY <1>2, <1>5, <2>1, <2>2
<1>6. \A q : PlaceOf(q)' = PlaceOf(q)
  BY <1>1 DEF PlaceOf, Offset
<1>7. ASSUME blank, NEW b \in Blocks, target.content[b] # image[b]
      PROVE  \E r \in chunkRows : b \in PlaceOf(r)
               /\ (r.extent > outExtent + 1 \/ (r.extent = outExtent + 1 /\ r.idx + 1 >= 1))
  BY <1>1, <1>5, <1>7 DEF BlockInvariant, Restoring
<1>8. Blocks \subseteq DOMAIN target.content
  BY <1>1 DEF BlockInvariant, Restoring
<1> QED BY <1>1, <1>6, <1>7, <1>8 DEF Restoring

LEMMA NextRestoring ==
  ASSUME BlockInvariant, Next
  PROVE  Restoring'
<1> USE Parameters
<1>1. ASSUME NEW t \in Candidates, NEW overwrite \in BOOLEAN, StartRestore(t, overwrite)
      PROVE  Restoring'
  BY <1>1, StartKeepsRestoring
<1>2. CASE WriteChunk
  BY <1>2, WriteKeepsRestoring
<1>3. CASE NextExtent
  BY <1>3, NextExtentKeepsRestoring
<1>4. CASE FinishRestore
  <2>1. /\ rpc = "write" /\ pc = "listed" /\ rpc' = "ok"
        /\ UNCHANGED <<source, capture, target, blank, outExtent, outChunk, restores>>
    BY <1>4 DEF FinishRestore, BlockInvariant, Restoring
  <2>2. outExtent > Len(extentRows)
    BY <1>4 DEF FinishRestore, Layout, BlockInvariant, TypeOK
  <2>3. ASSUME NEW r \in chunkRows
        PROVE  ~ (r.extent > outExtent \/ r.extent = outExtent)
    <3>1. r.extent \in 1 .. Len(extentRows) /\ Len(extentRows) \in Nat /\ outExtent \in Nat
      BY PlaceFacts DEF BlockInvariant, TypeOK
    <3> QED BY <2>2, <3>1
  <2>4. Blocks \subseteq DOMAIN target.content
    BY <2>1 DEF BlockInvariant, Restoring
  <2>5. blank => \A b \in Blocks : target.content[b] = image[b]
    BY <2>1, <2>3 DEF BlockInvariant, Restoring
  <2> QED BY <2>1, <2>4, <2>5 DEF Restoring
<1>5. CASE KillRestore
  <2>1. rpc' = "killed" /\ pc' = "listed"
    BY <1>5 DEF KillRestore, BlockInvariant, Restoring
  <2> QED BY <2>1 DEF Restoring
<1>6. CASE UNCHANGED restore
  <2>1. CASE rpc = "idle"
    BY <1>6, <2>1 DEF Restoring
  <2>2. CASE rpc # "idle"
    <3>1. UNCHANGED capture
      BY <2>2, ListedStays DEF BlockInvariant, Restoring
    <3>2. \A q : PlaceOf(q)' = PlaceOf(q)
      BY <3>1 DEF PlaceOf, Offset
    <3> QED BY <1>6, <3>1, <3>2 DEF BlockInvariant, Restoring
  <2> QED BY <2>1, <2>2
<1> QED BY <1>1, <1>2, <1>3, <1>4, <1>5, <1>6, Frames

-----------------------------------------------------------------------------
(* Theorems.                                                               *)

LEMMA Invariance == Spec => []BlockInvariant
<1>1. Init => BlockInvariant
  BY InitInvariant
<1>2. BlockInvariant /\ [Next]_vars => BlockInvariant'
  <2> SUFFICES ASSUME BlockInvariant, [Next]_vars PROVE BlockInvariant'
    OBVIOUS
  <2>1. CASE Next
    <3>1. TypeOK' /\ IsFiniteSet(inflight')
      BY <2>1, NextTypeOK
    <3>2. ExtentsSound'
      BY <2>1, NextExtentsSound
    <3>3. Begun' /\ Scheduled'
      BY <2>1, NextBegun, NextScheduled
    <3>4. InPlace' /\ Complete'
      BY <2>1, NextInPlace, NextComplete
    <3>5. Steady' /\ Restoring'
      BY <2>1, NextSteady, NextRestoring
    <3> QED BY <3>1, <3>2, <3>3, <3>4, <3>5 DEF BlockInvariant
  <2>2. CASE UNCHANGED vars
    BY <2>2 DEF vars, BlockInvariant, TypeOK, ExtentsSound, Covered, Begun, Scheduled, InPlace, Fits,
       Complete, ScheduledOf, Steady, Restoring, PlaceOf, Offset
  <2> QED BY <2>1, <2>2
<1> QED BY <1>1, <1>2, PTL DEF Spec

\* Every variable of a block capture and its restore keeps its type; the window
\* of pieces in flight never exceeds pipeline_depth (backup_block_device).
THEOREM TypeCorrect == Spec => []TypeOK
<1>1. BlockInvariant => TypeOK
  BY DEF BlockInvariant
<1> QED BY <1>1, Invariance, PTL

LEMMA ExtentsDoCover == BlockInvariant => ExtentsCover
<1> SUFFICES ASSUME BlockInvariant, pc # "start" PROVE
      /\ Covered(extents) = scanned
      /\ \A k \in DOMAIN extents : extents[k].length <= MaxExtent
      /\ \A k \in 2 .. Len(extents) : extents[k].offset >= EndOf(extents[k - 1])
  BY DEF ExtentsCover
<1>1. Covered(extents) = scanned /\ \A k \in DOMAIN extents : extents[k].length <= MaxExtent
  BY DEF BlockInvariant, ExtentsSound
<1>2. ASSUME NEW k \in 2 .. Len(extents) PROVE extents[k].offset >= EndOf(extents[k - 1])
  <2>1. extents \in Seq(Extent)
    BY DEF BlockInvariant, TypeOK
  <2>2. k - 1 \in DOMAIN extents /\ k \in DOMAIN extents /\ k - 1 < k
    BY <2>1
  <2>3. EndOf(extents[k - 1]) <= extents[k].offset
    BY <2>2 DEF BlockInvariant, ExtentsSound
  <2>4. EndOf(extents[k - 1]) \in Nat /\ extents[k].offset \in Nat
    <3>1. extents[k - 1] \in Extent /\ extents[k] \in Extent
      BY <2>1, <2>2
    <3> QED BY <3>1, ExtentFacts
  <2> QED BY <2>3, <2>4
<1> QED BY <1>1, <1>2

LEMMA RowsAreFaithful == BlockInvariant => ManifestFaithful
<1> SUFFICES ASSUME BlockInvariant, NEW r \in chunkRows
             PROVE  /\ Offset(r) + r.len <= Size
                    /\ r.hash = [k \in 1 .. r.len |-> image[Offset(r) + k - 1]]
  BY DEF ManifestFaithful
<1>1. /\ Offset(r) + r.len <= Size
      /\ r.hash \in [1 .. r.len -> Unit]
      /\ \A j \in 1 .. r.len : r.hash[j] = image[Offset(r) + j - 1]
  BY PlaceFacts
<1> QED BY <1>1

\* The manifest a block capture leaves covers what the scan found allocated,
\* once and in order; its rows name what was read at their place, whatever
\* order the workers finished in and whoever wrote to the device meanwhile; and
\* once the snapshot is listed, validate_block_layout accepts it.
THEOREM ManifestIsSound == Spec => []ManifestSound
<1>1. BlockInvariant => ManifestSound
  <2> SUFFICES ASSUME BlockInvariant PROVE ManifestSound
    OBVIOUS
  <2>1. ManifestAccepted
    BY LayoutIsValid DEF ManifestAccepted
  <2> QED BY <2>1, ExtentsDoCover, RowsAreFaithful DEF ManifestSound
<1> QED BY <1>1, Invariance, PTL

LEMMA ImageIsDevice == BlockInvariant => SteadyImage
<1> SUFFICES ASSUME BlockInvariant, pc = "listed", edits = 0, NEW b \in Blocks
             PROVE  image[b] = device[b]
  BY DEF SteadyImage, BlockInvariant, TypeOK
<1>1. current = Len(extents) /\ extents \in Seq(Extent) /\ alloc \subseteq scanned
      /\ Covered(extents) = scanned
  BY DEF BlockInvariant, TypeOK, Scheduled, Steady, ExtentsSound
<1>2. CASE \E k \in 1 .. current : b \in Span(extents[k])
  BY <1>2 DEF BlockInvariant, Steady
<1>3. CASE \A k \in 1 .. current : b \notin Span(extents[k])
  <2>1. image[b] = 0
    BY <1>3 DEF BlockInvariant, Begun
  <2>2. b \notin Covered(extents)
    BY <1>1, <1>3 DEF Covered, Span
  <2>3. device[b] = 0
    BY <1>1, <2>2 DEF BlockInvariant, TypeOK
  <2> QED BY <2>1, <2>3
<1> QED BY <1>2, <1>3

\* The image of a device nobody wrote to is the device, holes included; and a
\* restore that reports success to a file, or to a device that held zeros, has
\* made the image whatever interrupted restores had left there
\* (restore_block_device writes every chunk of every extent).
THEOREM ImageIsSound == Spec => []ImageSound
<1>1. BlockInvariant => ImageRestored
  BY DEF BlockInvariant, Restoring, ImageRestored
<1>2. BlockInvariant => ImageSound
  BY <1>1, ImageIsDevice DEF ImageSound
<1> QED BY <1>2, Invariance, PTL

=============================================================================
