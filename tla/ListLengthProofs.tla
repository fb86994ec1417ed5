-------------------------- MODULE ListLengthProofs --------------------------
(***************************************************************************)
(* That proper_list_length is right on every heap, however many pairs it   *)
(* has: on proper, improper and cyclic lists, with and without a target,   *)
(* and that it has returned after a bounded number of steps.               *)
(***************************************************************************)
EXTENDS ListLength, FiniteSetTheorems, WellFoundedInduction, TLAPS

LEMMA LeastElement ==
  ASSUME NEW I \in SUBSET Nat, I # {}
  PROVE  \E i \in I : \A j \in I : i <= j
<1>1. PICK i \in I : \A j \in I : ~(<<j, i>> \in OpToRel(<, Nat))
  BY NatLessThanWellFounded, WFMin
<1>2. ASSUME NEW j \in I
      PROVE  i <= j
  <2>1. ~(<<j, i>> \in {ss \in Nat \X Nat : ss[1] < ss[2]})
    BY <1>1 DEF OpToRel
  <2> QED BY <2>1
<1> QED BY <1>2

-----------------------------------------------------------------------------
(***************************************************************************)
(* The walk down the list: where n CDRs lead, for every n.  What is no     *)
(* pair leads nowhere else.                                                *)
(***************************************************************************)
Size == Cardinality(Pairs)

Follow(c) == IF PAIRP(c) THEN cdr[c] ELSE c

IsWalk(w) ==
  /\ w \in [Nat -> Cells] /\ w[0] = arg
  /\ \A n \in Nat : w[n + 1] = Follow(w[n])

HeapOK == cdr \in [Pairs -> Cells] /\ arg \in Cells

LEMMA SizeProperties == IsFiniteSet(Pairs) /\ Size \in Nat
BY ListLengthAssumption, FS_CardinalityType DEF Size

LEMMA FollowType == ASSUME HeapOK, NEW c \in Cells PROVE Follow(c) \in Cells
BY DEF HeapOK, Follow, PAIRP

(* The first n cells of a walk.                                            *)
IsPath(f, n) ==
  /\ f \in [0..n -> Cells] /\ f[0] = arg
  /\ \A k \in 0..n : k # n => f[k + 1] = Follow(f[k])

LEMMA PathExists ==
  ASSUME HeapOK, NEW n \in Nat
  PROVE  \E f : IsPath(f, n)
<1> DEFINE Bad == {m \in Nat : ~\E f : IsPath(f, m)}
<1>1. SUFFICES Bad = {}
  OBVIOUS
<1>2. SUFFICES ASSUME Bad # {} PROVE FALSE
  OBVIOUS
<1>3. PICK m \in Bad : \A j \in Bad : m <= j
  BY <1>2, LeastElement
<1>4. CASE m = 0
  <2> DEFINE f == [k \in 0..0 |-> arg]
  <2>1. IsPath(f, 0)
    BY DEF IsPath, HeapOK
  <2> QED BY <1>3, <1>4, <2>1
<1>5. CASE m # 0
  <2>1. m - 1 \in Nat /\ m - 1 \notin Bad /\ m \in Nat
    BY <1>3, <1>5
  <2>2. PICK f : IsPath(f, m - 1)
    BY <2>1
  <2> DEFINE g == [k \in 0..m |-> IF k = m THEN Follow(f[m - 1]) ELSE f[k]]
  <2>3. \A k \in 0..m : k # m => k \in 0..(m - 1)
    BY <2>1
  <2>4. f[m - 1] \in Cells
    BY <2>1, <2>2 DEF IsPath
  <2>5. g \in [0..m -> Cells]
    BY <2>2, <2>3, <2>4, FollowType DEF IsPath
  <2>6. g[0] = arg
    BY <1>5, <2>1, <2>2 DEF IsPath
  <2>7. ASSUME NEW k \in 0..m, k # m
        PROVE  g[k + 1] = Follow(g[k])
    <3>1. k \in 0..(m - 1) /\ k + 1 \in 0..m /\ g[k] = f[k]
      BY <2>1, <2>7
    <3>2. CASE k = m - 1
      BY <2>1, <3>1, <3>2
    <3>3. CASE k # m - 1
      <4>1. f[k + 1] = Follow(f[k]) /\ k + 1 # m
        BY <2>1, <2>2, <3>1, <3>3 DEF IsPath
      <4> QED BY <3>1, <4>1
    <3> QED BY <3>2, <3>3
  <2> HIDE DEF g
  <2>8. IsPath(g, m)
    BY <2>5, <2>6, <2>7 DEF IsPath
  <2> QED BY <1>3, <2>8
<1> QED BY <1>4, <1>5

LEMMA PathsAgree ==
  ASSUME NEW m \in Nat, NEW n \in Nat, m <= n, NEW f, NEW g, IsPath(f, m), IsPath(g, n)
  PROVE  \A k \in 0..m : f[k] = g[k]
<1> DEFINE Bad == {k \in 0..m : f[k] # g[k]}
<1>1. SUFFICES ASSUME Bad # {} PROVE FALSE
  OBVIOUS
<1>2. Bad \in SUBSET Nat
  OBVIOUS
<1>3. PICK k \in Bad : \A j \in Bad : k <= j
  BY <1>1, <1>2, LeastElement
<1>4. k # 0
  BY <1>3 DEF IsPath
<1>5. /\ k - 1 \in 0..m /\ k - 1 \in 0..n /\ k - 1 # m /\ k - 1 # n
      /\ k - 1 + 1 = k /\ k - 1 \notin Bad
  BY <1>3, <1>4
<1>6. f[k] = Follow(f[k - 1]) /\ g[k] = Follow(g[k - 1])
  <2>1. f[k - 1 + 1] = Follow(f[k - 1])
    BY <1>5 DEF IsPath
  <2>2. g[k - 1 + 1] = Follow(g[k - 1])
    BY <1>5 DEF IsPath
  <2> QED BY <1>5, <2>1, <2>2
<1> QED BY <1>3, <1>5, <1>6

LEMMA WalkExists ==
  ASSUME HeapOK
  PROVE  \E w : IsWalk(w)
<1> DEFINE path(n) == CHOOSE f : IsPath(f, n)
           w == [n \in Nat |-> path(n)[n]]
<1>1. \A n \in Nat : IsPath(path(n), n)
  BY PathExists
<1> HIDE DEF path
<1>2. w \in [Nat -> Cells]
  <2>1. \A n \in Nat : n \in 0..n /\ path(n) \in [0..n -> Cells]
    BY <1>1 DEF IsPath
  <2> QED BY <2>1
<1>3. w[0] = arg
  BY <1>1 DEF IsPath
<1>4. ASSUME NEW n \in Nat
      PROVE  w[n + 1] = Follow(w[n])
  <2>1. n + 1 \in Nat /\ n <= n + 1 /\ n \in 0..(n + 1) /\ n # n + 1 /\ n \in 0..n
    OBVIOUS
  <2>2. path(n + 1)[n + 1] = Follow(path(n + 1)[n])
    BY <1>1, <2>1 DEF IsPath
  <2>3. path(n)[n] = path(n + 1)[n]
    BY <1>1, <2>1, PathsAgree
  <2> QED BY <2>1, <2>2, <2>3
<1> HIDE DEF w
<1> QED BY <1>2, <1>3, <1>4 DEF IsWalk

LEMMA WalkStep ==
  ASSUME NEW w, IsWalk(w), NEW n \in Nat
  PROVE  /\ w[n] \in Cells
         /\ PAIRP(w[n]) => w[n + 1] = cdr[w[n]]
         /\ ~PAIRP(w[n]) => w[n + 1] = w[n]
BY DEF IsWalk, Follow

(* What is no pair is what the walk ends with.                             *)
LEMMA EndStays ==
  ASSUME NEW w, IsWalk(w), NEW k \in Nat, ~PAIRP(w[k]), NEW n \in Nat, k <= n
  PROVE  w[n] = w[k]
<1> DEFINE Bad == {m \in Nat : k <= m /\ w[m] # w[k]}
<1>1. SUFFICES ASSUME Bad # {} PROVE FALSE
  OBVIOUS
<1>2. PICK m \in Bad : \A j \in Bad : m <= j
  BY <1>1, LeastElement
<1>3. m - 1 \in Nat /\ k <= m - 1 /\ m - 1 \notin Bad /\ m - 1 + 1 = m
  <2>1. m # k
    BY <1>2
  <2> QED BY <1>2, <2>1
<1>4. w[m - 1] = w[k]
  BY <1>3
<1>5. w[m - 1 + 1] = w[m - 1]
  BY <1>3, <1>4, WalkStep
<1> QED BY <1>2, <1>3, <1>4, <1>5

(* A walk that comes to a cell twice goes in a circle from there on.       *)
LEMMA Circle ==
  ASSUME NEW w, IsWalk(w), NEW i \in Nat, NEW j \in Nat, i < j, w[i] = w[j],
         NEW n \in Nat, i <= n
  PROVE  w[n + (j - i)] = w[n]
<1> DEFINE p == j - i
           Bad == {m \in Nat : i <= m /\ w[m + p] # w[m]}
<1>1. SUFFICES ASSUME Bad # {} PROVE FALSE
  OBVIOUS
<1>2. PICK m \in Bad : \A k \in Bad : m <= k
  BY <1>1, LeastElement
<1>3. m # i
  BY <1>2
<1>4. /\ m - 1 \in Nat /\ i <= m - 1 /\ m - 1 \notin Bad /\ m - 1 + 1 = m
      /\ m - 1 + p \in Nat /\ m - 1 + p + 1 = m + p
  BY <1>2, <1>3
<1>5. w[m - 1 + p] = w[m - 1]
  BY <1>4
<1>6. w[m - 1 + 1] = Follow(w[m - 1]) /\ w[m - 1 + p + 1] = Follow(w[m - 1 + p])
  BY <1>4 DEF IsWalk
<1> QED BY <1>2, <1>4, <1>5, <1>6

(* A circle of pairs never ends.                                           *)
LEMMA CircleHasNoEnd ==
  ASSUME NEW w, IsWalk(w), NEW i \in Nat, NEW j \in Nat, i < j, w[i] = w[j],
         PAIRP(w[j]), NEW n \in Nat
  PROVE  PAIRP(w[n])
<1> DEFINE Bad == {m \in Nat : ~PAIRP(w[m])}
<1>1. SUFFICES ASSUME Bad # {} PROVE FALSE
  OBVIOUS
<1>2. PICK m \in Bad : \A k \in Bad : m <= k
  BY <1>1, LeastElement
<1>3. j < m
  <2>1. CASE m <= j
    BY <1>2, <2>1, EndStays
  <2> QED BY <1>2, <2>1
<1>4. m - (j - i) \in Nat /\ i <= m - (j - i) /\ m - (j - i) < m /\ m - (j - i) + (j - i) = m
  BY <1>2, <1>3
<1>5. w[m] = w[m - (j - i)]
  BY <1>4, Circle
<1> QED BY <1>2, <1>4, <1>5

(* More pairs than there are: two of them are the same.                    *)
LEMMA Repeats ==
  ASSUME NEW w, IsWalk(w), PAIRP(w[Size])
  PROVE  \E i, j \in 0..Size : i < j /\ w[i] = w[j] /\ PAIRP(w[j])
<1> DEFINE f == [k \in 0..Size |-> w[k]]
<1>1. \A k \in 0..Size : PAIRP(w[k])
  BY SizeProperties, EndStays
<1>2. f \in [0..Size -> Pairs]
  BY <1>1 DEF PAIRP
<1>3. IsFiniteSet(0..Size) /\ Cardinality(0..Size) = Size + 1
  BY SizeProperties, FS_Interval
<1>4. PICK x, y \in 0..Size : x # y /\ f[x] = f[y]
  <2>1. Cardinality(Pairs) < Cardinality(0..Size)
    BY <1>3, SizeProperties DEF Size
  <2> HIDE DEF f
  <2> QED BY <1>2, <1>3, <2>1, SizeProperties, FS_PigeonHole
<1>5. x < y \/ y < x
  BY <1>4, SizeProperties
<1> QED BY <1>1, <1>4, <1>5

LEMMA LongWalkHasNoEnd ==
  ASSUME NEW w, IsWalk(w), PAIRP(w[Size]), NEW n \in Nat
  PROVE  PAIRP(w[n])
<1>1. PICK i, j \in 0..Size : i < j /\ w[i] = w[j] /\ PAIRP(w[j])
  BY Repeats
<1>2. i \in Nat /\ j \in Nat
  BY SizeProperties
<1> QED BY <1>1, <1>2, CircleHasNoEnd

-----------------------------------------------------------------------------
(***************************************************************************)
(* What the list is, in terms of its walk.                                 *)
(***************************************************************************)
TailAt(f, n) == IF n = 0 THEN arg ELSE IF PAIRP(f[n - 1]) THEN cdr[f[n - 1]] ELSE f[n - 1]

LEMMA TailIsWalk ==
  ASSUME NEW w, IsWalk(w), NEW n \in 0..Size
  PROVE  Tail[n] = w[n]
<1> DEFINE T == CHOOSE T : T = [k \in 0..Size |-> TailAt(T, k)]
           v == [k \in 0..Size |-> w[k]]
<1>1. v = [k \in 0..Size |-> TailAt(v, k)]
  <2>1. ASSUME NEW k \in 0..Size
        PROVE  w[k] = TailAt(v, k)
    <3>1. CASE k = 0
      BY <3>1 DEF IsWalk, TailAt
    <3>2. CASE k # 0
      <4>1. k - 1 \in Nat /\ k - 1 \in 0..Size /\ k - 1 + 1 = k
        BY <3>2, SizeProperties
      <4>2. v[k - 1] = w[k - 1] /\ w[k - 1 + 1] = Follow(w[k - 1])
        BY <4>1 DEF IsWalk
      <4> QED BY <3>2, <4>1, <4>2 DEF TailAt, Follow
    <3> QED BY <3>1, <3>2
  <2> QED BY <2>1
<1>2. T = [k \in 0..Size |-> TailAt(T, k)]
  BY <1>1
<1>3. Tail = T
  BY DEF Tail, TailAt, Size
<1> HIDE DEF T
<1> DEFINE Bad == {k \in 0..Size : T[k] # w[k]}
<1>4. Bad = {}
  <2>1. SUFFICES ASSUME Bad # {} PROVE FALSE
    OBVIOUS
  <2>2. Bad \in SUBSET Nat
    BY SizeProperties
  <2>3. PICK k \in Bad : \A j \in Bad : k <= j
    BY <2>1, <2>2, LeastElement
  <2>4. T[k] = TailAt(T, k)
    BY <1>2, <2>3
  <2>5. k # 0
    BY <2>3, <2>4 DEF TailAt, IsWalk
  <2>6. k - 1 \in Nat /\ k - 1 \in 0..Size /\ k - 1 \notin Bad /\ k - 1 + 1 = k
    BY <2>3, <2>5, SizeProperties
  <2>7. T[k - 1] = w[k - 1] /\ w[k - 1 + 1] = Follow(w[k - 1])
    BY <2>6 DEF IsWalk
  <2> QED BY <2>3, <2>4, <2>5, <2>6, <2>7 DEF TailAt, Follow
<1> QED BY <1>3, <1>4

(* A list of m pairs and what is behind them.                              *)
Ends(w, m) == ~PAIRP(w[m]) /\ \A k \in 0..(m - 1) : PAIRP(w[k])

LEMMA ListWithEnd ==
  ASSUME NEW w, IsWalk(w), NEW m \in Nat, Ends(w, m)
  PROVE  m <= Size /\ ~Cyclic /\ NrPairs = m /\ End = w[m]
<1>1. Size \in Nat
  BY SizeProperties
<1>2. m <= Size
  <2>1. CASE Size < m
    <3>1. Size \in 0..(m - 1)
      BY <1>1, <2>1
    <3> QED BY <3>1, LongWalkHasNoEnd DEF Ends
  <2> QED BY <1>1, <2>1
<1>3. w[Size] = w[m]
  BY <1>1, <1>2, EndStays DEF Ends
<1>4. \A n \in 0..Size : Tail[n] = w[n]
  BY TailIsWalk
<1>5. ~Cyclic
  BY <1>1, <1>3, <1>4 DEF Cyclic, Size, Ends
<1>6. {n \in 0..Size : PAIRP(Tail[n])} = 0..(m - 1)
  <2>1. ASSUME NEW n \in 0..Size, PAIRP(w[n])
        PROVE  n \in 0..(m - 1)
    <3>1. CASE m <= n
      BY <1>1, <2>1, <3>1, EndStays DEF Ends
    <3> QED BY <1>1, <3>1
  <2>2. ASSUME NEW n \in 0..(m - 1)
        PROVE  n \in 0..Size /\ PAIRP(w[n])
    BY <1>1, <1>2 DEF Ends
  <2> QED BY <1>4, <2>1, <2>2
<1>7. Cardinality(0..(m - 1)) = m
  <2>1. CASE m = 0
    BY <2>1, FS_Interval
  <2>2. CASE m # 0
    BY <2>2, FS_Interval
  <2> QED BY <2>1, <2>2
<1>8. NrPairs = m
  BY <1>6, <1>7 DEF NrPairs, Size
<1>9. End = w[m]
  BY <1>1, <1>2, <1>4, <1>8 DEF End
<1> QED BY <1>2, <1>5, <1>8, <1>9

LEMMA EndExists ==
  ASSUME NEW w, IsWalk(w), ~Cyclic
  PROVE  \E m \in Nat : Ends(w, m)
<1> DEFINE Stops == {m \in Nat : ~PAIRP(w[m])}
<1>1. Size \in Nat /\ Tail[Size] = w[Size]
  BY SizeProperties, TailIsWalk
<1>2. Size \in Stops
  BY <1>1 DEF Cyclic, Size
<1>3. PICK m \in Stops : \A j \in Stops : m <= j
  BY <1>2, LeastElement
<1>4. Ends(w, m)
  BY <1>3 DEF Ends
<1> QED BY <1>3, <1>4

LEMMA ListWithoutEnd ==
  ASSUME NEW w, IsWalk(w), PAIRP(w[Size])
  PROVE  Cyclic
BY SizeProperties, TailIsWalk DEF Cyclic, Size

-----------------------------------------------------------------------------
(***************************************************************************)
(* The hare and the tortoise.  After k rounds the slow pointer is at k and *)
(* the runner at 2k + 1.  On a list without end they are at the same pair  *)
(* before the slow one has been everywhere: the first time that k + 1 is a *)
(* multiple of the length of the circle, and the circle has been reached.  *)
(***************************************************************************)
LEMMA Rounds ==
  ASSUME NEW w, IsWalk(w), NEW i \in Nat, NEW j \in Nat, i < j, w[i] = w[j],
         NEW n \in Nat, i <= n, NEW q \in Nat, NEW p \in Nat, p = j - i,
         NEW x, x = n + q * p
  PROVE  w[x] = w[n]
<1> DEFINE Bad == {r \in Nat : w[n + r * p] # w[n]}
<1>1. SUFFICES ASSUME Bad # {} PROVE FALSE
  OBVIOUS
<1>2. PICK r \in Bad : \A k \in Bad : r <= k
  BY <1>1, LeastElement
<1>3. r # 0
  <2>1. CASE r = 0
    <3>1. n + r * p = n
      BY <2>1
    <3> QED BY <1>2, <3>1
  <2> QED BY <2>1
<1>4. r - 1 \in Nat /\ r - 1 \notin Bad
  BY <1>2, <1>3
<1>5. (r - 1) * p \in Nat /\ (r - 1) * p + p = r * p
  BY <1>2, <1>4
<1>6. n + (r - 1) * p \in Nat /\ i <= n + (r - 1) * p /\ n + (r - 1) * p + p = n + r * p
  BY <1>2, <1>5
<1>7. w[n + (r - 1) * p + p] = w[n + (r - 1) * p]
  BY <1>6, Circle
<1>8. w[n + (r - 1) * p] = w[n]
  BY <1>4
<1> QED BY <1>2, <1>6, <1>7, <1>8

(* Such a multiple, put in the form in which the pointers' places show it. *)
LEMMA MeetAt ==
  ASSUME NEW w, IsWalk(w), NEW i \in Nat, NEW j \in Nat, i < j, w[i] = w[j],
         NEW m \in Nat, i <= m, NEW q \in Nat, NEW p \in Nat, p = j - i,
         2 * m + 1 = m + q * p
  PROVE  w[2 * m + 1] = w[m]
BY Rounds

LEMMA TheyMeet ==
  ASSUME NEW w, IsWalk(w), PAIRP(w[Size])
  PROVE  \E m \in Nat : m < Size /\ w[2 * m + 1] = w[m]
<1>1. PICK i, j \in 0..Size : i < j /\ w[i] = w[j]
  BY Repeats
<1>2. i \in Nat /\ j \in Nat /\ Size \in Nat /\ j <= Size
  BY <1>1, SizeProperties
<1> DEFINE p == j - i
           Enough == {q \in Nat : i + 1 <= q * p}
<1>3. p \in Nat /\ p >= 1
  BY <1>1, <1>2
<1>4. Enough # {}
  <2> HIDE DEF p
  <2>1. (i + 1) * p = (i + 1) * (p - 1) + (i + 1) /\ (i + 1) * (p - 1) >= 0
    BY <1>2, <1>3
  <2>2. i + 1 \in Nat /\ i + 1 <= (i + 1) * p
    BY <1>2, <1>3, <2>1
  <2> QED BY <2>2
<1>5. PICK q \in Enough : \A r \in Enough : q <= r
  BY <1>4, LeastElement
<1>6. q # 0
  <2> HIDE DEF p
  <2>1. CASE q = 0
    <3>1. q * p = 0
      BY <1>3, <2>1
    <3> QED BY <1>2, <1>5, <3>1
  <2> QED BY <2>1
<1>7. q - 1 \in Nat /\ q - 1 \notin Enough
  BY <1>5, <1>6
<1>8. q * p \in Nat /\ (q - 1) * p \in Nat /\ q * p = (q - 1) * p + p
  <2> HIDE DEF p
  <2> QED BY <1>3, <1>5, <1>7
<1>9. (q - 1) * p <= i /\ i + 1 <= q * p
  <2> HIDE DEF p
  <2> QED BY <1>2, <1>5, <1>7, <1>8
<1>10. PICK m \in Nat : m = q * p - 1
  BY <1>8, <1>9, <1>2
<1>11. i <= m /\ m < Size /\ 2 * m + 1 = m + q * p
  <2>1. i + p = j
    BY <1>2
  <2> HIDE DEF p
  <2> QED BY <1>2, <1>3, <1>8, <1>9, <1>10, <2>1
<1>12. w[2 * m + 1] = w[m]
  <2>1. q \in Nat
    BY <1>5
  <2>2. p = j - i
    OBVIOUS
  <2> HIDE DEF p
  <2> QED BY <1>1, <1>2, <1>3, <1>11, <2>1, <2>2, MeetAt
<1> QED BY <1>11, <1>12

-----------------------------------------------------------------------------
(***************************************************************************)
(* The inductive invariant: where the two pointers are, and that they have *)
(* not met.                                                                *)
(***************************************************************************)
Chasing(w, k) ==
  /\ k \in Nat /\ k < length
  /\ lst = w[k] /\ runner = w[length]
  /\ \A n \in 0..(length - 1) : PAIRP(w[n])
  /\ length = 2 * k + 1 \/ (length = 2 * k /\ ~PAIRP(runner))
  /\ \A m \in 0..(k - 1) : w[2 * m + 1] # w[m]

IInv ==
  /\ TypeOK /\ LengthIsRight /\ ArityTestIsRight
  /\ pc = "entry" => lst = arg /\ length = 1
  /\ pc = "loop" => target >= 0 /\ \E w, k : IsWalk(w) /\ Chasing(w, k)

LEMMA AtomsAreNoPairs ==
  /\ ~PAIRP("nil") /\ ~PAIRP("atom") /\ ~PAIRP("NULL")
  /\ \A c \in Cells : PAIRP(c) \/ c \in {"nil", "atom", "NULL"}
BY ListLengthAssumption DEF PAIRP, Cells

LEMMA InitIInv == Init => IInv
BY SizeProperties DEF Init, IInv, TypeOK, LengthIsRight, ArityTestIsRight, Size

LEMMA TypesKept ==
  ASSUME TypeOK
  PROVE  HeapOK /\ target \in Int /\ MaxTarget \in Nat /\ length \in Nat /\ Size \in Nat
BY SizeProperties, ListLengthAssumption DEF TypeOK, HeapOK, Size

(* What it returns.                                                        *)
LEMMA Returned ==
  ASSUME IInv, NEW r, return(r), r \in -6..(2 * Size + 3),
         target = 0 =>
           r = IF arg = "NULL" THEN -1
               ELSE IF arg = "atom" THEN -3
               ELSE IF Cyclic THEN -2
               ELSE IF End = "atom" THEN -4
               ELSE IF End = "NULL" THEN -5
               ELSE NrPairs,
         target > 0 => (r = target <=> ProperList(target))
  PROVE  IInv'
<1>1. Tail' = Tail /\ Cyclic' = Cyclic /\ NrPairs' = NrPairs /\ End' = End
  <2>1. cdr' = cdr /\ arg' = arg
    BY DEF return
  <2>2. Tail' = Tail
    BY <2>1, Zenon DEF Tail, PAIRP
  <2> QED BY <2>2 DEF Cyclic, NrPairs, End, PAIRP
<1>2. LengthIsRight' /\ ArityTestIsRight'
  BY <1>1 DEF return, LengthIsRight, ArityTestIsRight, ProperList
<1>3. TypeOK'
  BY DEF return, IInv, TypeOK, Size
<1> QED BY <1>2, <1>3 DEF IInv, return

(* A list that has been walked to its end is what it is said to be.        *)
LEMMA EndFound ==
  ASSUME NEW w, IsWalk(w), NEW m \in Nat, Ends(w, m), m > 0
  PROVE  /\ arg # "NULL" /\ arg # "atom" /\ ~Cyclic /\ End = w[m] /\ NrPairs = m
         /\ \A n : ProperList(n) <=> w[m] = "nil" /\ n = m
<1>1. 0 \in 0..(m - 1) /\ w[0] = arg
  BY DEF IsWalk
<1>2. arg # "NULL" /\ arg # "atom"
  BY <1>1, AtomsAreNoPairs DEF Ends
<1>3. ~Cyclic /\ End = w[m] /\ NrPairs = m
  BY ListWithEnd
<1> QED BY <1>2, <1>3 DEF ProperList

(* A list that goes on beyond n pairs is no proper list of n.              *)
LEMMA LongerList ==
  ASSUME HeapOK, NEW w, IsWalk(w), NEW n \in Nat, \A k \in 0..n : PAIRP(w[k])
  PROVE  ~ProperList(n)
<1>1. SUFFICES ASSUME ProperList(n) PROVE FALSE
  OBVIOUS
<1>2. ~Cyclic /\ End = "nil" /\ NrPairs = n
  BY <1>1 DEF ProperList
<1>3. PICK m \in Nat : Ends(w, m)
  BY <1>2, EndExists
<1>4. NrPairs = m /\ End = w[m]
  BY <1>3, ListWithEnd
<1>5. n = m /\ n \in 0..n
  BY <1>2, <1>4
<1> QED BY <1>2, <1>3, <1>4, <1>5 DEF Ends

LEMMA WalkKept ==
  ASSUME UNCHANGED <<cdr, arg>>, NEW w, IsWalk(w)
  PROVE  IsWalk(w)'
BY DEF IsWalk, Follow, PAIRP

-----------------------------------------------------------------------------
(***************************************************************************)
(* The steps.                                                              *)
(***************************************************************************)
LEMMA EntryKeepsIInv == ASSUME IInv, Entry PROVE IInv'
<1>1. TypeOK /\ HeapOK /\ target \in Int /\ Size \in Nat
  BY TypesKept DEF IInv
<1>2. lst = arg /\ length = 1 /\ arg \in Cells
  BY <1>1 DEF IInv, Entry, HeapOK
<1>3. PICK w : IsWalk(w)
  BY <1>1, WalkExists
<1>4. w[0] = arg /\ w[0] \in Cells /\ (PAIRP(w[0]) => w[1] = cdr[w[0]])
  BY <1>3, WalkStep DEF IsWalk
<1>5. ASSUME ~PAIRP(arg)
      PROVE  ~Cyclic /\ NrPairs = 0 /\ End = arg
  <2>1. Ends(w, 0)
    BY <1>4, <1>5 DEF Ends
  <2> QED BY <1>3, <1>4, <2>1, ListWithEnd
<1>6. CASE target < 0 /\ return(-6)
  BY <1>1, <1>6, Returned
<1>7. CASE target >= 0 /\ lst = "NULL" /\ return(-1)
  <2>1. ~ProperList(target)
    BY <1>2, <1>5, <1>7, AtomsAreNoPairs DEF ProperList
  <2> QED BY <1>1, <1>2, <1>7, <2>1, Returned
<1>8. CASE target >= 0 /\ lst = "nil" /\ return(0)
  <2>1. ~Cyclic /\ NrPairs = 0 /\ End = "nil"
    BY <1>2, <1>5, <1>8, AtomsAreNoPairs
  <2> QED BY <1>1, <1>2, <1>8, <2>1, Returned DEF ProperList
<1>9. CASE target >= 0 /\ lst = "atom" /\ return(-3)
  <2>1. ~ProperList(target)
    BY <1>2, <1>5, <1>9, AtomsAreNoPairs DEF ProperList
  <2> QED BY <1>1, <1>2, <1>9, <2>1, Returned
<1>10. CASE target >= 0 /\ PAIRP(lst) /\ cdr[lst] = "nil" /\ return(length)
  <2>1. Ends(w, 1) /\ w[1] = "nil"
    BY <1>2, <1>4, <1>10, AtomsAreNoPairs DEF Ends
  <2>2. /\ arg # "NULL" /\ arg # "atom" /\ ~Cyclic /\ End = "nil" /\ NrPairs = 1
        /\ ProperList(target) <=> target = 1
    BY <1>3, <2>1, EndFound
  <2> QED BY <1>1, <1>2, <1>10, <2>2, Returned
<1>11. CASE /\ target >= 0 /\ PAIRP(lst) /\ cdr[lst] # "nil"
            /\ runner' = cdr[lst]
            /\ pc' = "loop"
            /\ UNCHANGED <<cdr, arg, target, lst, length, result>>
  <2>1. runner' = w[1] /\ runner' \in Cells
    BY <1>1, <1>2, <1>4, <1>11 DEF HeapOK, PAIRP
  <2>2. IsWalk(w)'
    BY <1>3, <1>11, WalkKept
  <2>3. Chasing(w, 0)'
    BY <1>2, <1>4, <1>11, <2>1 DEF Chasing, PAIRP
  <2>4. TypeOK'
    BY <1>1, <1>11, <2>1 DEF TypeOK
  <2> QED BY <1>11, <2>2, <2>3, <2>4 DEF IInv, LengthIsRight, ArityTestIsRight
<1> QED BY <1>6, <1>7, <1>8, <1>9, <1>10, <1>11 DEF Entry

(* The slow pointer has not been everywhere yet while the runner is at a   *)
(* pair.                                                                   *)
LEMMA SlowOneIsInside ==
  ASSUME NEW w, IsWalk(w), NEW k, Chasing(w, k), length \in Nat
  PROVE  k < Size
<1>1. SUFFICES ASSUME Size <= k PROVE FALSE
  BY SizeProperties DEF Chasing
<1>2. Size \in 0..(length - 1)
  BY <1>1, SizeProperties DEF Chasing
<1>3. PICK m \in Nat : m < Size /\ w[2 * m + 1] = w[m]
  BY <1>2, TheyMeet DEF Chasing
<1>4. m \in 0..(k - 1)
  BY <1>1, <1>3, SizeProperties DEF Chasing
<1> QED BY <1>3, <1>4 DEF Chasing

LEMMA AdvanceKeepsIInv ==
  ASSUME IInv, pc = "loop", PAIRP(runner), runner # lst, Advance
  PROVE  IInv'
<1>1. TypeOK /\ HeapOK /\ length \in Nat /\ Size \in Nat /\ target >= 0
  BY TypesKept DEF IInv
<1>2. PICK w, k : IsWalk(w) /\ Chasing(w, k)
  BY DEF IInv
<1>3. k \in Nat /\ k < length /\ lst = w[k] /\ runner = w[length] /\ length = 2 * k + 1
  BY <1>2 DEF Chasing
<1>4. PAIRP(w[k]) /\ \A n \in 0..(length - 1) : PAIRP(w[n])
  <2>1. k \in 0..(length - 1)
    BY <1>1, <1>3
  <2> QED BY <1>2, <2>1 DEF Chasing
<1>5. lst' = w[k + 1] /\ cdr[runner] = w[length + 1] /\ lst' \in Cells
  BY <1>1, <1>2, <1>3, <1>4, WalkStep DEF Advance
<1>6. /\ runner' = w[length'] /\ runner' \in Cells
      /\ length' = 2 * (k + 1) + 1 \/ (length' = 2 * (k + 1) /\ ~PAIRP(runner'))
      /\ \A n \in 0..(length' - 1) : PAIRP(w[n])
  <2>1. CASE PAIRP(w[length + 1])
    <3>1. length + 1 \in Nat /\ length + 1 + 1 = length + 2
      BY <1>1
    <3>2. length' = length + 2 /\ runner' = w[length + 2] /\ w[length + 2] \in Cells
      BY <1>2, <1>5, <2>1, <3>1, WalkStep DEF Advance
    <3>3. ASSUME NEW n \in 0..(length' - 1) PROVE PAIRP(w[n])
      <4>1. n \in 0..(length - 1) \/ n = length \/ n = length + 1
        BY <1>1, <3>2
      <4> QED BY <1>3, <1>4, <2>1, <4>1
    <3> QED BY <1>3, <3>2, <3>3
  <2>2. CASE ~PAIRP(w[length + 1])
    <3>1. length' = length + 1 /\ runner' = w[length + 1] /\ w[length + 1] \in Cells
      BY <1>1, <1>2, <1>5, <2>2, WalkStep DEF Advance
    <3>2. ASSUME NEW n \in 0..(length' - 1) PROVE PAIRP(w[n])
      <4>1. n \in 0..(length - 1) \/ n = length
        BY <1>1, <3>1
      <4> QED BY <1>3, <1>4, <4>1
    <3> QED BY <1>3, <2>2, <3>1, <3>2
  <2> QED BY <2>1, <2>2
<1>7. ASSUME NEW m \in 0..k PROVE w[2 * m + 1] # w[m]
  <2>1. m \in 0..(k - 1) \/ m = k
    BY <1>3
  <2> QED BY <1>2, <1>3, <2>1 DEF Chasing
<1>8. k < Size
  BY <1>1, <1>2, SlowOneIsInside
<1>9. length' \in Nat /\ k + 1 < length' /\ length' <= 2 * Size + 1 /\ length' >= 1
  BY <1>1, <1>3, <1>6, <1>8
<1>10. PICK j \in Nat : j = k + 1
  BY <1>3
<1>11. Chasing(w, j)'
  <2>1. \A m \in 0..(j - 1) : w[2 * m + 1] # w[m]
    BY <1>3, <1>7, <1>10
  <2>2. (\A n \in 0..(length - 1) : PAIRP(w[n]))'
    BY <1>6 DEF PAIRP
  <2>3. (length = 2 * j + 1 \/ (length = 2 * j /\ ~PAIRP(runner)))'
    BY <1>6, <1>10 DEF PAIRP
  <2>4. (j < length)' /\ (lst = w[j])' /\ (runner = w[length])'
    BY <1>5, <1>6, <1>9, <1>10
  <2> QED BY <2>1, <2>2, <2>3, <2>4, Zenon DEF Chasing
<1>12. IsWalk(w)'
  BY <1>2, WalkKept DEF Advance
<1>13. TypeOK'
  BY <1>1, <1>5, <1>6, <1>9 DEF TypeOK, Advance, Size
<1> QED BY <1>1, <1>11, <1>12, <1>13 DEF IInv, LengthIsRight, ArityTestIsRight, Advance

LEMMA LoopKeepsIInv == ASSUME IInv, Loop PROVE IInv'
<1>1. TypeOK /\ HeapOK /\ target \in Int /\ target >= 0 /\ length \in Nat /\ Size \in Nat
  BY TypesKept DEF IInv, Loop
<1>2. PICK w, k : IsWalk(w) /\ Chasing(w, k)
  BY DEF IInv, Loop
<1>3. k \in Nat /\ k < length /\ lst = w[k] /\ runner = w[length]
  BY <1>2 DEF Chasing
<1>4. \A n \in 0..(length - 1) : PAIRP(w[n])
  BY <1>2 DEF Chasing
<1>5. PAIRP(lst) /\ PAIRP(w[0]) /\ w[0] = arg
  <2>1. k \in 0..(length - 1) /\ 0 \in 0..(length - 1)
    BY <1>1, <1>3
  <2> QED BY <1>2, <1>3, <1>4, <2>1 DEF IsWalk
<1>6. arg # "NULL" /\ arg # "atom"
  BY <1>5, AtomsAreNoPairs
<1>7. length \in -6..(2 * Size + 3) /\ length > 0
  BY <1>1, <1>3 DEF TypeOK, Size
<1>8. ASSUME ~PAIRP(runner)
      PROVE  /\ ~Cyclic /\ End = runner /\ NrPairs = length
             /\ ProperList(target) <=> runner = "nil" /\ target = length
  <2>1. Ends(w, length)
    BY <1>3, <1>4, <1>8 DEF Ends
  <2> QED BY <1>1, <1>2, <1>3, <1>7, <2>1, EndFound
<1>9. CASE InLoop /\ runner = lst /\ return(-2)
  <2>1. w[k] = w[length] /\ PAIRP(w[length])
    BY <1>3, <1>5, <1>9
  <2>2. PAIRP(w[Size])
    BY <1>1, <1>2, <1>3, <2>1, CircleHasNoEnd
  <2>3. Cyclic
    BY <1>2, <2>2, ListWithoutEnd
  <2> QED BY <1>1, <1>6, <1>9, <2>3, Returned DEF ProperList
<1>10. CASE InLoop /\ runner # lst /\ PAIRP(runner) /\ Advance
  BY <1>10, AdvanceKeepsIInv DEF Loop
<1>11. CASE InLoop /\ runner # lst /\ runner = "nil" /\ return(length)
  <2>1. /\ ~Cyclic /\ End = "nil" /\ NrPairs = length
        /\ ProperList(target) <=> target = length
    BY <1>8, <1>11, AtomsAreNoPairs
  <2> QED BY <1>6, <1>7, <1>11, <2>1, Returned
<1>12. CASE InLoop /\ runner # lst /\ runner = "atom" /\ return(-4)
  <2>1. ~Cyclic /\ End = "atom" /\ ~ProperList(target)
    BY <1>8, <1>12, AtomsAreNoPairs
  <2> QED BY <1>1, <1>6, <1>12, <2>1, Returned
<1>13. CASE ~InLoop /\ target > 0 /\ length > target /\ return(0)
  <2>1. target \in Nat /\ \A n \in 0..target : n \in 0..(length - 1)
    BY <1>1, <1>13
  <2>2. ~ProperList(target)
    BY <1>1, <1>2, <1>4, <2>1, LongerList
  <2> QED BY <1>1, <1>13, <2>2, Returned
<1>14. CASE ~InLoop /\ ~(target > 0 /\ length > target) /\ return(-5)
  <2>1. runner = "NULL"
    BY <1>1, <1>5, <1>14, AtomsAreNoPairs DEF InLoop
  <2>2. ~Cyclic /\ End = "NULL" /\ ~ProperList(target)
    BY <1>8, <2>1, AtomsAreNoPairs
  <2> QED BY <1>1, <1>6, <1>14, <2>2, Returned
<1> QED BY <1>9, <1>10, <1>11, <1>12, <1>13, <1>14 DEF Loop

LEMMA StutterKeepsIInv == ASSUME IInv, UNCHANGED vars PROVE IInv'
<1>1. Tail' = Tail
  BY Zenon DEF vars, Tail, PAIRP
<1>2. Cyclic' = Cyclic /\ NrPairs' = NrPairs /\ End' = End
  BY <1>1 DEF Cyclic, NrPairs, End, PAIRP
<1>3. TypeOK' /\ LengthIsRight' /\ ArityTestIsRight'
  BY <1>2 DEF IInv, vars, TypeOK, LengthIsRight, ArityTestIsRight, ProperList
<1>4. ASSUME pc = "loop"
      PROVE  \E w, k : IsWalk(w)' /\ Chasing(w, k)'
  <2>1. PICK w, k : IsWalk(w) /\ Chasing(w, k)
    BY <1>4 DEF IInv
  <2>2. IsWalk(w)' /\ Chasing(w, k)'
    BY <2>1, WalkKept DEF vars, Chasing, PAIRP
  <2> QED BY <2>2
<1> QED BY <1>3, <1>4 DEF IInv, vars

-----------------------------------------------------------------------------
THEOREM Invariance == Spec => []IInv
<1>1. IInv /\ [Next]_vars => IInv'
  BY EntryKeepsIInv, LoopKeepsIInv, StutterKeepsIInv DEF Next
<1> QED BY InitIInv, <1>1, PTL DEF Spec

(* The locals stay in their ranges on every heap: length never exceeds     *)
(* twice the number of pairs by more than three.                           *)
THEOREM TypeCorrect == Spec => []TypeOK
BY Invariance, PTL DEF IInv

(* proper_list_length without a target returns the length of every proper  *)
(* list, and for every other argument the number of what is wrong with it. *)
THEOREM LengthsAreRight == Spec => []LengthIsRight
BY Invariance, PTL DEF IInv

(* The arity tests: proper_list_length(x, n) = n exactly if x is a proper  *)
(* list of n elements, whatever n the primitive asks for.                  *)
THEOREM ArityTestsAreRight == Spec => []ArityTestIsRight
BY Invariance, PTL DEF IInv

(* What is left to be done at most: a number that every step makes smaller *)
(* and no step brings below zero.                                          *)
Left ==
  IF pc = "entry" THEN 2 * Size + 5
  ELSE IF pc = "loop" THEN 2 * Size + 4 - length ELSE 0

StepsToGo == Left \in Nat /\ Left' \in Nat /\ Left' < Left

(* Every call makes at most 2 * Size + 5 steps, on cyclic lists too: with  *)
(* the fairness of Spec this is why Returns holds.                         *)
THEOREM StepsAreBounded == Spec => [][StepsToGo]_vars
<1>1. ASSUME IInv, IInv', Next
      PROVE  StepsToGo
  <2>1. Size \in Nat /\ length \in 1..(2 * Size + 3) /\ length' \in 1..(2 * Size + 3)
    BY <1>1, SizeProperties DEF IInv, TypeOK, Size
  <2>2. Left' = IF pc' = "entry" THEN 2 * Size + 5
                ELSE IF pc' = "loop" THEN 2 * Size + 4 - length' ELSE 0
    BY DEF Left, Size
  <2>3. CASE Entry
    <3>1. pc = "entry" /\ pc' \in {"loop", "done"}
      BY <2>3 DEF Entry, return
    <3>2. Left = 2 * Size + 5
      BY <3>1 DEF Left
    <3>3. Left' = 0 \/ Left' = 2 * Size + 4 - length'
      BY <2>2, <3>1
    <3> QED BY <2>1, <3>2, <3>3 DEF StepsToGo
  <2>4. CASE Loop
    <3>1. pc = "loop" /\ Left = 2 * Size + 4 - length
      BY <2>4 DEF Loop, Left
    <3>2. pc' = "done" \/ (pc' = "loop" /\ length' >= length + 1)
      BY <2>1, <2>4 DEF Loop, return, Advance
    <3>3. Left' = 0 \/ (Left' = 2 * Size + 4 - length' /\ length' >= length + 1)
      BY <2>2, <3>2
    <3> QED BY <2>1, <3>1, <3>3 DEF StepsToGo
  <2> QED BY <1>1, <2>3, <2>4 DEF Next
<1> QED BY <1>1, Invariance, PTL DEF Spec
=============================================================================
