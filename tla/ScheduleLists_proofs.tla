------------------------ MODULE ScheduleLists_proofs ------------------------
(***************************************************************************)
(* The list of class Schedule, kept and searched by bisect through a       *)
(* comparison that is no total order, computes what module Schedules says  *)
(* of the set of its slots: for every list, every time and every grace     *)
(* period.                                                                 *)
(***************************************************************************)
EXTENDS ScheduleLists, WellFoundedInduction, TLAPS

\* Every set of numbers has a least one.  The proofs by induction below take
\* the least counterexample.
LEMMA LeastNat ==
  ASSUME NEW T \in SUBSET Nat, T # {}
  PROVE  \E m \in T : \A n \in T : m <= n
<1> DEFINE R == OpToRel(<, Nat)
<1>1. IsWellFoundedOn(R, Nat)
  BY NatLessThanWellFounded
<1>2. \A m, n \in Nat : m < n => <<m, n>> \in R
  BY DEF OpToRel
<1> HIDE DEF R
<1>3. PICK m \in T : \A n \in T : ~(<<n, m>> \in R)
  BY <1>1, WFMin
<1>4. \A n \in T : ~(n < m)
  BY <1>2, <1>3
<1> QED
  BY <1>4

-----------------------------------------------------------------------------
(* The loop of bisect.                                                     *)

\* One turn of it, on lo .. hi, given what it returns for shorter ones.
Turn(right, f, lo, hi) ==
  IF lo >= hi THEN lo
  ELSE LET mid == (lo + hi) \div 2
       IN  IF right[mid + 1] THEN f[mid + 1][hi] ELSE f[lo][mid]

Positions(n) == 0 .. n

\* f is what the loop returns for every lo .. hi of at most k of n positions.
Returns(right, n, f, k) ==
  \A lo, hi \in Positions(n) : hi - lo <= k => f[lo][hi] = Turn(right, f, lo, hi)

Results(n) == [Positions(n) -> [Positions(n) -> Positions(n)]]

LEMMA Middle ==
  ASSUME NEW lo \in Nat, NEW hi \in Nat, lo < hi
  PROVE  /\ (lo + hi) \div 2 \in Nat
         /\ lo <= (lo + hi) \div 2 /\ (lo + hi) \div 2 < hi
OBVIOUS

\* Both halves of lo .. hi are shorter and within it.
LEMMA TurnStays ==
  ASSUME NEW n \in Nat, NEW right \in [1 .. n -> BOOLEAN], NEW f \in Results(n),
         NEW lo \in Positions(n), NEW hi \in Positions(n)
  PROVE  Turn(right, f, lo, hi) \in Positions(n)
<1>1. Positions(n) = 0 .. n
  BY DEF Positions
<1>2. CASE lo < hi
  <2> DEFINE mid == (lo + hi) \div 2
  <2>1. mid \in Nat /\ lo <= mid /\ mid < hi
    BY <1>1, <1>2, Middle
  <2> HIDE DEF mid
  <2>2. mid \in Positions(n) /\ mid + 1 \in Positions(n)
    BY <1>1, <2>1
  <2>3. f[mid + 1][hi] \in Positions(n) /\ f[lo][mid] \in Positions(n)
    BY <2>2 DEF Results
  <2> QED
    BY <2>3 DEF Turn, mid
<1>3. CASE ~(lo < hi)
  BY <1>1, <1>3 DEF Turn
<1> QED
  BY <1>2, <1>3

LEMMA OneMoreTurn ==
  ASSUME NEW n \in Nat, NEW right \in [1 .. n -> BOOLEAN], NEW k \in Nat,
         NEW f \in Results(n), Returns(right, n, f, k)
  PROVE  \E g \in Results(n) : Returns(right, n, g, k + 1)
<1> DEFINE P == Positions(n)
           g == [lo \in P |-> [hi \in P |-> Turn(right, f, lo, hi)]]
<1>1. P = 0 .. n
  BY DEF Positions
<1>2. g \in Results(n) /\ \A lo, hi \in P : g[lo][hi] = Turn(right, f, lo, hi)
  BY TurnStays DEF Results
<1> HIDE DEF g
<1>3. ASSUME NEW lo \in P, NEW hi \in P, hi - lo <= k + 1
      PROVE  g[lo][hi] = Turn(right, g, lo, hi)
  <2>1. CASE lo >= hi
    BY <1>2, <2>1 DEF Turn
  <2>2. CASE lo < hi
    <3> DEFINE mid == (lo + hi) \div 2
    <3>1. mid \in Nat /\ lo <= mid /\ mid < hi /\ lo \in Nat /\ hi \in Nat
      BY <1>1, <2>2, Middle
    <3> HIDE DEF mid
    <3>2. mid \in P /\ mid + 1 \in P /\ hi - (mid + 1) <= k /\ mid - lo <= k
      BY <1>1, <1>3, <3>1
    <3>3. g[lo][mid] = f[lo][mid] /\ g[mid + 1][hi] = f[mid + 1][hi]
      BY <1>2, <3>2 DEF Returns
    <3> QED
      BY <1>2, <2>2, <3>1, <3>3 DEF Turn, mid
  <2> QED
    BY <1>1, <2>1, <2>2
<1> QED
  BY <1>2, <1>3 DEF Returns

\* The loop ends: there is a function that is what it returns.
LEMMA LoopEnds ==
  ASSUME NEW n \in Nat, NEW right \in [1 .. n -> BOOLEAN]
  PROVE  \E f \in Results(n) : Returns(right, n, f, n)
<1> DEFINE Never == { k \in Nat : ~ \E f \in Results(n) : Returns(right, n, f, k) }
<1>1. \E f \in Results(n) : Returns(right, n, f, 0)
  <2> DEFINE f == [lo \in Positions(n) |-> [hi \in Positions(n) |-> lo]]
  <2>1. f \in Results(n) /\ \A lo, hi \in Positions(n) : f[lo][hi] = lo
    BY DEF Results
  <2> HIDE DEF f
  <2>2. Returns(right, n, f, 0)
    BY <2>1 DEF Returns, Turn, Positions
  <2> QED
    BY <2>1, <2>2
<1>2. SUFFICES ASSUME Never # {}
               PROVE  FALSE
  OBVIOUS
<1>3. PICK m \in Never : \A k \in Never : m <= k
  BY <1>2, LeastNat
<1>4. m - 1 \in Nat /\ m - 1 \notin Never /\ (m - 1) + 1 = m
  BY <1>1, <1>3
<1> QED
  BY <1>3, <1>4, OneMoreTurn

\* The recursive function of Bisect is such a function.
LEMMA LoopIsDefined ==
  ASSUME NEW n \in Nat, NEW right \in [1 .. n -> BOOLEAN], NEW search,
         search = CHOOSE f :
           f = [lo \in 0 .. n |->
                 [hi \in 0 .. n |->
                   IF lo >= hi THEN lo
                   ELSE LET mid == (lo + hi) \div 2
                        IN  IF right[mid + 1] THEN f[mid + 1][hi] ELSE f[lo][mid]]]
  PROVE  Returns(right, n, search, n)
<1> DEFINE P == 0 .. n
           Body(f) ==
             [lo \in P |->
               [hi \in P |->
                 IF lo >= hi THEN lo
                 ELSE LET mid == (lo + hi) \div 2
                      IN  IF right[mid + 1] THEN f[mid + 1][hi] ELSE f[lo][mid]]]
<1>1. search = CHOOSE f : f = Body(f)
  OBVIOUS
<1>2. \A f : Body(f) = [lo \in P |-> [hi \in P |-> Turn(right, f, lo, hi)]]
  BY DEF Turn
<1> HIDE DEF Body
<1>3. \E f : f = Body(f)
  <2>1. PICK f \in Results(n) : Returns(right, n, f, n)
    BY LoopEnds
  <2>2. \A lo, hi \in P : f[lo][hi] = Turn(right, f, lo, hi)
    BY <2>1 DEF Returns, Positions
  <2>3. f = [lo \in P |-> [hi \in P |-> f[lo][hi]]]
    BY <2>1 DEF Results, Positions
  <2>4. Body(f) = [lo \in P |-> [hi \in P |-> f[lo][hi]]]
    BY <1>2, <2>2
  <2> QED
    BY <2>3, <2>4
<1>4. search = Body(search)
  BY <1>1, <1>3
<1>5. \A lo, hi \in P : Body(search)[lo][hi] = Turn(right, search, lo, hi)
  BY <1>2
<1>6. \A lo, hi \in P : search[lo][hi] = Turn(right, search, lo, hi)
  BY <1>4, <1>5, Zenon
<1> QED
  BY <1>6 DEF Returns, Positions

\* Where the search stops, it would go on to the right of nothing after and of
\* everything before, if that is so at all from some position on.
LEMMA LoopFinds ==
  ASSUME NEW n \in Nat, NEW right \in [1 .. n -> BOOLEAN],
         NEW f, Returns(right, n, f, n),
         \A i, j \in 1 .. n : i < j /\ right[j] => right[i]
  PROVE  /\ f[0][n] \in 0 .. n
         /\ \A i \in 1 .. n : right[i] <=> i <= f[0][n]
<1> DEFINE P == Positions(n)
           Around(lo, hi) == \A i \in 1 .. n :
             /\ i <= lo => right[i]
             /\ i > hi => ~right[i]
           Right(lo, hi) == f[lo][hi] \in P /\ Around(f[lo][hi], f[lo][hi])
           Wrong == { k \in Nat :
             \E lo, hi \in P : lo <= hi /\ hi - lo = k /\ Around(lo, hi) /\ ~Right(lo, hi) }
<1>1. P = 0 .. n
  BY DEF Positions
<1>2. Wrong = {}
  <2> SUFFICES ASSUME Wrong # {}
               PROVE  FALSE
    OBVIOUS
  <2>1. PICK m \in Wrong : \A k \in Wrong : m <= k
    BY LeastNat
  <2>2. PICK lo \in P, hi \in P :
          lo <= hi /\ hi - lo = m /\ Around(lo, hi) /\ ~Right(lo, hi)
    BY <2>1
  <2>3. lo \in Nat /\ hi \in Nat /\ hi <= n /\ m = hi - lo
    BY <1>1, <2>2
  <2>4. f[lo][hi] = Turn(right, f, lo, hi)
    BY <2>3 DEF Returns
  <2>5. CASE lo = hi
    <3>1. f[lo][hi] = lo
      BY <2>3, <2>4, <2>5 DEF Turn
    <3> QED
      BY <2>2, <2>5, <3>1
  <2>6. CASE lo < hi
    <3> DEFINE mid == (lo + hi) \div 2
    <3>1. mid \in Nat /\ lo <= mid /\ mid < hi
      BY <2>3, <2>6, Middle
    <3>2. f[lo][hi] = IF right[mid + 1] THEN f[mid + 1][hi] ELSE f[lo][mid]
      BY <2>3, <2>4, <2>6 DEF Turn
    <3> HIDE DEF mid
    <3>3. /\ mid \in P /\ mid + 1 \in P /\ mid + 1 \in 1 .. n
          /\ hi - (mid + 1) \in Nat /\ ~(m <= hi - (mid + 1)) /\ mid + 1 <= hi
          /\ mid - lo \in Nat /\ ~(m <= mid - lo)
      BY <1>1, <2>3, <3>1
    <3>4. \A i \in 1 .. n : i <= mid + 1 => i = mid + 1 \/ i < mid + 1
      BY <3>1
    <3>5. CASE right[mid + 1]
      <4>1. Around(mid + 1, hi)
        BY <2>2, <3>3, <3>4, <3>5
      <4> HIDE DEF Around, Right
      <4>2. ~Right(mid + 1, hi)
        BY <2>2, <3>2, <3>5 DEF Right
      <4>3. hi - (mid + 1) \in Wrong
        BY <2>2, <3>3, <4>1, <4>2
      <4> QED
        BY <2>1, <3>3, <4>3
    <3>6. CASE ~right[mid + 1]
      <4>1. Around(lo, mid)
        <5> SUFFICES ASSUME NEW i \in 1 .. n
                     PROVE  (i <= lo => right[i]) /\ (i > mid => ~right[i])
          OBVIOUS
        <5>1. i > mid => i = mid + 1 \/ mid + 1 < i
          BY <3>1
        <5> QED
          BY <2>2, <3>3, <3>6, <5>1
      <4> HIDE DEF Around, Right
      <4>2. ~Right(lo, mid)
        BY <2>2, <3>2, <3>6 DEF Right
      <4>3. mid - lo \in Wrong
        BY <2>2, <3>1, <3>3, <4>1, <4>2
      <4> QED
        BY <2>1, <3>3, <4>3
    <3> QED
      BY <3>5, <3>6
  <2> QED
    BY <2>2, <2>3, <2>5, <2>6
<1>3. 0 \in P /\ n \in P /\ 0 <= n /\ n - 0 = n
  BY <1>1
<1>4. Around(0, n)
  OBVIOUS
<1>5. Right(0, n)
  <2> HIDE DEF Around, Right
  <2> QED
    BY <1>2, <1>3, <1>4
<1>6. f[0][n] \in 0 .. n /\ Around(f[0][n], f[0][n])
  BY <1>1, <1>5
<1> QED
  BY <1>6

LEMMA BisectFinds ==
  ASSUME NEW right \in Seq(BOOLEAN),
         \A i, j \in 1 .. Len(right) : i < j /\ right[j] => right[i]
  PROVE  /\ Bisect(right) \in 0 .. Len(right)
         /\ \A i \in 1 .. Len(right) : right[i] <=> i <= Bisect(right)
<1> DEFINE n == Len(right)
           search == CHOOSE f :
             f = [lo \in 0 .. n |->
                   [hi \in 0 .. n |->
                     IF lo >= hi THEN lo
                     ELSE LET mid == (lo + hi) \div 2
                          IN  IF right[mid + 1] THEN f[mid + 1][hi] ELSE f[lo][mid]]]
<1>1. Bisect(right) = search[0][n]
  BY DEF Bisect
<1>2. n \in Nat /\ right \in [1 .. n -> BOOLEAN]
  OBVIOUS
<1>3. \A i, j \in 1 .. n : i < j /\ right[j] => right[i]
  OBVIOUS
<1> HIDE DEF n
<1>4. Returns(right, n, search, n)
  BY <1>2, LoopIsDefined
<1> HIDE DEF search
<1>5. /\ Bisect(right) \in 0 .. n
      /\ \A i \in 1 .. n : right[i] <=> i <= Bisect(right)
  BY <1>1, <1>2, <1>3, <1>4, LoopFinds
<1> QED
  BY <1>5 DEF n

-----------------------------------------------------------------------------
(* Lists in order.                                                         *)

\* A list __cmp__ finds sorted: each slot is before every later one.
Sorted(a) ==
  /\ a \in Seq(Slices)
  /\ \A i, j \in 1 .. Len(a) : i < j => Before(a[i], a[j])

\* __cmp__ is no total order, but its "less" is a strict partial order on what
\* TimeSlice.__init__ accepts.
LEMMA BeforeIsStrict ==
  /\ \A x, y, z \in Slices : Before(x, y) /\ Before(y, z) => Before(x, z)
  /\ \A x, y \in Slices : Before(x, y) => ~Before(y, x)
BY DEF Before, Slices

LEMMA BeforePrecedes ==
  ASSUME NEW x \in Slices, NEW y \in Slices
  PROVE  Before(x, y) <=> Precedes(x, y) /\ ~Conflict(x, y)
BY DEF Before, Precedes, Conflict, Slices

\* bisect_left returns the number of slots that are before x.
LEMMA LeftCounts ==
  ASSUME NEW a, Sorted(a), NEW x \in Slices
  PROVE  /\ BisectLeft(a, x) \in 0 .. Len(a)
         /\ \A i \in 1 .. Len(a) : Before(a[i], x) <=> i <= BisectLeft(a, x)
<1> DEFINE right == [i \in DOMAIN a |-> Before(a[i], x)]
<1>1. a \in Seq(Slices) /\ DOMAIN a = 1 .. Len(a) /\ Len(a) \in Nat
  BY DEF Sorted
<1>2. \A i \in 1 .. Len(a) : Before(a[i], x) \in BOOLEAN
  BY DEF Before
<1>3. /\ right \in Seq(BOOLEAN) /\ Len(right) = Len(a)
      /\ \A i \in 1 .. Len(a) : right[i] = Before(a[i], x)
  BY <1>1, <1>2
<1>4. BisectLeft(a, x) = Bisect(right)
  BY DEF BisectLeft
<1> HIDE DEF right
<1>5. ASSUME NEW i \in 1 .. Len(a), NEW j \in 1 .. Len(a), i < j, Before(a[j], x)
      PROVE  Before(a[i], x)
  BY <1>1, <1>5, BeforeIsStrict DEF Sorted
<1>6. \A i, j \in 1 .. Len(right) : i < j /\ right[j] => right[i]
  BY <1>3, <1>5
<1> QED
  BY <1>3, <1>4, <1>6, BisectFinds

\* bisect_right returns the number of slots x is not before.
LEMMA RightCounts ==
  ASSUME NEW a, Sorted(a), NEW x \in Slices
  PROVE  /\ BisectRight(a, x) \in 0 .. Len(a)
         /\ \A i \in 1 .. Len(a) : Before(x, a[i]) <=> i > BisectRight(a, x)
<1> DEFINE right == [i \in DOMAIN a |-> ~Before(x, a[i])]
<1>1. a \in Seq(Slices) /\ DOMAIN a = 1 .. Len(a) /\ Len(a) \in Nat
  BY DEF Sorted
<1>2. \A i \in 1 .. Len(a) : (~Before(x, a[i])) \in BOOLEAN
  BY DEF Before
<1>3. /\ right \in Seq(BOOLEAN) /\ Len(right) = Len(a)
      /\ \A i \in 1 .. Len(a) : right[i] = (~Before(x, a[i]))
  BY <1>1, <1>2
<1>4. BisectRight(a, x) = Bisect(right)
  BY DEF BisectRight
<1> HIDE DEF right
<1>5. ASSUME NEW i \in 1 .. Len(a), NEW j \in 1 .. Len(a), i < j, Before(x, a[i])
      PROVE  Before(x, a[j])
  BY <1>1, <1>5, BeforeIsStrict DEF Sorted
<1>6. \A i, j \in 1 .. Len(right) : i < j /\ right[j] => right[i]
  BY <1>3, <1>5
<1>7. Bisect(right) \in 0 .. Len(a) /\ \A i \in 1 .. Len(a) : right[i] <=> i <= Bisect(right)
  BY <1>3, <1>6, BisectFinds
<1> QED
  BY <1>1, <1>3, <1>4, <1>7

\* The elements of a part of a list.
LEMMA PartElements ==
  ASSUME NEW a \in Seq(Slices), NEW m \in 0 .. Len(a), NEW n \in 0 .. Len(a)
  PROVE  /\ SubSeq(a, m + 1, n) \in Seq(Slices)
         /\ Len(SubSeq(a, m + 1, n)) = IF m <= n THEN n - m ELSE 0
         /\ \A i \in 1 .. Len(SubSeq(a, m + 1, n)) : SubSeq(a, m + 1, n)[i] = a[m + i]
         /\ ToSet(SubSeq(a, m + 1, n)) = {a[i] : i \in {k \in 1 .. Len(a) : m < k /\ k <= n}}
<1> DEFINE s == SubSeq(a, m + 1, n)
           T == {k \in 1 .. Len(a) : m < k /\ k <= n}
<1>1. /\ s \in Seq(Slices)
      /\ Len(s) = IF m <= n THEN n - m ELSE 0
      /\ \A i \in 1 .. Len(s) : s[i] = a[m + i]
  OBVIOUS
<1>2. Len(a) \in Nat /\ DOMAIN s = 1 .. Len(s) /\ Len(s) \in Nat
  BY <1>1
<1> HIDE DEF s
<1>3. ASSUME NEW i \in 1 .. Len(s)
      PROVE  m + i \in T /\ s[i] = a[m + i]
  BY <1>1, <1>2
<1>4. ASSUME NEW k \in T
      PROVE  k - m \in 1 .. Len(s) /\ s[k - m] = a[k]
  <2>1. k - m \in 1 .. Len(s) /\ m + (k - m) = k
    BY <1>1, <1>2
  <2> QED
    BY <1>1, <2>1
<1>5. ToSet(s) \subseteq {a[i] : i \in T}
  BY <1>2, <1>3 DEF ToSet
<1>6. {a[i] : i \in T} \subseteq ToSet(s)
  BY <1>2, <1>4 DEF ToSet
<1> QED
  BY <1>1, <1>5, <1>6 DEF s

LEMMA ListElements ==
  ASSUME NEW a \in Seq(Slices)
  PROVE  /\ ToSet(a) = {a[i] : i \in 1 .. Len(a)}
         /\ ToSet(a) \subseteq Slices
BY DEF ToSet

\* check_availability returns the slots that conflict with x, and no other.
LEMMA AvailabilityOfSorted ==
  ASSUME NEW a, Sorted(a), NEW x \in Slices
  PROVE  ListCheckAvailability(a, x) = CheckAvailability(ToSet(a), x)
<1> DEFINE m == BisectLeft(a, x)
           n == BisectRight(a, x)
<1>1. a \in Seq(Slices) /\ Len(a) \in Nat
  BY DEF Sorted
<1>2. m \in 0 .. Len(a) /\ \A i \in 1 .. Len(a) : Before(a[i], x) <=> i <= m
  BY LeftCounts
<1>3. n \in 0 .. Len(a) /\ \A i \in 1 .. Len(a) : Before(x, a[i]) <=> i > n
  BY RightCounts
<1>4. ListCheckAvailability(a, x) = ToSet(SubSeq(a, m + 1, n))
  BY DEF ListCheckAvailability
<1> HIDE DEF m, n
<1>5. ListCheckAvailability(a, x) = {a[i] : i \in {k \in 1 .. Len(a) : m < k /\ k <= n}}
  BY <1>1, <1>2, <1>3, <1>4, PartElements
<1>6. \A i \in 1 .. Len(a) : Conflict(x, a[i]) <=> m < i /\ i <= n
  BY <1>1, <1>2, <1>3 DEF Conflict
<1>7. CheckAvailability(ToSet(a), x) = {y \in {a[i] : i \in 1 .. Len(a)} : Conflict(x, y)}
  BY <1>1, ListElements DEF CheckAvailability
<1> QED
  BY <1>5, <1>6, <1>7

\* make_current cuts off exactly the slots that have ended.
LEMMA MakeCurrentOfSorted ==
  ASSUME NEW a, Sorted(a), NEW t \in Nat
  PROVE  /\ Sorted(ListMakeCurrent(a, t))
         /\ ToSet(ListMakeCurrent(a, t)) = MakeCurrent(ToSet(a), t)
<1> DEFINE x == TimeSlice(t, t)
           m == BisectLeft(a, x)
           c == SubSeq(a, m + 1, Len(a))
<1>1. a \in Seq(Slices) /\ Len(a) \in Nat
  BY DEF Sorted
<1>2. x \in Slices
  BY DEF TimeSlice, Slices
<1>3. m \in 0 .. Len(a) /\ \A i \in 1 .. Len(a) : Before(a[i], x) <=> i <= m
  BY <1>2, LeftCounts
<1>4. ListMakeCurrent(a, t) = c
  BY DEF ListMakeCurrent
<1> HIDE DEF m, x
<1>5. /\ c \in Seq(Slices) /\ Len(c) = Len(a) - m
      /\ \A i \in 1 .. Len(c) : c[i] = a[m + i]
      /\ ToSet(c) = {a[i] : i \in {k \in 1 .. Len(a) : m < k /\ k <= Len(a)}}
  <2>1. Len(a) \in 0 .. Len(a) /\ m <= Len(a)
    BY <1>1, <1>3
  <2>2. \A n \in 0 .. Len(a) :
          LET s == SubSeq(a, m + 1, n)
          IN  /\ s \in Seq(Slices) /\ Len(s) = IF m <= n THEN n - m ELSE 0
              /\ \A i \in 1 .. Len(s) : s[i] = a[m + i]
              /\ ToSet(s) = {a[i] : i \in {k \in 1 .. Len(a) : m < k /\ k <= n}}
    BY <1>1, <1>3, PartElements
  <2> QED
    BY <2>1, <2>2
<1> HIDE DEF c
<1>6. Sorted(c)
  <2> SUFFICES ASSUME NEW i \in 1 .. Len(c), NEW j \in 1 .. Len(c), i < j
               PROVE  Before(c[i], c[j])
    BY <1>5 DEF Sorted
  <2>1. m + i \in 1 .. Len(a) /\ m + j \in 1 .. Len(a) /\ m + i < m + j
    BY <1>1, <1>3, <1>5
  <2> QED
    BY <1>5, <2>1 DEF Sorted
<1>7. \A i \in 1 .. Len(a) : ~Before(a[i], x) <=> m < i /\ i <= Len(a)
  BY <1>1, <1>3
<1>8. MakeCurrent(ToSet(a), t) = {y \in {a[i] : i \in 1 .. Len(a)} : ~Before(y, x)}
  BY <1>1, ListElements DEF MakeCurrent, x
<1> QED
  BY <1>4, <1>5, <1>6, <1>7, <1>8

\* What a method finds at the head of the list is the first slot of the set.
LEMMA FirstOfSorted ==
  ASSUME NEW a, Sorted(a), NEW t \in Nat, NEW c, c = ListMakeCurrent(a, t)
  PROVE  /\ c \in Seq(Slices)
         /\ FirstSlot(ToSet(a), t) = IF c = <<>> THEN {} ELSE {c[1]}
<1>1. Sorted(c) /\ ToSet(c) = MakeCurrent(ToSet(a), t)
  BY MakeCurrentOfSorted
<1>2. c \in Seq(Slices) /\ ToSet(c) = {c[i] : i \in 1 .. Len(c)} /\ Len(c) \in Nat
  BY <1>1, ListElements DEF Sorted
<1>3. FirstSlot(ToSet(a), t) = {x \in ToSet(c) : \A y \in ToSet(c) : Precedes(x, y)}
  BY <1>1 DEF FirstSlot
<1>4. CASE c = <<>>
  BY <1>2, <1>3, <1>4
<1>5. CASE c # <<>>
  <2>1. 1 \in 1 .. Len(c) /\ c[1] \in Slices /\ c[1] \in ToSet(c)
    BY <1>2, <1>5
  <2>2. ASSUME NEW y \in ToSet(c)
        PROVE  Precedes(c[1], y)
    <3>1. PICK j \in 1 .. Len(c) : y = c[j]
      BY <1>2
    <3>2. CASE j = 1
      BY <2>1, <3>1, <3>2 DEF Precedes, Slices
    <3>3. CASE j # 1
      <4>1. Before(c[1], c[j]) /\ c[j] \in Slices
        BY <1>1, <1>2, <2>1, <3>1, <3>3 DEF Sorted
      <4> QED
        BY <2>1, <3>1, <4>1, BeforePrecedes
    <3> QED
      BY <3>2, <3>3
  <2>3. ASSUME NEW x \in ToSet(c), \A y \in ToSet(c) : Precedes(x, y)
        PROVE  x = c[1]
    <3>1. x \in Slices /\ Precedes(x, c[1]) /\ Precedes(c[1], x)
      BY <1>2, <2>1, <2>2, <2>3
    <3>2. x.start = c[1].start /\ x.end = c[1].end
      BY <2>1, <3>1 DEF Precedes, Slices
    <3> QED
      BY <2>1, <3>1, <3>2 DEF Slices
  <2>4. \A x \in ToSet(c) : (\A y \in ToSet(c) : Precedes(x, y)) <=> x = c[1]
    BY <2>2, <2>3
  <2>5. FirstSlot(ToSet(a), t) = {c[1]}
    BY <1>3, <2>1, <2>4
  <2> QED
    BY <1>2, <1>5, <2>5
<1> QED
  BY <1>2, <1>4, <1>5

LEMMA CurrentOfSorted ==
  ASSUME NEW a, Sorted(a), NEW t \in Nat
  PROVE  /\ ListCurrentSlot(a, t) \in Seq(Slices)
         /\ Len(ListCurrentSlot(a, t)) \in {0, 1}
         /\ ToSet(ListCurrentSlot(a, t)) = CurrentSlot(ToSet(a), t)
<1> DEFINE c == ListMakeCurrent(a, t)
           on == c # <<>> /\ ContainsIncludeStart(c[1], t)
<1>1. /\ c \in Seq(Slices)
      /\ FirstSlot(ToSet(a), t) = IF c = <<>> THEN {} ELSE {c[1]}
  BY FirstOfSorted
<1>2. ListCurrentSlot(a, t) = IF on THEN <<c[1]>> ELSE <<>>
  BY DEF ListCurrentSlot
<1> HIDE DEF c
<1>3. CurrentSlot(ToSet(a), t) = IF on THEN {c[1]} ELSE {}
  BY <1>1 DEF CurrentSlot
<1>4. CASE on
  <2>1. c[1] \in Slices
    BY <1>1, <1>4
  <2>2. /\ <<c[1]>> \in Seq(Slices) /\ Len(<<c[1]>>) = 1
        /\ ToSet(<<c[1]>>) = {c[1]}
    BY <2>1 DEF ToSet
  <2> QED
    BY <1>2, <1>3, <1>4, <2>2
<1>5. CASE ~on
  <2>1. <<>> \in Seq(Slices) /\ Len(<<>>) = 0 /\ ToSet(<<>>) = {}
    BY DEF ToSet
  <2> QED
    BY <1>2, <1>3, <1>5, <2>1
<1> QED
  BY <1>4, <1>5

LEMMA PruneOfSorted ==
  ASSUME NEW a, Sorted(a), NEW t \in Nat
  PROVE  /\ ListPruneToCurrent(a, t) \in Seq(Slices)
         /\ Len(ListPruneToCurrent(a, t)) \in {0, 1}
         /\ ToSet(ListPruneToCurrent(a, t)) = PruneToCurrent(ToSet(a), GraceTime, t)
<1> DEFINE s == ListCurrentSlot(a, t)
           Cut(x) == TimeSlice(x.start, IF x.end > t + GraceTime THEN t + GraceTime ELSE x.end)
           Cuts(x) == IF x.end > t + GraceTime THEN TimeSlice(x.start, t + GraceTime) ELSE x
           p == ListPruneToCurrent(a, t)
<1>1. s \in Seq(Slices) /\ Len(s) \in {0, 1} /\ ToSet(s) = CurrentSlot(ToSet(a), t)
  BY CurrentOfSorted
<1>2. p = [i \in DOMAIN s |-> Cuts(s[i])]
  BY DEF ListPruneToCurrent
<1>3. PruneToCurrent(ToSet(a), GraceTime, t) = {Cut(x) : x \in ToSet(s)}
  BY <1>1 DEF PruneToCurrent
<1>4. \A x \in ToSet(s) : x \in Slices /\ ContainsIncludeStart(x, t)
  <2>1. ToSet(s) \subseteq Slices
    BY <1>1, ListElements
  <2> QED
    BY <1>1, <2>1 DEF CurrentSlot
<1>5. GraceTime \in Nat
  BY TimesAssumption
<1> HIDE DEF s, p
<1>6. \A x \in ToSet(s) : Cuts(x) = Cut(x) /\ Cut(x) \in Slices
  <2> SUFFICES ASSUME NEW x \in ToSet(s)
               PROVE  Cuts(x) = Cut(x) /\ Cut(x) \in Slices
    OBVIOUS
  <2>1. x \in Slices /\ x.start <= t
    BY <1>4 DEF ContainsIncludeStart, Slices
  <2>2. x = TimeSlice(x.start, x.end)
    BY <2>1 DEF Slices, TimeSlice
  <2> QED
    BY <1>5, <2>1, <2>2 DEF Slices, TimeSlice
<1>7. DOMAIN s = 1 .. Len(s) /\ ToSet(s) = {s[i] : i \in 1 .. Len(s)}
  BY <1>1, ListElements
<1> HIDE DEF Cut, Cuts
<1>8. /\ p \in Seq(Slices) /\ Len(p) = Len(s)
      /\ \A i \in 1 .. Len(p) : p[i] = Cut(s[i])
  <2>1. \A i \in 1 .. Len(s) : Cuts(s[i]) = Cut(s[i]) /\ Cut(s[i]) \in Slices
    BY <1>6, <1>7
  <2> QED
    BY <1>1, <1>2, <1>7, <2>1
<1>9. ToSet(p) = {p[i] : i \in 1 .. Len(p)}
  BY <1>8, ListElements
<1> QED
  BY <1>1, <1>3, <1>7, <1>8, <1>9 DEF p

LEMMA NextEventOfSorted ==
  ASSUME NEW a, Sorted(a), NEW t \in Nat
  PROVE  ListNextEventTime(a, t) = NextEventTime(ToSet(a), t)
<1> DEFINE c == ListMakeCurrent(a, t)
<1>1. FirstSlot(ToSet(a), t) = IF c = <<>> THEN {} ELSE {c[1]}
  BY FirstOfSorted
<1>2. ListNextEventTime(a, t) =
        IF c = <<>> THEN {}
        ELSE {RoundUp(IF ContainsIncludeStart(c[1], t) THEN c[1].end ELSE c[1].start)}
  BY DEF ListNextEventTime
<1> HIDE DEF c
<1> QED
  BY <1>1, <1>2 DEF NextEventTime

-----------------------------------------------------------------------------
(* The list stays in order whatever is inserted and cut off.               *)

ListInv == Sorted(timeSlots) /\ now \in Nat

LEMMA TimesAreNat == Times \subseteq Nat /\ BoundedSlices \subseteq Slices
BY TimesAssumption DEF Times, BoundedSlices, Slices

\* The elements of a list put together from two parts and one slot.
LEMMA Joined ==
  ASSUME NEW low \in Seq(Slices), NEW x \in Slices, NEW high \in Seq(Slices),
         NEW b, b = low \o <<x>> \o high
  PROVE  /\ b \in Seq(Slices) /\ Len(b) = Len(low) + 1 + Len(high)
         /\ \A i \in 1 .. Len(low) : b[i] = low[i]
         /\ b[Len(low) + 1] = x
         /\ \A i \in 1 .. Len(high) : b[Len(low) + 1 + i] = high[i]
<1> DEFINE c == low \o <<x>>
<1>1. /\ c \in Seq(Slices) /\ Len(c) = Len(low) + 1 /\ Len(low) \in Nat
      /\ \A i \in 1 .. Len(low) : c[i] = low[i]
      /\ c[Len(low) + 1] = x
  OBVIOUS
<1>0. b = c \o high
  OBVIOUS
<1> HIDE DEF c
<1>2. /\ b \in Seq(Slices) /\ Len(b) = Len(c) + Len(high) /\ Len(high) \in Nat
      /\ \A i \in 1 .. Len(c) : b[i] = c[i]
      /\ \A i \in 1 .. Len(high) : b[Len(c) + i] = high[i]
  BY <1>0, <1>1
<1>3. \A i \in 1 .. Len(low) : b[i] = low[i]
  BY <1>1, <1>2
<1>4. b[Len(low) + 1] = x
  BY <1>1, <1>2
<1> QED
  BY <1>1, <1>2, <1>3, <1>4

\* insort, once check_availability has found no conflict: the slots up to the
\* place are before the new one, and the new one is before the rest.
LEMMA InsertKeepsSorted ==
  ASSUME NEW a, Sorted(a), NEW x \in Slices, ListCheckAvailability(a, x) = {}
  PROVE  Sorted(InsertAt(a, BisectRight(a, x) + 1, x))
<1> DEFINE n == BisectRight(a, x)
           b == InsertAt(a, n + 1, x)
<1>1. a \in Seq(Slices) /\ Len(a) \in Nat
  BY DEF Sorted
<1>2. n \in 0 .. Len(a) /\ \A i \in 1 .. Len(a) : Before(x, a[i]) <=> i > n
  BY RightCounts
<1>3. \A i \in 1 .. Len(a) : ~Conflict(x, a[i])
  <2>1. {y \in ToSet(a) : Conflict(x, y)} = {}
    BY AvailabilityOfSorted DEF CheckAvailability
  <2> QED
    BY <1>1, <2>1, ListElements
<1>4. \A i \in 1 .. Len(a) : i <= n => Before(a[i], x)
  BY <1>1, <1>2, <1>3 DEF Conflict
<1>5. b = SubSeq(a, 1, n) \o <<x>> \o SubSeq(a, n + 1, Len(a))
  <2>1. b = SubSeq(a, 1, (n + 1) - 1) \o <<x>> \o SubSeq(a, n + 1, Len(a))
    BY DEF InsertAt
  <2>2. (n + 1) - 1 = n
    BY <1>2
  <2> QED
    BY <2>1, <2>2
<1> HIDE DEF n, b
<1>6. /\ b \in Seq(Slices) /\ Len(b) = Len(a) + 1
      /\ \A i \in 1 .. Len(b) :
           b[i] = IF i <= n THEN a[i] ELSE IF i = n + 1 THEN x ELSE a[i - 1]
  <2>1. /\ SubSeq(a, 1, n) \in Seq(Slices) /\ Len(SubSeq(a, 1, n)) = n
        /\ \A i \in 1 .. n : SubSeq(a, 1, n)[i] = a[i]
    BY <1>1, <1>2
  <2>2. /\ SubSeq(a, n + 1, Len(a)) \in Seq(Slices)
        /\ Len(SubSeq(a, n + 1, Len(a))) = Len(a) - n
        /\ \A i \in 1 .. Len(a) - n : SubSeq(a, n + 1, Len(a))[i] = a[n + i]
    BY <1>1, <1>2
  <2> DEFINE low == SubSeq(a, 1, n)
             high == SubSeq(a, n + 1, Len(a))
  <2>3. /\ b \in Seq(Slices) /\ Len(b) = n + 1 + (Len(a) - n)
        /\ \A i \in 1 .. n : b[i] = low[i]
        /\ b[n + 1] = x
        /\ \A i \in 1 .. Len(a) - n : b[n + 1 + i] = high[i]
    <3>1. /\ low \in Seq(Slices) /\ Len(low) = n
          /\ high \in Seq(Slices) /\ Len(high) = Len(a) - n
          /\ b = low \o <<x>> \o high
      BY <1>5, <2>1, <2>2
    <3> HIDE DEF low, high
    <3>2. /\ b \in Seq(Slices) /\ Len(b) = Len(low) + 1 + Len(high)
          /\ \A i \in 1 .. Len(low) : b[i] = low[i]
          /\ b[Len(low) + 1] = x
          /\ \A i \in 1 .. Len(high) : b[Len(low) + 1 + i] = high[i]
      <4>1. \A l, h, c : /\ l \in Seq(Slices) /\ h \in Seq(Slices)
                         /\ c = l \o <<x>> \o h
                         => /\ c \in Seq(Slices) /\ Len(c) = Len(l) + 1 + Len(h)
                            /\ \A i \in 1 .. Len(l) : c[i] = l[i]
                            /\ c[Len(l) + 1] = x
                            /\ \A i \in 1 .. Len(h) : c[Len(l) + 1 + i] = h[i]
        BY Joined
      <4>2. b \in Seq(Slices) /\ Len(b) = Len(low) + 1 + Len(high)
        BY <3>1, <4>1
      <4>3. \A i \in 1 .. Len(low) : b[i] = low[i]
        BY <3>1, <4>1
      <4>4. b[Len(low) + 1] = x
        BY <3>1, <4>1
      <4>5. \A i \in 1 .. Len(high) : b[Len(low) + 1 + i] = high[i]
        BY <3>1, <4>1
      <4> QED
        BY <4>2, <4>3, <4>4, <4>5
    <3> QED
      BY <3>1, <3>2
  <2>4. Len(b) = Len(a) + 1
    BY <1>1, <1>2, <2>3
  <2> HIDE DEF low, high
  <2>5. ASSUME NEW i \in 1 .. Len(b), i > n + 1
        PROVE  b[i] = a[i - 1]
    <3>1. i \in Nat /\ n \in Nat /\ Len(a) \in Nat /\ i <= Len(a) + 1 /\ n <= Len(a)
      BY <1>1, <1>2, <2>4
    <3> DEFINE k == i - (n + 1)
    <3>2. k \in 1 .. Len(a) - n /\ n + 1 + k = i /\ n + k = i - 1
      BY <2>5, <3>1
    <3> HIDE DEF k
    <3> QED
      BY <2>2, <2>3, <3>2 DEF high
  <2>6. \A i \in 1 .. n : b[i] = a[i]
    BY <2>1, <2>3 DEF low
  <2> QED
    BY <1>1, <1>2, <2>3, <2>4, <2>5, <2>6
<1>7. ASSUME NEW i \in 1 .. Len(b), NEW j \in 1 .. Len(b), i < j
      PROVE  Before(b[i], b[j])
  <2>1. /\ i \in Nat /\ j \in Nat /\ n \in Nat /\ Len(a) \in Nat /\ n <= Len(a)
        /\ 1 <= i /\ j <= Len(a) + 1
    BY <1>1, <1>2, <1>6
  <2>2. /\ b[i] = IF i <= n THEN a[i] ELSE IF i = n + 1 THEN x ELSE a[i - 1]
        /\ b[j] = IF j <= n THEN a[j] ELSE IF j = n + 1 THEN x ELSE a[j - 1]
    BY <1>6
  <2>3. \A k, l \in 1 .. Len(a) : k < l => Before(a[k], a[l])
    BY DEF Sorted
  <2>4. CASE j <= n
    <3>1. i \in 1 .. Len(a) /\ j \in 1 .. Len(a) /\ i <= n
      BY <1>7, <2>1, <2>4
    <3> QED
      BY <1>7, <2>2, <2>3, <2>4, <3>1
  <2>5. CASE j = n + 1
    <3>1. i \in 1 .. Len(a) /\ i <= n /\ ~(j <= n)
      BY <1>7, <2>1, <2>5
    <3> QED
      BY <1>4, <2>2, <2>5, <3>1
  <2>6. CASE j > n + 1
    <3>1. j - 1 \in 1 .. Len(a) /\ j - 1 > n /\ ~(j <= n) /\ j # n + 1
      BY <2>1, <2>6
    <3>2. b[j] = a[j - 1]
      BY <2>2, <3>1
    <3>3. CASE i <= n
      <4>1. i \in 1 .. Len(a) /\ i < j - 1
        BY <2>1, <3>1, <3>3
      <4> QED
        BY <2>2, <2>3, <3>1, <3>2, <3>3, <4>1
    <3>4. CASE i = n + 1
      <4>1. ~(i <= n)
        BY <2>1, <3>4
      <4> QED
        BY <1>2, <2>2, <3>1, <3>2, <3>4, <4>1
    <3>5. CASE i > n + 1
      <4>1. i - 1 \in 1 .. Len(a) /\ i - 1 < j - 1 /\ ~(i <= n) /\ i # n + 1
        BY <1>7, <2>1, <3>5
      <4> QED
        BY <2>2, <2>3, <3>1, <3>2, <4>1
    <3> QED
      BY <2>1, <3>3, <3>4, <3>5
  <2> QED
    BY <2>1, <2>4, <2>5, <2>6
<1> QED
  BY <1>6, <1>7 DEF Sorted, b, n

LEMMA ListInvInductive == Spec => []ListInv
<1>1. Init => ListInv
  BY DEF Init, ListInv, Sorted
<1>2. ListInv /\ [Next]_<<timeSlots, now>> => ListInv'
  <2> SUFFICES ASSUME ListInv, [Next]_<<timeSlots, now>>
               PROVE  ListInv'
    OBVIOUS
  <2>1. CASE \E x \in BoundedSlices : ScheduleSlot(x)
    <3>1. PICK x \in BoundedSlices : ScheduleSlot(x)
      BY <2>1
    <3>2. x \in Slices
      BY TimesAreNat
    <3>3. Sorted(InsertAt(timeSlots, BisectRight(timeSlots, x) + 1, x))
      BY <3>1, <3>2, InsertKeepsSorted DEF ListInv, ScheduleSlot
    <3> QED
      BY <3>1, <3>3 DEF ListInv, ScheduleSlot, Sorted
  <2>2. CASE \E t \in Times : MakeCurrentAt(t)
    <3>1. PICK t \in Times : MakeCurrentAt(t)
      BY <2>2
    <3>2. t \in Nat
      BY TimesAreNat
    <3>3. Sorted(ListMakeCurrent(timeSlots, t))
      BY <3>2, MakeCurrentOfSorted DEF ListInv
    <3> QED
      BY <3>1, <3>2, <3>3 DEF ListInv, MakeCurrentAt, Sorted
  <2>3. CASE \E t \in Times : PruneAt(t)
    <3>1. PICK t \in Times : PruneAt(t)
      BY <2>3
    <3>2. t \in Nat
      BY TimesAreNat
    <3>3. /\ ListPruneToCurrent(timeSlots, t) \in Seq(Slices)
          /\ Len(ListPruneToCurrent(timeSlots, t)) \in {0, 1}
      BY <3>2, PruneOfSorted DEF ListInv
    <3>4. Sorted(ListPruneToCurrent(timeSlots, t))
      BY <3>3 DEF Sorted
    <3> QED
      BY <3>1, <3>2, <3>4 DEF ListInv, PruneAt, Sorted
  <2>4. CASE UNCHANGED <<timeSlots, now>>
    BY <2>4 DEF ListInv, Sorted
  <2> QED
    BY <2>1, <2>2, <2>3, <2>4 DEF Next
<1> QED
  BY <1>1, <1>2, PTL DEF Spec

\* check_availability on the coded list, at every point of every history of
\* insertions and prunings, returns the slots that conflict with the one asked
\* about: none is missed by the two binary searches and none is added.
THEOREM AvailabilityExact == Spec => []AvailabilityIsExact
<1>1. ListInv => AvailabilityIsExact
  BY AvailabilityOfSorted, TimesAreNat DEF ListInv, AvailabilityIsExact
<1> QED
  BY <1>1, ListInvInductive, PTL

\* make_current, get_current_slot, prune_to_current and get_next_event_time on
\* the coded list agree with their definitions on the set of its elements, for
\* every grace time and every time asked about: what the other modules assume
\* of the schedules is what the list does.
THEOREM MethodsAgreeAlways == Spec => []MethodsAgree
<1>1. ListInv => MethodsAgree
  BY MakeCurrentOfSorted, CurrentOfSorted, PruneOfSorted, NextEventOfSorted, TimesAreNat
     DEF ListInv, MethodsAgree
<1> QED
  BY <1>1, ListInvInductive, PTL

\* insort keeps the list in order of time and free of conflicts, although the
\* comparison it searches by is no total order.
THEOREM InsertionKeepsOrder == Spec => []ListInOrder
<1>1. ListInv => ListInOrder
  <2> SUFFICES ASSUME ListInv,
                      NEW i \in DOMAIN timeSlots, NEW j \in DOMAIN timeSlots, i < j
               PROVE  /\ Precedes(timeSlots[i], timeSlots[j])
                      /\ ~Conflict(timeSlots[i], timeSlots[j])
    BY DEF ListInOrder
  <2>1. /\ timeSlots[i] \in Slices /\ timeSlots[j] \in Slices
        /\ Before(timeSlots[i], timeSlots[j])
    BY DEF ListInv, Sorted
  <2> QED
    BY <2>1, BeforePrecedes
<1> QED
  BY <1>1, ListInvInductive, PTL

=============================================================================
