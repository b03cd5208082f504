------------------------ MODULE PatternEditorProofs -------------------------
(***************************************************************************)
(* Proofs about PatternEditor: whatever the user clicks, applies, resets,  *)
(* saves and reopens, frames and pins fit together, tracks stay in range   *)
(* with neutral ends, a click moves no other pin, and a track made from    *)
(* its pins is monotone between them.                                      *)
(*                                                                         *)
(* First the arithmetic of quotients rounded down, then each operator on   *)
(* tracks, then the invariant.                                             *)
(***************************************************************************)
EXTENDS PatternEditor, WellFoundedInduction, TLAPS

Values == -Full .. Full

-----------------------------------------------------------------------------
(* Quotients *)

LEMMA Quotient ==
    ASSUME NEW x \in Int, NEW m \in Nat \ {0}
    PROVE  /\ x \div m \in Int /\ x % m \in 0 .. m - 1
           /\ m * (x \div m) <= x /\ x < m * (x \div m) + m
           /\ x % m = x - m * (x \div m)
<1>1. x \div m \in Int /\ x % m \in 0 .. m - 1
  OBVIOUS
<1>2. x % m = x - m * (x \div m)
  OBVIOUS
<1>3. m * (x \div m) <= x
  OBVIOUS
<1>4. x < m * (x \div m) + m
  OBVIOUS
<1> QED
  BY <1>1, <1>2, <1>3, <1>4

\* Multiplying by a positive number keeps a strict order, by at least that number.
LEMMA Stretched ==
    ASSUME NEW a \in Int, NEW b \in Int, NEW m \in Nat \ {0}, a < b
    PROVE  m * a + m <= m * b
<1>1. m * (b - a - 1) >= 0
  OBVIOUS
<1> QED
  BY <1>1

LEMMA FloorBetween ==
    ASSUME NEW x \in Int, NEW m \in Nat \ {0}, NEW lo \in Int, NEW hi \in Int,
           m * lo <= x, x <= m * hi
    PROVE  lo <= x \div m /\ x \div m <= hi
<1>1. PICK q \in Int : q = x \div m
  BY Quotient
<1>2. m * q <= x /\ x < m * q + m
  BY <1>1, Quotient
<1>3. m * q \in Int /\ m * lo \in Int /\ m * hi \in Int
  OBVIOUS
<1>4. ASSUME q < lo PROVE FALSE
  BY <1>2, <1>3, <1>4, Stretched
<1>5. ASSUME hi < q PROVE FALSE
  BY <1>2, <1>3, <1>5, Stretched
<1> QED
  BY <1>1, <1>4, <1>5

LEMMA FloorMonotone ==
    ASSUME NEW x \in Int, NEW y \in Int, x <= y, NEW m \in Nat \ {0}
    PROVE  x \div m <= y \div m
<1>1. PICK q \in Int : q = x \div m
  BY Quotient
<1>2. PICK r \in Int : r = y \div m
  BY Quotient
<1>3. m * q <= x /\ y < m * r + m
  BY <1>1, <1>2, Quotient
<1>4. m * q \in Int /\ m * r \in Int
  OBVIOUS
<1>5. ASSUME r < q PROVE FALSE
  BY <1>3, <1>4, <1>5, Stretched
<1> QED
  BY <1>1, <1>2, <1>5

\* A step from a towards b, r parts of m, stays between the two.
LEMMA Between ==
    ASSUME NEW a \in Values, NEW b \in Values, NEW m \in Nat \ {0}, NEW r \in 0 .. m
    PROVE  /\ a + ((b - a) * r) \div m \in Values
           /\ r = 0 => a + ((b - a) * r) \div m = a
           /\ r = m => a + ((b - a) * r) \div m = b
<1> USE EditorAssumption DEF Values
<1>1. PICK d \in Int : d = b - a
  OBVIOUS
<1>2. d * r \in Int /\ m * d \in Int /\ m * 0 = 0
  OBVIOUS
<1>3. PICK q \in Int : q = (d * r) \div m
  BY <1>2, Quotient
<1>4. CASE d >= 0
  <2>1. 0 <= d * r /\ d * r <= m * d
    BY <1>4
  <2> QED
    BY <1>1, <1>2, <1>3, <1>4, <2>1, FloorBetween
<1>5. CASE d < 0
  <2>1. d * r <= 0 /\ m * d <= d * r
    BY <1>5
  <2> QED
    BY <1>1, <1>2, <1>3, <1>5, <2>1, FloorBetween
<1> QED
  BY <1>1, <1>4, <1>5

-----------------------------------------------------------------------------
(* Frames and the smoothstep *)

LEMMA RoundShape ==
    ASSUME NEW n \in Nat, NEW d \in Nat \ {0}, NEW most \in Nat, n <= d * most
    PROVE  Round(n, d) \in 0 .. most
<1>1. PICK q \in Int : q = n \div d
  BY Quotient
<1>2. PICK r \in 0 .. d - 1 : r = n % d
  BY Quotient
<1>3. n = d * q + r
  BY <1>1, <1>2, Quotient
<1>4. 0 <= q /\ q <= most
  BY <1>1, FloorBetween
<1>5. CASE q < most
  BY <1>1, <1>2, <1>4, <1>5 DEF Round
<1>6. CASE q = most
  <2>1. r = 0
    BY <1>3, <1>6
  <2> QED
    BY <1>1, <1>2, <1>4, <2>1 DEF Round
<1> QED
  BY <1>4, <1>5, <1>6

LEMMA FramesShape ==
    ASSUME NEW d \in Nat
    PROVE  FramesOf(d) \in Nat /\ FramesOf(d) >= 3
<1>1. Round(d, 2) \in 0 .. d
  BY RoundShape
<1> QED
  BY <1>1 DEF FramesOf

\* The smoothstep, times the cube of the segment's length, does not decrease.
Cubic(n, k) == k * k * (3 * n - 2 * k)

LEMMA CubicRises ==
    ASSUME NEW n \in Nat \ {0}, NEW l \in 0 .. n, NEW k \in 0 .. l
    PROVE  /\ 0 <= Cubic(n, k) /\ Cubic(n, k) <= Cubic(n, l)
           /\ Cubic(n, l) <= n * n * n
           /\ Cubic(n, 0) = 0 /\ Cubic(n, n) = n * n * n
<1>1. ASSUME NEW j \in 0 .. n, NEW i \in 0 .. j PROVE Cubic(n, i) <= Cubic(n, j)
  <2>1. 3 * n * (j + i) >= 3 * j * (j + i)
    OBVIOUS
  <2>2. 3 * j * (j + i) - 2 * (j * j + j * i + i * i) >= 0
    <3>1. j * j >= i * i /\ j * i >= i * i
      OBVIOUS
    <3>2. 3 * j * (j + i) - 2 * (j * j + j * i + i * i) = j * j + j * i - 2 * (i * i)
      OBVIOUS
    <3> QED
      BY <3>1, <3>2
  <2>3. (j - i) * (3 * n * (j + i) - 2 * (j * j + j * i + i * i)) >= 0
    BY <2>1, <2>2
  <2>4. Cubic(n, j) - Cubic(n, i) = (j - i) * (3 * n * (j + i) - 2 * (j * j + j * i + i * i))
    BY DEF Cubic
  <2> QED
    BY <2>3, <2>4 DEF Cubic
<1>2. Cubic(n, 0) = 0 /\ Cubic(n, n) = n * n * n
  BY DEF Cubic
<1> QED
  BY <1>1, <1>2

\* A segment stays between its pins and is monotone.
LEMMA SegmentShape ==
    ASSUME NEW t \in Nat, NEW y \in [0 .. t - 1 -> Values],
           NEW first \in 0 .. t - 1, NEW last \in 0 .. t - 1, first < last,
           NEW i \in first .. last, NEW j \in i .. last
    PROVE  /\ Segment(y, first, last, i) \in Values
           /\ Segment(y, first, last, first) = y[first]
           /\ Segment(y, first, last, last) = y[last]
           /\ IF y[first] <= y[last]
              THEN Segment(y, first, last, i) <= Segment(y, first, last, j)
              ELSE Segment(y, first, last, i) >= Segment(y, first, last, j)
<1> DEFINE a == y[first]
           b == y[last]
<1>1. PICK n \in Nat \ {0} : n = last - first
  OBVIOUS
<1>2. PICK m \in Nat \ {0} : m = n * n * n
  OBVIOUS
<1>3. a \in Values /\ b \in Values
  OBVIOUS
<1>4. ASSUME NEW f \in first .. last
      PROVE  /\ Cubic(n, f - first) \in 0 .. m
             /\ Segment(y, first, last, f) = a + ((b - a) * Cubic(n, f - first)) \div m
  <2>1. f - first \in 0 .. n
    BY <1>1
  <2>2. Cubic(n, f - first) \in 0 .. m
    <3>1. Cubic(n, f - first) \in Int
      BY <2>1 DEF Cubic
    <3> QED
      BY <1>2, <2>1, <3>1, CubicRises
  <2>3. (b - a) * (f - first) * (f - first) * (3 * n - 2 * (f - first))
          = (b - a) * Cubic(n, f - first)
    BY <1>3, EditorAssumption DEF Values, Cubic
  <2> QED
    BY <1>1, <1>2, <2>2, <2>3 DEF Segment
<1>5. ASSUME NEW f \in first .. last PROVE Segment(y, first, last, f) \in Values
  BY <1>2, <1>3, <1>4, <1>5, Between
<1>6. Segment(y, first, last, first) = a
  <2>1. Cubic(n, first - first) = 0
    BY <1>1 DEF Cubic
  <2> QED
    BY <1>2, <1>3, <1>4, <2>1, Between
<1>7. Segment(y, first, last, last) = b
  <2>1. Cubic(n, last - first) = m
    BY <1>1, <1>2 DEF Cubic
  <2> QED
    BY <1>2, <1>3, <1>4, <2>1, Between
<1>0. i \in first .. last /\ j \in first .. last
  OBVIOUS
<1>8. PICK c \in 0 .. m : c = Cubic(n, i - first)
  BY <1>0, <1>4
<1>9. PICK d \in 0 .. m : d = Cubic(n, j - first)
  BY <1>0, <1>4
<1>10. c <= d
  <2>1. PICK l \in 0 .. n : l = j - first
    BY <1>1
  <2>2. PICK k \in 0 .. l : k = i - first
    BY <2>1
  <2>3. Cubic(n, k) <= Cubic(n, l)
    BY CubicRises
  <2> QED
    BY <1>8, <1>9, <2>1, <2>2, <2>3
<1>11. PICK w \in Int : w = b - a
  BY <1>3, EditorAssumption DEF Values
<1>16. w * c \in Int /\ w * d \in Int
  BY <1>8, <1>9
<1>12. PICK p \in Int : p = (w * c) \div m
  BY <1>16, Quotient
<1>13. PICK q \in Int : q = (w * d) \div m
  BY <1>16, Quotient
<1>14. CASE a <= b
  <2>1. w * c <= w * d
    BY <1>3, <1>10, <1>11, <1>14, EditorAssumption DEF Values
  <2>2. p <= q
    BY <1>2, <1>12, <1>13, <2>1, FloorMonotone
  <2>3. Segment(y, first, last, i) = a + p /\ Segment(y, first, last, j) = a + q
    BY <1>0, <1>4, <1>8, <1>9, <1>11, <1>12, <1>13
  <2> QED
    BY <1>3, <1>5, <1>6, <1>7, <1>14, <2>2, <2>3, EditorAssumption DEF Values
<1>15. CASE ~(a <= b)
  <2>1. w * d <= w * c
    BY <1>3, <1>10, <1>11, <1>15, EditorAssumption DEF Values
  <2>2. q <= p
    BY <1>2, <1>12, <1>13, <2>1, FloorMonotone
  <2>3. Segment(y, first, last, i) = a + p /\ Segment(y, first, last, j) = a + q
    BY <1>0, <1>4, <1>8, <1>9, <1>11, <1>12, <1>13
  <2> QED
    BY <1>3, <1>5, <1>6, <1>7, <1>15, <2>2, <2>3, EditorAssumption DEF Values
<1> QED
  BY <1>14, <1>15

-----------------------------------------------------------------------------
(* Operators on tracks *)

\* Every set of natural numbers has a least element, from the library's well-foundedness.
LEMMA LessIsWellFounded == IsWellFoundedOn({pair \in Nat \X Nat : pair[1] < pair[2]}, Nat)
  BY NatLessThanWellFounded, Zenon DEF OpToRel

LEMMA Least ==
    ASSUME NEW S \in SUBSET Nat, S # {}
    PROVE  \E x \in S : \A y \in S : x <= y
<1> DEFINE Less == {pair \in Nat \X Nat : pair[1] < pair[2]}
<1>1. IsWellFoundedOn(Less, Nat)
  BY LessIsWellFounded
<1> HIDE DEF Less
<1>2. PICK x \in S : \A y \in S : ~ (<<y, x>> \in Less)
  BY <1>1, WFMin, Zenon
<1>3. ASSUME NEW y \in S, y < x PROVE FALSE
  <2>1. <<y, x>> \in Less
    BY <1>3 DEF Less
  <2> QED
    BY <1>2, <2>1
<1> QED
  BY <1>3

\* The frames a track of t frames may have pins on, both ends included.
Pinned(p, t) == p \in SUBSET (0 .. t - 1) /\ Ends(t) \subseteq p

LEMMA Neighbours ==
    ASSUME NEW t \in Nat, t >= 3, NEW p, Pinned(p, t), NEW i \in 0 .. t - 1, i \notin p
    PROVE  /\ Before(p, i) \in p /\ Before(p, i) < i
           /\ \A m \in p : m < i => m <= Before(p, i)
           /\ After(p, i) \in p /\ After(p, i) > i
           /\ \A m \in p : m > i => m >= After(p, i)
<1>1. 0 \in p /\ t - 1 \in p /\ 0 < i /\ i < t - 1 /\ p \subseteq 0 .. t - 1
  BY DEF Pinned, Ends
<1>2. \E k \in p : k < i /\ \A m \in p : m < i => m <= k
  <2>1. PICK x \in {i - m : m \in {k \in p : k < i}} :
           \A y \in {i - m : m \in {k \in p : k < i}} : x <= y
    <3>1. {i - m : m \in {k \in p : k < i}} \in SUBSET Nat
      BY <1>1
    <3>2. i - 0 \in {i - m : m \in {k \in p : k < i}}
      BY <1>1
    <3> QED
      BY <3>1, <3>2, Least, Zenon
  <2>2. PICK k \in p : k < i /\ x = i - k
    BY <2>1
  <2>3. ASSUME NEW m \in p, m < i PROVE m <= k
    <3>1. x <= i - m
      BY <2>1, <2>3
    <3> QED
      BY <1>1, <2>2, <3>1
  <2> QED
    BY <2>2, <2>3
<1>3. \E k \in p : k > i /\ \A m \in p : m > i => m >= k
  <2> DEFINE S == {l \in p : l > i}
  <2>0. \A l \in p : l \in Nat
    BY <1>1
  <2>1. S \in SUBSET Nat
    BY <2>0
  <2>2. S # {}
    BY <1>1
  <2>3. PICK k \in S : \A m \in S : k <= m
    BY <2>1, <2>2, Least, Zenon
  <2> QED
    BY <1>1, <2>3
<1>4. Before(p, i) \in p /\ Before(p, i) < i /\ \A m \in p : m < i => m <= Before(p, i)
  BY <1>2, Zenon DEF Before
<1>5. After(p, i) \in p /\ After(p, i) > i /\ \A m \in p : m > i => m >= After(p, i)
  BY <1>3, Zenon DEF After
<1> QED
  BY <1>4, <1>5

\* A track that is rebuilt keeps its pins and is monotone between them.
LEMMA RebuildShape ==
    ASSUME NEW t \in Nat, t >= 3, NEW y \in [0 .. t - 1 -> Values], NEW p, Pinned(p, t)
    PROVE  /\ Rebuild(y, p) \in [0 .. t - 1 -> Values]
           /\ \A i \in p : Rebuild(y, p)[i] = y[i]
           /\ Monotone(Rebuild(y, p), p)
<1> DEFINE z == Rebuild(y, p)
<1>1. /\ DOMAIN y = 0 .. t - 1 /\ DOMAIN z = 0 .. t - 1 /\ p \subseteq 0 .. t - 1
      /\ z = [i \in 0 .. t - 1 |->
                 IF i \in p THEN y[i] ELSE Segment(y, Before(p, i), After(p, i), i)]
  BY DEF Rebuild, Pinned
<1>2. \A i \in p : z[i] = y[i]
  BY <1>1
<1> HIDE DEF z
<1>3. ASSUME NEW i \in 0 .. t - 1 PROVE z[i] \in Values
  <2>1. CASE i \in p
    BY <1>2, <2>1
  <2>2. CASE i \notin p
    <3>1. /\ Before(p, i) \in 0 .. t - 1 /\ After(p, i) \in 0 .. t - 1
          /\ Before(p, i) < i /\ i < After(p, i)
      BY <1>1, <2>2, Neighbours
    <3>2. i \in Before(p, i) .. After(p, i)
      BY <3>1
    <3>3. Segment(y, Before(p, i), After(p, i), i) \in Values
      BY <3>1, <3>2, SegmentShape
    <3> QED
      BY <1>1, <2>2, <3>3
  <2> QED
    BY <2>1, <2>2
<1>4. ASSUME NEW i \in DOMAIN z, NEW j \in DOMAIN z, i < j,
             \A m \in i + 1 .. j - 1 : m \notin p
      PROVE  LET lo == IF i \in p THEN i ELSE Before(p, i)
                 hi == IF j \in p THEN j ELSE After(p, j)
             IN  IF z[lo] <= z[hi] THEN z[i] <= z[j] ELSE z[i] >= z[j]
  <2> DEFINE lo == IF i \in p THEN i ELSE Before(p, i)
             hi == IF j \in p THEN j ELSE After(p, j)
  <2>0. i \in 0 .. t - 1 /\ j \in 0 .. t - 1
    BY <1>1
  <2>1. lo \in p /\ lo <= i /\ \A m \in p : m <= i => m <= lo
    <3>1. CASE i \in p
      BY <1>1, <3>1
    <3>2. CASE i \notin p
      <4>1. Before(p, i) \in p /\ Before(p, i) < i /\ \A m \in p : m < i => m <= Before(p, i)
        BY <2>0, <3>2, Neighbours
      <4>2. ASSUME NEW m \in p, m <= i PROVE m <= Before(p, i)
        <5>1. m < i
          BY <1>1, <2>0, <3>2, <4>2
        <5> QED
          BY <4>1, <5>1
      <4>3. Before(p, i) <= i
        <5>1. PICK b \in 0 .. t - 1 : b = Before(p, i)
          BY <1>1, <4>1
        <5> QED
          BY <2>0, <4>1, <5>1
      <4> QED
        BY <3>2, <4>1, <4>2, <4>3
    <3> QED
      BY <3>1, <3>2
  <2>2. hi \in p /\ j <= hi /\ \A m \in p : m >= j => m >= hi
    <3>1. CASE j \in p
      BY <1>1, <3>1
    <3>2. CASE j \notin p
      <4>1. After(p, j) \in p /\ After(p, j) > j /\ \A m \in p : m > j => m >= After(p, j)
        BY <2>0, <3>2, Neighbours
      <4>2. ASSUME NEW m \in p, m >= j PROVE m >= After(p, j)
        <5>1. m > j
          BY <1>1, <2>0, <3>2, <4>2
        <5> QED
          BY <4>1, <5>1
      <4>3. j <= After(p, j)
        <5>1. PICK b \in 0 .. t - 1 : b = After(p, j)
          BY <1>1, <4>1
        <5> QED
          BY <2>0, <4>1, <5>1
      <4> QED
        BY <3>2, <4>1, <4>2, <4>3
    <3> QED
      BY <3>1, <3>2
  <2> HIDE DEF lo, hi
  <2>3. lo \in 0 .. t - 1 /\ hi \in 0 .. t - 1 /\ lo < hi
    BY <1>1, <1>4, <2>0, <2>1, <2>2
  <2>4. ASSUME NEW m \in p PROVE m <= lo \/ m >= hi
    <3>1. m <= i \/ m >= j
      BY <1>1, <1>4, <2>0
    <3> QED
      BY <2>1, <2>2, <3>1
  <2>5. ASSUME NEW f \in lo .. hi PROVE z[f] = Segment(y, lo, hi, f)
    <3>0. f \in 0 .. t - 1 /\ lo \in lo .. hi /\ hi \in f .. hi
      BY <2>3
    <3>1. CASE f \in p
      <4>1. f = lo \/ f = hi
        BY <2>3, <2>4, <3>1
      <4>2. Segment(y, lo, hi, lo) = y[lo] /\ Segment(y, lo, hi, hi) = y[hi]
        BY <2>3, <3>0, SegmentShape
      <4> QED
        BY <1>2, <3>1, <4>1, <4>2
    <3>2. CASE f \notin p
      <4>1. /\ Before(p, f) \in p /\ Before(p, f) < f
            /\ \A m \in p : m < f => m <= Before(p, f)
            /\ After(p, f) \in p /\ After(p, f) > f
            /\ \A m \in p : m > f => m >= After(p, f)
        BY <3>0, <3>2, Neighbours
      <4>2. lo < f /\ f < hi
        BY <2>1, <2>2, <2>3, <3>0, <3>2
      <4>3. Before(p, f) = lo
        <5>1. PICK b \in 0 .. t - 1 : b = Before(p, f)
          BY <1>1, <4>1
        <5>2. lo <= b
          BY <2>1, <4>1, <4>2, <5>1
        <5>3. b <= lo \/ b >= hi
          BY <2>4, <4>1, <5>1
        <5>4. b < f
          BY <4>1, <5>1
        <5> QED
          BY <2>3, <3>0, <4>2, <5>1, <5>2, <5>3, <5>4
      <4>4. After(p, f) = hi
        <5>1. PICK b \in 0 .. t - 1 : b = After(p, f)
          BY <1>1, <4>1
        <5>2. b <= hi
          <6>1. hi > f
            BY <2>3, <3>0, <4>2
          <6> QED
            BY <2>2, <2>3, <4>1, <5>1, <6>1
        <5>3. b <= lo \/ b >= hi
          BY <2>4, <4>1, <5>1
        <5>4. b > f
          BY <4>1, <5>1
        <5> QED
          BY <2>3, <3>0, <4>2, <5>1, <5>2, <5>3, <5>4
      <4> QED
        BY <1>1, <3>0, <3>2, <4>3, <4>4
    <3> QED
      BY <3>1, <3>2
  <2>6. i \in lo .. hi /\ j \in i .. hi /\ j \in lo .. hi /\ lo \in lo .. hi /\ hi \in lo .. hi
    BY <1>4, <2>0, <2>1, <2>2, <2>3
  <2>7. z[lo] = y[lo] /\ z[hi] = y[hi]
    BY <1>2, <2>1, <2>2
  <2>8. z[i] = Segment(y, lo, hi, i) /\ z[j] = Segment(y, lo, hi, j)
    BY <2>5, <2>6
  <2>9. IF y[lo] <= y[hi]
        THEN Segment(y, lo, hi, i) <= Segment(y, lo, hi, j)
        ELSE Segment(y, lo, hi, i) >= Segment(y, lo, hi, j)
    BY <2>3, <2>6, SegmentShape
  <2>10. IF z[lo] <= z[hi] THEN z[i] <= z[j] ELSE z[i] >= z[j]
    BY <2>7, <2>8, <2>9
  <2> QED
    BY <2>10 DEF lo, hi
<1>5. Monotone(z, p)
  BY <1>4 DEF Monotone
<1>6. z \in [0 .. t - 1 -> Values]
  BY <1>1, <1>3
<1> QED
  BY <1>2, <1>5, <1>6 DEF z

\* The segments hang on the pins alone: rebuilding twice is rebuilding once.
LEMMA RebuildTwice ==
    ASSUME NEW t \in Nat, t >= 3, NEW y \in [0 .. t - 1 -> Values], NEW p, Pinned(p, t)
    PROVE  Rebuild(Rebuild(y, p), p) = Rebuild(y, p)
<1> DEFINE z == Rebuild(y, p)
<1>1. DOMAIN y = 0 .. t - 1 /\ DOMAIN z = 0 .. t - 1
  BY DEF Rebuild
<1>2. \A i \in p : z[i] = y[i]
  BY RebuildShape
<1>3. Rebuild(y, p) = [i \in 0 .. t - 1 |->
          IF i \in p THEN y[i] ELSE Segment(y, Before(p, i), After(p, i), i)]
  BY <1>1 DEF Rebuild
<1> HIDE DEF z
<1>4. Rebuild(z, p) = [i \in 0 .. t - 1 |->
          IF i \in p THEN z[i] ELSE Segment(z, Before(p, i), After(p, i), i)]
  BY <1>1 DEF Rebuild
<1>5. ASSUME NEW i \in 0 .. t - 1, i \notin p
      PROVE  Segment(z, Before(p, i), After(p, i), i) = Segment(y, Before(p, i), After(p, i), i)
  <2>1. Before(p, i) \in p /\ After(p, i) \in p
    BY <1>5, Neighbours
  <2> QED
    BY <1>2, <2>1 DEF Segment
<1>6. Rebuild(z, p) = Rebuild(y, p)
  BY <1>2, <1>3, <1>4, <1>5
<1> QED
  BY <1>6 DEF z

\* A pin added at i, with its value, reaches no frame on the far side of another pin m.
LEMMA RebuildLocal ==
    ASSUME NEW t \in Nat, t >= 3, NEW y \in [0 .. t - 1 -> Values],
           NEW i \in 0 .. t - 1, NEW v \in Values, NEW p, Pinned(p, t),
           NEW j \in 0 .. t - 1
    PROVE  \/ Rebuild([y EXCEPT ![i] = v], p \cup {i})[j] = Rebuild(y, p)[j]
           \/ \A m \in p : ~(i < m /\ m <= j) /\ ~(j <= m /\ m < i)
<1> SUFFICES ASSUME NEW m \in p, (i < m /\ m <= j) \/ (j <= m /\ m < i)
             PROVE  Rebuild([y EXCEPT ![i] = v], p \cup {i})[j] = Rebuild(y, p)[j]
  OBVIOUS
<1>0. PICK z \in [0 .. t - 1 -> Values] : /\ z = [y EXCEPT ![i] = v]
                                          /\ \A k \in 0 .. t - 1 : k # i => z[k] = y[k]
  OBVIOUS
<1> DEFINE q == p \cup {i}
<1>1. /\ p \subseteq 0 .. t - 1 /\ Pinned(q, t) /\ p \subseteq q
      /\ \A k \in q : k \in p \/ k = i
  BY DEF Pinned
<1>2. DOMAIN y = 0 .. t - 1 /\ DOMAIN z = 0 .. t - 1 /\ j # i
  BY <1>1
<1> HIDE DEF q
<1>3. CASE j \in p
  <2>1. Rebuild(y, p)[j] = y[j] /\ Rebuild(z, q)[j] = z[j]
    BY <1>1, <1>3, RebuildShape
  <2> QED
    BY <1>0, <1>2, <2>1 DEF q
<1>4. CASE j \notin p
  <2>0. j \notin q
    BY <1>1, <1>2, <1>4
  <2>p. /\ Before(p, j) \in p /\ Before(p, j) < j /\ \A k \in p : k < j => k <= Before(p, j)
        /\ After(p, j) \in p /\ After(p, j) > j /\ \A k \in p : k > j => k >= After(p, j)
    BY <1>4, Neighbours
  <2>q. /\ Before(q, j) \in q /\ Before(q, j) < j /\ \A k \in q : k < j => k <= Before(q, j)
        /\ After(q, j) \in q /\ After(q, j) > j /\ \A k \in q : k > j => k >= After(q, j)
    BY <1>1, <2>0, Neighbours
  <2>1. PICK b : b = Before(p, j) /\ b \in p /\ b < j /\ \A k \in p : k < j => k <= b
    BY <2>p, Zenon
  <2>2. PICK a : a = After(p, j) /\ a \in p /\ a > j /\ \A k \in p : k > j => k >= a
    BY <2>p, Zenon
  <2>3. PICK c : c = Before(q, j) /\ c \in q /\ c < j /\ \A k \in q : k < j => k <= c
    BY <2>q, Zenon
  <2>4. PICK d : d = After(q, j) /\ d \in q /\ d > j /\ \A k \in q : k > j => k >= d
    BY <2>q, Zenon
  <2>5. a \in 0 .. t - 1 /\ b \in 0 .. t - 1 /\ c \in 0 .. t - 1 /\ d \in 0 .. t - 1
    BY <1>1, <2>1, <2>2, <2>3, <2>4
  <2>6. (i < j => i <= b /\ i # b) /\ (i > j => i >= a /\ i # a)
    BY <1>1, <1>4, <2>1, <2>2, <2>5
  <2>7. a # i /\ b # i
    BY <1>2, <2>1, <2>2, <2>5, <2>6
  <2>8. c = b
    BY <1>1, <1>2, <2>1, <2>3, <2>5, <2>6
  <2>9. d = a
    BY <1>1, <1>2, <2>2, <2>4, <2>5, <2>6
  <2>10. Segment(z, b, a, j) = Segment(y, b, a, j)
    BY <1>0, <2>5, <2>7 DEF Segment
  <2>11. Rebuild(y, p)[j] = Segment(y, b, a, j)
    BY <1>2, <1>4, <2>1, <2>2 DEF Rebuild
  <2>12. Rebuild(z, q)[j] = Segment(z, b, a, j)
    BY <1>2, <2>0, <2>3, <2>4, <2>8, <2>9 DEF Rebuild
  <2> QED
    BY <1>0, <2>10, <2>11, <2>12 DEF q
<1> QED
  BY <1>3, <1>4

LEMMA ResampleShape ==
    ASSUME NEW old \in Nat, old >= 3, NEW new \in Nat, new >= 3, NEW y \in [0 .. old - 1 -> Values]
    PROVE  /\ Resample(y, old, new) \in [0 .. new - 1 -> Values]
           /\ Resample(y, old, new)[0] = y[0]
           /\ Resample(y, old, new)[new - 1] = y[old - 1]
<1>1. PICK m \in Nat \ {0} : m = new - 1
  OBVIOUS
<1>2. PICK n \in Nat \ {0} : n = old - 1
  OBVIOUS
<1> DEFINE At(x) == IF x % m = 0 THEN y[x \div m]
                    ELSE y[x \div m] + ((y[x \div m + 1] - y[x \div m]) * (x % m)) \div m
<1>3. Resample(y, old, new) = [j \in 0 .. new - 1 |-> At(j * n)]
  BY <1>1, <1>2 DEF Resample
<1>4. ASSUME NEW j \in 0 .. new - 1 PROVE At(j * n) \in Values
  <2>1. PICK x \in Int : x = j * n
    OBVIOUS
  <2>2. m * 0 <= x /\ x <= m * n
    BY <1>1, <2>1
  <2>3. PICK q \in Int : q = x \div m
    BY Quotient
  <2>4. PICK r \in 0 .. m - 1 : r = x % m
    BY Quotient
  <2>5. q \in 0 .. n
    BY <2>2, <2>3, FloorBetween
  <2>6. r = x - m * q
    BY <2>3, <2>4, Quotient
  <2>7. CASE r = 0
    <3>1. y[q] \in Values
      BY <1>2, <2>5
    <3> QED
      BY <2>1, <2>3, <2>4, <2>7, <3>1
  <2>8. CASE r # 0
    <3>1. q # n
      BY <2>2, <2>4, <2>6, <2>8
    <3>2. y[q] \in Values /\ y[q + 1] \in Values
      BY <1>2, <2>5, <3>1
    <3>3. y[q] + ((y[q + 1] - y[q]) * r) \div m \in Values
      <4>1. PICK a \in Values : a = y[q]
        BY <3>2
      <4>2. PICK b \in Values : b = y[q + 1]
        BY <3>2
      <4>3. r \in 0 .. m
        BY <2>4
      <4>4. a + ((b - a) * r) \div m \in Values
        BY <4>3, Between
      <4> QED
        BY <4>1, <4>2, <4>4
    <3> QED
      BY <2>1, <2>3, <2>4, <2>8, <3>3
  <2> QED
    BY <2>7, <2>8
<1>5. At(0 * n) = y[0]
  <2>1. 0 * n = 0 /\ 0 \div m = 0 /\ 0 % m = 0
    BY Quotient
  <2> QED
    BY <2>1
<1>6. At((new - 1) * n) = y[old - 1]
  <2>1. PICK x \in Int : x = m * n
    OBVIOUS
  <2>2. x \div m = n
    <3>1. n <= x \div m /\ x \div m <= n
      BY <2>1, FloorBetween
    <3> QED
      BY <3>1, Quotient
  <2>3. x % m = 0
    <3>1. x % m = x - m * (x \div m)
      BY Quotient
    <3>2. x - m * n = 0
      BY <2>1
    <3> QED
      BY <2>2, <3>1, <3>2
  <2>4. x = (new - 1) * n
    BY <1>1, <2>1
  <2> QED
    BY <1>2, <2>2, <2>3, <2>4
<1> HIDE DEF At
<1>7. 0 \in 0 .. new - 1 /\ new - 1 \in 0 .. new - 1
  OBVIOUS
<1>8. Resample(y, old, new)[0] = At(0 * n) /\ Resample(y, old, new)[new - 1] = At((new - 1) * n)
  BY <1>3, <1>7
<1> QED
  BY <1>3, <1>4, <1>5, <1>6, <1>8

LEMMA RescaleShape ==
    ASSUME NEW old \in Nat, old >= 3, NEW new \in Nat, new >= 3, NEW p \in SUBSET (0 .. old - 1)
    PROVE  Pinned(RescalePins(p, old, new), new)
<1>1. ASSUME NEW i \in p PROVE Round(i * (new - 1), old - 1) \in 0 .. new - 1
  <2>1. PICK x \in Nat : x = i * (new - 1)
    OBVIOUS
  <2>2. PICK d \in Nat \ {0} : d = old - 1
    OBVIOUS
  <2>3. PICK most \in Nat : most = new - 1
    OBVIOUS
  <2>4. x <= d * most
    BY <2>1, <2>2, <2>3
  <2>5. Round(x, d) \in 0 .. most
    BY <2>4, RoundShape
  <2> QED
    BY <2>1, <2>2, <2>3, <2>5
<1>2. Ends(new) \subseteq 0 .. new - 1
  BY DEF Ends
<1> QED
  BY <1>1, <1>2 DEF RescalePins, Pinned

\* A flat track between its ends is all a new window has.
LEMMA FlatSound ==
    ASSUME NEW n \in Nat, n >= 3, NEW a \in Axes
    PROVE  /\ Flat(a, n) \in [0 .. n - 1 -> Values]
           /\ Flat(a, n)[0] = Baseline[a] /\ Flat(a, n)[n - 1] = Baseline[a]
           /\ Pinned(Ends(n), n)
           /\ Monotone(Flat(a, n), Ends(n)) /\ Rebuild(Flat(a, n), Ends(n)) = Flat(a, n)
<1>1. Baseline[a] \in Values
  BY EditorAssumption DEF Values
<1>2. \A i \in 0 .. n - 1 : Flat(a, n)[i] = Baseline[a]
  BY DEF Flat
<1>3. Flat(a, n) \in [0 .. n - 1 -> Values]
  BY <1>1 DEF Flat
<1>4. Pinned(Ends(n), n)
  BY DEF Pinned, Ends
<1>5. Monotone(Flat(a, n), Ends(n))
  BY <1>1, <1>2, EditorAssumption DEF Monotone, Flat, Values
<1> DEFINE y == Flat(a, n)
           p == Ends(n)
<1>6. DOMAIN y = 0 .. n - 1 /\ p \subseteq 0 .. n - 1 /\ y = [i \in 0 .. n - 1 |-> Baseline[a]]
  BY DEF Flat, Ends
<1> HIDE DEF y, p
<1>7. ASSUME NEW i \in 0 .. n - 1, i \notin p
      PROVE  Segment(y, Before(p, i), After(p, i), i) = Baseline[a]
  <2>1. PICK b \in 0 .. n - 1 : b = Before(p, i) /\ b < i
    BY <1>4, <1>6, <1>7, Neighbours DEF p
  <2>2. PICK c \in 0 .. n - 1 : c = After(p, i) /\ i < c
    BY <1>4, <1>6, <1>7, Neighbours DEF p
  <2>3. /\ b \in b .. c /\ i \in b .. c /\ c \in i .. c /\ b < c
        /\ y[b] = Baseline[a] /\ y[c] = Baseline[a]
    BY <1>2, <2>1, <2>2 DEF y
  <2>4. y \in [0 .. n - 1 -> Values]
    BY <1>3 DEF y
  <2>5. /\ Segment(y, b, c, i) \in Values /\ Segment(y, b, c, b) = y[b]
        /\ IF y[b] <= y[c] THEN Segment(y, b, c, b) <= Segment(y, b, c, i)
                           ELSE Segment(y, b, c, b) >= Segment(y, b, c, i)
    BY <2>3, <2>4, SegmentShape
  <2>6. /\ Segment(y, b, c, c) = y[c]
        /\ IF y[b] <= y[c] THEN Segment(y, b, c, i) <= Segment(y, b, c, c)
                           ELSE Segment(y, b, c, i) >= Segment(y, b, c, c)
    BY <2>3, <2>4, SegmentShape
  <2>7. Segment(y, b, c, i) = Baseline[a]
    BY <1>1, <2>3, <2>5, <2>6, EditorAssumption DEF Values
  <2> QED
    BY <2>1, <2>2, <2>7
<1>8. Rebuild(y, p) = y
  <2>1. Rebuild(y, p) = [i \in 0 .. n - 1 |->
            IF i \in p THEN y[i] ELSE Segment(y, Before(p, i), After(p, i), i)]
    BY <1>6 DEF Rebuild
  <2> QED
    BY <1>6, <1>7, <2>1
<1> QED
  BY <1>2, <1>3, <1>4, <1>5, <1>8 DEF y, p

-----------------------------------------------------------------------------
(* The invariant *)

LEMMA FlatWindow ==
    ASSUME NEW n \in Nat, n >= 3
    PROVE  Sound(n, [a \in Axes |-> Flat(a, n)], [a \in Axes |-> Ends(n)], Axes)
<1>1. ASSUME NEW a \in Axes
      PROVE  /\ Flat(a, n) \in [0 .. n - 1 -> -Full .. Full]
             /\ Ends(n) \in SUBSET (0 .. n - 1)
             /\ Flat(a, n)[0] = Baseline[a] /\ Flat(a, n)[n - 1] = Baseline[a]
             /\ Monotone(Flat(a, n), Ends(n)) /\ Rebuild(Flat(a, n), Ends(n)) = Flat(a, n)
  BY FlatSound DEF Values, Pinned
<1> QED
  BY <1>1 DEF Sound

LEMMA EditorInit == Init => EditorInv
<1> SUFFICES ASSUME Init PROVE EditorInv
  OBVIOUS
<1>1. FirstDuration \in Nat \ {0} /\ FramesOf(FirstDuration) \in Nat /\ FramesOf(FirstDuration) >= 3
  BY EditorAssumption, FramesShape
<1>2. Sound(T, tracks, pins, built)
  BY <1>1, FlatWindow DEF Init
<1>3. open \in BOOLEAN /\ typed \in Nat \ {0} /\ active \in Axes /\ saved = NotSaved
  BY <1>1 DEF Init
<1>4. edits \in 0 .. MaxEdits
  BY EditorAssumption DEF Init
<1> QED
  BY <1>2, <1>3, <1>4 DEF EditorInv

LEMMA EditorStep == EditorInv /\ [Next]_vars => EditorInv'
<1> SUFFICES ASSUME EditorInv, [Next]_vars PROVE EditorInv'
  OBVIOUS
<1> USE EditorAssumption
<1> DEFINE Kept == saved # NotSaved => /\ saved.duration \in Nat \ {0}
                                       /\ Sound(saved.T, saved.tracks, saved.pins, saved.built)
           Window == Sound(T, tracks, pins, built)
<1>0. /\ open \in BOOLEAN /\ typed \in Nat \ {0} /\ active \in Axes /\ edits \in 0 .. MaxEdits
      /\ Window /\ Kept
  BY DEF EditorInv
<1>a. /\ T \in Nat /\ T >= 3 /\ built \subseteq Axes
      /\ tracks \in [Axes -> [0 .. T - 1 -> Values]] /\ pins \in [Axes -> SUBSET (0 .. T - 1)]
      /\ \A a \in Axes : /\ Pinned(pins[a], T)
                         /\ tracks[a][0] = Baseline[a] /\ tracks[a][T - 1] = Baseline[a]
      /\ \A a \in built : Monotone(tracks[a], pins[a]) /\ Rebuild(tracks[a], pins[a]) = tracks[a]
  BY <1>0 DEF Sound, Values, Pinned
<1>1. CASE Open
  <2>1. CASE saved = NotSaved
    BY <1>0, <1>1, <2>1, FramesShape, FlatWindow DEF Open, EditorInv
  <2>2. CASE saved # NotSaved
    <3>1. Sound(saved.T, saved.tracks, saved.pins, saved.built)
      BY <1>0, <2>2
    <3>2. [a \in Axes |-> saved.pins[a] \cup Ends(saved.T)] = saved.pins
      BY <3>1 DEF Sound
    <3>3. Window'
      BY <1>1, <2>2, <3>1, <3>2 DEF Open
    <3> QED
      BY <1>0, <1>1, <2>2, <3>3 DEF Open, EditorInv
  <2> QED
    BY <2>1, <2>2
<1>2. CASE Close
  BY <1>0, <1>2 DEF Close, EditorInv
<1>3. CASE SaveAndPlay
  <2>1. [a \in Axes |-> PinEnds(a, tracks[a])] = tracks
    <3>1. ASSUME NEW a \in Axes PROVE PinEnds(a, tracks[a]) = tracks[a]
      BY <1>a DEF PinEnds, Ends
    <3> QED
      BY <1>a, <3>1
  <2>2. /\ saved'.T = T /\ saved'.tracks = tracks /\ saved'.pins = pins
        /\ saved'.duration = typed /\ saved'.built = built
    BY <1>3, <2>1 DEF SaveAndPlay
  <2> QED
    BY <1>0, <1>3, <2>2 DEF SaveAndPlay, EditorInv
<1>4. CASE Apply
  <2>1. typed' \in Nat \ {0} /\ FramesOf(typed') \in Nat /\ FramesOf(typed') >= 3
    BY <1>0, <1>4, FramesShape DEF Apply
  <2>2. CASE FramesOf(typed') = T
    BY <1>0, <1>4, <2>1, <2>2 DEF Apply, EditorInv
  <2>3. CASE FramesOf(typed') # T
    <3> DEFINE new == FramesOf(typed')
    <3>1. /\ T' = new /\ built' = {}
          /\ tracks' = [a \in Axes |-> Resample(tracks[a], T, new)]
          /\ pins' = [a \in Axes |-> RescalePins(pins[a], T, new)]
      BY <1>4, <2>3 DEF Apply
    <3>2. new \in Nat /\ new >= 3
      BY <2>1
    <3> HIDE DEF new
    <3>3. ASSUME NEW a \in Axes
          PROVE  /\ Resample(tracks[a], T, new) \in [0 .. new - 1 -> Values]
                 /\ Resample(tracks[a], T, new)[0] = Baseline[a]
                 /\ Resample(tracks[a], T, new)[new - 1] = Baseline[a]
                 /\ RescalePins(pins[a], T, new) \in SUBSET (0 .. new - 1)
                 /\ Ends(new) \subseteq RescalePins(pins[a], T, new)
      <4>1. /\ tracks[a] \in [0 .. T - 1 -> Values] /\ Pinned(pins[a], T)
            /\ tracks[a][0] = Baseline[a] /\ tracks[a][T - 1] = Baseline[a]
        BY <1>a
      <4>2. /\ Resample(tracks[a], T, new) \in [0 .. new - 1 -> Values]
            /\ Resample(tracks[a], T, new)[0] = Baseline[a]
            /\ Resample(tracks[a], T, new)[new - 1] = Baseline[a]
        BY <1>a, <3>2, <4>1, ResampleShape
      <4>3. Pinned(RescalePins(pins[a], T, new), new)
        BY <1>a, <3>2, <4>1, RescaleShape
      <4> QED
        BY <4>2, <4>3 DEF Pinned
    <3>4. Sound(new, tracks', pins', {})
      BY <3>1, <3>2, <3>3 DEF Sound, Values
    <3>5. Window'
      BY <3>1, <3>4
    <3> QED
      BY <1>0, <1>4, <2>1, <3>5 DEF Apply, EditorInv
  <2> QED
    BY <2>2, <2>3
<1>5. ASSUME NEW d \in Durations, TypeDuration(d) PROVE EditorInv'
  BY <1>0, <1>5 DEF TypeDuration, EditorInv
<1>6. ASSUME NEW b \in Axes, NEW i \in 0 .. T - 1, NEW v \in Strokes, Click(b, i, v)
      PROVE  EditorInv'
  <2> DEFINE p == pins[b] \cup {i} \cup Ends(T)
             y == PinEnds(b, [tracks[b] EXCEPT ![i] = v])
  <2>1. /\ tracks' = [tracks EXCEPT ![b] = Rebuild(y, p)] /\ pins' = [pins EXCEPT ![b] = p]
        /\ T' = T /\ built' = built \cup {b} /\ active' = b
        /\ edits' = edits + 1 /\ edits < MaxEdits /\ UNCHANGED <<open, typed, saved>>
    BY <1>6, <1>a DEF Click
  <2>2. y \in [0 .. T - 1 -> Values] /\ y[0] = Baseline[b] /\ y[T - 1] = Baseline[b]
    <3>1. [tracks[b] EXCEPT ![i] = v] \in [0 .. T - 1 -> Values] /\ Baseline[b] \in Values
      BY <1>a DEF Values
    <3> QED
      BY <1>a, <3>1 DEF PinEnds, Ends
  <2>3. Pinned(p, T) /\ 0 \in p /\ T - 1 \in p
    BY <1>a DEF Pinned, Ends
  <2> HIDE DEF y, p
  <2>4. /\ Rebuild(y, p) \in [0 .. T - 1 -> Values] /\ Monotone(Rebuild(y, p), p)
        /\ Rebuild(y, p)[0] = Baseline[b] /\ Rebuild(y, p)[T - 1] = Baseline[b]
        /\ Rebuild(Rebuild(y, p), p) = Rebuild(y, p)
    BY <1>a, <2>2, <2>3, RebuildShape, RebuildTwice
  <2>5. Sound(T, tracks', pins', built')
    <3>1. tracks' \in [Axes -> [0 .. T - 1 -> -Full .. Full]]
      BY <1>a, <2>1, <2>4 DEF Values
    <3>2. pins' \in [Axes -> SUBSET (0 .. T - 1)]
      BY <1>a, <2>1, <2>3 DEF Pinned
    <3>3. ASSUME NEW a \in Axes
          PROVE  /\ Ends(T) \subseteq pins'[a]
                 /\ tracks'[a][0] = Baseline[a] /\ tracks'[a][T - 1] = Baseline[a]
      BY <1>a, <2>1, <2>3, <2>4 DEF Pinned
    <3>4. ASSUME NEW a \in built'
          PROVE  Monotone(tracks'[a], pins'[a]) /\ Rebuild(tracks'[a], pins'[a]) = tracks'[a]
      BY <1>a, <2>1, <2>4
    <3>5. built' \subseteq Axes
      BY <1>a, <2>1
    <3> QED
      BY <1>a, <3>1, <3>2, <3>3, <3>4, <3>5 DEF Sound
  <2>6. Window' /\ Kept'
    BY <1>0, <2>1, <2>5
  <2> QED
    BY <1>0, <2>1, <2>6 DEF EditorInv
<1>7. ASSUME NEW a \in Axes, Enter(a) PROVE EditorInv'
  BY <1>0, <1>7 DEF Enter, EditorInv
<1>8. ASSUME NEW axes \in SUBSET Axes, Reset(axes) PROVE EditorInv'
  <2>1. /\ T' = T /\ built' = built \cup axes
        /\ tracks' = [a \in Axes |-> IF a \in axes THEN Flat(a, T) ELSE tracks[a]]
        /\ pins' = [a \in Axes |-> IF a \in axes THEN Ends(T) ELSE pins[a]]
    BY <1>8 DEF Reset
  <2>2. ASSUME NEW a \in Axes
        PROVE  /\ tracks'[a] \in [0 .. T - 1 -> Values] /\ Pinned(pins'[a], T)
               /\ tracks'[a][0] = Baseline[a] /\ tracks'[a][T - 1] = Baseline[a]
               /\ a \in built' => /\ Monotone(tracks'[a], pins'[a])
                                  /\ Rebuild(tracks'[a], pins'[a]) = tracks'[a]
    <3>1. CASE a \in axes
      BY <1>a, <2>1, <3>1, FlatSound
    <3>2. CASE a \notin axes
      BY <1>a, <2>1, <3>2
    <3> QED
      BY <3>1, <3>2
  <2>3. /\ tracks' = [a \in Axes |-> tracks'[a]] /\ pins' = [a \in Axes |-> pins'[a]]
    BY <2>1
  <2>4. Sound(T, tracks', pins', built')
    BY <1>a, <2>1, <2>2, <2>3 DEF Sound, Pinned, Values
  <2>5. Window'
    BY <2>1, <2>4
  <2> QED
    BY <1>0, <1>8, <2>5 DEF Reset, EditorInv
<1>9. CASE UNCHANGED vars
  BY <1>0, <1>9 DEF vars, EditorInv
<1> QED
  BY <1>0, <1>1, <1>2, <1>3, <1>4, <1>5, <1>6, <1>7, <1>8, <1>9 DEF Next

\* The open window and the saved pattern are both sound after any sequence of the window's
\* callbacks: a saved pattern comes back through on_save and __init__ as it left.
THEOREM EditorInvariance == Spec => []EditorInv
<1> QED
  BY EditorInit, EditorStep, PTL DEF Spec

\* A frame for every pin and a value in range for every frame, whatever the user does with
\* _on_click_drag, _apply_duration, the resets and reopened windows.
THEOREM EditorTypes == Spec => []TypeOK
<1>1. EditorInv => TypeOK
  BY DEF EditorInv, Sound, TypeOK
<1> QED
  BY <1>1, EditorInvariance, PTL

\* A pattern starts and ends in the neutral pose, for every duration, axis and stroke.
THEOREM EndsStayNeutral == Spec => []EndsNeutral
<1>1. EditorInv => EndsNeutral
  BY DEF EditorInv, Sound, EndsNeutral
<1> QED
  BY <1>1, EditorInvariance, PTL

\* What _rebuild_axis_from_pins or a reset has made is monotone between its pins.
THEOREM BuiltIsMonotone == Spec => []MonotoneWhenBuilt
<1>1. EditorInv => MonotoneWhenBuilt
  BY DEF EditorInv, Sound, MonotoneWhenBuilt
<1> QED
  BY <1>1, EditorInvariance, PTL

\* A click or a drag moves no pin but the one under it.
THEOREM PinsHold == Spec => OtherPinsHold
<1> DEFINE Step == edits' # edits /\ T' = T =>
                      \E b \in Axes, i \in 0 .. T - 1 :
                         \A a \in Axes : \A p \in pins[a] :
                             tracks'[a][p] # tracks[a][p] => a = b /\ p = i
<1>1. EditorInv /\ [Next]_vars => [Step]_vars
  <2> SUFFICES ASSUME EditorInv, Next, edits' # edits, T' = T PROVE Step
    OBVIOUS
  <2>0. /\ T \in Nat /\ T >= 3 /\ active \in Axes /\ tracks \in [Axes -> [0 .. T - 1 -> Values]]
        /\ \A a \in Axes : /\ Pinned(pins[a], T)
                           /\ tracks[a][0] = Baseline[a] /\ tracks[a][T - 1] = Baseline[a]
    BY DEF EditorInv, Sound, Values, Pinned
  <2>1. CASE Apply
    <3>1. tracks' = tracks
      BY <2>1 DEF Apply
    <3>2. 0 \in 0 .. T - 1
      BY <2>0
    <3> QED
      BY <2>0, <3>1, <3>2
  <2>2. ASSUME NEW b \in Axes, NEW i \in 0 .. T - 1, NEW v \in Strokes, Click(b, i, v)
        PROVE  Step
    <3> DEFINE p == pins[b] \cup {i} \cup Ends(T)
               y == PinEnds(b, [tracks[b] EXCEPT ![i] = v])
    <3>1. tracks' = [tracks EXCEPT ![b] = Rebuild(y, p)]
      BY <2>0, <2>2 DEF Click
    <3>2. y \in [0 .. T - 1 -> Values]
      BY <2>0, EditorAssumption DEF PinEnds, Ends, Values
    <3>3. Pinned(p, T)
      BY <2>0 DEF Pinned, Ends
    <3>4. ASSUME NEW k \in pins[b], k # i PROVE y[k] = tracks[b][k]
      BY <2>0, <3>4 DEF PinEnds, Ends, Pinned
    <3>5. \A k \in pins[b] : k \in p
      OBVIOUS
    <3> HIDE DEF y, p
    <3>6. \A k \in p : Rebuild(y, p)[k] = y[k]
      BY <2>0, <3>2, <3>3, RebuildShape
    <3>7. ASSUME NEW a \in Axes, NEW k \in pins[a], tracks'[a][k] # tracks[a][k]
          PROVE  a = b /\ k = i
      <4>1. a = b
        BY <2>0, <3>1, <3>7
      <4>2. tracks'[b][k] = y[k]
        BY <2>0, <3>1, <3>5, <3>6, <3>7, <4>1
      <4> QED
        BY <3>4, <3>7, <4>1, <4>2
    <3> QED
      BY <3>7
  <2>3. ~(Open \/ Close \/ SaveAndPlay \/ (\E d \in Durations : TypeDuration(d))
            \/ (\E a \in Axes : Enter(a)) \/ Reset({active}) \/ Reset(Axes))
    BY DEF Open, Close, SaveAndPlay, TypeDuration, Enter, Reset
  <2> QED
    BY <2>1, <2>2, <2>3 DEF Next
<1> QED
  BY <1>1, EditorInvariance, PTL DEF Spec, OtherPinsHold
\* A click or a drag on a track made from its pins changes it between the neighbouring pins
\* only, though _rebuild_axis_from_pins fills every segment again: the segments it does not
\* reach come out as they were, for every number of frames, every pins and every stroke.
THEOREM ClicksAreLocal == Spec => ClickIsLocal
<1> DEFINE Step == edits' # edits /\ T' = T =>
                      \E b \in Axes, i \in 0 .. T - 1 :
                         \A a \in built, j \in 0 .. T - 1 :
                             tracks'[a][j] # tracks[a][j] =>
                                 a = b /\ \A m \in pins[a] :
                                            ~(i < m /\ m <= j) /\ ~(j <= m /\ m < i)
<1>1. EditorInv /\ [Next]_vars => [Step]_vars
  <2> SUFFICES ASSUME EditorInv, Next, edits' # edits, T' = T PROVE Step
    OBVIOUS
  <2>0. /\ T \in Nat /\ T >= 3 /\ active \in Axes /\ tracks \in [Axes -> [0 .. T - 1 -> Values]]
        /\ built \subseteq Axes /\ \A a \in built : Rebuild(tracks[a], pins[a]) = tracks[a]
        /\ \A a \in Axes : /\ Pinned(pins[a], T)
                           /\ tracks[a][0] = Baseline[a] /\ tracks[a][T - 1] = Baseline[a]
    BY DEF EditorInv, Sound, Values, Pinned
  <2>1. CASE Apply
    <3>1. tracks' = tracks
      BY <2>1 DEF Apply
    <3>2. 0 \in 0 .. T - 1
      BY <2>0
    <3> QED
      BY <2>0, <3>1, <3>2
  <2>2. ASSUME NEW b \in Axes, NEW i \in 0 .. T - 1, NEW v \in Strokes, Click(b, i, v)
        PROVE  Step
    <3>1. PICK x \in [0 .. T - 1 -> Values] : x = tracks[b]
      BY <2>0
    <3>2. PICK p : p = pins[b] /\ Pinned(p, T)
      BY <2>0
    <3>3. PICK w \in Values : PinEnds(b, [x EXCEPT ![i] = v]) = [x EXCEPT ![i] = w]
      <4>1. PinEnds(b, [x EXCEPT ![i] = v])
              = [x EXCEPT ![i] = IF i \in Ends(T) THEN Baseline[b] ELSE v]
        BY <2>0, <3>1 DEF PinEnds, Ends
      <4>2. (IF i \in Ends(T) THEN Baseline[b] ELSE v) \in Values
        BY EditorAssumption DEF Values
      <4> QED
        BY <4>1, <4>2
    <3>4. p \cup {i} \cup Ends(T) = p \cup {i}
      BY <3>2 DEF Pinned
    <3>5. tracks' = [tracks EXCEPT ![b] = Rebuild([x EXCEPT ![i] = w], p \cup {i})]
      BY <2>0, <2>2, <3>1, <3>2, <3>3, <3>4 DEF Click
    <3>6. ASSUME NEW a \in built, NEW j \in 0 .. T - 1, tracks'[a][j] # tracks[a][j]
          PROVE  a = b /\ \A m \in pins[a] : ~(i < m /\ m <= j) /\ ~(j <= m /\ m < i)
      <4>1. a = b
        BY <2>0, <3>5, <3>6
      <4>2. /\ tracks'[a][j] = Rebuild([x EXCEPT ![i] = w], p \cup {i})[j]
            /\ tracks[a][j] = Rebuild(x, p)[j]
        BY <2>0, <3>1, <3>2, <3>5, <4>1
      <4>3. \/ Rebuild([x EXCEPT ![i] = w], p \cup {i})[j] = Rebuild(x, p)[j]
            \/ \A m \in p : ~(i < m /\ m <= j) /\ ~(j <= m /\ m < i)
        BY <2>0, <3>2, RebuildLocal
      <4> QED
        BY <3>2, <3>6, <4>1, <4>2, <4>3
    <3> QED
      BY <3>6
  <2>3. ~(Open \/ Close \/ SaveAndPlay \/ (\E d \in Durations : TypeDuration(d))
            \/ (\E a \in Axes : Enter(a)) \/ Reset({active}) \/ Reset(Axes))
    BY DEF Open, Close, SaveAndPlay, TypeDuration, Enter, Reset
  <2> QED
    BY <2>1, <2>2, <2>3 DEF Next
<1> QED
  BY <1>1, EditorInvariance, PTL DEF Spec, ClickIsLocal

-----------------------------------------------------------------------------
(* Every track, without Apply *)

\* Apply with another number of frames interpolates the tracks and rounds the pins.
Resamples == Apply /\ T' # T

\* Every track, of the window and of what is saved, has been made from its pins.
AllBuilt == built = Axes /\ (saved # NotSaved => saved.built = Axes)

LEMMA AllBuiltStep == EditorInv /\ AllBuilt /\ [Next /\ ~Resamples]_vars => AllBuilt'
<1> SUFFICES ASSUME EditorInv, AllBuilt, [Next /\ ~Resamples]_vars PROVE AllBuilt'
  OBVIOUS
<1> USE DEF AllBuilt
<1>1. CASE Open
  BY <1>1 DEF Open
<1>2. CASE Close \/ (\E d \in Durations : TypeDuration(d)) \/ (\E a \in Axes : Enter(a))
  BY <1>2 DEF Close, TypeDuration, Enter
<1>3. CASE SaveAndPlay
  <2>1. saved'.built = built /\ built' = built
    BY <1>3 DEF SaveAndPlay
  <2> QED
    BY <2>1
<1>4. CASE Apply /\ ~Resamples
  BY <1>4 DEF Apply, Resamples
<1>5. ASSUME NEW a \in Axes, NEW i \in 0 .. T - 1, NEW v \in Strokes, Click(a, i, v)
      PROVE  AllBuilt'
  BY <1>5 DEF Click
<1>6. ASSUME NEW axes \in SUBSET Axes, Reset(axes) PROVE AllBuilt'
  BY <1>6 DEF Reset
<1>7. CASE UNCHANGED vars
  BY <1>7 DEF vars
<1>8. {active} \in SUBSET Axes /\ Axes \in SUBSET Axes
  BY DEF EditorInv
<1> QED
  BY <1>1, <1>2, <1>3, <1>4, <1>5, <1>6, <1>7, <1>8 DEF Next

\* What line 159 of game_emulator_run_v1.py says of every track is true of all of them as long
\* as Apply does not change the number of frames, through any saves and reopenings: drawing and
\* resetting never leave a track that is not monotone between its pins.
THEOREM ResamplingAlone == Spec /\ [][~Resamples]_vars => []MonotoneBetweenPins
<1>1. Init => AllBuilt
  BY DEF Init, AllBuilt
<1>2. AllBuilt /\ MonotoneWhenBuilt => MonotoneBetweenPins
  BY DEF AllBuilt, MonotoneWhenBuilt, MonotoneBetweenPins
<1>3. [Next]_vars /\ [~Resamples]_vars => [Next /\ ~Resamples]_vars
  OBVIOUS
<1> QED
  BY <1>1, <1>2, <1>3, BuiltIsMonotone, EditorInvariance, AllBuiltStep, PTL DEF Spec
=============================================================================
