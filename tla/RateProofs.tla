------------------------------ MODULE RateProofs ------------------------------
(***************************************************************************)
(* What holds of the quantisers for any settings the types of the code     *)
(* allow, any scene and any encoder: proofs about RateControl.  The        *)
(* arithmetic comes first, then what texture makes of a quantiser, and     *)
(* then the loop of controller and encoder.                                *)
(***************************************************************************)
EXTENDS RateControl, FiniteSetTheorems, SequenceTheorems, WellFoundedInduction, TLAPS

-----------------------------------------------------------------------------
(* Arithmetic.                                                             *)

LEMMA LeastNumber ==
    ASSUME NEW set \in SUBSET Nat, set # {}
    PROVE  \E x \in set : \A y \in set : x <= y
<1>1. \E x \in set : \A y \in set : ~(<<y, x>> \in OpToRel(<, Nat))
  BY NatLessThanWellFounded, WFMin
<1>2. \E x \in set : \A y \in set : ~(y < x)
  BY <1>1 DEF OpToRel
<1> QED BY <1>2

\* What holds at 0 and is carried on holds up to n.
LEMMA Upwards ==
    ASSUME NEW n \in Nat, NEW good \in SUBSET (0 .. n), 0 \in good,
           \A m \in 0 .. n : m \in good /\ m # n => m + 1 \in good
    PROVE  good = 0 .. n
<1> SUFFICES ASSUME (0 .. n) \ good # {} PROVE FALSE
  OBVIOUS
<1>1. PICK m \in (0 .. n) \ good : \A y \in (0 .. n) \ good : m <= y
  <2>1. PICK bad : bad = (0 .. n) \ good
    OBVIOUS
  <2>2. bad \in SUBSET Nat /\ bad # {}
    BY <2>1
  <2>3. \E m \in bad : \A y \in bad : m <= y
    BY <2>2, LeastNumber
  <2> QED BY <2>1, <2>3
<1>2. m # 0 /\ m - 1 \in 0 .. n /\ m - 1 # n
  BY <1>1
<1>3. m - 1 \in good
  BY <1>1, <1>2
<1>4. m - 1 + 1 \in good
  BY <1>2, <1>3
<1> QED BY <1>1, <1>4

LEMMA DivIs ==
    ASSUME NEW a \in Int, NEW d \in Nat \ {0}
    PROVE  /\ a \div d \in Int /\ (a \div d) * d <= a /\ a < (a \div d) * d + d
           /\ a >= 0 => a \div d >= 0
BY SMT

LEMMA TimesMonotone ==
    ASSUME NEW a \in Int, NEW b \in Int, a <= b, NEW t \in Nat
    PROVE  a * t \in Int /\ b * t \in Int /\ a * t <= b * t
BY SMT

LEMMA DivMonotone ==
    ASSUME NEW a \in Int, NEW b \in Int, a <= b, NEW d \in Nat \ {0}
    PROVE  a \div d <= b \div d
<1> DEFINE p == a \div d
           q == b \div d
<1>1. p \in Int /\ q \in Int /\ p * d <= a /\ b < q * d + d
  BY DivIs
<1> HIDE DEF p, q
<1>2. CASE q + 1 <= p
  <2>1. (q + 1) * d <= p * d
    BY <1>1, <1>2, TimesMonotone
  <2>2. (q + 1) * d = q * d + d /\ q * d \in Int /\ p * d \in Int
    BY <1>1, SMT
  <2> QED BY <2>1, <2>2, <1>1
<1>3. CASE p <= q
  BY <1>3 DEF p, q
<1> QED BY <1>1, <1>2, <1>3

LEMMA TruncatedMonotone ==
    ASSUME NEW a \in Int, NEW b \in Int, a <= b, NEW d \in Nat \ {0}
    PROVE  Truncated(a, d) \in Int /\ Truncated(b, d) \in Int /\ Truncated(a, d) <= Truncated(b, d)
<1>1. /\ a \div d \in Int /\ b \div d \in Int /\ (-a) \div d \in Int /\ (-b) \div d \in Int
      /\ a >= 0 => a \div d >= 0
      /\ b >= 0 => b \div d >= 0
      /\ -a >= 0 => (-a) \div d >= 0
      /\ -b >= 0 => (-b) \div d >= 0
  BY DivIs
<1>2. a \div d <= b \div d /\ (-b) \div d <= (-a) \div d
  BY DivMonotone
<1> QED BY <1>1, <1>2 DEF Truncated

LEMMA ClampIs ==
    ASSUME NEW low \in Int, NEW high \in Int, low <= high
    PROVE  /\ \A v \in Int : Clamp(v, low, high) \in low .. high
           /\ \A v \in low .. high : Clamp(v, low, high) = v
           /\ \A v \in Int, w \in Int : v <= w => Clamp(v, low, high) <= Clamp(w, low, high)
BY DEF Clamp

\* a clamped value is no further from one inside than it was
LEMMA ClampNears ==
    ASSUME NEW low \in Int, NEW high \in Int, NEW base \in low .. high, NEW v \in Int,
           NEW l \in Int, NEW u \in Int, base \in l .. u, v \in l .. u
    PROVE  Clamp(v, low, high) \in l .. u
BY DEF Clamp

-----------------------------------------------------------------------------
(* The median and the mean.                                                *)

LEMMA LargestOf ==
    ASSUME NEW values \in Seq(Nat), values # <<>>
    PROVE  \E i \in 1 .. Len(values) : \A j \in 1 .. Len(values) : values[j] <= values[i]
<1>1. PICK n \in Nat : n = Len(values) /\ n # 0
  BY EmptySeq, LenProperties
<1>2. \A i \in 1 .. n : values[i] \in Nat
  BY <1>1, ElementOfSeq
<1> DEFINE good == {m \in 0 .. n : m = 0 \/ \E i \in 1 .. m : \A j \in 1 .. m : values[j] <= values[i]}
<1>3. ASSUME NEW m \in 0 .. n, m \in good, m # n PROVE m + 1 \in good
  <2>1. m + 1 \in 1 .. n
    BY <1>3
  <2>2. CASE m = 0
    <3>1. \A j \in 1 .. 1 : values[j] <= values[1]
      BY <2>1, <2>2, <1>2
    <3> QED BY <3>1, <2>1, <2>2
  <2>3. CASE m # 0
    <3>1. PICK i \in 1 .. m : \A j \in 1 .. m : values[j] <= values[i]
      BY <1>3, <2>3
    <3>2. PICK k \in {i, m + 1} : values[i] <= values[k] /\ values[m + 1] <= values[k]
      BY <2>1, <1>2
    <3>3. ASSUME NEW j \in 1 .. m + 1 PROVE values[j] <= values[k]
      <4>1. j \in 1 .. m \/ j = m + 1
        OBVIOUS
      <4>2. values[j] \in Nat /\ values[i] \in Nat /\ values[k] \in Nat
        BY <2>1, <1>2
      <4>3. CASE j \in 1 .. m
        <5>1. values[j] <= values[i] /\ values[i] <= values[k]
          BY <4>3, <3>1, <3>2
        <5> QED BY <5>1, <4>2
      <4>4. CASE j = m + 1
        BY <4>4, <3>2
      <4> QED BY <4>1, <4>3, <4>4
    <3>4. k \in 1 .. m + 1
      BY <2>1
    <3> QED BY <3>3, <3>4, <2>1
  <2> QED BY <2>2, <2>3
<1>4. good = 0 .. n
  <2>1. good \in SUBSET (0 .. n) /\ 0 \in good
    BY <1>1
  <2> HIDE DEF good
  <2> QED BY <2>1, <1>3, Upwards
<1>5. n \in 0 .. n
  BY <1>1
<1>6. n \in good
  <2> HIDE DEF good
  <2> QED BY <1>4, <1>5
<1> QED BY <1>6, <1>1

\* Something is at each place of the sorted values.
LEMMA SortedIs ==
    ASSUME NEW values \in Seq(Nat), NEW k \in 1 .. Len(values)
    PROVE  Sorted(values, k) \in Nat
<1>1. PICK n \in Nat : n = Len(values) /\ DOMAIN values = 1 .. n
  BY LenProperties
<1>2. \A i \in 1 .. n : values[i] \in Nat
  BY <1>1, ElementOfSeq
<1>3. PICK i \in 1 .. n : \A j \in 1 .. n : values[j] <= values[i]
  <2>1. values # <<>>
    BY <1>1, EmptySeq
  <2> QED BY <2>1, <1>1, LargestOf
<1> DEFINE set == {v \in ToSet(values) : Cardinality({j \in DOMAIN values : values[j] <= v}) >= k}
<1>4. values[i] \in set
  <2>1. {j \in DOMAIN values : values[j] <= values[i]} = 1 .. n
    BY <1>1, <1>3
  <2>2. Cardinality(1 .. n) = n
    BY FS_Interval
  <2>3. values[i] \in ToSet(values)
    BY <1>1 DEF ToSet
  <2>4. Cardinality({j \in DOMAIN values : values[j] <= values[i]}) >= k
    <3>1. Cardinality({j \in DOMAIN values : values[j] <= values[i]}) = n
      BY <2>1, <2>2, Zenon
    <3>2. n >= k
      BY <1>1
    <3> QED BY <3>1, <3>2, Zenon
  <2> QED BY <2>3, <2>4
<1>5. set \in SUBSET Nat
  BY <1>1, <1>2 DEF ToSet
<1>6. PICK x \in set : \A y \in set : x <= y
  <2> HIDE DEF set
  <2> QED BY <1>4, <1>5, LeastNumber
<1>7. Min(set) \in set
  <2> HIDE DEF set
  <2> QED BY <1>6, Zenon DEF Min
<1>8. Sorted(values, k) = Min(set)
  BY DEF Sorted
<1> HIDE DEF set
<1> QED BY <1>5, <1>7, <1>8

LEMMA MedianIs ==
    ASSUME NEW values \in Seq(Nat)
    PROVE  MedianOf(values) \in Nat
<1>1. PICK n \in Nat : n = Len(values) /\ (n = 0 <=> values = <<>>)
  BY EmptySeq, LenProperties
<1>2. CASE values = <<>>
  BY <1>2 DEF MedianOf
<1>3. CASE values # <<>> /\ n % 2 = 1
  <2>1. n \div 2 + 1 \in 1 .. n
    BY <1>1, <1>3
  <2>2. MedianOf(values) = Sorted(values, n \div 2 + 1)
    BY <1>1, <1>3 DEF MedianOf
  <2> QED BY <2>1, <2>2, <1>1, SortedIs
<1>4. CASE values # <<>> /\ n % 2 = 0
  <2>1. n \div 2 \in 1 .. n /\ n \div 2 + 1 \in 1 .. n
    BY <1>1, <1>4
  <2>2. MedianOf(values) = (Sorted(values, n \div 2) + Sorted(values, n \div 2 + 1)) \div 2
    BY <1>1, <1>4 DEF MedianOf
  <2>3. Sorted(values, n \div 2) \in Nat /\ Sorted(values, n \div 2 + 1) \in Nat
    BY <2>1, <1>1, SortedIs
  <2> QED BY <2>2, <2>3
<1>5. n % 2 = 0 \/ n % 2 = 1
  BY <1>1
<1> QED BY <1>2, <1>3, <1>4, <1>5

\* The sums over the first values of a sequence, and their bounds.
Sums(f, n, q) == f = [i \in 0 .. n |-> IF i = 0 THEN 0 ELSE f[i - 1] + q[i]]

LEMMA SumsExist ==
    ASSUME NEW n \in Nat, NEW q
    PROVE  \E f : Sums(f, n, q)
<1> DEFINE good == {m \in 0 .. n : \E f : Sums(f, m, q)}
<1>1. 0 \in good
  <2>1. Sums([i \in 0 .. 0 |-> 0], 0, q)
    BY DEF Sums
  <2> QED BY <2>1
<1>2. ASSUME NEW m \in 0 .. n, m \in good, m # n PROVE m + 1 \in good
  <2>1. PICK f : Sums(f, m, q)
    BY <1>2
  <2>2. PICK g : g = [i \in 0 .. m + 1 |-> IF i = m + 1 THEN f[m] + q[m + 1] ELSE f[i]]
    OBVIOUS
  <2>3. \A i \in 0 .. m : f[i] = IF i = 0 THEN 0 ELSE f[i - 1] + q[i]
    BY <2>1 DEF Sums
  <2>4. ASSUME NEW i \in 0 .. m + 1 PROVE g[i] = IF i = 0 THEN 0 ELSE g[i - 1] + q[i]
    <3>1. CASE i = m + 1
      <4>1. g[i] = f[m] + q[m + 1] /\ g[m] = f[m] /\ i - 1 = m /\ i # 0
        BY <2>2, <3>1
      <4> QED BY <4>1, <3>1
    <3>2. CASE i # m + 1
      <4>1. i \in 0 .. m /\ g[i] = f[i] /\ (i # 0 => i - 1 \in 0 .. m /\ g[i - 1] = f[i - 1])
        BY <2>2, <3>2
      <4> QED BY <4>1, <2>3
    <3> QED BY <3>1, <3>2
  <2>5. Sums(g, m + 1, q)
    <3>1. g = [i \in 0 .. m + 1 |-> g[i]]
      BY <2>2
    <3> QED BY <3>1, <2>4 DEF Sums
  <2>6. m + 1 \in 0 .. n
    BY <1>2
  <2> QED BY <2>5, <2>6
<1>3. good = 0 .. n
  <2>1. good \in SUBSET (0 .. n)
    OBVIOUS
  <2> HIDE DEF good
  <2> QED BY <2>1, <1>1, <1>2, Upwards
<1>4. n \in good
  BY <1>3
<1> QED BY <1>4

LEMMA SumsBound ==
    ASSUME NEW n \in Nat, NEW q, NEW f, Sums(f, n, q), NEW l \in Int, NEW u \in Int,
           \A i \in 1 .. n : q[i] \in l .. u
    PROVE  f[n] \in n * l .. n * u
<1> DEFINE good == {m \in 0 .. n : f[m] \in m * l .. m * u}
<1>1. \A i \in 0 .. n : f[i] = IF i = 0 THEN 0 ELSE f[i - 1] + q[i]
  BY DEF Sums
<1>2. 0 \in good
  BY <1>1
<1>3. ASSUME NEW m \in 0 .. n, m \in good, m # n PROVE m + 1 \in good
  <2>1. m + 1 \in 1 .. n /\ m + 1 \in 0 .. n /\ m \in Nat
    BY <1>3
  <2>2. f[m + 1] = f[m] + q[m + 1]
    BY <1>1, <2>1
  <2>3. f[m] \in m * l .. m * u /\ q[m + 1] \in l .. u
    BY <1>3, <2>1
  <2>4. (m + 1) * l = m * l + l /\ (m + 1) * u = m * u + u /\ m * l \in Int /\ m * u \in Int
    BY <2>1, SMT
  <2> QED BY <2>1, <2>2, <2>3, <2>4
<1>4. good = 0 .. n
  <2>1. good \in SUBSET (0 .. n)
    OBVIOUS
  <2> HIDE DEF good
  <2> QED BY <2>1, <1>2, <1>3, Upwards
<1>5. n \in good
  BY <1>4
<1> QED BY <1>5

\* The rounded mean of numbers lies among them.
LEMMA MeanIs ==
    ASSUME NEW n \in Nat \ {0}, NEW l \in Int, NEW u \in Int, NEW sum \in n * l .. n * u
    PROVE  (2 * sum + n) \div (2 * n) \in l .. u
<1>1. n * l \in Int /\ n * u \in Int /\ sum \in Int
  BY SMT
<1>2. PICK d \in Nat \ {0} : d = 2 * n
  OBVIOUS
<1>3. PICK a \in Int : a = 2 * sum + n
  BY <1>1
<1>4. PICK q \in Int : q = a \div d /\ q * d <= a /\ a < q * d + d
  BY <1>2, <1>3, DivIs
<1>5. l * d = 2 * (n * l) /\ u * d = 2 * (n * u)
  BY <1>2, SMT
<1>6. l * d <= a /\ a < u * d + d
  BY <1>1, <1>2, <1>3, <1>5
<1>7. CASE q + 1 <= l
  <2>1. (q + 1) * d <= l * d /\ (q + 1) * d = q * d + d /\ l * d \in Int /\ q * d \in Int
    BY <1>7, TimesMonotone, SMT
  <2> QED BY <2>1, <1>4, <1>6
<1>8. CASE u + 1 <= q
  <2>1. (u + 1) * d <= q * d /\ (u + 1) * d = u * d + d /\ u * d \in Int /\ q * d \in Int
    BY <1>8, TimesMonotone, SMT
  <2> QED BY <2>1, <1>4, <1>6
<1> QED BY <1>2, <1>3, <1>4, <1>7, <1>8

LEMMA SequenceIs ==
    ASSUME NEW S, NEW n \in Nat, NEW f, f = [i \in 1 .. n |-> f[i]], \A i \in 1 .. n : f[i] \in S
    PROVE  f \in Seq(S)
<1>1. f \in [1 .. n -> S]
  OBVIOUS
<1> QED BY <1>1, SeqDef

-----------------------------------------------------------------------------
(* What texture makes of a quantiser.                                      *)

\* settings as the code types them, and accepted by the validations
Typed(t) ==
    /\ t.minQp \in Octet /\ t.maxQp \in Octet /\ t.quantizer \in Octet
    /\ t.stepLimit \in Octet /\ t.strength \in Octet
    /\ t.quality \in Octet \cup {None}
    /\ t.minDelta \in -128 .. 127 /\ t.maxDelta \in -128 .. 127
    /\ t.aq \in {"Off", "Activity", "EdgeAware", "ScreenAware"}
    /\ t.blockAq \in {"Off", "BlockDelta"}
Accepted(t) ==
    /\ Typed(t) /\ RateControlOk(t) /\ AdaptiveQuantOk(t)
    /\ t.blockAq = "BlockDelta" => ClipOk(t.minQp, t.maxQp)

Activities == [variance : Nat, edges : Nat, gradient : Nat]

LEMMA TypedIs ==
    ASSUME NEW t, Typed(t)
    PROVE  t.minQp \in Nat /\ t.maxQp \in Nat /\ t.minDelta \in Int /\ t.maxDelta \in Int
<1>1. t.minQp \in Nat
  BY DEF Typed, Octet
<1>2. t.maxQp \in Nat
  BY DEF Typed, Octet
<1>3. t.minDelta \in Int
  BY DEF Typed
<1>4. t.maxDelta \in Int
  BY DEF Typed
<1> QED BY <1>1, <1>2, <1>3, <1>4

LEMMA AcceptedIs ==
    ASSUME NEW t, Accepted(t)
    PROVE  /\ t.minQp \in Nat /\ t.maxQp \in Nat /\ t.minQp <= t.maxQp
           /\ t.minDelta \in Int /\ t.maxDelta \in Int /\ t.minDelta <= t.maxDelta
<1>1. Typed(t)
  BY DEF Accepted
<1>2. t.minQp <= t.maxQp
  BY DEF Accepted, RateControlOk
<1>3. t.minDelta <= t.maxDelta
  BY DEF Accepted, AdaptiveQuantOk
<1> QED BY <1>1, <1>2, <1>3, TypedIs

LEMMA ClampQpIs ==
    ASSUME NEW t, Typed(t), RateControlOk(t)
    PROVE  /\ \A qp \in Int : ClampQp(t, qp) \in t.minQp .. t.maxQp
           /\ \A qp \in t.minQp .. t.maxQp : ClampQp(t, qp) = qp
           /\ \A qp \in Int, other \in Int : qp <= other => ClampQp(t, qp) <= ClampQp(t, other)
<1>1. t.minQp \in Int /\ t.maxQp \in Int /\ t.minQp <= t.maxQp
  BY DEF Typed, RateControlOk, Octet
<1> QED BY <1>1, ClampIs DEF ClampQp

LEMMA ScoreIs ==
    ASSUME NEW aq \in {"Off", "Activity", "EdgeAware", "ScreenAware"}, NEW activity \in Activities
    PROVE  ScoreOf(aq, activity) \in Nat
<1>1. activity.variance \in Nat /\ activity.edges \in Nat /\ activity.gradient \in Nat
  BY DEF Activities
<1>2. PICK v \in Nat, e \in Nat, g \in Nat : v = activity.variance /\ e = activity.edges /\ g = activity.gradient
  BY <1>1
<1>3. v \div 256 \in Nat /\ e \div 16 \in Nat /\ v \div 512 \in Nat /\ g \div 4 \in Nat /\ 2 * e \in Nat
  OBVIOUS
<1> QED BY <1>2, <1>3 DEF ScoreOf

\* a busier macroblock has the greater delta
LEMMA FrameDeltaIs ==
    ASSUME NEW t, Accepted(t), NEW median \in Nat
    PROVE  /\ \A x \in Nat : FrameDelta(t, x, median) \in t.minDelta .. t.maxDelta
           /\ \A x \in Nat, y \in Nat :
                 x <= y => FrameDelta(t, x, median) <= FrameDelta(t, y, median)
<1>1. t.minDelta \in Int /\ t.maxDelta \in Int /\ t.minDelta <= t.maxDelta
  BY DEF Accepted, Typed, AdaptiveQuantOk
<1>2. PICK k \in Nat : k = AtLeastOne(t.strength)
  BY DEF Accepted, Typed, Octet, AtLeastOne
<1>3. PICK d \in Nat \ {0} : d = AtLeastOne(median) * 4 + 1
  BY DEF AtLeastOne
<1>4. \A x \in Nat : FrameDelta(t, x, median) = Clamp(Truncated((x - median) * k, d), t.minDelta, t.maxDelta)
  BY <1>2, <1>3 DEF FrameDelta
<1>5. ASSUME NEW x \in Nat, NEW y \in Nat, x <= y
      PROVE  /\ Truncated((x - median) * k, d) \in Int /\ Truncated((y - median) * k, d) \in Int
             /\ Truncated((x - median) * k, d) <= Truncated((y - median) * k, d)
  <2>1. PICK a \in Int, b \in Int : a = (x - median) * k /\ b = (y - median) * k /\ a <= b
    <3>1. x - median \in Int /\ y - median \in Int /\ x - median <= y - median
      BY <1>5
    <3> QED BY <3>1, TimesMonotone
  <2> QED BY <2>1, TruncatedMonotone
<1>6. ASSUME NEW x \in Nat PROVE FrameDelta(t, x, median) \in t.minDelta .. t.maxDelta
  <2>1. PICK v \in Int : v = Truncated((x - median) * k, d)
    BY <1>5
  <2>2. Clamp(v, t.minDelta, t.maxDelta) \in t.minDelta .. t.maxDelta
    BY <1>1, ClampIs
  <2>3. FrameDelta(t, x, median) = Clamp(v, t.minDelta, t.maxDelta)
    BY <2>1, <1>4
  <2> QED BY <2>2, <2>3, Zenon
<1>7. ASSUME NEW x \in Nat, NEW y \in Nat, x <= y
      PROVE  FrameDelta(t, x, median) <= FrameDelta(t, y, median)
  <2>1. PICK v \in Int, w \in Int :
           v = Truncated((x - median) * k, d) /\ w = Truncated((y - median) * k, d) /\ v <= w
    BY <1>5, <1>7
  <2>2. Clamp(v, t.minDelta, t.maxDelta) <= Clamp(w, t.minDelta, t.maxDelta)
    BY <2>1, <1>1, ClampIs
  <2> QED BY <2>1, <2>2, <1>4
<1> QED BY <1>6, <1>7

\* a more varied block has the smaller delta
LEMMA BlockDeltaIs ==
    ASSUME NEW t, Accepted(t), NEW median \in Nat
    PROVE  /\ \A x \in Nat : BlockDelta(t, x, median) \in t.minDelta .. t.maxDelta
           /\ \A x \in Nat, y \in Nat :
                 x <= y => BlockDelta(t, y, median) <= BlockDelta(t, x, median)
<1>1. t.minDelta \in Int /\ t.maxDelta \in Int /\ t.minDelta <= t.maxDelta
  BY DEF Accepted, Typed, AdaptiveQuantOk
<1>2. PICK k \in Nat : k = AtLeastOne(t.strength)
  BY DEF Accepted, Typed, Octet, AtLeastOne
<1>3. PICK middle \in Nat, d \in Nat \ {0} : middle = AtLeastOne(median) /\ d = middle * 4 + 1
  BY DEF AtLeastOne
<1>4. \A x \in Nat : BlockDelta(t, x, median) = Clamp(Truncated(-((x - middle) * k), d), t.minDelta, t.maxDelta)
  BY <1>2, <1>3 DEF BlockDelta
<1>5. ASSUME NEW x \in Nat, NEW y \in Nat, x <= y
      PROVE  /\ Truncated(-((x - middle) * k), d) \in Int /\ Truncated(-((y - middle) * k), d) \in Int
             /\ Truncated(-((y - middle) * k), d) <= Truncated(-((x - middle) * k), d)
  <2>1. PICK a \in Int, b \in Int : a = (x - middle) * k /\ b = (y - middle) * k /\ a <= b
    <3>1. x - middle \in Int /\ y - middle \in Int /\ x - middle <= y - middle
      BY <1>5
    <3> QED BY <3>1, TimesMonotone
  <2>2. -a \in Int /\ -b \in Int /\ -b <= -a
    BY <2>1
  <2> QED BY <2>1, <2>2, TruncatedMonotone
<1>6. ASSUME NEW x \in Nat PROVE BlockDelta(t, x, median) \in t.minDelta .. t.maxDelta
  <2>1. PICK v \in Int : v = Truncated(-((x - middle) * k), d)
    BY <1>5
  <2>2. Clamp(v, t.minDelta, t.maxDelta) \in t.minDelta .. t.maxDelta
    BY <1>1, ClampIs
  <2>3. BlockDelta(t, x, median) = Clamp(v, t.minDelta, t.maxDelta)
    BY <2>1, <1>4
  <2> QED BY <2>2, <2>3, Zenon
<1>7. ASSUME NEW x \in Nat, NEW y \in Nat, x <= y
      PROVE  BlockDelta(t, y, median) <= BlockDelta(t, x, median)
  <2>1. PICK v \in Int, w \in Int :
           v = Truncated(-((x - middle) * k), d) /\ w = Truncated(-((y - middle) * k), d) /\ w <= v
    BY <1>5, <1>7
  <2>2. Clamp(w, t.minDelta, t.maxDelta) <= Clamp(v, t.minDelta, t.maxDelta)
    BY <2>1, <1>1, ClampIs
  <2> QED BY <2>1, <2>2, <1>4
<1> QED BY <1>6, <1>7

\* how far texture may take a quantiser
Least(t) == IF t.minDelta < 0 THEN t.minDelta ELSE 0
Most(t) == IF t.maxDelta > 0 THEN t.maxDelta ELSE 0

\* The quantisers of a frame's macroblocks: in range, near the frame's base, and
\* ordered as the macroblocks are busy.
QpsAre(t, base, activities, qps) ==
    /\ qps \in Seq(Int) /\ DOMAIN qps = DOMAIN activities
    /\ \A i \in DOMAIN qps : qps[i] \in t.minQp .. t.maxQp /\ qps[i] \in base + Least(t) .. base + Most(t)
    /\ \A i, j \in DOMAIN qps :
          ScoreOf(t.aq, activities[i]) <= ScoreOf(t.aq, activities[j]) => qps[i] <= qps[j]

LEMMA MacroblockIs ==
    ASSUME NEW t, Accepted(t), NEW base \in t.minQp .. t.maxQp, NEW activities \in Seq(Activities)
    PROVE  QpsAre(t, base, activities, MacroblockQps(t, base, activities))
<1>1. /\ t.minQp \in Nat /\ t.maxQp \in Nat /\ t.minQp <= t.maxQp
      /\ t.minDelta \in Int /\ t.maxDelta \in Int /\ base \in Nat
  <2>1. /\ t.minQp \in Nat /\ t.maxQp \in Nat /\ t.minQp <= t.maxQp
        /\ t.minDelta \in Int /\ t.maxDelta \in Int
    BY AcceptedIs
  <2> QED BY <2>1
<1>2. PICK n \in Nat : n = Len(activities) /\ DOMAIN activities = 1 .. n
  BY LenProperties
<1>3. PICK scores : scores = [i \in DOMAIN activities |-> ScoreOf(t.aq, activities[i])]
  OBVIOUS
<1>4. \A i \in 1 .. n : activities[i] \in Activities
  BY <1>2, ElementOfSeq
<1>5. \A i \in 1 .. n : scores[i] \in Nat /\ scores[i] = ScoreOf(t.aq, activities[i])
  BY <1>2, <1>3, <1>4, ScoreIs DEF Accepted, Typed
<1>6. scores \in Seq(Nat)
  BY <1>2, <1>3, <1>5, SequenceIs
<1>7. PICK median \in Nat : median = MedianOf(scores)
  BY <1>6, MedianIs
<1>8. ClampQp(t, base) = base
  BY ClampQpIs DEF Accepted
<1>9. PICK qps : qps = MacroblockQps(t, base, activities)
  OBVIOUS
<1> DEFINE Raised(i) == base + FrameDelta(t, scores[i], median)
           Of(i) == ClampQp(t, IF Raised(i) < 0 THEN 0 ELSE Raised(i))
<1>10. qps = [i \in 1 .. n |-> Of(i)]
  BY <1>2, <1>3, <1>7, <1>8, <1>9 DEF MacroblockQps
<1>11. ASSUME NEW i \in 1 .. n
       PROVE  /\ Of(i) \in Int /\ Raised(i) \in Int
              /\ Of(i) \in t.minQp .. t.maxQp /\ Of(i) \in base + Least(t) .. base + Most(t)
  <2>1. PICK delta \in t.minDelta .. t.maxDelta : delta = FrameDelta(t, scores[i], median)
    BY <1>5, FrameDeltaIs
  <2>2. delta \in Int /\ Least(t) \in Int /\ Most(t) \in Int /\ Least(t) <= delta /\ delta <= Most(t)
        /\ Least(t) <= 0 /\ 0 <= Most(t)
    BY <1>1, <2>1 DEF Least, Most
  <2>3. PICK v \in Int : v = IF Raised(i) < 0 THEN 0 ELSE Raised(i)
    BY <1>1, <2>1, <2>2
  <2>4. v \in base + Least(t) .. base + Most(t)
    BY <1>1, <2>1, <2>2, <2>3
  <2>5. base \in base + Least(t) .. base + Most(t)
    BY <1>1, <2>2
  <2>6. Clamp(v, t.minQp, t.maxQp) \in base + Least(t) .. base + Most(t)
    <3>1. PICK l \in Int, u \in Int : l = base + Least(t) /\ u = base + Most(t)
      BY <1>1, <2>2
    <3>2. base \in t.minQp .. t.maxQp /\ base \in l .. u /\ v \in l .. u /\ t.minQp \in Int /\ t.maxQp \in Int
      BY <3>1, <1>1, <2>4, <2>5
    <3>3. Clamp(v, t.minQp, t.maxQp) \in l .. u
      BY <3>1, <3>2, <1>1, ClampNears
    <3> QED BY <3>1, <3>3
  <2>7. Of(i) = Clamp(v, t.minQp, t.maxQp)
    BY <2>3 DEF ClampQp
  <2>8. Of(i) \in t.minQp .. t.maxQp
    BY <2>3, ClampQpIs DEF Accepted
  <2>9. Raised(i) \in Int /\ Of(i) \in Int
    BY <1>1, <2>1, <2>2, <2>8
  <2> QED BY <2>6, <2>7, <2>8, <2>9
<1>12. ASSUME NEW i \in 1 .. n, NEW j \in 1 .. n, scores[i] <= scores[j]
       PROVE  Of(i) <= Of(j)
  <2>1. /\ FrameDelta(t, scores[i], median) \in t.minDelta .. t.maxDelta
        /\ FrameDelta(t, scores[j], median) \in t.minDelta .. t.maxDelta
        /\ FrameDelta(t, scores[i], median) <= FrameDelta(t, scores[j], median)
    BY <1>5, <1>12, FrameDeltaIs
  <2>2. PICK v \in Int, w \in Int :
           /\ v = IF Raised(i) < 0 THEN 0 ELSE Raised(i)
           /\ w = IF Raised(j) < 0 THEN 0 ELSE Raised(j)
           /\ v <= w
    BY <1>1, <2>1
  <2> QED BY <2>2, ClampQpIs DEF Accepted
<1>13. DOMAIN qps = 1 .. n /\ \A i \in 1 .. n : qps[i] = Of(i)
  BY <1>10
<1> HIDE DEF Of, Raised
<1>14. qps \in Seq(Int)
  BY <1>10, <1>11, <1>13, SequenceIs
<1>15. ASSUME NEW i \in 1 .. n, NEW j \in 1 .. n, ScoreOf(t.aq, activities[i]) <= ScoreOf(t.aq, activities[j])
       PROVE  qps[i] <= qps[j]
  BY <1>5, <1>12, <1>13, <1>15
<1> QED BY <1>2, <1>9, <1>11, <1>13, <1>14, <1>15 DEF QpsAre

\* The frame's quantiser: in range and near its base.
LEMMA FrameQpIs ==
    ASSUME NEW t, Accepted(t), NEW base \in t.minQp .. t.maxQp, NEW activities, NEW qps,
           QpsAre(t, base, activities, qps)
    PROVE  FrameQp(t, base, qps) \in t.minQp .. t.maxQp /\ FrameQp(t, base, qps) - base \in Least(t) .. Most(t)
<1>1. /\ t.minQp \in Int /\ t.maxQp \in Int /\ t.minQp <= t.maxQp /\ base \in Int
      /\ Least(t) \in Int /\ Most(t) \in Int /\ Least(t) <= 0 /\ 0 <= Most(t)
  BY AcceptedIs DEF Least, Most
<1>2. PICK l \in Int, u \in Int : l = base + Least(t) /\ u = base + Most(t)
  BY <1>1
<1>3. base \in l .. u
  BY <1>1, <1>2
<1>4. SUFFICES \E v \in l .. u : FrameQp(t, base, qps) = ClampQp(t, v)
  <2>1. ASSUME NEW v \in l .. u PROVE ClampQp(t, v) \in t.minQp .. t.maxQp /\ ClampQp(t, v) \in l .. u
    <3>1. v \in Int
      BY <1>2
    <3>2. ClampQp(t, v) \in t.minQp .. t.maxQp
      BY <3>1, ClampQpIs DEF Accepted
    <3>3. Clamp(v, t.minQp, t.maxQp) \in l .. u
      BY <1>1, <1>3, <3>1, ClampNears
    <3> QED BY <3>2, <3>3 DEF ClampQp
  <2>2. PICK q \in t.minQp .. t.maxQp : q = FrameQp(t, base, qps) /\ q \in l .. u
    BY <1>4, <2>1
  <2> QED BY <1>1, <1>2, <2>2
<1>5. CASE t.aq = "Off" \/ qps = <<>>
  BY <1>3, <1>5 DEF FrameQp
<1>6. CASE ~(t.aq = "Off" \/ qps = <<>>)
  <2>1. qps \in Seq(Int)
    BY DEF QpsAre
  <2>2. PICK n \in Nat \ {0} : n = Len(qps) /\ DOMAIN qps = 1 .. n
    BY <2>1, <1>6, EmptySeq, LenProperties
  <2>3. PICK sum : /\ sum = CHOOSE f : f = [i \in 0 .. n |-> IF i = 0 THEN 0 ELSE f[i - 1] + qps[i]]
                   /\ Sums(sum, n, qps)
    <3>1. \E f : f = [i \in 0 .. n |-> IF i = 0 THEN 0 ELSE f[i - 1] + qps[i]]
      BY SumsExist DEF Sums
    <3> QED BY <3>1, Zenon DEF Sums
  <2>4. FrameQp(t, base, qps) = ClampQp(t, (2 * sum[n] + n) \div (2 * n))
    BY <1>6, <2>2, <2>3 DEF FrameQp
  <2>5. \A i \in 1 .. n : qps[i] \in l .. u
    BY <1>2, <2>2 DEF QpsAre
  <2>6. sum[n] \in n * l .. n * u
    BY <2>3, <2>5, SumsBound
  <2>7. (2 * sum[n] + n) \div (2 * n) \in l .. u
    <3>1. PICK total \in n * l .. n * u : total = sum[n]
      BY <2>6
    <3> QED BY <3>1, MeanIs
  <2> QED BY <2>4, <2>7
<1> QED BY <1>5, <1>6

\* The quantisers of a frame's blocks: in range, and ordered against their variance.
LEMMA BlocksAre ==
    ASSUME NEW t, Accepted(t), t.blockAq = "BlockDelta", NEW qp \in t.minQp .. t.maxQp,
           NEW variances \in Seq(Nat), NEW deltas, deltas = BlockDeltas(t, variances)
    PROVE  /\ deltas \in Seq(Int) /\ DOMAIN deltas = DOMAIN variances
           /\ \A i \in DOMAIN deltas : BlockQp(qp, deltas[i], t.minQp, t.maxQp) \in t.minQp .. t.maxQp
           /\ \A i, j \in DOMAIN deltas : variances[i] <= variances[j] =>
                 BlockQp(qp, deltas[i], t.minQp, t.maxQp) >= BlockQp(qp, deltas[j], t.minQp, t.maxQp)
<1>1. /\ t.minQp \in Int /\ t.maxQp \in Int /\ 1 <= t.minQp /\ t.minQp <= t.maxQp
      /\ TopQp \in Int /\ t.maxQp <= TopQp /\ t.minDelta \in Int /\ t.maxDelta \in Int /\ qp \in Int
  <2>1. t.minQp \in Nat /\ t.maxQp \in Nat /\ t.minDelta \in Int /\ t.maxDelta \in Int
    BY AcceptedIs
  <2>2. ClipOk(t.minQp, t.maxQp)
    BY DEF Accepted
  <2>3. TopQp \in Nat
    BY QuantizersAssumption
  <2> QED BY <2>1, <2>2, <2>3 DEF ClipOk
<1>2. PICK n \in Nat : n = Len(variances) /\ DOMAIN variances = 1 .. n
  BY LenProperties
<1>3. \A i \in 1 .. n : variances[i] \in Nat
  BY <1>2, ElementOfSeq
<1>4. PICK median \in Nat : median = MedianOf(variances)
  BY MedianIs
<1>5. DOMAIN deltas = 1 .. n /\ \A i \in 1 .. n : deltas[i] = BlockDelta(t, variances[i], median)
  BY <1>2, <1>4 DEF BlockDeltas
<1>6. \A i \in 1 .. n : deltas[i] \in t.minDelta .. t.maxDelta
  BY <1>3, <1>5, BlockDeltaIs
<1>7. \A i \in 1 .. n : deltas[i] \in Int
  BY <1>1, <1>6
<1>8. deltas \in Seq(Int)
  <2>1. deltas = [i \in 1 .. n |-> deltas[i]]
    BY <1>2, <1>5 DEF BlockDeltas
  <2> QED BY <2>1, <1>7, SequenceIs
<1>9. \A d \in Int : BlockQp(qp, d, t.minQp, t.maxQp) \in t.minQp .. t.maxQp
  BY <1>1 DEF BlockQp, Clamp
<1>10. \A d \in Int, e \in Int : d <= e => BlockQp(qp, d, t.minQp, t.maxQp) <= BlockQp(qp, e, t.minQp, t.maxQp)
  BY <1>1 DEF BlockQp, Clamp
<1>11. ASSUME NEW i \in 1 .. n, NEW j \in 1 .. n, variances[i] <= variances[j]
       PROVE  BlockQp(qp, deltas[i], t.minQp, t.maxQp) >= BlockQp(qp, deltas[j], t.minQp, t.maxQp)
  <2>1. deltas[j] <= deltas[i]
    BY <1>3, <1>5, <1>11, BlockDeltaIs
  <2>2. PICK a \in t.minQp .. t.maxQp, b \in t.minQp .. t.maxQp :
           /\ a = BlockQp(qp, deltas[i], t.minQp, t.maxQp) /\ b = BlockQp(qp, deltas[j], t.minQp, t.maxQp)
           /\ b <= a
    BY <1>7, <1>9, <1>10, <2>1
  <2> QED BY <1>1, <2>2
<1> QED BY <1>2, <1>5, <1>7, <1>8, <1>9, <1>11

-----------------------------------------------------------------------------
(* The loop of controller and encoder.                                     *)

\* A frame as settings and scene make it.
GoodFrame(f, t, what) ==
    /\ f.qps \in Seq(Int) /\ f.deltas \in Seq(Int) /\ f.blocks \in Seq(Int)
    /\ f.qp \in t.minQp .. t.maxQp /\ f.qp - f.base \in Least(t) .. Most(t)
    /\ \A i \in DOMAIN f.qps : f.qps[i] \in t.minQp .. t.maxQp
    /\ \A i \in DOMAIN f.blocks : f.blocks[i] \in t.minQp .. t.maxQp
    /\ \A i, j \in DOMAIN f.qps :
          ScoreOf(t.aq, what.activities[i]) <= ScoreOf(t.aq, what.activities[j]) => f.qps[i] <= f.qps[j]
    /\ \A i, j \in DOMAIN f.blocks :
          what.variances[i] <= what.variances[j] => f.blocks[i] >= f.blocks[j]

RateInv ==
    /\ controller \in {"none", "open", "refused", "failed"}
    /\ settings \in RateSettings /\ fps \in FrameRates /\ scene \in Scenes
    /\ current \in Nat
    /\ controller = "open" => RateControlOk(settings) /\ current \in settings.minQp .. settings.maxQp
    /\ frame = NoFrame \/ GoodFrame(frame, settings, scene)

LEMMA SettingsAre ==
    ASSUME RatesOk, NEW t \in RateSettings
    PROVE  Typed(t)
<1>1. \A x \in RateSettings :
         /\ {x.minQp, x.maxQp, x.quantizer, x.stepLimit, x.strength} \subseteq Octet
         /\ x.quality \in Octet \cup {None}
         /\ {x.minDelta, x.maxDelta} \subseteq -128 .. 127
         /\ x.aq \in {"Off", "Activity", "EdgeAware", "ScreenAware"}
         /\ x.blockAq \in {"Off", "BlockDelta"}
  BY Zenon DEF RatesOk
<1>2. /\ {t.minQp, t.maxQp, t.quantizer, t.stepLimit, t.strength} \subseteq Octet
      /\ t.quality \in Octet \cup {None}
      /\ {t.minDelta, t.maxDelta} \subseteq -128 .. 127
      /\ t.aq \in {"Off", "Activity", "EdgeAware", "ScreenAware"}
      /\ t.blockAq \in {"Off", "BlockDelta"}
  BY <1>1, Zenon
<1> QED BY <1>2, Zenon DEF Typed

LEMMA ScenesAre ==
    ASSUME RatesOk, NEW what \in Scenes
    PROVE  what.activities \in Seq(Activities) /\ what.variances \in Seq(Nat)
<1>1. \A x \in Scenes : /\ x.activities \in Seq([variance : Nat, edges : Nat, gradient : Nat])
                        /\ x.variances \in Seq(Nat)
  BY Zenon DEF RatesOk
<1> QED BY <1>1, Zenon DEF Activities

LEMMA StartQpIs ==
    ASSUME NEW t, Typed(t), RateControlOk(t)
    PROVE  StartQp(t) \in t.minQp .. t.maxQp
<1>1. t.quantizer \in Int
  BY DEF Typed, Octet
<1>2. t.quality # None => t.quality \in Int
  BY DEF Typed, Octet
<1>3. PICK v : v = IF t.rate = "ConstantQuality" /\ t.quality # None THEN t.quality ELSE t.quantizer
  OBVIOUS
<1>4. v \in Int
  BY <1>1, <1>2, <1>3
<1>5. StartQp(t) = ClampQp(t, v)
  BY <1>3 DEF StartQp
<1> QED BY <1>4, <1>5, ClampQpIs

LEMMA AdjustedIs ==
    ASSUME NEW t, Typed(t), RateControlOk(t), NEW qp \in Int, NEW bytes, NEW target
    PROVE  AdjustedQp(t, qp, bytes, target) \in t.minQp .. t.maxQp
<1>1. PICK step \in Int : step = AtLeastOne(t.stepLimit)
  BY DEF Typed, Octet, AtLeastOne
<1>2. PICK by : by = CASE bytes > target -> step [] bytes < target -> -step [] OTHER -> 0
  OBVIOUS
<1>3. by \in Int
  BY <1>1, <1>2
<1>4. AdjustedQp(t, qp, bytes, target) = ClampQp(t, qp + by)
  BY <1>1, <1>2 DEF AdjustedQp
<1>5. qp + by \in Int
  BY <1>3
<1> QED BY <1>4, <1>5, ClampQpIs

LEMMA FrameMade ==
    ASSUME NEW t, Accepted(t), NEW what,
           what.activities \in Seq(Activities), what.variances \in Seq(Nat),
           NEW base \in t.minQp .. t.maxQp, NEW key, NEW bytes,
           NEW qps, qps = MacroblockQps(t, base, what.activities),
           NEW qp, qp = FrameQp(t, base, qps),
           NEW deltas, deltas = IF t.blockAq = "BlockDelta" THEN BlockDeltas(t, what.variances) ELSE <<>>,
           NEW f, f = [key |-> key, base |-> base, qps |-> qps, qp |-> qp, deltas |-> deltas,
                       blocks |-> [i \in DOMAIN deltas |-> BlockQp(qp, deltas[i], t.minQp, t.maxQp)],
                       bytes |-> bytes]
    PROVE  GoodFrame(f, t, what)
<1>1. t.minQp \in Nat /\ t.maxQp \in Nat
  BY AcceptedIs
<1>2. QpsAre(t, base, what.activities, qps)
  BY MacroblockIs
<1>3. qp \in t.minQp .. t.maxQp /\ qp - base \in Least(t) .. Most(t)
  BY <1>2, FrameQpIs
<1>4. PICK blocks : blocks = [i \in DOMAIN deltas |-> BlockQp(qp, deltas[i], t.minQp, t.maxQp)]
  OBVIOUS
<1>5. /\ deltas \in Seq(Int)
      /\ \A i \in DOMAIN deltas : blocks[i] \in t.minQp .. t.maxQp
      /\ \A i, j \in DOMAIN deltas : what.variances[i] <= what.variances[j] => blocks[i] >= blocks[j]
  <2>1. CASE t.blockAq = "BlockDelta"
    <3>1. deltas = BlockDeltas(t, what.variances)
      BY <2>1
    <3>2. /\ deltas \in Seq(Int)
          /\ \A i \in DOMAIN deltas : BlockQp(qp, deltas[i], t.minQp, t.maxQp) \in t.minQp .. t.maxQp
          /\ \A i, j \in DOMAIN deltas : what.variances[i] <= what.variances[j] =>
                BlockQp(qp, deltas[i], t.minQp, t.maxQp) >= BlockQp(qp, deltas[j], t.minQp, t.maxQp)
      BY <2>1, <3>1, <1>3, BlocksAre
    <3> QED BY <3>2, <1>4
  <2>2. CASE t.blockAq # "BlockDelta"
    <3>1. deltas = <<>>
      BY <2>2
    <3>2. DOMAIN deltas = {} /\ deltas \in Seq(Int)
      BY <3>1
    <3> QED BY <3>2
  <2> QED BY <2>1, <2>2
<1>6. blocks \in Seq(Int) /\ DOMAIN blocks = DOMAIN deltas
  <2>1. PICK n \in Nat : DOMAIN deltas = 1 .. n
    BY <1>5, LenProperties
  <2>2. blocks = [i \in 1 .. n |-> blocks[i]]
    BY <1>4, <2>1
  <2>3. \A i \in 1 .. n : blocks[i] \in Int
    BY <1>1, <1>5, <2>1
  <2> QED BY <1>4, <2>2, <2>3, SequenceIs
<1>7. f.base = base /\ f.qps = qps /\ f.qp = qp /\ f.deltas = deltas /\ f.blocks = blocks
  BY <1>4
<1>8. /\ qps \in Seq(Int)
      /\ \A i \in DOMAIN qps : qps[i] \in t.minQp .. t.maxQp
      /\ \A i, j \in DOMAIN qps :
            ScoreOf(t.aq, what.activities[i]) <= ScoreOf(t.aq, what.activities[j]) => qps[i] <= qps[j]
  BY <1>2 DEF QpsAre
<1> QED BY <1>3, <1>5, <1>6, <1>7, <1>8, ZenonT(40) DEF GoodFrame

LEMMA RateInit ==
    ASSUME RatesInit PROVE RateInv
BY DEF RatesInit, RateInv

LEMMA NewKeeps ==
    ASSUME RatesOk, RateInv, New PROVE RateInv'
<1>1. Typed(settings)
  BY SettingsAre DEF RateInv
<1>2. UNCHANGED <<settings, fps, scene, frame>>
  BY DEF New
<1>3. CASE RateControlOk(settings) /\ fps[1] # 0 /\ fps[2] # 0
  <2>1. controller' = "open" /\ current' = StartQp(settings)
    BY <1>3 DEF New
  <2>2. StartQp(settings) \in settings.minQp .. settings.maxQp
    BY <1>1, <1>3, StartQpIs
  <2>3. StartQp(settings) \in Nat
    BY <1>1, <2>2, TypedIs
  <2> QED BY <1>2, <1>3, <2>1, <2>2, <2>3 DEF RateInv
<1>4. CASE ~(RateControlOk(settings) /\ fps[1] # 0 /\ fps[2] # 0)
  <2>1. controller' = "refused" /\ current' = current
    BY <1>4 DEF New
  <2> QED BY <1>2, <2>1 DEF RateInv
<1> QED BY <1>3, <1>4

LEMMA EncodeKeeps ==
    ASSUME RatesOk, RateInv, NEW key \in BOOLEAN, EncodeRated(key) PROVE RateInv'
<1>1. /\ controller = "open" /\ AdaptiveQuantOk(settings)
      /\ settings.blockAq = "BlockDelta" => ClipOk(settings.minQp, settings.maxQp)
      /\ UNCHANGED <<controller, settings, fps, scene>>
  BY DEF EncodeRated, Encodable
<1>2. Typed(settings) /\ RateControlOk(settings) /\ current \in settings.minQp .. settings.maxQp
  BY <1>1, SettingsAre DEF RateInv
<1>3. Accepted(settings)
  BY <1>1, <1>2 DEF Accepted
<1>4. scene.activities \in Seq(Activities) /\ scene.variances \in Seq(Nat)
  BY ScenesAre DEF RateInv
<1>5. current \in Int /\ settings.minQp \in Nat /\ settings.maxQp \in Nat
  BY <1>2, TypedIs
<1>6. QpForFrame \in settings.minQp .. settings.maxQp
  BY <1>2, <1>5, ClampQpIs, StartQpIs DEF QpForFrame
<1>7. PICK qps, qp, deltas, bytes :
        /\ qps = MacroblockQps(settings, QpForFrame, scene.activities)
        /\ qp = FrameQp(settings, QpForFrame, qps)
        /\ deltas = IF settings.blockAq = "BlockDelta" THEN BlockDeltas(settings, scene.variances) ELSE <<>>
        /\ frame' = [key |-> key, base |-> QpForFrame, qps |-> qps, qp |-> qp, deltas |-> deltas,
                     blocks |-> [i \in DOMAIN deltas |-> BlockQp(qp, deltas[i], settings.minQp, settings.maxQp)],
                     bytes |-> bytes]
        /\ current' = IF settings.rate = "TargetBitrate"
                      THEN AdjustedQp(settings, current, bytes, TargetBytes(settings.kbps, fps[1], fps[2], key))
                      ELSE current
  BY Zenon DEF EncodeRated
<1>8. GoodFrame(frame', settings, scene)
  BY <1>3, <1>4, <1>6, <1>7, FrameMade
<1>9. current' \in settings.minQp .. settings.maxQp
  BY <1>2, <1>5, <1>7, AdjustedIs
<1>10. current' \in Nat
  BY <1>5, <1>9
<1>11. /\ controller' \in {"none", "open", "refused", "failed"}
       /\ settings' \in RateSettings /\ fps' \in FrameRates /\ scene' \in Scenes
  BY <1>1 DEF RateInv
<1>12. RateControlOk(settings') /\ current' \in settings'.minQp .. settings'.maxQp
  BY <1>1, <1>2, <1>9
<1>13. GoodFrame(frame', settings', scene')
  BY <1>1, <1>8
<1> QED BY <1>10, <1>11, <1>12, <1>13 DEF RateInv

LEMMA FailKeeps ==
    ASSUME RateInv, FailFrame PROVE RateInv'
<1>1. controller' = "failed" /\ UNCHANGED <<settings, fps, scene, current, frame>>
  BY DEF FailFrame
<1> QED BY <1>1 DEF RateInv

\* The inductive invariant: an open controller has settings that were validated and
\* a quantiser in their range, and a frame that was made is as they make it
\* (SrsV2RateController::new, observe_frame).
LEMMA RatesKeptIn ==
    ASSUME RatesOk PROVE RatesSpec => []RateInv
<1>1. RatesInit => RateInv
  BY RateInit
<1>2. RateInv /\ [RatesNext]_rateVars => RateInv'
  <2> SUFFICES ASSUME RateInv, [RatesNext]_rateVars PROVE RateInv'
    OBVIOUS
  <2>1. CASE New
    BY <2>1, NewKeeps
  <2>2. CASE FailFrame
    BY <2>2, FailKeeps
  <2>3. ASSUME NEW key \in BOOLEAN, EncodeRated(key) PROVE RateInv'
    BY <2>3, EncodeKeeps
  <2>4. CASE UNCHANGED rateVars
    BY <2>4 DEF rateVars, RateInv
  <2> QED BY <2>1, <2>2, <2>3, <2>4 DEF RatesNext
<1> QED BY <1>1, <1>2, PTL DEF RatesSpec

-----------------------------------------------------------------------------
\* The controller's state keeps its types (rate_control.rs): RatesTypeOK.
THEOREM RatesKeepTypes ==
    ASSUME RatesOk PROVE RatesSpec => []RatesTypeOK
<1>1. RateInv => RatesTypeOK
  <2> SUFFICES ASSUME RateInv PROVE RatesTypeOK
    OBVIOUS
  <2>1. frame = NoFrame => frame.qps \in Seq(Int) /\ frame.deltas \in Seq(Int) /\ frame.blocks \in Seq(Int)
    BY DEF NoFrame
  <2>2. GoodFrame(frame, settings, scene)
           => frame.qps \in Seq(Int) /\ frame.deltas \in Seq(Int) /\ frame.blocks \in Seq(Int)
    BY DEF GoodFrame
  <2> QED BY <2>1, <2>2 DEF RateInv, RatesTypeOK
<1> QED BY <1>1, RatesKeptIn, PTL

\* Whatever the settings, the scene and the sizes of frames, every quantiser that
\* leaves the encoder, and the controller's own, lies within the settings' range
\* (clamp_qp, apply_qp_delta_clamped).
THEOREM EncoderKeepsItsRange ==
    ASSUME RatesOk PROVE RatesSpec => []QuantisersInRange
<1>1. RateInv => QuantisersInRange
  BY DEF RateInv, QuantisersInRange, GoodFrame
<1> QED BY <1>1, RatesKeptIn, PTL

\* For any texture a busier macroblock never has the lower quantiser, and a more
\* varied block never the higher one (qp_delta_from_score, choose_block_qp_delta).
THEOREM TextureAlwaysOrders ==
    ASSUME RatesOk PROVE RatesSpec => []TextureOrdersQuantisers
<1>1. RateInv => TextureOrdersQuantisers
  <2> SUFFICES ASSUME RateInv PROVE TextureOrdersQuantisers
    OBVIOUS
  <2>1. CASE frame = NoFrame
    <3>1. frame.qps = <<>> /\ frame.blocks = <<>>
      BY <2>1 DEF NoFrame
    <3>2. DOMAIN frame.qps = {} /\ DOMAIN frame.blocks = {}
      BY <3>1
    <3> QED BY <3>2 DEF TextureOrdersQuantisers
  <2>2. CASE GoodFrame(frame, settings, scene)
    BY <2>2, Zenon DEF GoodFrame, TextureOrdersQuantisers
  <2> QED BY <2>1, <2>2 DEF RateInv
<1> QED BY <1>1, RatesKeptIn, PTL

\* However many macroblocks a frame has, the mean of their quantisers is no
\* further from what rate control asked for than the settings' deltas let one
\* of them go (resolve_frame_adaptive_qp).
THEOREM MeanStaysNearBase ==
    ASSUME RatesOk PROVE RatesSpec => []FrameStaysNearBase
<1>1. RateInv => FrameStaysNearBase
  BY DEF RateInv, FrameStaysNearBase, GoodFrame, Least, Most
<1> QED BY <1>1, RatesKeptIn, PTL
===============================================================================
