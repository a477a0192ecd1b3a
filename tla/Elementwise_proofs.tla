-------------------------- MODULE Elementwise_proofs --------------------------
(***************************************************************************)
(* Theorems about Elementwise, for every width of int64 and every pair of  *)
(* float formats the assumptions of Numbers allow: rounding, what each     *)
(* kernel yields, that an element stays a value of its dtype however long  *)
(* the program, and that calls return NumPy's dtype and value.             *)
(***************************************************************************)
EXTENDS Elementwise, FoldTheorems

-----------------------------------------------------------------------------
(* Powers of two *)

\* A power of two counts the sets of bits.
LEMMA TwoTakes == ASSUME NEW k \in Nat PROVE 2 ^ k \in Nat /\ 2 ^ k > 0
<1> DEFINE S == 1 .. k
           U == SUBSET S
<1>1. IsFiniteSet(S) /\ Cardinality(S) = k
  BY FS_Interval
<1> HIDE DEF S
<1>2. IsFiniteSet(U) /\ Cardinality(U) = 2 ^ k
  BY <1>1, FS_SUBSET
<1>3. U # {}
  OBVIOUS
<1> HIDE DEF U
<1>4. Cardinality(U) \in Nat /\ Cardinality(U) # 0
  BY <1>2, <1>3, FS_CardinalityType, FS_EmptySet
<1> QED
  BY <1>2, <1>4

\* Fewer bits, fewer sets.
LEMMA TwoGrows == ASSUME NEW j \in Nat, NEW k \in Nat, j <= k PROVE 2 ^ j <= 2 ^ k
<1> DEFINE S == 1 .. j
           T == 1 .. k
<1>1. IsFiniteSet(S) /\ Cardinality(S) = j /\ IsFiniteSet(T) /\ Cardinality(T) = k
  BY FS_Interval
<1>2. S \subseteq T
  OBVIOUS
<1> HIDE DEF S, T
<1>3. /\ IsFiniteSet(SUBSET S) /\ Cardinality(SUBSET S) = 2 ^ j
      /\ IsFiniteSet(SUBSET T) /\ Cardinality(SUBSET T) = 2 ^ k
  BY <1>1, FS_SUBSET
<1> DEFINE U == SUBSET S
           V == SUBSET T
<1>4. U \in SUBSET V
  BY <1>2
<1>5. IsFiniteSet(V) /\ Cardinality(U) = 2 ^ j /\ Cardinality(V) = 2 ^ k
  BY <1>3
<1> HIDE DEF U, V
<1>6. Cardinality(U) <= Cardinality(V)
  BY <1>4, <1>5, FS_Subset
<1> QED
  BY <1>5, <1>6

\* One bit more, twice as many sets: those with the bit and those without.
LEMMA TwoDoubles == ASSUME NEW k \in Nat PROVE 2 ^ (k + 1) = 2 * 2 ^ k
<1> DEFINE n == k + 1
           S == 1 .. k
           T == 1 .. n
           U == SUBSET S
           V == {A \cup {n} : A \in U}
           f == [A \in U |-> A \cup {n}]
<1>1. /\ IsFiniteSet(S) /\ Cardinality(S) = k /\ IsFiniteSet(T) /\ Cardinality(T) = n
      /\ n \in Nat /\ n \notin S /\ T = S \cup {n}
  <2>1. n \in Nat /\ n \notin S /\ T = S \cup {n}
    OBVIOUS
  <2> HIDE DEF n
  <2> QED
    BY <2>1, FS_Interval
<1> HIDE DEF S, T, n
<1>2. IsFiniteSet(U) /\ Cardinality(U) = 2 ^ k
  BY <1>1, FS_SUBSET
<1>3. IsFiniteSet(SUBSET T) /\ Cardinality(SUBSET T) = 2 ^ n
  BY <1>1, FS_SUBSET
<1>4. SUBSET T = U \cup V /\ U \cap V = {}
  <2>1. ASSUME NEW B \in SUBSET T, n \in B PROVE B \in V
    <3>1. B \ {n} \in U /\ B = (B \ {n}) \cup {n}
      BY <1>1, <2>1
    <3> QED
      BY <3>1
  <2>2. ASSUME NEW B \in SUBSET T, n \notin B PROVE B \in U
    BY <1>1, <2>2
  <2>3. ASSUME NEW B \in V PROVE B \in SUBSET T /\ B \notin U
    BY <1>1
  <2>4. U \subseteq SUBSET T
    BY <1>1
  <2> QED
    BY <2>1, <2>2, <2>3, <2>4
<1>5. f \in Bijection(U, V)
  <2>1. \A A, B \in U : A \cup {n} = B \cup {n} => A = B
    <3> SUFFICES ASSUME NEW A \in U, NEW B \in U, A \cup {n} = B \cup {n} PROVE A = B
      OBVIOUS
    <3>1. n \notin A /\ n \notin B
      BY <1>1
    <3> QED
      BY <3>1
  <2>2. f \in [U -> V]
    OBVIOUS
  <2>3. \A B \in V : \E A \in U : f[A] = B
    OBVIOUS
  <2>4. \A A, B \in U : f[A] = f[B] => A = B
    BY <2>1
  <2> HIDE DEF f, U, V
  <2>5. f \in Injection(U, V)
    BY <2>2, <2>4 DEF Injection, IsInjective
  <2>6. f \in Surjection(U, V)
    BY <2>2, <2>3 DEF Surjection
  <2> QED
    BY <2>5, <2>6 DEF Bijection
<1> HIDE DEF U, V, f
<1>6. IsFiniteSet(V) /\ Cardinality(V) = 2 ^ k
  <2>1. ExistsBijection(U, V)
    BY <1>5 DEF ExistsBijection
  <2> QED
    BY <1>2, <2>1, FS_Bijection
<1>7. Cardinality(U \cup V) = 2 ^ k + 2 ^ k
  <2>1. Cardinality(U \cap V) = 0
    BY <1>4, FS_EmptySet
  <2>2. 2 ^ k \in Nat
    BY TwoTakes
  <2> QED
    BY <1>2, <1>6, <2>1, <2>2, FS_Union
<1>8. 2 ^ n = 2 ^ k + 2 ^ k
  BY <1>3, <1>4, <1>7
<1> QED
  BY <1>8, TwoTakes DEF n

\* Exponents add.
LEMMA TwoAdds == ASSUME NEW j \in Nat, NEW k \in Nat PROVE 2 ^ (j + k) = 2 ^ j * 2 ^ k
<1> DEFINE T == {i \in 0 .. k : 2 ^ (j + i) = 2 ^ j * 2 ^ i}
<1>1. 0 \in T
  <2>1. j + 0 = j /\ 2 ^ 0 = 1 /\ 2 ^ j \in Nat
    BY TwoTakes
  <2>2. 2 ^ j * 1 = 2 ^ j
    BY <2>1
  <2> QED
    BY <2>1, <2>2
<1>2. ASSUME NEW i \in 0 .. k - 1, i \in T PROVE i + 1 \in T
  <2> DEFINE a == 2 ^ j
             b == 2 ^ i
             c == 2 ^ (j + i)
  <2>1. i \in Nat /\ j + i \in Nat /\ j + (i + 1) = (j + i) + 1
    OBVIOUS
  <2>2. a \in Nat /\ b \in Nat /\ c \in Nat /\ c = a * b
    BY <1>2, <2>1, TwoTakes
  <2>3. 2 ^ (j + (i + 1)) = 2 * c /\ 2 ^ (i + 1) = 2 * b
    BY <2>1, TwoDoubles
  <2> HIDE DEF a, b, c
  <2>4. 2 * c = a * (2 * b)
    BY <2>2
  <2>5. 2 ^ (j + (i + 1)) = a * 2 ^ (i + 1)
    BY <2>3, <2>4
  <2> QED
    BY <2>5 DEF a
<1>3. k \in T
  <2> HIDE DEF T
  <2> QED
    BY <1>1, <1>2, Reaches
<1> QED
  BY <1>3

-----------------------------------------------------------------------------
(* Rounding *)

Floats == {"f64", "f32"}

\* v is a multiple of the unit 2^e with Precision digits at most.
OnGrid(f, e, v) ==
    /\ e \in 0 .. TopUnit[f]
    /\ v \in Int /\ v % 2 ^ e = 0
    /\ Abs(v) <= 2 ^ (Precision[f] + e)

Top(f) == 2 ^ (Precision[f] + TopUnit[f])

\* The finite numbers of a float type.
FiniteFloat(f, v) == v \in Int /\ Abs(v) < Top(f) /\ \E e \in 0 .. TopUnit[f] : OnGrid(f, e, v)

Specials == {NaN, Inf, -Inf}

\* The values of a float type.
Float(f, v) == FiniteFloat(f, v) \/ v \in Specials

\* The constants of a format.
LEMMA FormatTakes ==
    ASSUME NEW f \in Floats
    PROVE  /\ Precision[f] \in Nat /\ Precision[f] > 0 /\ TopUnit[f] \in Nat
           /\ Top(f) \in Nat /\ Top(f) <= Inf /\ Inf \in Nat /\ NaN = Inf + 1
           /\ Frac < TopUnit[f] /\ Frac \in Nat
           /\ One \in Nat /\ One > 0
<1>1. /\ Precision[f] \in Nat /\ Precision[f] > 0 /\ TopUnit[f] \in Nat
      /\ Precision[f] + TopUnit[f] \in Nat
  BY FormatAssumption DEF Floats
<1>2. Top(f) \in Nat /\ Top(f) <= Inf
  BY <1>1, TwoTakes, InfAssumption DEF Floats, Top
<1>3. Inf \in Nat
  BY TwoTakes DEF Inf
<1>4. Frac \in Nat /\ One \in Nat /\ One > 0
  BY WidthAssumption, TwoTakes DEF One
<1>5. Frac < TopUnit[f]
  BY IntegersAssumption DEF Floats
<1> QED
  BY <1>1, <1>2, <1>3, <1>4, <1>5 DEF NaN

LEMMA Division ==
    ASSUME NEW x1 \in Int, NEW w \in Nat, w > 0
    PROVE  /\ x1 \div w \in Int /\ x1 % w \in Int
           /\ x1 = (x1 \div w) * w + (x1 % w) /\ 0 <= x1 % w /\ x1 % w < w
  OBVIOUS

\* A number is a multiple when it is some integer times w.
LEMMA Multiple ==
    ASSUME NEW q \in Int, NEW w \in Nat, w > 0
    PROVE  (q * w) % w = 0 /\ q * w \in Int /\ (q * w) \div w = q
<1> DEFINE v == q * w
<1>1. v \in Int
  OBVIOUS
<1>2. v = (v \div w) * w + (v % w) /\ 0 <= v % w /\ v % w < w /\ v \div w \in Int
  <2> HIDE DEF v
  <2> QED
    BY <1>1, Division
<1> DEFINE p == v \div w
           r == v % w
<1>3. p \in Int /\ r \in Int /\ (q - p) * w = r /\ 0 <= r /\ r < w
  <2>1. p \in Int /\ r \in Int /\ v = p * w + r /\ 0 <= r /\ r < w /\ v = q * w
    BY <1>1, <1>2
  <2> HIDE DEF v, p, r
  <2> QED
    BY <2>1
<1> HIDE DEF v, p, r
<1>4. q - p = 0
  <2> DEFINE d == q - p
  <2>1. d \in Int /\ d * w = r
    BY <1>3
  <2> HIDE DEF d
  <2>2. ASSUME d >= 1 PROVE FALSE
    <3>1. d * w >= w
      BY <2>1, <2>2
    <3> QED
      BY <1>3, <2>1, <3>1
  <2>3. ASSUME d <= -1 PROVE FALSE
    <3>1. d * w <= -w
      BY <2>1, <2>3
    <3> QED
      BY <1>3, <2>1, <3>1
  <2>4. d = 0
    BY <2>1, <2>2, <2>3
  <2> QED
    BY <2>4 DEF d
<1>5. p = q /\ r = 0
  BY <1>3, <1>4
<1> QED
  BY <1>1, <1>5 DEF p, r, v

\* Smaller units divide larger ones.
LEMMA UnitsDivide ==
    ASSUME NEW d \in Nat, NEW e \in Nat, d <= e, NEW v \in Int, v % 2 ^ e = 0
    PROVE  v % 2 ^ d = 0
<1> DEFINE a == 2 ^ d
           b == 2 ^ (e - d)
           c == 2 ^ e
           q == v \div c
<1>1. /\ a \in Nat /\ a > 0 /\ b \in Nat /\ c \in Nat /\ c > 0
      /\ c = a * b
  <2>1. e - d \in Nat /\ d + (e - d) = e
    OBVIOUS
  <2> QED
    BY <2>1, TwoTakes, TwoAdds
<1> HIDE DEF a, b
<1>2. v = q * c /\ q \in Int
  <2>1. v % c = 0
    OBVIOUS
  <2> HIDE DEF c
  <2> QED
    BY <1>1, <2>1, Division
<1> HIDE DEF c, q
<1>3. v = (q * b) * a /\ q * b \in Int
  BY <1>1, <1>2
<1> DEFINE k == q * b
<1>4. k \in Int /\ v = k * a
  BY <1>3
<1> HIDE DEF k
<1>5. v % a = 0
  BY <1>1, <1>4, Multiple
<1> QED
  BY <1>5 DEF a

\* The least exponent of a set of exponents.
LEMMA MinTakes ==
    ASSUME NEW n \in Nat, NEW S \in SUBSET (0 .. n), S # {}
    PROVE  Min(S) \in S /\ \A y \in S : Min(S) <= y
<1>1. \E k \in S : \A m \in S : k <= m
  <2>1. S \subseteq Nat
    OBVIOUS
  <2> QED
    BY <2>1, LeastMember
<1> QED
  BY <1>1 DEF Min

\* What Nearest chooses: an exponent, that of the last place.
Unit(f, num, den, e) ==
    /\ e \in 0 .. TopUnit[f]
    /\ \/ Abs(num) < 2 ^ (Precision[f] + e) * den
       \/ e = TopUnit[f]
    /\ \A d \in 0 .. TopUnit[f] : d < e => Abs(num) >= 2 ^ (Precision[f] + d) * den

Rounded(f, num, den, e) ==
    LET unit == 2 ^ e
        low  == Abs(num) \div (den * unit)
        rest == 2 * (Abs(num) % (den * unit)) - den * unit
    IN  unit * (IF rest > 0 \/ (rest = 0 /\ low % 2 = 1) THEN low + 1 ELSE low)

LEMMA NearestChooses ==
    ASSUME NEW f \in Floats, NEW num \in Int, NEW den \in Nat, den > 0
    PROVE  \E e : /\ Unit(f, num, den, e)
                  /\ Nearest(f, num, den)
                       = Sign(num) * (IF Rounded(f, num, den, e) < Top(f)
                                      THEN Rounded(f, num, den, e) ELSE Inf)
<1> DEFINE T == TopUnit[f]
           P == Precision[f]
           mag == Abs(num)
           fits == {d \in 0 .. T : mag < 2 ^ (P + d) * den}
           e == IF fits = {} THEN T ELSE Min(fits)
<1>1. T \in Nat /\ P \in Nat /\ mag \in Int
  BY FormatTakes DEF Abs
<1>2. fits # {} => Min(fits) \in fits /\ \A y \in fits : Min(fits) <= y
  <2>1. fits \in SUBSET (0 .. T)
    OBVIOUS
  <2> HIDE DEF fits
  <2> QED
    BY <1>1, <2>1, MinTakes
<1>3. Unit(f, num, den, e)
  <2>1. CASE fits = {}
    <3>1. e = T
      BY <2>1
    <3>2. \A d \in 0 .. T : ~(mag < 2 ^ (P + d) * den)
      BY <2>1
    <3>3. \A d \in 0 .. T : 2 ^ (P + d) * den \in Int
      <4> TAKE d \in 0 .. T
      <4>1. 2 ^ (P + d) \in Nat
        BY <1>1, TwoTakes
      <4> QED
        BY <4>1
    <3> HIDE DEF e, fits
    <3> QED
      BY <1>1, <3>1, <3>2, <3>3 DEF Unit
  <2>2. CASE fits # {}
    <3>1. e = Min(fits)
      BY <2>2
    <3>2. e \in 0 .. T /\ mag < 2 ^ (P + e) * den
      <4>1. e \in fits
        BY <1>2, <2>2, <3>1
      <4> HIDE DEF e
      <4> QED
        BY <4>1
    <3>3. \A d \in 0 .. T : d < e => ~(mag < 2 ^ (P + d) * den)
      <4> SUFFICES ASSUME NEW d \in 0 .. T, d < e, mag < 2 ^ (P + d) * den PROVE FALSE
        OBVIOUS
      <4>1. d \in fits
        OBVIOUS
      <4>2. e <= d
        BY <1>2, <2>2, <3>1, <4>1
      <4> HIDE DEF e, fits
      <4> QED
        BY <3>2, <4>2
    <3>4. \A d \in 0 .. T : 2 ^ (P + d) * den \in Int
      <4> TAKE d \in 0 .. T
      <4>1. 2 ^ (P + d) \in Nat
        BY <1>1, TwoTakes
      <4> QED
        BY <4>1
    <3> HIDE DEF e, fits
    <3> QED
      BY <1>1, <3>2, <3>3, <3>4 DEF Unit
  <2> QED
    BY <2>1, <2>2
<1>4. Nearest(f, num, den)
        = Sign(num) * (IF Rounded(f, num, den, e) < Top(f) THEN Rounded(f, num, den, e) ELSE Inf)
  BY DEF Nearest, Rounded, Top
<1> HIDE DEF e
<1> QED
  BY <1>3, <1>4

\* A rounded magnitude is a multiple of the unit and needs no more digits.
LEMMA RoundedTakes ==
    ASSUME NEW f \in Floats, NEW num \in Int, NEW den \in Nat, den > 0,
           NEW e, Unit(f, num, den, e)
    PROVE  /\ Rounded(f, num, den, e) \in Nat /\ Rounded(f, num, den, e) % 2 ^ e = 0
           /\ Rounded(f, num, den, e) < Top(f) =>
                 Rounded(f, num, den, e) <= 2 ^ (Precision[f] + e)
<1> DEFINE r == Rounded(f, num, den, e)
           u == 2 ^ e
           p == 2 ^ Precision[f]
           m == Abs(num)
           w == den * u
           q == m \div w
           up == 2 * (m % w) - w > 0 \/ (2 * (m % w) - w = 0 /\ q % 2 = 1)
           k == IF up THEN q + 1 ELSE q
<1>1. /\ e \in Nat /\ Precision[f] \in Nat /\ TopUnit[f] \in Nat /\ m \in Nat
      /\ m < 2 ^ (Precision[f] + e) * den \/ e = TopUnit[f]
  BY FormatTakes DEF Unit, Abs
<1>2. u \in Nat /\ u > 0 /\ p \in Nat /\ p > 0 /\ 2 ^ (Precision[f] + e) = p * u
  BY <1>1, TwoTakes, TwoAdds
<1>3. r = u * k
  BY DEF Rounded
<1> HIDE DEF u, p, m
<1>4. w \in Nat /\ w > 0
  BY <1>2
<1>5. q \in Nat /\ q * w <= m
  <2> HIDE DEF w
  <2>1. m = q * w + (m % w) /\ 0 <= m % w /\ m % w < w /\ q \in Int
    BY <1>1, <1>4, Division
  <2> HIDE DEF q
  <2>2. ASSUME q <= -1 PROVE FALSE
    <3>1. q * w <= -w
      BY <1>4, <2>1, <2>2
    <3> QED
      BY <1>1, <1>4, <2>1, <3>1
  <2> QED
    BY <1>1, <1>4, <2>1, <2>2
<1>6. k \in Nat /\ (k = q \/ k = q + 1)
  <2> HIDE DEF q, up
  <2> QED
    BY <1>5
<1>7. r \in Nat /\ r % u = 0
  <2> HIDE DEF k
  <2>1. k * u \in Nat /\ k * u = u * k /\ (k * u) % u = 0
    BY <1>2, <1>6, Multiple
  <2> QED
    BY <1>3, <2>1
<1>8. CASE m < (p * u) * den
  <2>1. q < p
    <3> SUFFICES ASSUME q >= p PROVE FALSE
      BY <1>2, <1>5
    <3> HIDE DEF q
    <3>1. q * w >= p * w
      <4> HIDE DEF w
      <4> QED
        BY <1>2, <1>4, <1>5
    <3>2. p * w = (p * u) * den
      BY <1>2
    <3>3. p * w \in Int /\ q * w \in Int
      BY <1>2, <1>4, <1>5
    <3> HIDE DEF w
    <3> QED
      BY <1>1, <1>5, <1>8, <3>1, <3>2, <3>3
  <2>2. k <= p
    <3> HIDE DEF q, k
    <3> QED
      BY <1>2, <1>5, <1>6, <2>1
  <2>3. u * k <= p * u
    <3> HIDE DEF k
    <3> QED
      BY <1>2, <1>6, <2>2
  <2> QED
    BY <1>2, <1>3, <1>7, <2>3 DEF u, p
<1>9. CASE e = TopUnit[f]
  <2>1. Top(f) = p * u
    BY <1>2, <1>9 DEF Top
  <2>2. p * u \in Int
    BY <1>2
  <2>3. r % 2 ^ e = 0
    BY <1>7 DEF u
  <2> HIDE DEF r
  <2> QED
    BY <1>2, <1>7, <2>1, <2>2, <2>3 DEF r
<1> QED
  BY <1>1, <1>2, <1>8, <1>9

\* Every result of rounding is a value of the type.
LEMMA NearestTakes ==
    ASSUME NEW f \in Floats, NEW num \in Int, NEW den \in Nat, den > 0
    PROVE  Float(f, Nearest(f, num, den)) /\ Nearest(f, num, den) # NaN
<1> DEFINE v == Nearest(f, num, den)
<1>1. PICK e : /\ Unit(f, num, den, e)
               /\ v = Sign(num) * (IF Rounded(f, num, den, e) < Top(f)
                                   THEN Rounded(f, num, den, e) ELSE Inf)
  BY NearestChooses
<1> DEFINE r == Rounded(f, num, den, e)
           u == 2 ^ e
           c == 2 ^ (Precision[f] + e)
<1>2. r \in Nat /\ r % u = 0 /\ (r < Top(f) => r <= c)
  BY <1>1, RoundedTakes
<1>3. /\ e \in 0 .. TopUnit[f] /\ u \in Nat /\ u > 0 /\ c \in Nat /\ Top(f) \in Nat
      /\ Top(f) <= Inf /\ Inf \in Nat /\ NaN = Inf + 1
  BY <1>1, FormatTakes, TwoTakes DEF Unit
<1>4. Sign(num) \in {-1, 0, 1} /\ v = Sign(num) * (IF r < Top(f) THEN r ELSE Inf)
  BY <1>1 DEF Sign
<1> HIDE DEF v, r, c
<1>5. CASE r < Top(f)
  <2>1. v \in {r, -r, 0}
    BY <1>2, <1>4, <1>5
  <2>2. v \in Int /\ Abs(v) < Top(f) /\ Abs(v) <= c
    BY <1>2, <1>3, <1>5, <2>1 DEF Abs
  <2>3. v % u = 0
    <3> HIDE DEF u
    <3>1. r = (r \div u) * u /\ r \div u \in Int
      BY <1>2, <1>3, Division
    <3> DEFINE q == r \div u
    <3>2. q \in Int /\ -q \in Int /\ r = q * u /\ -r = (-q) * u /\ 0 = 0 * u
      BY <1>2, <1>3, <3>1
    <3> HIDE DEF q
    <3>3. (q * u) % u = 0 /\ ((-q) * u) % u = 0 /\ (0 * u) % u = 0
      BY <1>3, <3>2, Multiple
    <3> QED
      BY <2>1, <3>2, <3>3
  <2>4. OnGrid(f, e, v)
    BY <1>3, <2>2, <2>3 DEF OnGrid, u, c
  <2> QED
    BY <1>3, <2>2, <2>4 DEF Float, FiniteFloat, Abs, v
<1>6. CASE ~(r < Top(f))
  <2>1. v \in {Inf, -Inf, 0}
    BY <1>3, <1>4, <1>6
  <2>2. FiniteFloat(f, 0)
    <3>1. OnGrid(f, e, 0)
      <4>1. 0 % u = 0
        <5> HIDE DEF u
        <5> QED
          BY <1>3
      <4> QED
        BY <1>3, <4>1 DEF OnGrid, Abs, u, c
    <3>2. Top(f) > 0
      <4>1. Precision[f] + TopUnit[f] \in Nat
        BY FormatTakes
      <4> QED
        BY <4>1, TwoTakes DEF Top
    <3> QED
      BY <1>3, <3>1, <3>2 DEF FiniteFloat, Abs
  <2> QED
    BY <1>3, <2>1, <2>2 DEF Float, Specials, v
<1> QED
  BY <1>5, <1>6

\* The opposite of a multiple is one.
LEMMA Opposite ==
    ASSUME NEW v \in Int, NEW w \in Nat, w > 0, v % w = 0
    PROVE  (-v) % w = 0 /\ Abs(v) % w = 0 /\ Abs(v) \in Nat
<1> DEFINE q == v \div w
<1>1. q \in Int /\ v = q * w
  BY Division
<1> HIDE DEF q
<1>2. -q \in Int /\ -v = (-q) * w
  BY <1>1
<1>3. (-v) % w = 0
  <2> DEFINE k == -q
  <2>1. k \in Int /\ -v = k * w
    BY <1>2
  <2> HIDE DEF k
  <2> QED
    BY <2>1, Multiple
<1> QED
  BY <1>3 DEF Abs

\* The unit that a number of the type is rounded to divides it.
LEMMA UnitDivides ==
    ASSUME NEW f \in Floats, NEW v, FiniteFloat(f, v), NEW e, Unit(f, v, 1, e)
    PROVE  v % 2 ^ e = 0
<1>1. v \in Int /\ Abs(v) < Top(f)
  BY DEF FiniteFloat
<1>3. PICK g \in 0 .. TopUnit[f] : OnGrid(f, g, v)
  BY DEF FiniteFloat
<1> DEFINE P == Precision[f]
           T == TopUnit[f]
           u == 2 ^ e
           m == Abs(v)
<1>4. /\ P \in Nat /\ P > 0 /\ T \in Nat /\ e \in Nat /\ g \in Nat /\ e <= T
      /\ u \in Nat /\ u > 0 /\ m \in Nat
  <2>1. e \in 0 .. T
    BY DEF Unit
  <2>2. P \in Nat /\ P > 0 /\ T \in Nat
    BY FormatTakes
  <2>3. m \in Nat
    BY <1>1 DEF Abs
  <2> QED
    BY <1>3, <2>1, <2>2, <2>3, TwoTakes
<1>5. v % 2 ^ g = 0 /\ m <= 2 ^ (P + g)
  BY <1>3 DEF OnGrid
<1>6. v % u = 0
  <2>1. CASE e <= g
    BY <1>1, <1>4, <1>5, <2>1, UnitsDivide
  <2>2. CASE g < e
    <3> DEFINE c == 2 ^ (P + g)
    <3>1. c \in Nat /\ c > 0 /\ 2 ^ (P + (g + 1)) = 2 * c /\ c = 2 ^ (P - 1) * 2 ^ (g + 1)
      <4>1. P + g \in Nat /\ P - 1 \in Nat /\ g + 1 \in Nat /\ P + (g + 1) = (P + g) + 1
            /\ (P - 1) + (g + 1) = P + g
        BY <1>4
      <4> QED
        BY <4>1, TwoTakes, TwoDoubles, TwoAdds
    <3>2. m >= c * 1
      BY <1>3, <2>2 DEF Unit
    <3>3. m = c
      <4> HIDE DEF m
      <4>1. m <= c
        BY <1>5
      <4> HIDE DEF c
      <4> QED
        BY <1>4, <3>1, <3>2, <4>1
    <3>4. e = g + 1
      <4> SUFFICES ASSUME g + 1 < e PROVE FALSE
        BY <1>4, <2>2
      <4>1. g + 1 \in 0 .. T
        BY <1>4
      <4>2. m >= 2 ^ (P + (g + 1)) * 1
        BY <4>1 DEF Unit
      <4>3. m >= 2 * c
        <5>1. m >= (2 * c) * 1
          BY <3>1, <4>2
        <5> HIDE DEF c
        <5> QED
          BY <3>1, <5>1
      <4> HIDE DEF m, c
      <4> QED
        BY <3>1, <3>3, <4>3
    <3>5. m % u = 0
      <4> DEFINE k == 2 ^ (P - 1)
      <4>1. P - 1 \in Nat
        BY <1>4
      <4>2. k \in Int /\ m = k * u
        BY <3>1, <3>3, <3>4, <4>1, TwoTakes
      <4> HIDE DEF k, u, m
      <4> QED
        BY <1>4, <4>2, Multiple
    <3>6. v = m \/ v = -m
      BY <1>1 DEF Abs
    <3>7. (-m) % u = 0
      <4> HIDE DEF m, u
      <4>1. m \in Int /\ u \in Nat /\ u > 0 /\ m % u = 0
        BY <1>4, <3>5
      <4>2. (-m) % u = 0 /\ Abs(m) % u = 0
        BY <4>1, Opposite
      <4> QED
        BY <4>2
    <3> HIDE DEF m, u
    <3> QED
      BY <3>5, <3>6, <3>7
  <2> QED
    BY <1>4, <2>1, <2>2
<1> QED
  BY <1>6

\* Rounding leaves the numbers of the type alone.
LEMMA NearestFixes ==
    ASSUME NEW f \in Floats, NEW v, FiniteFloat(f, v)
    PROVE  Nearest(f, v, 1) = v
<1>1. v \in Int /\ Abs(v) < Top(f)
  BY DEF FiniteFloat
<1>2. PICK e : /\ Unit(f, v, 1, e)
               /\ Nearest(f, v, 1) = Sign(v) * (IF Rounded(f, v, 1, e) < Top(f)
                                                THEN Rounded(f, v, 1, e) ELSE Inf)
  <2>1. 1 \in Nat /\ 1 > 0
    OBVIOUS
  <2> QED
    BY <1>1, <2>1, NearestChooses
<1>3. PICK g \in 0 .. TopUnit[f] : OnGrid(f, g, v)
  BY DEF FiniteFloat
<1> DEFINE P == Precision[f]
           T == TopUnit[f]
           u == 2 ^ e
           m == Abs(v)
<1>4. /\ P \in Nat /\ P > 0 /\ T \in Nat /\ e \in Nat /\ g \in Nat /\ e <= T
      /\ u \in Nat /\ u > 0 /\ m \in Nat
  <2>1. e \in 0 .. T
    BY <1>2 DEF Unit
  <2>2. P \in Nat /\ P > 0 /\ T \in Nat
    BY FormatTakes
  <2>3. m \in Nat
    BY <1>1 DEF Abs
  <2> QED
    BY <1>3, <2>1, <2>2, <2>3, TwoTakes
<1>5. v % 2 ^ g = 0 /\ m <= 2 ^ (P + g)
  BY <1>3 DEF OnGrid
<1>6. v % u = 0
  BY <1>2, UnitDivides
<1>7. Rounded(f, v, 1, e) = m
  <2> DEFINE w == 1 * u
             q == m \div w
  <2>1. w = u /\ w \in Nat /\ w > 0
    BY <1>4
  <2>2. m % w = 0
    <3> HIDE DEF w, u
    <3> QED
      BY <1>1, <1>4, <1>6, <2>1, Opposite
  <2>3. m = q * w /\ q \in Int
    <3> HIDE DEF w, m
    <3> QED
      BY <1>4, <2>1, <2>2, Division
  <2>4. Rounded(f, v, 1, e) = u * (IF 2 * (m % w) - w > 0 \/ (2 * (m % w) - w = 0 /\ q % 2 = 1)
                                   THEN q + 1 ELSE q)
    BY DEF Rounded
  <2> HIDE DEF w, q, m, u
  <2>5. ~(2 * (m % w) - w > 0) /\ 2 * (m % w) - w # 0
    BY <2>1, <2>2
  <2>6. Rounded(f, v, 1, e) = u * q
    BY <2>4, <2>5
  <2> QED
    BY <1>4, <2>1, <2>3, <2>6
<1>8. Sign(v) * m = v
  BY <1>1 DEF Sign, Abs
<1> QED
  BY <1>1, <1>2, <1>7, <1>8

\* The numbers the arithmetic is given: integers, infinities, NaN.
Number(v) == v \in Int /\ -Inf <= v /\ v <= NaN

\* The values of a type, and what Representable says of them.
Value(t, v) == IF t = "i64" THEN v \in Int /\ v % One = 0 /\ IntMin <= v /\ v <= IntMax
                            ELSE Float(t, v)

LEMMA FloatTakes ==
    ASSUME NEW f \in Floats, NEW v, Float(f, v)
    PROVE  /\ Number(v) /\ v \in Int /\ Representable(f, v)
           /\ IsFinite(v) <=> FiniteFloat(f, v)
           /\ ~IsFinite(v) <=> v \in Specials
<1>1. Top(f) <= Inf /\ Top(f) \in Nat /\ Inf \in Nat /\ NaN = Inf + 1
  BY FormatTakes
<1>2. ASSUME FiniteFloat(f, v) PROVE /\ v \in Int /\ IsFinite(v) /\ Number(v)
                                     /\ Representable(f, v) /\ v \notin Specials
  <2>1. v \in Int /\ Abs(v) < Top(f)
    BY <1>2 DEF FiniteFloat
  <2>2. IsFinite(v) /\ Number(v) /\ v \notin Specials
    BY <1>1, <2>1 DEF IsFinite, Number, Abs, Specials
  <2>3. Nearest(f, v, 1) = v
    BY <1>2, NearestFixes
  <2> QED
    BY <2>1, <2>2, <2>3 DEF Representable, Floats
<1>3. ASSUME v \in Specials PROVE /\ v \in Int /\ ~IsFinite(v) /\ Number(v)
                                  /\ Representable(f, v)
  <2>1. v \in Int /\ ~IsFinite(v) /\ Number(v)
    BY <1>1, <1>3 DEF IsFinite, Number, Abs, Specials
  <2> QED
    BY <2>1 DEF Representable, Floats
<1> QED
  BY <1>2, <1>3 DEF Float

\* The bounds of int64, in terms of half its range.
LEMMA WidthTakes ==
    \E h \in Nat : /\ h >= 4 /\ IntMin = (-h) * One /\ IntMax = (h - 1) * One
                   /\ 2 ^ Bits * One = (2 * h) * One /\ h * One < Inf
                   /\ h * One \in Nat /\ One \in Nat /\ One > 0 /\ Inf \in Nat
<1> DEFINE h == 2 ^ (Bits - 1)
<1>1. /\ Bits \in Nat /\ Bits - 1 \in Nat /\ Bits - 2 \in Nat /\ Bits - 3 \in Nat
      /\ (Bits - 1) + 1 = Bits /\ (Bits - 2) + 1 = Bits - 1 /\ (Bits - 3) + 1 = Bits - 2
  BY WidthAssumption
<1>2. h \in Nat /\ 2 ^ Bits = 2 * h
  BY <1>1, TwoTakes, TwoDoubles
<1>3. h >= 4
  <2>1. /\ 2 ^ (Bits - 3) \in Nat /\ 2 ^ (Bits - 3) > 0 /\ 2 ^ (Bits - 2) = 2 * 2 ^ (Bits - 3)
        /\ h = 2 * 2 ^ (Bits - 2)
    BY <1>1, TwoTakes, TwoDoubles
  <2> HIDE DEF h
  <2> QED
    BY <2>1
<1>4. One \in Nat /\ One > 0 /\ Inf \in Nat
  BY WidthAssumption, TwoTakes DEF One, Inf
<1>5. h * One < Inf /\ h * One \in Nat
  BY <1>2, <1>4, InfAssumption
<1>6. IntMin = (-h) * One /\ IntMax = (h - 1) * One
  <2>1. IntMin = -(h * One) /\ IntMax = (h - 1) * One
    BY <1>2, <1>4 DEF IntMin, IntMax
  <2> HIDE DEF h
  <2> QED
    BY <1>2, <1>4, <2>1
<1> HIDE DEF h
<1> QED
  BY <1>2, <1>3, <1>4, <1>5, <1>6

\* Wrapping a whole number gives an int64.
LEMMA WrapTakes ==
    ASSUME NEW n \in Int
    PROVE  Value("i64", Wrap(n * One))
<1>1. PICK h \in Nat : /\ h >= 4 /\ IntMin = (-h) * One /\ IntMax = (h - 1) * One
                       /\ 2 ^ Bits * One = (2 * h) * One /\ h * One < Inf
                       /\ h * One \in Nat /\ One \in Nat /\ One > 0 /\ Inf \in Nat
  BY WidthTakes
<1> DEFINE w == 2 * h
           q == (n + h) \div w
           r == (n + h) % w
<1>2. w \in Nat /\ w > 0
  BY <1>1
<1>3. q \in Int /\ r \in Int /\ n + h = q * w + r /\ 0 <= r /\ r < w
  <2> HIDE DEF w
  <2>1. n + h \in Int
    OBVIOUS
  <2> QED
    BY <1>2, <2>1, Division
<1>4. n * One - IntMin = q * (w * One) + r * One
  <2>1. n * One - IntMin = (n + h) * One
    BY <1>1
  <2> HIDE DEF q, r, w
  <2> QED
    BY <1>1, <1>2, <1>3, <2>1
<1>5. w * One \in Nat /\ w * One > 0 /\ r * One \in Int /\ 0 <= r * One /\ r * One < w * One
  <2> HIDE DEF w, r
  <2> QED
    BY <1>1, <1>2, <1>3
<1>6. (n * One - IntMin) % (w * One) = r * One
  <2> DEFINE W == w * One
             R == r * One
             V == n * One - IntMin
             p == V \div W
             s == V % W
  <2>1. V \in Int /\ W \in Nat /\ W > 0
    BY <1>1, <1>5
  <2>2. p \in Int /\ s \in Int /\ V = p * W + s /\ 0 <= s /\ s < W
    <3> HIDE DEF V, W
    <3> QED
      BY <2>1, Division
  <2>3. V = q * W + R /\ 0 <= R /\ R < W /\ R \in Int
    BY <1>4, <1>5
  <2> HIDE DEF V, W, R, p, s, q
  <2>4. ASSUME p > q PROVE FALSE
    <3>1. p >= q + 1 /\ p * W >= (q + 1) * W
      BY <1>3, <2>1, <2>2, <2>4
    <3> QED
      BY <1>3, <2>1, <2>2, <2>3, <3>1
  <2>5. ASSUME p < q PROVE FALSE
    <3>1. q >= p + 1 /\ q * W >= (p + 1) * W
      BY <1>3, <2>1, <2>2, <2>5
    <3> QED
      BY <1>3, <2>1, <2>2, <2>3, <3>1
  <2>6. p = q
    BY <1>3, <2>2, <2>4, <2>5
  <2>7. s = R
    BY <1>3, <2>1, <2>2, <2>3, <2>6
  <2> QED
    BY <2>7 DEF s, R, V, W
<1>7. Wrap(n * One) = (r - h) * One
  <2>1. Wrap(n * One) = r * One + IntMin
    BY <1>1, <1>6 DEF Wrap
  <2> HIDE DEF r, w
  <2> QED
    BY <1>1, <1>3, <2>1
<1> DEFINE k == r - h
<1>8. k \in Int /\ -h <= k /\ k <= h - 1
  <2> HIDE DEF r
  <2> QED
    BY <1>1, <1>3
<1> HIDE DEF k, r, q
<1>9. (k * One) % One = 0 /\ k * One \in Int
  BY <1>1, <1>8, Multiple
<1>10. (-h) * One <= k * One /\ k * One <= (h - 1) * One
  BY <1>1, <1>8
<1> QED
  BY <1>1, <1>7, <1>9, <1>10 DEF Value, k

\* An int64 is a whole number between its bounds.
LEMMA WholeTakes ==
    ASSUME NEW v, Value("i64", v)
    PROVE  /\ v \in Int /\ ToInt(v) \in Int /\ v = ToInt(v) * One
           /\ -Inf < v /\ v < Inf
<1>1. PICK h \in Nat : /\ h >= 4 /\ IntMin = (-h) * One /\ IntMax = (h - 1) * One
                       /\ 2 ^ Bits * One = (2 * h) * One /\ h * One < Inf
                       /\ h * One \in Nat /\ One \in Nat /\ One > 0 /\ Inf \in Nat
  BY WidthTakes
<1>2. v \in Int /\ v % One = 0 /\ IntMin <= v /\ v <= IntMax
  BY DEF Value
<1>3. v = (v \div One) * One /\ v \div One \in Int
  BY <1>1, <1>2, Division
<1>4. (-h) * One = -(h * One) /\ (h - 1) * One = h * One - One
  BY <1>1
<1>5. -Inf < v /\ v < Inf
  BY <1>1, <1>2, <1>4
<1> QED
  BY <1>2, <1>3, <1>5 DEF ToInt

\* Every value is a number, and none is the trap.
LEMMA ValueTakes ==
    ASSUME NEW t \in DTypes, NEW v, Value(t, v)
    PROVE  Number(v) /\ v \in Int /\ v # Trap /\ Representable(t, v)
<1>1. NaN = Inf + 1 /\ Inf \in Nat
  BY FormatTakes DEF Floats
<1>2. CASE t = "i64"
  <2>1. v \in Int /\ -Inf < v /\ v < Inf
    BY <1>2, WholeTakes
  <2>2. v % One = 0 /\ IntMin <= v /\ v <= IntMax
    BY <1>2 DEF Value
  <2> QED
    BY <1>1, <1>2, <2>1, <2>2 DEF Number, Trap, Representable
<1>3. CASE t # "i64"
  <2>1. t \in Floats /\ Float(t, v)
    BY <1>3 DEF DTypes, Floats, Value
  <2> QED
    BY <1>1, <2>1, FloatTakes DEF Number, Trap
<1> QED
  BY <1>2, <1>3

\* The numbers of a program's arguments that a type can hold are its values.
LEMMA RepresentableTakes ==
    ASSUME NEW t \in DTypes, NEW v \in Int, -Inf <= v, v <= NaN, Representable(t, v)
    PROVE  Value(t, v)
<1>1. NaN = Inf + 1 /\ Inf \in Nat
  BY FormatTakes DEF Floats
<1>2. CASE t = "i64"
  BY <1>2 DEF Representable, Value
<1>3. CASE t # "i64"
  <2>1. t \in Floats
    BY <1>3 DEF DTypes, Floats
  <2>2. CASE IsFinite(v)
    <3>1. v = Nearest(t, v, 1)
      BY <1>3, <2>2 DEF Representable
    <3>2. 1 \in Nat /\ 1 > 0
      OBVIOUS
    <3>3. Float(t, Nearest(t, v, 1))
      BY <2>1, <3>2, NearestTakes
    <3> QED
      BY <1>3, <3>1, <3>3 DEF Value
  <2>3. CASE ~IsFinite(v)
    <3>1. v \in Specials
      BY <1>1, <2>3 DEF IsFinite, Abs, Specials
    <3> QED
      BY <1>3, <3>1 DEF Value, Float
  <2> QED
    BY <2>2, <2>3
<1> QED
  BY <1>2, <1>3

\* A whole number within less than one of a float is a float.
LEMMA NearWholeTakes ==
    ASSUME NEW f \in Floats, NEW v, FiniteFloat(f, v), NEW n \in Int, n % One = 0,
           v - One < n, n < v + One
    PROVE  FiniteFloat(f, n)
<1> DEFINE P == Precision[f]
           T == TopUnit[f]
<1>1. /\ P \in Nat /\ P > 0 /\ T \in Nat /\ Frac \in Nat /\ Frac < T /\ One \in Nat /\ One > 0
      /\ Top(f) \in Nat
  BY FormatTakes
<1>2. PICK e \in 0 .. T : OnGrid(f, e, v)
  BY DEF FiniteFloat
<1>3. v \in Int /\ Abs(v) < Top(f)
  BY DEF FiniteFloat
<1>4. v % 2 ^ e = 0 /\ Abs(v) <= 2 ^ (P + e)
  BY <1>2 DEF OnGrid
<1>5. n = (n \div One) * One /\ n \div One \in Int
  BY <1>1, Division
<1> DEFINE k == n \div One
<1>6. k \in Int /\ n = k * One
  BY <1>5
<1>7. CASE Frac <= e
  <2>1. v % One = 0
    BY <1>1, <1>3, <1>4, <1>7, UnitsDivide DEF One
  <2>2. v = (v \div One) * One /\ v \div One \in Int
    BY <1>1, <1>3, <2>1, Division
  <2> DEFINE q == v \div One
  <2>3. q \in Int /\ v = q * One
    BY <2>2
  <2> HIDE DEF q, k
  <2>4. ASSUME k >= q + 1 PROVE FALSE
    <3>1. k * One >= (q + 1) * One
      BY <1>1, <1>6, <2>3, <2>4
    <3> QED
      BY <1>1, <1>3, <1>6, <2>3, <3>1
  <2>5. ASSUME k <= q - 1 PROVE FALSE
    <3>1. k * One <= (q - 1) * One
      BY <1>1, <1>6, <2>3, <2>5
    <3> QED
      BY <1>1, <1>3, <1>6, <2>3, <3>1
  <2>6. n = v
    BY <1>6, <2>3, <2>4, <2>5
  <2> QED
    BY <2>6
<1>8. CASE e < Frac
  <2> DEFINE c == 2 ^ (P + e)
             t == 2 ^ (P + Frac)
  <2>1. /\ c \in Nat /\ c > 0 /\ t \in Nat /\ P + Frac \in Nat /\ P + T \in Nat
        /\ 2 ^ (P + (Frac + 1)) = 2 * t /\ 2 ^ (P + (Frac + 1)) <= Top(f) /\ 2 * c <= t
    <3>1. /\ P + e \in Nat /\ P + Frac \in Nat /\ P + T \in Nat /\ P + e + 1 <= P + Frac
          /\ (P + Frac) + 1 = P + (Frac + 1) /\ P + (Frac + 1) <= P + T
          /\ P + (Frac + 1) \in Nat /\ P + e + 1 \in Nat
      BY <1>1, <1>8
    <3>2. c \in Nat /\ c > 0 /\ t \in Nat
      BY <3>1, TwoTakes
    <3>3. 2 ^ (P + (Frac + 1)) = 2 * t
      BY <3>1, TwoDoubles
    <3>4. 2 ^ (P + (Frac + 1)) <= Top(f)
      BY <3>1, TwoGrows DEF Top
    <3>5. 2 ^ (P + e + 1) = 2 * c
      BY <3>1, TwoDoubles
    <3>6. 2 ^ (P + e + 1) <= t
      BY <3>1, TwoGrows
    <3> QED
      BY <3>1, <3>2, <3>3, <3>4, <3>5, <3>6
  <2>2. t >= 2 * One
    <3>1. Frac + 1 \in Nat /\ Frac + 1 <= P + Frac
      BY <1>1
    <3>2. 2 ^ (Frac + 1) = 2 * One
      BY <1>1, TwoDoubles DEF One
    <3> QED
      BY <2>1, <3>1, <3>2, TwoGrows
  <2> HIDE DEF c, t
  <2>3. Abs(v) <= c
    BY <1>4 DEF c
  <2>4. Abs(n) < c + One
    BY <1>1, <1>3, <2>1, <2>3 DEF Abs
  <2>5. Abs(n) <= t /\ Abs(n) < Top(f)
    <3>1. c + One <= t
      BY <1>1, <2>1, <2>2
    <3> QED
      BY <1>1, <2>1, <2>4, <3>1 DEF Abs
  <2>6. OnGrid(f, Frac, n)
    BY <1>1, <2>5 DEF OnGrid, One, t
  <2> QED
    BY <1>1, <2>5, <2>6 DEF FiniteFloat
<1> QED
  BY <1>1, <1>2, <1>7, <1>8

\* Zero, one and two are floats, and so are their opposites.
LEMMA OneTakes ==
    ASSUME NEW f \in Floats
    PROVE  /\ FiniteFloat(f, 0) /\ FiniteFloat(f, One) /\ FiniteFloat(f, -One)
           /\ FiniteFloat(f, 2 * One)
<1> DEFINE P == Precision[f]
           T == TopUnit[f]
           t == 2 ^ (P + Frac)
<1>1. /\ P \in Nat /\ P > 0 /\ T \in Nat /\ Frac \in Nat /\ Frac < T /\ One \in Nat /\ One > 0
      /\ Top(f) \in Nat
  BY FormatTakes
<1>2. t >= 2 * One /\ t < Top(f) /\ t \in Nat
  <2>1. /\ P + Frac \in Nat /\ (P + Frac) + 1 \in Nat /\ (P + Frac) + 1 <= P + T /\ P + T \in Nat
        /\ Frac + 1 \in Nat /\ Frac + 1 <= P + Frac
    BY <1>1
  <2>2. 2 ^ (Frac + 1) = 2 * One /\ 2 ^ ((P + Frac) + 1) = 2 * t /\ t \in Nat /\ t > 0
    BY <1>1, <2>1, TwoDoubles, TwoTakes DEF One
  <2>3. 2 ^ (Frac + 1) <= t /\ 2 ^ ((P + Frac) + 1) <= Top(f)
    BY <2>1, TwoGrows DEF Top
  <2> HIDE DEF t
  <2> QED
    BY <1>1, <2>2, <2>3
<1>3. ASSUME NEW k \in {0, 1, -1, 2} PROVE FiniteFloat(f, k * One)
  <2>1. k \in Int
    BY <1>3
  <2>2. (k * One) % One = 0 /\ k * One \in Int
    BY <1>1, <2>1, Multiple
  <2>3. Abs(k * One) <= 2 * One
    BY <1>1, <1>3 DEF Abs
  <2> HIDE DEF t
  <2>4. Abs(k * One) <= t /\ Abs(k * One) < Top(f)
    BY <1>1, <1>2, <2>2, <2>3 DEF Abs
  <2>5. OnGrid(f, Frac, k * One)
    BY <1>1, <2>2, <2>4 DEF OnGrid, One, t
  <2> QED
    BY <1>1, <2>2, <2>4, <2>5 DEF FiniteFloat
<1>4. 0 * One = 0 /\ 1 * One = One /\ (-1) * One = -One
  BY <1>1
<1>5. FiniteFloat(f, 0 * One) /\ FiniteFloat(f, 1 * One) /\ FiniteFloat(f, (-1) * One) /\ FiniteFloat(f, 2 * One)
  BY <1>3
<1> QED
  BY <1>4, <1>5

\* The opposite of a float.
LEMMA OppositeTakes ==
    ASSUME NEW f \in Floats, NEW v, FiniteFloat(f, v)
    PROVE  FiniteFloat(f, -v) /\ FiniteFloat(f, Abs(v))
<1>1. v \in Int /\ Abs(v) < Top(f)
  BY DEF FiniteFloat
<1>2. PICK e \in 0 .. TopUnit[f] : OnGrid(f, e, v)
  BY DEF FiniteFloat
<1>3. e \in Nat /\ 2 ^ e \in Nat /\ 2 ^ e > 0
  BY FormatTakes, TwoTakes
<1>4. v % 2 ^ e = 0 /\ Abs(v) <= 2 ^ (Precision[f] + e)
  BY <1>2 DEF OnGrid
<1>5. (-v) % 2 ^ e = 0 /\ Abs(v) % 2 ^ e = 0
  BY <1>1, <1>3, <1>4, Opposite
<1>6. Abs(-v) = Abs(v) /\ Abs(Abs(v)) = Abs(v) /\ Abs(v) \in Int /\ -v \in Int
  BY <1>1 DEF Abs
<1>7. OnGrid(f, e, -v) /\ OnGrid(f, e, Abs(v))
  BY <1>4, <1>5, <1>6 DEF OnGrid
<1> QED
  BY <1>1, <1>6, <1>7 DEF FiniteFloat

\* The special values are no finite numbers.
LEMMA SpecialTakes ==
    /\ Inf \in Nat /\ NaN = Inf + 1 /\ ~IsFinite(Inf) /\ ~IsFinite(-Inf) /\ ~IsFinite(NaN)
    /\ \A v \in Int : IsFinite(v) <=> (-Inf < v /\ v < Inf)
    /\ \A v : Number(v) /\ ~IsFinite(v) => v \in Specials
    /\ \A v \in Specials : Number(v) /\ ~IsFinite(v)
<1>1. Inf \in Nat /\ NaN = Inf + 1
  BY FormatTakes DEF Floats
<1> QED
  BY <1>1 DEF IsFinite, Abs, Number, Specials

\* The signs of two numbers and infinity.
LEMMA SignTakes ==
    ASSUME NEW a \in Int, NEW b \in Int
    PROVE  /\ Sign(a) \in {-1, 0, 1} /\ Sign(b) \in {-1, 0, 1}
           /\ Sign(a) * Inf \in {0, Inf, -Inf} /\ Sign(a) * Sign(b) * Inf \in {0, Inf, -Inf}
<1>1. Inf \in Int
  BY SpecialTakes
<1>2. Sign(a) \in {-1, 0, 1} /\ Sign(b) \in {-1, 0, 1}
  BY DEF Sign
<1>3. Sign(a) * Sign(b) \in {-1, 0, 1}
  BY <1>2
<1>4. \A s \in {-1, 0, 1} : s * Inf \in {0, Inf, -Inf}
  BY <1>1
<1> QED
  BY <1>2, <1>3, <1>4

\* Zero and the special values belong to each float type.
LEMMA ZeroTakes == ASSUME NEW f \in Floats, NEW v \in {0, Inf, -Inf, NaN} PROVE Float(f, v)
  BY OneTakes DEF Float, Specials

\* The float operations yield values of the type.
LEMMA FAddTakes ==
    ASSUME NEW f \in Floats, NEW a, NEW b, Number(a), Number(b)
    PROVE  Float(f, FAdd(f, a, b))
<1>1. a \in Int /\ b \in Int
  BY DEF Number
<1>2. ~IsFinite(a) => Float(f, a)
  BY SpecialTakes DEF Float
<1>3. ~IsFinite(b) => Float(f, b)
  BY SpecialTakes DEF Float
<1>4. Float(f, Nearest(f, a + b, 1)) /\ Float(f, NaN)
  <2>1. a + b \in Int /\ 1 \in Nat /\ 1 > 0
    BY <1>1
  <2> QED
    BY <2>1, NearestTakes, ZeroTakes
<1> QED
  BY <1>2, <1>3, <1>4 DEF FAdd

LEMMA FNegTakes ==
    /\ \A v : Number(v) => Number(FNeg(v))
    /\ \A f \in Floats : \A v : Float(f, v) => Float(f, FNeg(v))
<1>1. ASSUME NEW v, Number(v) PROVE Number(FNeg(v))
  BY <1>1, SpecialTakes DEF FNeg, Number
<1>2. ASSUME NEW f \in Floats, NEW v, Float(f, v) PROVE Float(f, FNeg(v))
  <2>1. CASE FiniteFloat(f, v)
    <3>1. FiniteFloat(f, -v)
      BY <2>1, OppositeTakes
    <3>2. v # NaN
      BY <1>2, <2>1, FloatTakes, SpecialTakes DEF Specials
    <3> QED
      BY <3>1, <3>2 DEF FNeg, Float
  <2>2. CASE v \in Specials
    BY <2>2, SpecialTakes DEF FNeg, Float, Specials
  <2> QED
    BY <1>2, <2>1, <2>2 DEF Float
<1> QED
  BY <1>1, <1>2

LEMMA FMulTakes ==
    ASSUME NEW f \in Floats, NEW a \in Int, NEW b \in Int
    PROVE  Float(f, FMul(f, a, b))
<1>1. Float(f, Nearest(f, a * b, One))
  <2>1. a * b \in Int /\ One \in Nat /\ One > 0
    BY FormatTakes
  <2> QED
    BY <2>1, NearestTakes
<1>2. Float(f, NaN) /\ Float(f, Sign(a) * Sign(b) * Inf)
  BY SignTakes, ZeroTakes
<1> QED
  BY <1>1, <1>2 DEF FMul

LEMMA FDivTakes ==
    ASSUME NEW f \in Floats, NEW a \in Int, NEW b \in Int
    PROVE  Float(f, FDiv(f, a, b))
<1>1. b # 0 => Float(f, Nearest(f, Sign(b) * a * One, Abs(b)))
  <2> SUFFICES ASSUME b # 0 PROVE Float(f, Nearest(f, Sign(b) * a * One, Abs(b)))
    OBVIOUS
  <2>1. Sign(b) * a \in Int /\ One \in Int
    BY FormatTakes DEF Sign
  <2>2. Sign(b) * a * One \in Int /\ Abs(b) \in Nat /\ Abs(b) > 0
    BY <2>1 DEF Abs
  <2> QED
    BY <2>2, NearestTakes
<1>2. Float(f, NaN) /\ Float(f, 0) /\ Float(f, Sign(a) * Inf) /\ Float(f, Sign(a) * Sign(b) * Inf)
  BY SignTakes, ZeroTakes
<1> QED
  BY <1>1, <1>2 DEF FDiv

\* The remainder of two floats has no more digits than they have.
LEMMA FModTakes ==
    ASSUME NEW f \in Floats, NEW a, NEW b, Float(f, a), Float(f, b)
    PROVE  Float(f, FMod(a, b))
<1>1. a \in Int /\ b \in Int
  BY FloatTakes
<1>2. Float(f, NaN)
  BY ZeroTakes
<1>3. ASSUME IsFinite(a), IsFinite(b), b # 0 PROVE Float(f, Sign(a) * (Abs(a) % Abs(b)))
  <2> DEFINE m == Abs(a)
             n == Abs(b)
             r == m % n
  <2>1. FiniteFloat(f, m) /\ FiniteFloat(f, n)
    BY <1>3, FloatTakes, OppositeTakes
  <2>2. m \in Nat /\ n \in Nat /\ n > 0 /\ m < Top(f) /\ n < Top(f) /\ Top(f) \in Nat
    <3>1. m \in Nat /\ n \in Nat /\ n > 0
      BY <1>1, <1>3 DEF Abs
    <3>2. Abs(m) < Top(f) /\ Abs(n) < Top(f)
      BY <2>1 DEF FiniteFloat
    <3> HIDE DEF m, n
    <3> QED
      BY <3>1, <3>2, FormatTakes DEF Abs
  <2> HIDE DEF m, n
  <2>3. r \in Nat /\ r < n /\ r <= m /\ m = (m \div n) * n + r /\ m \div n \in Int
    <3>1. m \div n \in Int /\ r \in Int /\ m = (m \div n) * n + r /\ 0 <= r /\ r < n
      BY <2>2, Division
    <3> DEFINE q == m \div n
    <3>2. q \in Int /\ m = q * n + r
      BY <3>1
    <3> HIDE DEF q, r
    <3>3. q >= 0
      <4> SUFFICES ASSUME q <= -1 PROVE FALSE
        BY <3>2
      <4>1. q * n <= -n
        BY <2>2, <3>2
      <4> QED
        BY <2>2, <3>1, <3>2, <4>1
    <3>4. q * n >= 0
      BY <2>2, <3>2, <3>3
    <3> QED
      BY <2>2, <3>1, <3>2, <3>4 DEF q
  <2>4. PICK d \in 0 .. TopUnit[f] : OnGrid(f, d, m)
    BY <2>1 DEF FiniteFloat
  <2>5. PICK e \in 0 .. TopUnit[f] : OnGrid(f, e, n)
    BY <2>1 DEF FiniteFloat
  <2>6. /\ m % 2 ^ d = 0 /\ n % 2 ^ e = 0 /\ m <= 2 ^ (Precision[f] + d)
        /\ n <= 2 ^ (Precision[f] + e)
    BY <2>2, <2>4, <2>5 DEF OnGrid, Abs
  <2> DEFINE g == IF d <= e THEN d ELSE e
             u == 2 ^ g
  <2>7. /\ d \in Nat /\ e \in Nat /\ g \in Nat /\ g \in 0 .. TopUnit[f] /\ g <= d /\ g <= e
        /\ u \in Nat /\ u > 0
    <3>1. d \in Nat /\ e \in Nat /\ g \in Nat /\ g \in 0 .. TopUnit[f] /\ g <= d /\ g <= e
      BY FormatTakes
    <3> QED
      BY <3>1, TwoTakes
  <2>8. m % u = 0 /\ n % u = 0
    <3> HIDE DEF g
    <3> QED
      BY <2>2, <2>6, <2>7, UnitsDivide
  <2>9. r % u = 0
    <3> HIDE DEF u, g
    <3>1. m = (m \div u) * u /\ m \div u \in Int /\ n = (n \div u) * u /\ n \div u \in Int
      BY <2>2, <2>7, <2>8, Division
    <3> DEFINE j == m \div u
               k == n \div u
               q == m \div n
    <3>2. j \in Int /\ k \in Int /\ q \in Int /\ m = j * u /\ n = k * u /\ m = q * n + r
      BY <2>3, <3>1
    <3> DEFINE i == j - q * k
    <3> HIDE DEF j, k, q, r
    <3>3. i \in Int /\ r = i * u
      <4>1. q * n = (q * k) * u
        BY <2>7, <3>2
      <4>2. q * k \in Int
        BY <3>2
      <4> QED
        BY <2>2, <2>3, <2>7, <3>2, <4>1, <4>2
    <3> HIDE DEF i
    <3> QED
      BY <2>7, <3>3, Multiple
  <2>10. r <= 2 ^ (Precision[f] + g)
    <3>1. 2 ^ (Precision[f] + d) \in Int /\ 2 ^ (Precision[f] + e) \in Int
      BY <2>7, FormatTakes, TwoTakes
    <3>2. CASE g = d
      <4> HIDE DEF g, r
      <4> QED
        BY <2>2, <2>3, <2>6, <3>1, <3>2
    <3>3. CASE g = e
      <4> HIDE DEF g, r
      <4> QED
        BY <2>2, <2>3, <2>6, <3>1, <3>3
    <3> QED
      BY <3>2, <3>3
  <2> HIDE DEF r, g
  <2>11. FiniteFloat(f, r)
    <3>1. Abs(r) = r /\ r \in Int /\ r < Top(f)
      BY <2>2, <2>3 DEF Abs
    <3>2. OnGrid(f, g, r)
      BY <2>7, <2>9, <2>10, <3>1 DEF OnGrid, u
    <3> QED
      BY <2>7, <3>1, <3>2 DEF FiniteFloat
  <2>12. FiniteFloat(f, -r) /\ FiniteFloat(f, 0)
    BY <2>11, OppositeTakes, OneTakes
  <2>13. Sign(a) * r \in {r, -r, 0}
    BY <1>1, <2>3 DEF Sign
  <2>14. FiniteFloat(f, Sign(a) * r)
    BY <2>11, <2>12, <2>13
  <2> QED
    BY <2>14 DEF Float, r, m, n
<1> QED
  BY <1>2, <1>3 DEF FMod

\* n is a whole number next to v.
Near(n, v) == n \in Int /\ n % One = 0 /\ v - One < n /\ n < v + One

\* floor, ceil, trunc and rint go to a whole number next to the argument.
LEMMA RoundingTakes ==
    ASSUME NEW a \in Int, IsFinite(a)
    PROVE  /\ Near(FFloor(a), a) /\ FFloor(a) <= a
           /\ Near(FCeil(a), a) /\ a <= FCeil(a)
           /\ Near(FTrunc(a), a) /\ Near(FRint(a), a)
<1>1. One \in Nat /\ One > 0
  BY FormatTakes DEF Floats
<1>2. ASSUME NEW v \in Int, IsFinite(v) PROVE Near(FFloor(v), v) /\ FFloor(v) <= v
  <2> DEFINE q == v \div One
             r == v % One
  <2>1. q \in Int /\ r \in Int /\ v = q * One + r /\ 0 <= r /\ r < One
    BY <1>1, Division
  <2>2. FFloor(v) = v - r
    BY <1>2 DEF FFloor
  <2> HIDE DEF q, r
  <2>3. v - r = q * One
    BY <1>1, <2>1
  <2>4. (q * One) % One = 0 /\ q * One \in Int
    BY <1>1, <2>1, Multiple
  <2> QED
    BY <1>1, <2>1, <2>2, <2>3, <2>4 DEF Near
<1>3. Near(FFloor(a), a) /\ FFloor(a) <= a
  BY <1>2
<1>4. Near(FCeil(a), a) /\ a <= FCeil(a)
  <2> DEFINE n == FFloor(-a)
  <2>1. -a \in Int /\ IsFinite(-a)
    BY SpecialTakes
  <2>2. Near(n, -a) /\ n <= -a
    BY <1>2, <2>1
  <2>3. FCeil(a) = -n
    BY DEF FCeil
  <2> HIDE DEF n
  <2>4. n \in Int /\ (-n) % One = 0
    <3>1. n \in Int /\ n % One = 0
      BY <2>2 DEF Near
    <3>2. (-n) % One = 0 /\ Abs(n) % One = 0
      BY <1>1, <3>1, Opposite
    <3> QED
      BY <3>1, <3>2
  <2> QED
    BY <1>1, <2>2, <2>3, <2>4 DEF Near
<1>5. Near(FTrunc(a), a)
  BY <1>3, <1>4 DEF FTrunc
<1>6. Near(FRint(a), a)
  <2> DEFINE l == FFloor(a)
  <2>1. l \in Int /\ l % One = 0 /\ l <= a /\ a < l + One
    BY <1>1, <1>3 DEF Near
  <2>2. FRint(a) = CASE ~IsFinite(a) -> a
                     [] IsFinite(a) /\ 2 * (a - l) < One -> l
                     [] IsFinite(a) /\ 2 * (a - l) > One -> l + One
                     [] OTHER -> IF l % (2 * One) = 0 THEN l ELSE l + One
    BY DEF FRint
  <2> HIDE DEF l
  <2>3. (l + One) % One = 0
    <3>1. l = (l \div One) * One /\ l \div One \in Int
      BY <1>1, <2>1, Division
    <3> DEFINE k == (l \div One) + 1
    <3>2. k \in Int /\ l + One = k * One
      BY <1>1, <3>1
    <3> HIDE DEF k
    <3>3. (k * One) % One = 0
      BY <1>1, <3>2, Multiple
    <3> QED
      BY <3>2, <3>3
  <2>4. FRint(a) = l \/ (FRint(a) = l + One /\ 2 * (a - l) >= One)
    <3>1. CASE 2 * (a - l) < One
      BY <1>1, <2>1, <2>2, <3>1
    <3>2. CASE 2 * (a - l) > One
      BY <1>1, <2>1, <2>2, <3>2
    <3>3. CASE 2 * (a - l) = One
      BY <1>1, <2>1, <2>2, <3>3
    <3> QED
      BY <1>1, <2>1, <3>1, <3>2, <3>3
  <2> QED
    BY <1>1, <2>1, <2>3, <2>4 DEF Near
<1> QED
  BY <1>3, <1>4, <1>5, <1>6

\* Rounding a float to a whole number yields a float.
LEMMA WholeFloats ==
    ASSUME NEW f \in Floats, NEW a, Float(f, a)
    PROVE  /\ Float(f, FFloor(a)) /\ Float(f, FCeil(a))
           /\ Float(f, FTrunc(a)) /\ Float(f, FRint(a))
<1>1. a \in Int
  BY FloatTakes
<1>2. CASE IsFinite(a)
  <2>1. FiniteFloat(f, a)
    BY <1>2, FloatTakes
  <2>2. \A n : Near(n, a) => Float(f, n)
    <3> SUFFICES ASSUME NEW n, Near(n, a) PROVE FiniteFloat(f, n)
      BY DEF Float
    <3>1. n \in Int /\ n % One = 0 /\ a - One < n /\ n < a + One
      BY DEF Near
    <3> QED
      BY <2>1, <3>1, NearWholeTakes
  <2> QED
    BY <1>1, <1>2, <2>2, RoundingTakes
<1>3. CASE ~IsFinite(a)
  <2>1. FFloor(a) = a /\ FCeil(a) = a /\ FTrunc(a) = a /\ FRint(a) = a
    BY <1>3 DEF FFloor, FCeil, FTrunc, FRint
  <2> QED
    BY <2>1
<1> QED
  BY <1>2, <1>3

\* A cast yields a value of its type and leaves the values of the type alone.
LEMMA CastTakes ==
    ASSUME NEW t \in DTypes, NEW v, Number(v)
    PROVE  /\ Value(t, Cast(t, v))
           /\ Value(t, v) => Cast(t, v) = v
<1>1. v \in Int /\ Inf \in Nat /\ NaN = Inf + 1
  BY SpecialTakes DEF Number
<1>2. PICK h \in Nat : /\ h >= 4 /\ IntMin = (-h) * One /\ IntMax = (h - 1) * One
                       /\ 2 ^ Bits * One = (2 * h) * One /\ h * One < Inf
                       /\ h * One \in Nat /\ One \in Nat /\ One > 0 /\ Inf \in Nat
  BY WidthTakes
<1>3. IntMin \in Int /\ IntMax \in Int /\ IntMin <= IntMax /\ -Inf < IntMin /\ IntMax < Inf
  <2>1. (-h) * One = -(h * One) /\ (h - 1) * One = h * One - One
    BY <1>2
  <2>2. h * One >= One
    BY <1>2
  <2> QED
    BY <1>2, <2>1, <2>2
<1>4. CASE t = "i64"
  <2> DEFINE n == FTrunc(v)
  <2>1. Cast(t, v) = IF IntMin <= n /\ n <= IntMax THEN n ELSE IntMin
    BY <1>4 DEF Cast
  <2>2. IsFinite(v) => n \in Int /\ n % One = 0 /\ Near(n, v)
    BY <1>1, RoundingTakes DEF Near
  <2>3. ~IsFinite(v) => n = v
    BY DEF FTrunc, FFloor, FCeil
  <2>4. ~IsFinite(v) => ~(-Inf < n /\ n < Inf)
    BY <1>1, <2>3, SpecialTakes
  <2>5. Value(t, IntMin)
    <3> DEFINE k == -h
    <3>1. k \in Int
      BY <1>2
    <3> HIDE DEF k
    <3>2. (k * One) % One = 0
      BY <1>2, <3>1, Multiple
    <3>3. IntMin % One = 0
      BY <1>2, <3>2 DEF k
    <3> QED
      BY <1>3, <1>4, <3>3 DEF Value
  <2> HIDE DEF n
  <2>6. Value(t, Cast(t, v))
    <3>1. CASE IsFinite(v)
      <4>1. CASE IntMin <= n /\ n <= IntMax
        BY <1>4, <2>1, <2>2, <3>1, <4>1 DEF Value
      <4>2. CASE ~(IntMin <= n /\ n <= IntMax)
        BY <2>1, <2>5, <4>2
      <4> QED
        BY <4>1, <4>2
    <3>2. CASE ~IsFinite(v)
      <4>1. ~(IntMin <= n /\ n <= IntMax)
        BY <1>1, <1>3, <2>3, <2>4, <3>2
      <4> QED
        BY <2>1, <2>5, <4>1
    <3> QED
      BY <3>1, <3>2
  <2>7. ASSUME Value(t, v) PROVE Cast(t, v) = v
    <3>1. v % One = 0 /\ IntMin <= v /\ v <= IntMax
      BY <1>4, <2>7 DEF Value
    <3>2. IsFinite(v)
      BY <1>1, <1>3, <3>1, SpecialTakes
    <3>3. n \in Int /\ n % One = 0 /\ v - One < n /\ n < v + One
      BY <2>2, <3>2 DEF Near
    <3> DEFINE p == n \div One
               q == v \div One
    <3>4. p \in Int /\ q \in Int /\ n = p * One /\ v = q * One
      BY <1>1, <1>2, <3>1, <3>3, Division
    <3> HIDE DEF p, q
    <3>5. ASSUME p >= q + 1 PROVE FALSE
      <4>1. p * One >= (q + 1) * One
        BY <1>2, <3>4, <3>5
      <4> QED
        BY <1>1, <1>2, <3>3, <3>4, <4>1
    <3>6. ASSUME p <= q - 1 PROVE FALSE
      <4>1. p * One <= (q - 1) * One
        BY <1>2, <3>4, <3>6
      <4> QED
        BY <1>1, <1>2, <3>3, <3>4, <4>1
    <3>7. n = v
      BY <3>4, <3>5, <3>6
    <3> QED
      BY <2>1, <3>1, <3>7
  <2> QED
    BY <2>6, <2>7
<1>5. CASE t # "i64"
  <2>1. t \in Floats
    BY <1>5 DEF DTypes, Floats
  <2>2. Cast(t, v) = IF IsFinite(v) THEN Nearest(t, v, 1) ELSE v
    BY <1>5 DEF Cast
  <2>3. Float(t, Cast(t, v))
    <3>1. 1 \in Nat /\ 1 > 0
      OBVIOUS
    <3>2. Float(t, Nearest(t, v, 1))
      BY <1>1, <2>1, <3>1, NearestTakes
    <3>3. ~IsFinite(v) => Float(t, v)
      BY SpecialTakes DEF Float
    <3> QED
      BY <2>2, <3>2, <3>3
  <2>4. ASSUME Value(t, v) PROVE Cast(t, v) = v
    <3>1. Float(t, v)
      BY <1>5, <2>4 DEF Value
    <3>2. IsFinite(v) => FiniteFloat(t, v)
      BY <2>1, <3>1, FloatTakes
    <3>3. FiniteFloat(t, v) => Nearest(t, v, 1) = v
      BY <2>1, NearestFixes
    <3> QED
      BY <2>2, <3>2, <3>3
  <2> QED
    BY <1>5, <2>3, <2>4 DEF Value
<1> QED
  BY <1>4, <1>5

\* Truncating division, by its remainder.
LEMMA Truncation ==
    ASSUME NEW a \in Int, NEW b \in Int, b # 0
    PROVE  /\ Ints!Quotient(a, b) \in Int /\ Ints!Remainder(a, b) \in Int
           /\ a = b * Ints!Quotient(a, b) + Ints!Remainder(a, b)
           /\ b > 0 => -b < Ints!Remainder(a, b) /\ Ints!Remainder(a, b) < b
           /\ b < 0 => b < Ints!Remainder(a, b) /\ Ints!Remainder(a, b) < -b
  <1> DEFINE m == IF a < 0 THEN -a ELSE a
             n == IF b < 0 THEN -b ELSE b
  <1>1. m \in Nat /\ n \in Nat \ {0}
    OBVIOUS
  <1>2. /\ m \div n \in Int /\ m % n \in Int
        /\ m = n * (m \div n) + (m % n) /\ 0 <= m % n /\ m % n < n
    <2> HIDE DEF m, n
    <2> QED BY <1>1
  <1>3. Ints!Quotient(a, b) = IF (a < 0) = (b < 0) THEN m \div n ELSE -(m \div n)
    BY DEF Ints!Quotient
  <1>4. CASE a < 0 /\ b < 0
    BY <1>2, <1>3, <1>4 DEF Ints!Remainder
  <1>5. CASE a < 0 /\ b > 0
    BY <1>2, <1>3, <1>5 DEF Ints!Remainder
  <1>6. CASE a >= 0 /\ b < 0
    BY <1>2, <1>3, <1>6 DEF Ints!Remainder
  <1>7. CASE a >= 0 /\ b > 0
    BY <1>2, <1>3, <1>7 DEF Ints!Remainder
  <1> QED BY <1>4, <1>5, <1>6, <1>7

\* The kernels meet the definition of floor division.
THEOREM FloorDivision ==
    ASSUME NEW a \in Int, NEW b \in Int, b # 0
    PROVE  Ints!IsFloorDivision(a, b, Ints!FloorDivide(a, b), Ints!Mod(a, b))
  <1> DEFINE q == Ints!Quotient(a, b)
             r == Ints!Remainder(a, b)
  <1>1. /\ q \in Int /\ r \in Int /\ a = b * q + r
        /\ b > 0 => -b < r /\ r < b
        /\ b < 0 => b < r /\ r < -b
    BY Truncation
  <1>2. (q - 1) * b + (r + b) = a /\ q * b + r = a
    <2> HIDE DEF q, r
    <2> QED BY <1>1
  <1>3. CASE r # 0 /\ (r < 0) # (b < 0)
    <2>1. Ints!FloorDivide(a, b) = q - 1 /\ Ints!Mod(a, b) = r + b
      BY <1>3 DEF Ints!FloorDivide, Ints!Mod
    <2> HIDE DEF q, r
    <2>2. IF b > 0 THEN 0 <= r + b /\ r + b < b ELSE b < r + b /\ r + b <= 0
      BY <1>1, <1>3
    <2> QED BY <1>2, <2>1, <2>2 DEF Ints!IsFloorDivision
  <1>4. CASE ~(r # 0 /\ (r < 0) # (b < 0))
    <2>1. Ints!FloorDivide(a, b) = q /\ Ints!Mod(a, b) = r
      BY <1>4 DEF Ints!FloorDivide, Ints!Mod
    <2> HIDE DEF q, r
    <2>2. IF b > 0 THEN 0 <= r /\ r < b ELSE b < r /\ r <= 0
      BY <1>1, <1>4
    <2> QED BY <1>2, <2>1, <2>2 DEF Ints!IsFloorDivision
  <1> QED BY <1>3, <1>4

\* Two floor divisions of the same numbers are the same.
LEMMA FloorDivisionUnique ==
    ASSUME NEW a \in Int, NEW b \in Int, b # 0,
           NEW q1 \in Int, NEW r1 \in Int, NEW q2 \in Int, NEW r2 \in Int,
           Ints!IsFloorDivision(a, b, q1, r1), Ints!IsFloorDivision(a, b, q2, r2)
    PROVE  q1 = q2 /\ r1 = r2
  <1>1. q1 * b + r1 = q2 * b + r2
    BY DEF Ints!IsFloorDivision
  <1>2. (q1 - q2) * b = r2 - r1
    BY <1>1
  <1>3. b > 0 => -b < r2 - r1 /\ r2 - r1 < b
    BY DEF Ints!IsFloorDivision
  <1>4. b < 0 => b < r2 - r1 /\ r2 - r1 < -b
    BY DEF Ints!IsFloorDivision
  <1>5. q1 - q2 = 0
    <2>1. CASE b > 0
      BY <1>2, <1>3, <2>1
    <2>2. CASE b < 0
      BY <1>2, <1>4, <2>2
    <2> QED BY <2>1, <2>2
  <1> QED BY <1>1, <1>5

\* Neither kernel leaves the range of its machine integers, except for the
\* smallest one divided by -1.
THEOREM FloorDivisionInRange ==
    ASSUME NEW M \in Nat, NEW a \in -M - 1 .. M, NEW b \in -M - 1 .. M,
           b # 0, ~(a = -M - 1 /\ b = -1)
    PROVE  Ints!FloorDivide(a, b) \in -M - 1 .. M /\ Ints!Mod(a, b) \in -M - 1 .. M
  <1> DEFINE q == Ints!FloorDivide(a, b)
             r == Ints!Mod(a, b)
  <1>1. /\ a \in Int /\ b \in Int
        /\ -M - 1 <= a /\ a <= M /\ -M - 1 <= b /\ b <= M
    OBVIOUS
  <1>2. q \in Int /\ r \in Int
    <2>1. Ints!Quotient(a, b) \in Int /\ Ints!Remainder(a, b) \in Int
      BY <1>1, Truncation
    <2>2. q \in {Ints!Quotient(a, b), Ints!Quotient(a, b) - 1}
      BY DEF Ints!FloorDivide
    <2>3. r \in {Ints!Remainder(a, b), Ints!Remainder(a, b) + b}
      BY DEF Ints!Mod
    <2> HIDE DEF q, r
    <2> QED BY <1>1, <2>1, <2>2, <2>3
  <1>3. q * b + r = a /\ IF b > 0 THEN 0 <= r /\ r < b ELSE b < r /\ r <= 0
    BY <1>1, FloorDivision DEF Ints!IsFloorDivision
  <1> HIDE DEF q, r
  <1>4. r \in -M - 1 .. M
    BY <1>1, <1>2, <1>3
  <1>5. ASSUME b > 0 PROVE q \in -M - 1 .. M
    <2>1. q <= M
      <3> SUFFICES ASSUME q >= M + 1 PROVE FALSE
        BY <1>2
      <3>1. q * b >= M + 1
        BY <1>1, <1>2, <1>5
      <3> QED BY <1>1, <1>2, <1>3, <1>5, <3>1
    <2>2. q >= -M - 1
      <3> SUFFICES ASSUME q <= -M - 2 PROVE FALSE
        BY <1>2
      <3>1. (q + M + 2) * b <= 0 /\ (M + 1) * (b - 1) >= 0
        BY <1>1, <1>2, <1>5
      <3>2. q * b <= -(M + 1) - b
        BY <1>1, <1>2, <3>1
      <3> QED BY <1>1, <1>2, <1>3, <1>5, <3>2
    <2> QED BY <1>2, <2>1, <2>2
  <1>6. ASSUME b = -1 PROVE q \in -M - 1 .. M
    BY <1>1, <1>2, <1>3, <1>6
  <1>7. ASSUME b <= -2 PROVE q \in -M - 1 .. M
    <2>1. q <= M
      <3> SUFFICES ASSUME q >= M + 1 PROVE FALSE
        BY <1>2
      <3>1. (q - M - 1) * b <= 0 /\ (M + 1) * (b + 2) <= 0
        BY <1>1, <1>2, <1>7
      <3>2. q * b <= -2 * (M + 1)
        BY <1>1, <1>2, <3>1
      <3> QED BY <1>1, <1>2, <1>3, <1>7, <3>2
    <2>2. q >= -M - 1
      <3> SUFFICES ASSUME q <= -M - 2 PROVE FALSE
        BY <1>2
      <3>1. (q + M + 2) * b >= 0 /\ (M + 2) * (b + 2) <= 0
        BY <1>1, <1>2, <1>7
      <3>2. q * b >= 2 * (M + 2)
        BY <1>1, <1>2, <3>1
      <3> QED BY <1>1, <1>2, <1>3, <1>7, <3>2
    <2> QED BY <1>2, <2>1, <2>2
  <1> QED BY <1>1, <1>2, <1>4, <1>5, <1>6, <1>7 DEF q, r

\* The integer kernels yield integers.
LEMMA IntsTake ==
    ASSUME NEW a \in Int, NEW b \in Int
    PROVE  Ints!FloorDivide(a, b) \in Int /\ Ints!Mod(a, b) \in Int
<1>1. CASE b = 0
  BY <1>1 DEF Ints!FloorDivide, Ints!Mod
<1>2. CASE b # 0
  <2>1. Ints!Quotient(a, b) \in Int /\ Ints!Remainder(a, b) \in Int
    BY <1>2, Truncation
  <2>2. Ints!FloorDivide(a, b) \in {Ints!Quotient(a, b), Ints!Quotient(a, b) - 1}
    BY <1>2 DEF Ints!FloorDivide
  <2>3. Ints!Mod(a, b) \in {Ints!Remainder(a, b), Ints!Remainder(a, b) + b}
    BY <1>2 DEF Ints!Mod
  <2> QED
    BY <2>1, <2>2, <2>3
<1> QED
  BY <1>1, <1>2

\* The power's loop, up to two turns.
LEMMA PowerTakes ==
    ASSUME NEW a \in Int, NEW b \in {-1, 0, 1, 2}
    PROVE  Ints!Power(a, b) = IF b <= 0 THEN 1 ELSE IF b = 1 THEN a ELSE a * a
<1> DEFINE F(g) == [i \in 0 .. b |-> IF i = 0 THEN 1 ELSE g[i - 1] * a]
           turn == CHOOSE g : g = F(g)
           w == [i \in 0 .. b |-> IF i = 0 THEN 1 ELSE IF i = 1 THEN a ELSE a * a]
<1>1. Ints!Power(a, b) = IF b <= 0 THEN 1 ELSE turn[b]
  BY DEF Ints!Power
<1>2. w = F(w)
  <2> SUFFICES ASSUME NEW i \in 0 .. b PROVE w[i] = F(w)[i]
    OBVIOUS
  <2>1. CASE i = 0
    BY <2>1
  <2>2. CASE i = 1
    BY <2>2
  <2>3. CASE i = 2
    BY <2>3
  <2>4. i \in {0, 1, 2}
    OBVIOUS
  <2> QED
    BY <2>1, <2>2, <2>3, <2>4
<1>3. turn = F(turn)
  BY <1>2
<1> HIDE DEF turn
<1>4. \A i \in 0 .. b : turn[i] = IF i = 0 THEN 1 ELSE turn[i - 1] * a
  BY <1>3
<1> HIDE DEF F, w
<1>5. CASE b <= 0
  BY <1>1, <1>5
<1>6. CASE b = 1
  <2>1. turn[0] = 1 /\ turn[1] = turn[0] * a
    BY <1>4, <1>6
  <2> QED
    BY <1>1, <1>6, <2>1
<1>7. CASE b = 2
  <2>1. turn[0] = 1 /\ turn[1] = turn[0] * a /\ turn[2] = turn[1] * a
    BY <1>4, <1>7
  <2> QED
    BY <1>1, <1>7, <2>1
<1> QED
  BY <1>5, <1>6, <1>7

Few == {-One, 0, One, 2 * One}

\* The exponents FPow knows are values of every type.
LEMMA FewTake ==
    ASSUME NEW t \in DTypes, NEW n \in Few
    PROVE  Value(t, n) /\ ToInt(n) \in {-1, 0, 1, 2}
<1>1. PICK h \in Nat : /\ h >= 4 /\ IntMin = (-h) * One /\ IntMax = (h - 1) * One
                       /\ 2 ^ Bits * One = (2 * h) * One /\ h * One < Inf
                       /\ h * One \in Nat /\ One \in Nat /\ One > 0 /\ Inf \in Nat
  BY WidthTakes
<1>2. PICK k \in {-1, 0, 1, 2} : n = k * One
  BY <1>1 DEF Few
<1>3. n % One = 0 /\ n \in Int /\ n \div One = k
  BY <1>1, <1>2, Multiple
<1>4. IntMin <= n /\ n <= IntMax
  <2>1. (-h) * One <= k * One /\ k * One <= (h - 1) * One
    BY <1>1
  <2> QED
    BY <1>1, <1>2, <2>1
<1>5. t # "i64" => Float(t, n)
  BY OneTakes DEF Few, DTypes, Floats, Float
<1> QED
  BY <1>2, <1>3, <1>4, <1>5 DEF Value, ToInt

\* The kernels of int64.
LEMMA OfIntTakes == ASSUME NEW n \in Int PROVE Value("i64", OfInt(n))
  BY WrapTakes DEF OfInt

LEMMA WholeArithmetic ==
    ASSUME NEW a, NEW b, Value("i64", a), Value("i64", b)
    PROVE  /\ Value("i64", Wrap(a + b)) /\ Value("i64", Wrap(a - b))
           /\ Value("i64", Wrap((a \div One) * b))
           /\ Value("i64", Wrap(-a)) /\ Value("i64", Wrap(Abs(a)))
<1> DEFINE m == ToInt(a)
           n == ToInt(b)
<1>1. m \in Int /\ n \in Int /\ a = m * One /\ b = n * One /\ m = a \div One /\ One \in Int
  BY WholeTakes, WidthTakes DEF ToInt
<1> HIDE DEF m, n
<1>2. /\ a + b = (m + n) * One /\ a - b = (m - n) * One /\ m * b = (m * n) * One
      /\ -a = (-m) * One
  BY <1>1
<1>3. /\ m + n \in Int /\ m - n \in Int /\ m * n \in Int /\ -m \in Int
  BY <1>1
<1>4. Value("i64", Wrap((m + n) * One)) /\ Value("i64", Wrap((m - n) * One))
  BY <1>3, WrapTakes
<1>5. Value("i64", Wrap((m * n) * One)) /\ Value("i64", Wrap((-m) * One)) /\ Value("i64", Wrap(m * One))
  BY <1>1, <1>3, WrapTakes
<1>6. Abs(a) = a \/ Abs(a) = -a
  BY DEF Abs
<1> QED
  BY <1>1, <1>2, <1>4, <1>5, <1>6

\* What a kernel yields: a value of its type, or the trap of INT_MIN by -1.
Yields(op, t, a, b, v) ==
    \/ Value(t, v)
    \/ v = Trap /\ op \in {"mod", "floor_divide"} /\ t = "i64" /\ a = IntMin /\ b = -One

LEMMA IntKernelTakes ==
    ASSUME NEW a, NEW b, Value("i64", a), Value("i64", b), NEW op \in ArrayOps \cup ScalarOps,
           op \notin {"div", "rdiv"}, op = "power" => b \in Few
    PROVE  Yields(op, "i64", a, b, Kernel(op, "i64", a, b))
<1>1. ToInt(a) \in Int /\ ToInt(b) \in Int
  BY WholeTakes
<1>2. CASE op = "add"
  BY <1>2, WholeArithmetic DEF Kernel, Add, Yields
<1>3. CASE op = "sub"
  BY <1>3, WholeArithmetic DEF Kernel, Sub, Yields
<1>4. CASE op = "rsub"
  BY <1>4, WholeArithmetic DEF Kernel, Sub, Yields
<1>5. CASE op = "mul"
  BY <1>5, WholeArithmetic DEF Kernel, Mul, Yields
<1>6. CASE op = "maximum" \/ op = "minimum"
  BY <1>6 DEF Kernel, Yields
<1>7. CASE op = "power"
  <2>1. ToInt(b) \in {-1, 0, 1, 2}
    BY <1>7, FewTake DEF DTypes
  <2>2. Ints!Power(ToInt(a), ToInt(b)) \in Int
    <3>1. ToInt(a) * ToInt(a) \in Int
      BY <1>1
    <3> QED
      BY <1>1, <2>1, <3>1, PowerTakes
  <2>3. Value("i64", OfInt(Ints!Power(ToInt(a), ToInt(b))))
    BY <2>2, OfIntTakes
  <2> QED
    BY <1>7, <2>3 DEF Kernel, Power, Yields
<1>8. CASE op = "mod"
  <2>1. Value("i64", OfInt(Ints!Mod(ToInt(a), ToInt(b))))
    BY <1>1, IntsTake, OfIntTakes
  <2> QED
    BY <1>8, <2>1 DEF Kernel, Mod, Yields, Divides
<1>9. CASE op = "floor_divide"
  <2>1. Value("i64", OfInt(Ints!FloorDivide(ToInt(a), ToInt(b))))
    BY <1>1, IntsTake, OfIntTakes
  <2> QED
    BY <1>9, <2>1 DEF Kernel, FloorDivide, Yields, Divides
<1> QED
  BY <1>2, <1>3, <1>4, <1>5, <1>6, <1>7, <1>8, <1>9 DEF ArrayOps, ScalarOps

LEMMA FloatKernelTakes ==
    ASSUME NEW t \in Floats, NEW a, NEW b, Float(t, a), Float(t, b),
           NEW op \in ArrayOps \cup ScalarOps, op = "power" => b \in Few
    PROVE  Float(t, Kernel(op, t, a, b))
<1>1. t # "i64" /\ Number(a) /\ Number(b) /\ a \in Int /\ b \in Int
  BY FloatTakes DEF Floats
<1>2. Number(FNeg(a)) /\ Number(FNeg(b))
  BY <1>1, FNegTakes
<1>3. CASE op = "add"
  BY <1>1, <1>3, FAddTakes DEF Kernel, Add
<1>4. CASE op = "sub"
  BY <1>1, <1>2, <1>4, FAddTakes DEF Kernel, Sub
<1>5. CASE op = "rsub"
  BY <1>1, <1>2, <1>5, FAddTakes DEF Kernel, Sub
<1>6. CASE op = "mul"
  BY <1>1, <1>6, FMulTakes DEF Kernel, Mul
<1>7. CASE op = "div"
  BY <1>1, <1>7, FDivTakes DEF Kernel
<1>8. CASE op = "rdiv"
  BY <1>1, <1>8, FDivTakes DEF Kernel
<1>9. CASE op = "maximum" \/ op = "minimum"
  BY <1>9 DEF Kernel
<1>10. CASE op = "power"
  <2>1. Float(t, FMul(t, a, a)) /\ Float(t, FDiv(t, One, a)) /\ Float(t, One)
    <3>1. One \in Int
      BY FormatTakes
    <3> QED
      BY <1>1, <3>1, FMulTakes, FDivTakes, OneTakes DEF Float
  <2>2. Float(t, FPow(t, a, b))
    <3>1. One \in Nat /\ One > 0
      BY FormatTakes
    <3>2. CASE b = 0
      BY <2>1, <3>1, <3>2 DEF FPow
    <3>3. CASE b = One
      BY <2>1, <3>1, <3>3 DEF FPow
    <3>4. CASE b = -One
      BY <2>1, <3>1, <3>4 DEF FPow
    <3>5. CASE b = 2 * One
      BY <2>1, <3>1, <3>5 DEF FPow
    <3> QED
      BY <1>10, <3>2, <3>3, <3>4, <3>5 DEF Few
  <2> QED
    BY <1>1, <1>10, <2>2 DEF Kernel, Power
<1>11. CASE op = "mod"
  <2>1. Float(t, FMod(a, b))
    BY FModTakes
  <2>2. Float(t, FAdd(t, FMod(a, b), b))
    BY <1>1, <2>1, FloatTakes, FAddTakes
  <2> QED
    BY <1>1, <1>11, <2>1, <2>2 DEF Kernel, Mod
<1>12. CASE op = "floor_divide"
  <2>1. Float(t, FFloor(FDiv(t, a, b)))
    BY <1>1, FDivTakes, WholeFloats
  <2> QED
    BY <1>1, <1>12, <2>1 DEF Kernel, FloorDivide
<1> QED
  BY <1>3, <1>4, <1>5, <1>6, <1>7, <1>8, <1>9, <1>10, <1>11, <1>12 DEF ArrayOps, ScalarOps

\* An element of an array.
IsElement(e) == e.dt \in DTypes /\ e = Element(e.dt, e.v) /\ Value(e.dt, e.v)

LEMMA ResultTakes ==
    ASSUME NEW op \in ArrayOps \cup ScalarOps, NEW t \in DTypes, NEW a, NEW b,
           Number(a), Number(b), op \in {"div", "rdiv"} => t # "i64",
           op = "power" => Cast(t, b) \in Few
    PROVE  \/ IsElement(Result(op, t, a, b))
           \/ /\ Result(op, t, a, b) = Trapped /\ op \in {"mod", "floor_divide"}
              /\ t = "i64" /\ Cast(t, a) = IntMin /\ Cast(t, b) = -One
<1> DEFINE k == Cast(t, a)
           l == Cast(t, b)
           v == Kernel(op, t, k, l)
<1>1. Value(t, k) /\ Value(t, l)
  BY CastTakes
<1>2. Yields(op, t, k, l, v)
  <2> HIDE DEF k, l
  <2>0. op = "power" => l \in Few
    BY DEF l
  <2>1. CASE t = "i64"
    BY <1>1, <2>0, <2>1, IntKernelTakes
  <2>2. CASE t # "i64"
    <3>1. t \in Floats /\ Float(t, k) /\ Float(t, l)
      BY <1>1, <2>2 DEF Value, DTypes, Floats
    <3>2. Float(t, v)
      BY <2>0, <3>1, FloatKernelTakes
    <3> QED
      BY <2>2, <3>2 DEF Yields, Value
  <2> QED
    BY <2>1, <2>2
<1>3. Result(op, t, a, b) = IF v = Trap THEN Trapped ELSE Element(t, v)
  BY DEF Result
<1> HIDE DEF v, k, l
<1>4. CASE Value(t, v)
  <2>1. v # Trap
    BY <1>4, ValueTakes
  <2> QED
    BY <1>3, <1>4, <2>1 DEF IsElement, Element
<1>5. CASE ~Value(t, v)
  BY <1>2, <1>3, <1>5 DEF Yields, k, l
<1> QED
  BY <1>4, <1>5

LEMMA UnaryTakes ==
    ASSUME NEW op \in UnaryOps, NEW t \in DTypes, NEW v, Value(t, v),
           t = "i64" => op \in {"negative", "abs", "sign"}
    PROVE  Value(t, UnaryValue(op, t, v))
<1>1. Value(t, One) /\ Value(t, -One) /\ Value(t, 0)
  BY FewTake DEF Few
<1>2. CASE op = "sign"
  BY <1>1, <1>2 DEF UnaryValue
<1>3. CASE t = "i64" /\ op # "sign"
  BY <1>3, WholeArithmetic DEF UnaryValue, UnaryOps
<1>4. CASE t # "i64" /\ op # "sign"
  <2>1. t \in Floats /\ Float(t, v)
    BY <1>4 DEF Value, DTypes, Floats
  <2>2. Float(t, FNeg(v)) /\ Float(t, FFloor(v)) /\ Float(t, FCeil(v)) /\ Float(t, FTrunc(v)) /\ Float(t, FRint(v))
    BY <2>1, FNegTakes, WholeFloats
  <2>3. Float(t, Abs(v))
    <3>1. FiniteFloat(t, v) => FiniteFloat(t, Abs(v))
      BY <2>1, OppositeTakes
    <3>2. v \in Specials => Abs(v) \in Specials
      BY SpecialTakes DEF Specials, Abs
    <3> QED
      BY <2>1, <3>1, <3>2 DEF Float
  <2> QED
    BY <1>4, <2>2, <2>3 DEF UnaryValue, UnaryOps, RoundHalfEven, Value
<1> QED
  BY <1>2, <1>3, <1>4

-----------------------------------------------------------------------------
(* Quotients of floats *)

\* A rounded magnitude is within half a unit of the magnitude.
LEMMA RoundedNear ==
    ASSUME NEW f \in Floats, NEW num \in Int, NEW den \in Nat, den > 0,
           NEW e, Unit(f, num, den, e)
    PROVE  2 * Abs(Abs(num) - Rounded(f, num, den, e) * den) <= den * 2 ^ e
<1> DEFINE r == Rounded(f, num, den, e)
           u == 2 ^ e
           m == Abs(num)
           w == den * u
           q == m \div w
           s == m % w
           up == 2 * s - w > 0 \/ (2 * s - w = 0 /\ q % 2 = 1)
           k == IF up THEN q + 1 ELSE q
<1>1. u \in Nat /\ u > 0 /\ m \in Nat
  BY FormatTakes, TwoTakes DEF Unit, Abs
<1>2. r = u * k
  BY DEF Rounded
<1> HIDE DEF u, m, r
<1>3. w \in Nat /\ w > 0
  BY <1>1
<1>4. q \in Int /\ s \in Int /\ m = q * w + s /\ 0 <= s /\ s < w
  <2> HIDE DEF w
  <2> QED
    BY <1>1, <1>3, Division
<1>5. k \in Int /\ r * den = k * w
  <2>1. k \in Int
    <3> HIDE DEF q, up
    <3> QED
      BY <1>4
  <2> HIDE DEF k
  <2> QED
    BY <1>1, <1>2, <2>1
<1>6. (k = q /\ 2 * s <= w) \/ (k = q + 1 /\ 2 * s >= w)
  <2> HIDE DEF q, s, w
  <2> QED
    BY <1>3, <1>4
<1> HIDE DEF k, q, s, w
<1>7. m - k * w = s \/ m - k * w = s - w
  BY <1>3, <1>4, <1>5, <1>6
<1>8. 2 * Abs(m - k * w) <= w
  <2>1. CASE k = q /\ 2 * s <= w
    <3>1. m - k * w = s
      BY <1>3, <1>4, <2>1
    <3> QED
      BY <1>3, <1>4, <2>1, <3>1 DEF Abs
  <2>2. CASE k = q + 1 /\ 2 * s >= w
    <3>1. m - k * w = s - w
      BY <1>3, <1>4, <2>2
    <3> QED
      BY <1>3, <1>4, <2>2, <3>1 DEF Abs
  <2> QED
    BY <1>6, <2>1, <2>2
<1> QED
  BY <1>5, <1>8 DEF m, r, w, u

\* A quotient that is a number of the type is not rounded.
LEMMA NearestExact ==
    ASSUME NEW f \in Floats, NEW v, FiniteFloat(f, v), NEW den \in Nat, den > 0
    PROVE  Nearest(f, v * den, den) = v
<1> DEFINE num == v * den
           m == Abs(v)
<1>1. v \in Int /\ m < Top(f) /\ m \in Nat /\ Top(f) \in Nat
  BY FormatTakes DEF FiniteFloat, Abs
<1>2. num \in Int /\ Abs(num) = m * den /\ Sign(num) = Sign(v) /\ Abs(v) = m
  <2>1. CASE v > 0
    <3>1. v * den > 0
      BY <1>1, <2>1
    <3> QED
      BY <1>1, <2>1, <3>1 DEF Abs, Sign
  <2>2. CASE v = 0
    BY <1>1, <2>2 DEF Abs, Sign
  <2>3. CASE v < 0
    <3>1. v * den < 0 /\ -(v * den) = (-v) * den
      BY <1>1, <2>3
    <3> QED
      BY <1>1, <2>3, <3>1 DEF Abs, Sign
  <2> QED
    BY <1>1, <2>1, <2>2, <2>3
<1> HIDE DEF m, num
<1>3. PICK e : /\ Unit(f, num, den, e)
               /\ Nearest(f, num, den) = Sign(num) * (IF Rounded(f, num, den, e) < Top(f)
                                                      THEN Rounded(f, num, den, e) ELSE Inf)
  BY <1>2, NearestChooses
<1>4. Unit(f, v, 1, e)
  <2>1. \A d \in 0 .. TopUnit[f] : 2 ^ (Precision[f] + d) \in Nat
    BY FormatTakes, TwoTakes
  <2>2. ASSUME NEW d \in 0 .. TopUnit[f]
        PROVE  (m < 2 ^ (Precision[f] + d) * 1) <=> (m * den < 2 ^ (Precision[f] + d) * den)
    <3> DEFINE c == 2 ^ (Precision[f] + d)
    <3>1. c \in Nat
      BY <2>1
    <3> HIDE DEF c
    <3>2. (m < c) => (m * den < c * den)
      BY <1>1, <3>1
    <3>3. (m >= c) => (m * den >= c * den)
      BY <1>1, <3>1
    <3>4. c * 1 = c /\ m * den \in Int /\ c * den \in Int
      BY <1>1, <3>1
    <3>5. (m < c * 1) <=> (m * den < c * den)
      BY <1>1, <3>1, <3>2, <3>3, <3>4
    <3> QED
      BY <3>5 DEF c
  <2>3. \A d \in 0 .. TopUnit[f] : 2 ^ (Precision[f] + d) * 1 \in Int /\ 2 ^ (Precision[f] + d) * den \in Int
    <3> TAKE d \in 0 .. TopUnit[f]
    <3>1. 2 ^ (Precision[f] + d) \in Nat
      BY <2>1
    <3> QED
      BY <3>1
  <2>4. m * den \in Int
    BY <1>1
  <2>5. \A d \in 0 .. TopUnit[f] : (m * den >= 2 ^ (Precision[f] + d) * den) => (m >= 2 ^ (Precision[f] + d) * 1)
    BY <1>1, <2>2, <2>3, <2>4
  <2>6. e \in 0 .. TopUnit[f]
    BY <1>3 DEF Unit
  <2>7. m < 2 ^ (Precision[f] + e) * 1 \/ e = TopUnit[f]
    BY <1>2, <1>3, <2>2, <2>6 DEF Unit
  <2>8. \A d \in 0 .. TopUnit[f] : d < e => m >= 2 ^ (Precision[f] + d) * 1
    BY <1>2, <1>3, <2>5 DEF Unit
  <2> QED
    BY <1>2, <2>6, <2>7, <2>8 DEF Unit
<1> DEFINE u == 2 ^ e
           r == Rounded(f, num, den, e)
<1>5. u \in Nat /\ u > 0 /\ v % u = 0 /\ r \in Nat /\ r % u = 0
  <2>1. e \in Nat
    BY <1>3, FormatTakes DEF Unit
  <2> QED
    BY <1>2, <1>3, <1>4, <2>1, TwoTakes, UnitDivides, RoundedTakes
<1>6. 2 * Abs(m * den - r * den) <= den * u
  BY <1>2, <1>3, RoundedNear
<1> HIDE DEF u, r
<1>7. r = m
  <2>1. m % u = 0
    BY <1>1, <1>2, <1>5, Opposite
  <2> DEFINE j == m \div u
             k == r \div u
  <2>2. j \in Int /\ k \in Int /\ m = j * u /\ r = k * u
    BY <1>1, <1>5, <2>1, Division
  <2> HIDE DEF j, k
  <2> DEFINE w == den * u
             d == j - k
  <2>3. w \in Nat /\ w > 0 /\ d \in Int
    BY <1>5, <2>2
  <2>4. m * den - r * den = d * w
    BY <1>5, <2>2
  <2> HIDE DEF w, d
  <2>5. 2 * Abs(d * w) <= w
    BY <1>6, <2>4 DEF w
  <2>6. ASSUME d >= 1 PROVE FALSE
    <3>1. d * w >= w
      BY <2>3, <2>6
    <3> QED
      BY <2>3, <2>5, <3>1 DEF Abs
  <2>7. ASSUME d <= -1 PROVE FALSE
    <3>1. d * w <= -w
      BY <2>3, <2>7
    <3> QED
      BY <2>3, <2>5, <3>1 DEF Abs
  <2>8. d = 0
    BY <2>3, <2>6, <2>7
  <2> QED
    BY <2>2, <2>8 DEF d
<1>8. Nearest(f, num, den) = Sign(v) * m
  BY <1>1, <1>2, <1>3, <1>7 DEF r
<1>9. Sign(v) * m = v
  BY <1>1, <1>2 DEF Sign, Abs
<1> QED
  BY <1>8, <1>9 DEF num

\* A quotient beyond the largest number of the type is infinite.
LEMMA NearestOverflows ==
    ASSUME NEW f \in Floats, NEW num \in Int, NEW den \in Nat, den > 0,
           Abs(num) >= Top(f) * den
    PROVE  Nearest(f, num, den) = Sign(num) * Inf
<1> DEFINE P == Precision[f]
           T == TopUnit[f]
           m == Abs(num)
<1>1. P \in Nat /\ T \in Nat /\ m \in Nat /\ Top(f) \in Nat /\ Top(f) = 2 ^ (P + T)
  BY FormatTakes DEF Abs, Top
<1>2. PICK e : /\ Unit(f, num, den, e)
               /\ Nearest(f, num, den) = Sign(num) * (IF Rounded(f, num, den, e) < Top(f)
                                                      THEN Rounded(f, num, den, e) ELSE Inf)
  BY NearestChooses
<1>3. e = T
  <2> SUFFICES ASSUME e # T PROVE FALSE
    OBVIOUS
  <2> DEFINE c == 2 ^ (P + e)
  <2>1. m < c * den /\ e \in Nat /\ e <= T
    BY <1>2, FormatTakes DEF Unit
  <2>2. c \in Nat /\ c <= Top(f)
    <3>1. P + e \in Nat /\ P + T \in Nat /\ P + e <= P + T
      BY <1>1, <2>1
    <3> QED
      BY <1>1, <3>1, TwoTakes, TwoGrows
  <2> HIDE DEF c, m
  <2>3. c * den <= Top(f) * den /\ c * den \in Int /\ Top(f) * den \in Int
    BY <1>1, <2>2
  <2>4. m >= Top(f) * den
    BY DEF m
  <2> QED
    BY <1>1, <2>1, <2>3, <2>4
<1> DEFINE r == Rounded(f, num, den, e)
           u == 2 ^ e
<1>4. r \in Nat /\ r % u = 0 /\ u \in Nat /\ u > 0 /\ 2 * Abs(m - r * den) <= den * u
  <2>1. e \in Nat
    BY <1>1, <1>3
  <2> QED
    BY <1>2, <2>1, RoundedTakes, RoundedNear, TwoTakes
<1>5. r >= Top(f)
  <2> SUFFICES ASSUME r < Top(f) PROVE FALSE
    BY <1>1, <1>4
  <2> DEFINE k == r \div u
             p == 2 ^ P
  <2>1. p \in Nat /\ Top(f) = p * u
    BY <1>1, <1>3, TwoTakes, TwoAdds
  <2>2. k \in Int /\ r = k * u
    <3> HIDE DEF r, u
    <3> QED
      BY <1>4, Division
  <2> HIDE DEF r, u, k, p
  <2>3. k <= p - 1
    <3> SUFFICES ASSUME k >= p PROVE FALSE
      BY <2>1, <2>2
    <3>1. k * u >= p * u
      BY <1>4, <2>1, <2>2
    <3> QED
      BY <1>4, <2>1, <2>2, <3>1
  <2>4. r <= Top(f) - u
    <3>1. k * u <= (p - 1) * u
      BY <1>4, <2>1, <2>2, <2>3
    <3> QED
      BY <1>4, <2>1, <2>2, <3>1
  <2>5. r * den <= (Top(f) - u) * den
    BY <1>1, <1>4, <2>4
  <2> DEFINE w == den * u
             a == r * den
             b == Top(f) * den
  <2>6. a <= b - w /\ a \in Int /\ b \in Int /\ w \in Nat /\ w > 0
    BY <1>1, <1>4, <2>5
  <2>7. 2 * Abs(m - a) <= w /\ m >= b
    BY <1>4
  <2> HIDE DEF w, a, b, m
  <2> QED
    BY <1>1, <2>6, <2>7 DEF Abs
<1> QED
  BY <1>1, <1>2, <1>4, <1>5

-----------------------------------------------------------------------------
(* Odd and even parts of a quotient *)

\* An odd number times a power of two.
OddTimes(n) == \E j \in Nat : \E B \in Int : n = B * 2 ^ j /\ B % 2 = 1

\* Every number but zero is one.
LEMMA OddPart == ASSUME NEW n \in Int, n # 0 PROVE OddTimes(n)
<1>1. ASSUME NEW m \in Nat, m > 0 PROVE OddTimes(m)
  <2> DEFINE Bad == {k \in Nat : k > 0 /\ ~OddTimes(k)}
  <2> SUFFICES ASSUME Bad # {} PROVE FALSE
    BY <1>1
  <2>1. PICK k \in Bad : \A j \in Bad : k <= j
    <3>1. Bad \subseteq Nat
      OBVIOUS
    <3> HIDE DEF Bad
    <3> QED
      BY <3>1, LeastMember
  <2>2. k \in Nat /\ k > 0 /\ ~OddTimes(k)
    BY <2>1
  <2>3. CASE k % 2 = 1
    <3>1. k = k * 2 ^ 0
      <4>1. 2 ^ 0 = 1
        OBVIOUS
      <4> QED
        BY <2>2, <4>1
    <3>2. 0 \in Nat /\ k \in Int
      BY <2>2
    <3> QED
      BY <2>2, <2>3, <3>1, <3>2 DEF OddTimes
  <2>4. CASE k % 2 # 1
    <3> DEFINE h == k \div 2
    <3>1. h \in Nat /\ h > 0 /\ h < k /\ k = 2 * h
      BY <2>2, <2>4
    <3> HIDE DEF h
    <3>2. h \notin Bad
      BY <2>1, <2>2, <3>1
    <3>3. OddTimes(h)
      BY <3>1, <3>2
    <3>4. PICK j \in Nat, B \in Int : h = B * 2 ^ j /\ B % 2 = 1
      BY <3>3 DEF OddTimes
    <3> DEFINE c == 2 ^ j
    <3>5. c \in Nat /\ 2 ^ (j + 1) = 2 * c /\ h = B * c /\ j + 1 \in Nat
      BY <3>4, TwoTakes, TwoDoubles
    <3> HIDE DEF c
    <3>6. k = B * (2 * c)
      BY <3>1, <3>5
    <3>7. k = B * 2 ^ (j + 1)
      BY <3>5, <3>6
    <3> QED
      BY <2>2, <3>4, <3>5, <3>7 DEF OddTimes
  <2> QED
    BY <2>3, <2>4
<1>2. CASE n > 0
  <2>1. n \in Nat
    BY <1>2
  <2> QED
    BY <1>1, <1>2, <2>1
<1>3. CASE n < 0
  <2> DEFINE m == -n
  <2>1. m \in Nat /\ m > 0 /\ n = -m
    BY <1>3
  <2> HIDE DEF m
  <2>2. PICK j \in Nat, B \in Int : m = B * 2 ^ j /\ B % 2 = 1
    BY <1>1, <2>1 DEF OddTimes
  <2> DEFINE c == 2 ^ j
             C == -B
  <2>3. c \in Nat /\ m = B * c
    BY <2>2, TwoTakes
  <2> HIDE DEF c
  <2>4. n = C * c
    BY <2>1, <2>2, <2>3
  <2>5. C \in Int /\ C % 2 = 1
    BY <2>2
  <2> HIDE DEF C
  <2> QED
    BY <2>4, <2>5 DEF OddTimes, c
<1> QED
  BY <1>2, <1>3

\* A factor that is not zero cancels.
LEMMA Cancels ==
    ASSUME NEW y \in Int, NEW z \in Int, NEW w \in Nat, w > 0, y * w = z * w
    PROVE  y = z
<1>1. ASSUME y >= z + 1 PROVE FALSE
  <2>1. y * w >= (z + 1) * w
    BY <1>1
  <2> QED
    BY <2>1
<1>2. ASSUME y <= z - 1 PROVE FALSE
  <2>1. y * w <= (z - 1) * w
    BY <1>2
  <2> QED
    BY <2>1
<1> QED
  BY <1>1, <1>2

\* A power of two that divides a product with an odd number divides the other factor.
LEMMA OddCancels ==
    ASSUME NEW m \in Nat, NEW Q \in Int, NEW A \in Int, NEW B \in Int, B % 2 = 1,
           Q * B = A * 2 ^ m
    PROVE  Q % 2 ^ m = 0
<1> DEFINE S == {i \in 0 .. m : Q % 2 ^ i = 0}
<1>1. 0 \in S
  <2>1. 2 ^ 0 = 1 /\ Q % 1 = 0
    OBVIOUS
  <2> QED
    BY <2>1
<1>2. ASSUME NEW i \in 0 .. m - 1, i \in S PROVE i + 1 \in S
  <2> DEFINE c == 2 ^ i
             d == 2 ^ (m - i - 1)
             k == Q \div c
  <2>1. /\ i \in Nat /\ m - i - 1 \in Nat /\ i + 1 \in Nat
        /\ i + 1 \in 0 .. m /\ (i + 1) + (m - i - 1) = m
    OBVIOUS
  <2>2. /\ c \in Nat /\ c > 0 /\ d \in Nat /\ 2 ^ (i + 1) = 2 * c
        /\ 2 ^ m = (2 * c) * d /\ Q % c = 0
    BY <1>2, <2>1, TwoTakes, TwoDoubles, TwoAdds
  <2>3. k \in Int /\ Q = k * c
    <3> HIDE DEF c
    <3> QED
      BY <2>2, Division
  <2> HIDE DEF c, d, k
  <2>4. (k * B) * c = ((2 * A) * d) * c
    BY <2>2, <2>3
  <2>5. k * B = 2 * (A * d)
    <3> DEFINE p == k * B
               q == (2 * A) * d
    <3>1. p \in Int /\ q \in Int /\ p * c = q * c
      BY <2>2, <2>3, <2>4
    <3> HIDE DEF p, q
    <3>2. p = q
      BY <2>2, <3>1, Cancels
    <3> QED
      BY <2>2, <3>2 DEF p, q
  <2>6. k % 2 = 0
    <3> SUFFICES ASSUME k % 2 = 1 PROVE FALSE
      BY <2>3
    <3> DEFINE g == k \div 2
               h == B \div 2
    <3>1. g \in Int /\ h \in Int /\ k = 2 * g + 1 /\ B = 2 * h + 1
      BY <2>3
    <3> HIDE DEF g, h
    <3>2. k * B = 2 * (2 * (g * h) + g + h) + 1
      BY <3>1
    <3> DEFINE y == 2 * (g * h) + g + h
               z == A * d
    <3>3. y \in Int /\ z \in Int /\ 2 * z = 2 * y + 1
      BY <2>2, <2>5, <3>1, <3>2
    <3> HIDE DEF y, z
    <3> QED
      BY <3>3
  <2>7. Q % (2 * c) = 0
    <3> DEFINE g == k \div 2
    <3>1. g \in Int /\ k = 2 * g
      BY <2>3, <2>6
    <3> HIDE DEF g
    <3>2. Q = g * (2 * c)
      BY <2>2, <2>3, <3>1
    <3> DEFINE w == 2 * c
    <3>3. w \in Nat /\ w > 0 /\ Q = g * w
      BY <2>2, <3>2
    <3> HIDE DEF w
    <3>4. Q % w = 0
      BY <3>1, <3>3, Multiple
    <3> QED
      BY <3>4 DEF w
  <2> QED
    BY <2>1, <2>2, <2>7
<1>3. m \in S
  <2> HIDE DEF S
  <2> QED
    BY <1>1, <1>2, Reaches
<1> QED
  BY <1>3

\* |x * y| >= |x| when y is not zero.
LEMMA Grows ==
    ASSUME NEW k \in Int, NEW b \in Int, b # 0 PROVE Abs(k) <= Abs(k * b)
<1>1. CASE k >= 0 /\ b > 0
  <2>1. k * b >= k
    BY <1>1
  <2> QED
    BY <1>1, <2>1 DEF Abs
<1>2. CASE k >= 0 /\ b < 0
  <2>1. k * b <= -k
    BY <1>2
  <2> QED
    BY <1>2, <2>1 DEF Abs
<1>3. CASE k < 0 /\ b > 0
  <2>1. k * b <= k
    BY <1>3
  <2> QED
    BY <1>3, <2>1 DEF Abs
<1>4. CASE k < 0 /\ b < 0
  <2>1. k * b >= -k
    BY <1>4
  <2> QED
    BY <1>4, <2>1 DEF Abs
<1> QED
  BY <1>1, <1>2, <1>3, <1>4

\* A quotient of two floats that is a number of units at all is a float, if it is
\* not too large.
LEMMA QuotientFits ==
    ASSUME NEW f \in Floats, NEW a, FiniteFloat(f, a), NEW b \in Int, b # 0,
           NEW Q \in Int, Q * b = a * One, Abs(Q) < Top(f)
    PROVE  FiniteFloat(f, Q)
<1> DEFINE P == Precision[f]
           T == TopUnit[f]
           p == 2 ^ P
<1>1. /\ P \in Nat /\ T \in Nat /\ Frac \in Nat /\ p \in Nat /\ Top(f) \in Nat
      /\ Top(f) = 2 ^ (P + T)
  BY FormatTakes, TwoTakes DEF Top
<1>2. a \in Int
  BY DEF FiniteFloat
<1>3. PICK i \in 0 .. T : OnGrid(f, i, a)
  BY DEF FiniteFloat
<1> DEFINE c == 2 ^ i
           A == a \div c
<1>4. i \in Nat /\ c \in Nat /\ c > 0 /\ a % c = 0 /\ Abs(a) <= p * c
  <2>1. i \in Nat
    BY <1>1
  <2>2. 2 ^ (P + i) = p * c
    BY <1>1, <2>1, TwoAdds
  <2> QED
    BY <1>3, <2>1, <2>2, TwoTakes DEF OnGrid
<1>5. A \in Int /\ a = A * c
  <2> HIDE DEF c
  <2> QED
    BY <1>2, <1>4, Division
<1> HIDE DEF A, p
<1>6. Abs(A) <= p
  <2> HIDE DEF c
  <2>1. A <= p
    <3> SUFFICES ASSUME A >= p + 1 PROVE FALSE
      BY <1>1, <1>5
    <3>1. A * c >= (p + 1) * c
      BY <1>1, <1>4, <1>5
    <3> QED
      BY <1>1, <1>2, <1>4, <1>5, <3>1 DEF Abs
  <2>2. -p <= A
    <3> SUFFICES ASSUME A <= -p - 1 PROVE FALSE
      BY <1>1, <1>5
    <3>1. A * c <= (-p - 1) * c
      BY <1>1, <1>4, <1>5
    <3> QED
      BY <1>1, <1>2, <1>4, <1>5, <3>1 DEF Abs
  <2> QED
    BY <1>1, <1>5, <2>1, <2>2 DEF Abs
<1>7. PICK j \in Nat, B \in Int : b = B * 2 ^ j /\ B % 2 = 1
  BY OddPart DEF OddTimes
<1>8. B # 0
  BY <1>7
<1> DEFINE d == 2 ^ j
           g == 2 ^ (i + Frac)
<1>9. /\ d \in Nat /\ d > 0 /\ g \in Nat /\ g > 0 /\ i + Frac \in Nat
      /\ (Q * B) * d = A * g /\ c * One = g
  <2>1. i + Frac \in Nat
    BY <1>1, <1>4
  <2>2. c * One = g
    BY <1>1, <1>4, TwoAdds DEF One
  <2>3. d \in Nat /\ d > 0 /\ g \in Nat /\ g > 0 /\ One \in Nat
    BY <1>1, <1>7, <2>1, TwoTakes DEF One
  <2>4. Q * (B * d) = (A * c) * One
    BY <1>5, <1>7
  <2> HIDE DEF d, g, c
  <2>5. Q * (B * d) = (Q * B) * d /\ (A * c) * One = A * g
    BY <1>4, <1>5, <1>7, <2>2, <2>3
  <2> QED
    BY <2>1, <2>2, <2>3, <2>4, <2>5
<1>10. CASE j <= i + Frac
  <2> DEFINE m == i + Frac - j
             e == 2 ^ m
             k == Q \div e
  <2>1. m \in Nat /\ e \in Nat /\ e > 0 /\ g = d * e
    <3>1. m \in Nat /\ j + m = i + Frac
      BY <1>1, <1>4, <1>7, <1>10
    <3> HIDE DEF m
    <3>2. 2 ^ (j + m) = d * e /\ e \in Nat /\ e > 0
      BY <1>7, <3>1, TwoTakes, TwoAdds
    <3> QED
      BY <3>1, <3>2
  <2>2. Q * B = A * e
    <3> DEFINE y == Q * B
               z == A * e
    <3>1. y \in Int /\ z \in Int /\ y * d = z * d
      <4> HIDE DEF e, d, g
      <4> QED
        BY <1>5, <1>7, <1>9, <2>1
    <3> HIDE DEF y, z, d
    <3>3. y = z
      BY <1>9, <3>1, Cancels
    <3> QED
      BY <3>3 DEF y, z
  <2>3. Q % e = 0
    BY <1>5, <1>7, <2>1, <2>2, OddCancels
  <2>4. k \in Int /\ Q = k * e
    <3> HIDE DEF e
    <3> QED
      BY <2>1, <2>3, Division
  <2>5. k * B = A
    <3> HIDE DEF e, k
    <3> DEFINE y == k * B
    <3>1. y \in Int /\ y * e = A * e
      BY <1>7, <2>1, <2>2, <2>4
    <3> HIDE DEF y
    <3>3. y = A
      BY <1>5, <2>1, <3>1, Cancels
    <3> QED
      BY <3>3 DEF y
  <2>6. Abs(k) <= p
    <3> HIDE DEF k
    <3>1. Abs(k) <= Abs(A)
      BY <1>7, <1>8, <2>4, <2>5, Grows
    <3> QED
      BY <1>1, <1>5, <1>6, <2>4, <3>1 DEF Abs
  <2>7. CASE m <= T
    <3>1. 2 ^ (P + m) = p * e
      BY <1>1, <2>1, TwoAdds DEF p
    <3>2. Abs(Q) <= p * e
      <4> HIDE DEF k, e
      <4>1. k * e <= p * e /\ (-p) * e <= k * e
        <5>1. -p <= k /\ k <= p
          BY <1>1, <2>4, <2>6 DEF Abs
        <5> QED
          BY <1>1, <2>1, <2>4, <5>1
      <4> DEFINE y == p * e
      <4>2. y \in Int /\ (-p) * e = -y
        BY <1>1, <2>1
      <4> HIDE DEF y
      <4>3. -y <= Q /\ Q <= y
        BY <2>4, <4>1, <4>2 DEF y
      <4> QED
        BY <4>2, <4>3 DEF Abs, y
    <3>3. OnGrid(f, m, Q)
      BY <1>1, <2>1, <2>3, <2>7, <3>1, <3>2 DEF OnGrid
    <3>4. m \in 0 .. T
      BY <1>1, <2>1, <2>7
    <3> QED
      BY <3>3, <3>4 DEF FiniteFloat
  <2>8. CASE T < m
    <3>1. Q % 2 ^ T = 0
      BY <1>1, <2>1, <2>3, <2>8, UnitsDivide
    <3>2. Abs(Q) <= 2 ^ (P + T)
      BY <1>1 DEF Abs
    <3>3. OnGrid(f, T, Q)
      BY <1>1, <3>1, <3>2 DEF OnGrid
    <3> QED
      BY <1>1, <3>3 DEF FiniteFloat
  <2> QED
    BY <1>1, <2>1, <2>7, <2>8
<1>11. CASE j > i + Frac
  <2> DEFINE m == j - (i + Frac)
             e == 2 ^ m
  <2>1. m \in Nat /\ e \in Nat /\ e > 0 /\ d = g * e
    <3>1. m \in Nat /\ (i + Frac) + m = j
      BY <1>7, <1>9, <1>11
    <3> HIDE DEF m
    <3>2. 2 ^ ((i + Frac) + m) = g * e /\ e \in Nat /\ e > 0
      BY <1>9, <3>1, TwoTakes, TwoAdds
    <3> QED
      BY <3>1, <3>2
  <2>2. Q * (B * e) = A /\ B * e # 0 /\ B * e \in Int
    <3> HIDE DEF e, d, g
    <3> DEFINE y == Q * (B * e)
    <3>1. y \in Int /\ y * g = A * g
      BY <1>7, <1>9, <2>1
    <3> HIDE DEF y
    <3>3. y = A
      BY <1>5, <1>9, <3>1, Cancels
    <3>4. B * e # 0 /\ B * e \in Int
      BY <1>7, <1>8, <2>1
    <3> QED
      BY <3>3, <3>4 DEF y
  <2>3. Abs(Q) <= p
    <3> DEFINE y == B * e
    <3>1. y \in Int /\ y # 0 /\ Q * y = A
      BY <2>2
    <3> HIDE DEF y
    <3>2. Abs(Q) <= Abs(A)
      BY <3>1, Grows
    <3> QED
      BY <1>1, <1>5, <1>6, <3>2 DEF Abs
  <2>4. OnGrid(f, 0, Q)
    <3>1. 2 ^ 0 = 1 /\ Q % 1 = 0
      OBVIOUS
    <3>2. P + 0 = P /\ 0 \in 0 .. T
      BY <1>1
    <3> QED
      BY <2>3, <3>1, <3>2 DEF OnGrid, p
  <2>5. 0 \in 0 .. T
    BY <1>1
  <2> QED
    BY <2>4, <2>5 DEF FiniteFloat
<1> QED
  BY <1>7, <1>9, <1>10, <1>11

-----------------------------------------------------------------------------
(* Float floor division *)

\* Infinity is a whole number of the model.
LEMMA InfWhole == Inf % One = 0 /\ (-Inf) % One = 0
<1>1. Inf \in Nat /\ One \in Nat /\ One > 0 /\ Frac \in Nat /\ Inf = 2 ^ 28
  BY WidthTakes, WidthAssumption DEF Inf
<1>2. One <= Inf
  <2>1. PICK h \in Nat : h >= 4 /\ h * One < Inf /\ h * One \in Nat
    BY WidthTakes
  <2>2. h * One >= One
    BY <1>1, <2>1
  <2> QED
    BY <1>1, <2>1, <2>2
<1>3. Frac <= 28
  <2> SUFFICES ASSUME Frac >= 29 PROVE FALSE
    BY <1>1
  <2>1. 2 ^ 29 <= 2 ^ Frac
    <3>1. 29 \in Nat /\ 29 <= Frac
      OBVIOUS
    <3> QED
      BY <1>1, <3>1, TwoGrows
  <2>2. 2 ^ 29 = 2 * Inf
    BY DEF Inf
  <2> QED
    BY <1>1, <1>2, <2>1, <2>2 DEF One
<1> DEFINE k == 2 ^ (28 - Frac)
<1>4. k \in Nat /\ Inf = One * k
  <2>1. 28 - Frac \in Nat /\ Frac + (28 - Frac) = 28
    BY <1>1, <1>3
  <2> DEFINE m == 28 - Frac
  <2> HIDE DEF m
  <2>2. m \in Nat /\ Frac + m = 28
    BY <2>1 DEF m
  <2>3. 2 ^ m \in Nat /\ 2 ^ (Frac + m) = One * 2 ^ m
    BY <1>1, <2>2, TwoTakes, TwoAdds DEF One
  <2> QED
    BY <1>1, <2>2, <2>3 DEF m
<1> HIDE DEF k
<1>5. Inf = k * One
  BY <1>1, <1>4
<1>6. Inf % One = 0
  <2>1. (k * One) % One = 0
    BY <1>1, <1>4, Multiple
  <2> QED
    BY <1>5, <2>1
<1>7. Inf \in Int /\ One \in Nat /\ One > 0
  BY <1>1
<1>8. (-Inf) % One = 0
  BY <1>6, <1>7, Opposite
<1> QED
  BY <1>6, <1>8

\* A floor is known by its bounds.
LEMMA FloorIs ==
    ASSUME NEW v \in Int, IsFinite(v), NEW k \in Int, k * One <= v, v < k * One + One
    PROVE  FFloor(v) = k * One
<1>1. One \in Nat /\ One > 0
  BY WidthTakes
<1> DEFINE n == FFloor(v)
<1>2. n \in Int /\ n % One = 0 /\ v - One < n /\ n <= v
  BY RoundingTakes DEF Near
<1> DEFINE j == n \div One
<1>3. j \in Int /\ n = j * One
  <2> HIDE DEF n
  <2> QED
    BY <1>1, <1>2, Division
<1> HIDE DEF n, j
<1>4. ASSUME j >= k + 1 PROVE FALSE
  <2>1. j * One >= (k + 1) * One
    BY <1>1, <1>3, <1>4
  <2> QED
    BY <1>1, <1>2, <1>3, <2>1
<1>5. ASSUME j <= k - 1 PROVE FALSE
  <2>1. j * One <= (k - 1) * One
    BY <1>1, <1>3, <1>5
  <2> QED
    BY <1>1, <1>2, <1>3, <2>1
<1>6. j = k
  BY <1>3, <1>4, <1>5
<1> QED
  BY <1>3, <1>6 DEF n

\* A floor of a float is not rounded.
LEMMA FloorFixed ==
    ASSUME NEW f \in Floats, NEW v, FiniteFloat(f, v), NEW k \in Int, k * One <= v, v < k * One + One
    PROVE  FFloor(v) = k * One /\ Nearest(f, k * One, 1) = k * One
<1>1. v \in Int /\ IsFinite(v)
  BY FloatTakes DEF Float
<1>2. FFloor(v) = k * One
  BY <1>1, FloorIs
<1>3. Float(f, FFloor(v)) /\ IsFinite(FFloor(v))
  <2>1. Near(FFloor(v), v)
    BY <1>1, RoundingTakes
  <2>2. FiniteFloat(f, FFloor(v))
    BY <2>1, NearWholeTakes DEF Near
  <2> QED
    BY <2>2, FloatTakes DEF Float
<1>4. FiniteFloat(f, k * One)
  BY <1>2, <1>3, FloatTakes
<1> QED
  BY <1>2, <1>4, NearestFixes

\* The quotient of two floats is A / d, with a positive divisor; F is its floor.
QuotientIs(t, a, b, A, d, F, r) ==
    /\ d > 0 /\ d = Abs(b) /\ (A = a \/ A = -a)
    /\ FDiv(t, a, b) = Nearest(t, A * One, d)
    /\ FloorQuotient(a, b) = F * One
    /\ A = F * d + r /\ 0 <= r /\ r < d
    /\ \A Q \in Int : Q * d = A * One => Q * b = a * One

LEMMA QuotientOf ==
    ASSUME NEW t \in Floats, NEW a, FiniteFloat(t, a), NEW b, FiniteFloat(t, b), b # 0
    PROVE  \E A \in Int, d \in Nat, F \in Int, r \in Int : QuotientIs(t, a, b, A, d, F, r)
<1>1. a \in Int /\ b \in Int /\ IsFinite(a) /\ IsFinite(b) /\ a # NaN /\ b # NaN
  BY FloatTakes, SpecialTakes DEF Float
<1>2. FDiv(t, a, b) = Nearest(t, Sign(b) * a * One, Abs(b))
  BY <1>1 DEF FDiv
<1>3. One \in Int
  BY WidthTakes
<1>4. CASE b > 0
  <2> DEFINE F == a \div b
             r == a % b
  <2>1. Sign(b) * a * One = a * One /\ Abs(b) = b
    BY <1>1, <1>3, <1>4 DEF Sign, Abs
  <2>2. F \in Int /\ r \in Int /\ a = F * b + r /\ 0 <= r /\ r < b
    BY <1>1, <1>4, Division
  <2>3. FloorQuotient(a, b) = F * One
    BY <1>4 DEF FloorQuotient
  <2>4. FDiv(t, a, b) = Nearest(t, a * One, b)
    BY <1>2, <2>1
  <2>5. b \in Nat
    BY <1>1, <1>4
  <2> HIDE DEF F, r
  <2> QED
    BY <1>1, <1>4, <2>1, <2>2, <2>3, <2>4, <2>5 DEF QuotientIs
<1>5. CASE b < 0
  <2> DEFINE A == -a
             d == -b
             F == A \div d
             r == A % d
  <2>1. Sign(b) * a * One = A * One /\ Abs(b) = d
    BY <1>1, <1>3, <1>5 DEF Sign, Abs
  <2>2. A \in Int /\ d \in Nat /\ d > 0
    BY <1>1, <1>5
  <2>3. FloorQuotient(a, b) = F * One
    BY <1>1, <1>5 DEF FloorQuotient
  <2>4. FDiv(t, a, b) = Nearest(t, A * One, d)
    BY <1>2, <2>1
  <2>5. ASSUME NEW Q \in Int, Q * d = A * One PROVE Q * b = a * One
    <3>1. Q * d = -(Q * b) /\ A * One = -(a * One)
      BY <1>1, <1>3
    <3> DEFINE y == Q * b
               z == a * One
    <3>2. y \in Int /\ z \in Int /\ -y = -z
      BY <1>1, <1>3, <2>5, <3>1
    <3> HIDE DEF y, z
    <3>3. y = z
      BY <3>2
    <3> QED
      BY <3>3 DEF y, z
  <2>6. A = -a
    OBVIOUS
  <2> HIDE DEF A, d
  <2>7. F \in Int /\ r \in Int /\ A = F * d + r /\ 0 <= r /\ r < d
    BY <2>2, Division
  <2> HIDE DEF F, r
  <2> QED
    BY <2>1, <2>2, <2>3, <2>4, <2>5, <2>6, <2>7 DEF QuotientIs
<1> QED
  BY <1>1, <1>4, <1>5

\* The kernel of float floor division: the floor of the rounded quotient is the
\* rounded floor of the quotient, unless the quotient is not a number of units
\* and rounds to a whole number.
LEMMA FloorDivideRounds ==
    ASSUME NEW t \in Floats, NEW a, FiniteFloat(t, a), NEW b, FiniteFloat(t, b), b # 0,
           (a * One) % Abs(b) = 0 \/ FDiv(t, a, b) % One # 0
    PROVE  FFloor(FDiv(t, a, b)) = Nearest(t, FloorQuotient(a, b), 1)
<1>1. a \in Int /\ b \in Int
  BY DEF FiniteFloat
<1>0. PICK A \in Int, d \in Nat, F \in Int, r \in Int : QuotientIs(t, a, b, A, d, F, r)
  BY QuotientOf
<1>2. /\ A \in Int /\ d \in Nat /\ F \in Int /\ r \in Int
      /\ d > 0 /\ d = Abs(b) /\ (A = a \/ A = -a)
      /\ FDiv(t, a, b) = Nearest(t, A * One, d)
      /\ FloorQuotient(a, b) = F * One
      /\ A = F * d + r /\ 0 <= r /\ r < d
      /\ \A Q \in Int : Q * d = A * One => Q * b = a * One
  BY <1>0 DEF QuotientIs
<1>3. One \in Nat /\ One > 0 /\ Inf \in Nat
  BY WidthTakes
<1> DEFINE num == A * One
           q == Nearest(t, num, d)
           fl == F * One
           s == r * One
           w == d * One
<1>4. /\ num \in Int /\ fl \in Int /\ s \in Int /\ w \in Int
      /\ num = fl * d + s /\ 0 <= s /\ s < w
  <2>1. num = (F * d + r) * One
    BY <1>2
  <2>2. (F * d + r) * One = fl * d + s
    BY <1>2, <1>3
  <2>3. 0 <= s /\ s < w
    BY <1>2, <1>3
  <2>4. num \in Int /\ fl \in Int /\ s \in Int /\ w \in Int
    BY <1>2, <1>3
  <2> QED
    BY <2>1, <2>2, <2>3, <2>4
<1>5. FDiv(t, a, b) = q /\ FloorQuotient(a, b) = fl
  BY <1>2
<1>6. CASE (a * One) % Abs(b) = 0
  <2>1. num % d = 0
    <3> DEFINE k == a * One
    <3>1. k \in Int /\ k % d = 0 /\ (num = k \/ num = -k)
      BY <1>1, <1>2, <1>3, <1>6
    <3> HIDE DEF k, num
    <3>2. (-k) % d = 0
      BY <1>2, <3>1, Opposite
    <3> QED
      BY <3>1, <3>2
  <2> DEFINE Q == num \div d
  <2>2. Q \in Int /\ num = Q * d
    <3>1. num \in Int /\ d \in Nat /\ d > 0
      BY <1>2, <1>4
    <3> HIDE DEF num, fl, s, w
    <3>2. num \div d \in Int /\ num = (num \div d) * d + (num % d)
      BY <3>1, Division
    <3>3. (num \div d) * d \in Int
      BY <3>1, <3>2
    <3> QED
      BY <2>1, <3>2, <3>3
  <2>3. Q * b = a * One
    BY <1>2, <2>2
  <2> HIDE DEF Q
  <2>4. fl <= Q /\ Q < fl + One
    <3> DEFINE g == Q - fl
    <3>1. g \in Int /\ g * d = s
      <4>1. num \in Int /\ fl \in Int /\ s \in Int /\ num = fl * d + s /\ num = Q * d /\ Q \in Int
        BY <1>4, <2>2
      <4> HIDE DEF num, fl, s, w
      <4>2. (Q - fl) * d = Q * d - fl * d /\ Q * d \in Int /\ fl * d \in Int
        BY <1>2, <4>1
      <4> DEFINE y == Q * d
                 z == fl * d
      <4>3. y = z + s /\ (Q - fl) * d = y - z /\ y \in Int /\ z \in Int
        BY <4>1, <4>2
      <4> HIDE DEF y, z
      <4> QED
        BY <4>1, <4>3
    <3>0. g = Q - fl /\ fl \in Int
      BY <1>4
    <3> HIDE DEF g, fl, s, num, w
    <3>2. g >= 0
      <4> SUFFICES ASSUME g <= -1 PROVE FALSE
        BY <3>1
      <4>1. g * d <= -d
        BY <1>2, <3>1
      <4> QED
        BY <1>2, <1>4, <3>1, <4>1
    <3>3. g < One
      <4> SUFFICES ASSUME g >= One PROVE FALSE
        BY <1>3, <3>1
      <4>1. g * d >= One * d
        BY <1>2, <1>3, <3>1
      <4>2. One * d = w
        BY <1>2, <1>3 DEF w
      <4> QED
        BY <1>4, <3>1, <4>1, <4>2
    <3> QED
      BY <1>3, <2>2, <3>0, <3>1, <3>2, <3>3
  <2>5. CASE Abs(Q) < Top(t)
    <3>1. FiniteFloat(t, Q)
      BY <1>1, <2>2, <2>3, <2>5, QuotientFits
    <3>2. q = Q
      BY <1>2, <2>2, <3>1, NearestExact
    <3>3. FFloor(Q) = fl /\ Nearest(t, fl, 1) = fl
      BY <1>2, <2>4, <3>1, FloorFixed
    <3> QED
      BY <1>5, <3>2, <3>3
  <2>6. CASE ~(Abs(Q) < Top(t))
    <3>1. Top(t) \in Nat /\ Frac \in Nat
      BY FormatTakes
    <3>2. PICK K \in Nat : Top(t) = K * One /\ K > 0
      <4> DEFINE j == Precision[t] + TopUnit[t] - Frac
      <4>1. j \in Nat /\ Frac + j = Precision[t] + TopUnit[t]
        BY FormatTakes
      <4> HIDE DEF j
      <4>2. 2 ^ (Frac + j) = One * 2 ^ j /\ 2 ^ j \in Nat /\ 2 ^ j > 0
        BY <3>1, <4>1, TwoTakes, TwoAdds DEF One
      <4>3. Top(t) = One * 2 ^ j
        BY <4>1, <4>2 DEF Top
      <4> DEFINE c == 2 ^ j
      <4>4. c \in Nat /\ c > 0 /\ Top(t) = One * c
        BY <4>2, <4>3
      <4> HIDE DEF c
      <4>5. Top(t) = c * One
        BY <1>3, <4>4
      <4> QED
        BY <4>4, <4>5
    <3>3. Abs(num) >= Top(t) * d /\ Sign(num) = Sign(Q) /\ Q # 0
      <4>1. CASE Q >= Top(t) /\ Q > 0
        <5>1. Q * d >= Top(t) * d /\ Q * d > 0
          BY <1>2, <2>2, <3>1, <4>1
        <5> HIDE DEF num
        <5> QED
          BY <1>4, <2>2, <4>1, <5>1 DEF Abs, Sign
      <4>2. CASE Q <= -Top(t) /\ Q < 0
        <5>1. Q * d <= (-Top(t)) * d /\ Q * d < 0 /\ (-Top(t)) * d = -(Top(t) * d)
          BY <1>2, <2>2, <3>1, <4>2
        <5>2. Top(t) * d \in Int
          BY <1>2, <3>1
        <5> HIDE DEF num
        <5> QED
          BY <1>4, <2>2, <4>2, <5>1, <5>2 DEF Abs, Sign
      <4>3. Top(t) > 0
        BY <1>3, <3>2
      <4> QED
        BY <2>2, <2>6, <3>1, <4>1, <4>2, <4>3 DEF Abs
    <3>4. q = Sign(Q) * Inf
      BY <1>2, <1>4, <3>3, NearestOverflows
    <3>5. Abs(fl) >= Top(t) * 1 /\ Sign(fl) = Sign(Q)
      <4>1. CASE Q > 0
        <5>1. Q >= K * One
          BY <2>2, <2>6, <3>1, <3>2, <4>1 DEF Abs
        <5>2. F >= K
          <6> SUFFICES ASSUME F <= K - 1 PROVE FALSE
            BY <1>2, <3>2
          <6>1. F * One <= (K - 1) * One
            BY <1>2, <1>3, <3>2
          <6>2. (K - 1) * One = K * One - One /\ K * One \in Int
            BY <1>3, <3>2
          <6> DEFINE y == K * One
          <6>3. fl <= y - One /\ Q >= y /\ Q < fl + One /\ y \in Int /\ fl \in Int
            BY <1>4, <2>4, <5>1, <6>1, <6>2
          <6> HIDE DEF fl, y
          <6> QED
            BY <1>3, <2>2, <6>3
        <5>3. F * One >= K * One
          BY <1>2, <1>3, <3>2, <5>2
        <5>4. K * One >= One
          BY <1>3, <3>2
        <5> HIDE DEF fl
        <5>5. fl >= Top(t) /\ fl > 0
          BY <1>3, <1>4, <3>1, <3>2, <5>3, <5>4 DEF fl
        <5> QED
          BY <1>4, <2>2, <3>1, <4>1, <5>5 DEF Abs, Sign
      <4>2. CASE Q < 0
        <5>1. Q <= -Top(t)
          BY <2>2, <2>6, <3>1, <4>2 DEF Abs
        <5> HIDE DEF fl
        <5> QED
          BY <1>4, <2>2, <2>4, <3>1, <4>2, <5>1 DEF Abs, Sign
      <4> QED
        BY <2>2, <3>3, <4>1, <4>2
    <3>6. Nearest(t, fl, 1) = Sign(Q) * Inf
      <4>1. 1 \in Nat /\ 1 > 0
        OBVIOUS
      <4> HIDE DEF fl
      <4> QED
        BY <1>4, <3>5, <4>1, NearestOverflows
    <3>7. FFloor(q) = q
      <4>1. q = Inf \/ q = -Inf
        <5>1. Sign(Q) = 1 \/ Sign(Q) = -1
          BY <2>2, <3>3 DEF Sign
        <5> HIDE DEF q
        <5> QED
          BY <1>3, <3>4, <5>1
      <4>2. ~IsFinite(q)
        BY <4>1, SpecialTakes
      <4> QED
        BY <4>2 DEF FFloor
    <3> QED
      BY <1>5, <3>4, <3>6, <3>7
  <2> QED
    BY <2>5, <2>6
<1>7. CASE q % One # 0
  <2>1. PICK e : /\ Unit(t, num, d, e)
                 /\ q = Sign(num) * (IF Rounded(t, num, d, e) < Top(t)
                                     THEN Rounded(t, num, d, e) ELSE Inf)
    <3> HIDE DEF num
    <3> QED
      BY <1>2, <1>4, NearestChooses
  <2> DEFINE R == Rounded(t, num, d, e)
             u == 2 ^ e
             m == Abs(num)
  <2>2. /\ e \in Nat /\ u \in Nat /\ u > 0 /\ R \in Nat /\ R % u = 0
        /\ 2 * Abs(m - R * d) <= d * u
    <3> HIDE DEF num
    <3>1. e \in Nat
      BY <2>1, FormatTakes DEF Unit
    <3> QED
      BY <1>2, <1>4, <2>1, <3>1, RoundedTakes, RoundedNear, TwoTakes
  <2>3. q \notin {Inf, -Inf, 0}
    <3>1. 0 % One = 0
      BY <1>3
    <3> HIDE DEF q
    <3> QED
      BY <1>7, <3>1, InfWhole
  <2>4. /\ (q = R /\ Sign(num) = 1) \/ (q = -R /\ Sign(num) = -1)
        /\ R # 0 /\ q \in Int
    <3>1. Sign(num) \in {1, 0, -1}
      BY DEF Sign
    <3> HIDE DEF q, R, num
    <3> QED
      BY <1>3, <2>1, <2>2, <2>3, <3>1 DEF R
  <2>5. 2 * Abs(num - q * d) <= d * u
    <3>1. CASE q = R /\ Sign(num) = 1
      <4>1. m = num
        <5> HIDE DEF num
        <5> QED
          BY <1>4, <3>1 DEF Sign, Abs
      <4> HIDE DEF R, q, num, m, u
      <4> QED
        BY <2>2, <3>1, <4>1
    <3>2. CASE q = -R /\ Sign(num) = -1
      <4>1. m = -num
        <5> HIDE DEF num
        <5> QED
          BY <1>4, <3>2 DEF Sign, Abs
      <4> DEFINE y == R * d
      <4>2. y \in Int /\ q * d = -y
        <5> HIDE DEF R, q
        <5> QED
          BY <1>2, <2>2, <3>2
      <4>3. 2 * Abs(m - y) <= d * u
        BY <2>2
      <4> HIDE DEF R, q, num, m, u, y
      <4>4. Abs(m - y) = Abs(num - q * d)
        BY <1>4, <4>1, <4>2 DEF Abs
      <4> QED
        BY <4>3, <4>4
    <3> QED
      BY <2>4, <3>1, <3>2
  <2>6. q % u = 0
    <3> HIDE DEF R, q, u
    <3>1. R \in Int /\ u \in Nat /\ u > 0 /\ R % u = 0
      BY <2>2
    <3>2. (-R) % u = 0
      BY <3>1, Opposite
    <3> QED
      BY <2>4, <3>1, <3>2
  <2>7. e < Frac
    <3> SUFFICES ASSUME Frac <= e PROVE FALSE
      BY <2>2, WidthAssumption
    <3>1. q % One = 0
      <4> HIDE DEF q
      <4> QED
        BY <2>2, <2>4, <2>6, UnitsDivide, WidthAssumption DEF One
    <3> QED
      BY <1>7, <3>1
  <2>8. PICK c \in Nat : One = c * u
    <3> DEFINE j == Frac - e
    <3>1. j \in Nat /\ e + j = Frac
      BY <2>2, <2>7, WidthAssumption
    <3> HIDE DEF j
    <3>2. 2 ^ (e + j) = u * 2 ^ j /\ 2 ^ j \in Nat
      BY <2>2, <3>1, TwoTakes, TwoAdds
    <3> DEFINE c == 2 ^ j
    <3>3. c \in Nat /\ One = u * c
      BY <3>1, <3>2 DEF One
    <3> HIDE DEF c, u
    <3>4. One = c * u
      BY <2>2, <3>3
    <3> QED
      BY <3>3, <3>4
  <2> DEFINE g == q \div u
             k == F * c
  <2>9. g \in Int /\ q = g * u /\ k \in Int /\ fl = k * u /\ fl + One = (k + c) * u
    <3>1. g \in Int /\ q = g * u
      <4> HIDE DEF q, u
      <4> QED
        BY <2>2, <2>4, <2>6, Division
    <3>2. k \in Int
      BY <1>2, <2>8
    <3>3. fl = k * u
      <4> HIDE DEF u
      <4> QED
        BY <1>2, <2>2, <2>8
    <3>4. fl + One = (k + c) * u
      <4> HIDE DEF u, k, fl
      <4> QED
        BY <1>3, <1>4, <2>2, <2>8, <3>2, <3>3
    <3> QED
      BY <3>1, <3>2, <3>3, <3>4
  <2> HIDE DEF g, k
  <2>10. d * u \in Nat /\ d * u > 0 /\ u * d = d * u
    <3> HIDE DEF u
    <3> QED
      BY <1>2, <2>2
  <2>11. g >= k
    <3> SUFFICES ASSUME g <= k - 1 PROVE FALSE
      BY <2>9
    <3>1. q <= fl - u
      <4> HIDE DEF q, u, fl
      <4>1. g * u <= (k - 1) * u
        BY <2>2, <2>9
      <4> QED
        BY <1>4, <2>2, <2>9, <4>1
    <3>2. q * d <= (fl - u) * d
      <4> HIDE DEF q, u, fl
      <4> QED
        BY <1>2, <1>4, <2>2, <2>4, <3>1
    <3>3. (fl - u) * d = fl * d - d * u /\ fl * d \in Int /\ q * d \in Int
      <4> HIDE DEF q, u, fl
      <4> QED
        BY <1>2, <1>4, <2>2, <2>4
    <3> DEFINE y == q * d
               z == fl * d
               v == d * u
    <3>4. y <= z - v /\ num = z + s /\ 2 * Abs(num - y) <= v /\ y \in Int /\ z \in Int /\ v \in Nat /\ v > 0
      BY <1>4, <2>5, <2>10, <3>2, <3>3
    <3> HIDE DEF y, z, v, num, s
    <3> QED
      BY <1>4, <3>4 DEF Abs
  <2>12. g <= k + c
    <3> SUFFICES ASSUME g >= k + c + 1 PROVE FALSE
      BY <2>8, <2>9
    <3>1. q >= (fl + One) + u
      <4> HIDE DEF q, u, fl
      <4>1. g * u >= (k + c + 1) * u
        BY <2>2, <2>8, <2>9
      <4>2. (k + c + 1) * u = (k + c) * u + u
        BY <2>2, <2>8, <2>9
      <4> QED
        BY <1>3, <1>4, <2>2, <2>9, <4>1, <4>2
    <3>2. q * d >= ((fl + One) + u) * d
      <4> DEFINE y == (fl + One) + u
      <4>1. y \in Int /\ q \in Int /\ q >= y
        BY <1>3, <1>4, <2>2, <2>4, <3>1
      <4> HIDE DEF q, u, fl, y
      <4>2. q * d >= y * d
        BY <1>2, <4>1
      <4> QED
        BY <4>2 DEF y
    <3>3. ((fl + One) + u) * d = fl * d + w + d * u /\ fl * d \in Int /\ q * d \in Int
      <4>1. fl \in Int /\ u \in Int /\ q \in Int /\ w = d * One
        BY <1>4, <2>2, <2>4
      <4> HIDE DEF q, u, fl, w, num, s
      <4>2. ((fl + One) + u) * d = fl * d + d * One + d * u
        BY <1>2, <1>3, <4>1
      <4> QED
        BY <1>2, <4>1, <4>2
    <3> DEFINE y == q * d
               z == fl * d
               v == d * u
    <3>4. /\ y >= z + w + v /\ num = z + s /\ 2 * Abs(num - y) <= v
          /\ y \in Int /\ z \in Int /\ v \in Nat /\ v > 0
      BY <1>4, <2>5, <2>10, <3>2, <3>3
    <3> HIDE DEF y, z, v, num, s, w
    <3> QED
      BY <1>4, <3>4 DEF Abs
  <2>13. fl <= q /\ q < fl + One
    <3>1. g # k /\ g # k + c
      <4>1. fl % One = 0 /\ (fl + One) % One = 0
        <5>1. F + 1 \in Int /\ fl + One = (F + 1) * One
          BY <1>2, <1>3
        <5> QED
          BY <1>2, <1>3, <5>1, Multiple
      <4> HIDE DEF fl, q, u
      <4> QED
        BY <1>7, <2>9, <4>1
    <3>2. k <= g /\ g <= k + c - 1
      BY <2>8, <2>9, <2>11, <2>12, <3>1
    <3> HIDE DEF fl, q, u
    <3>3. k * u <= g * u /\ g * u <= (k + c - 1) * u
      BY <2>2, <2>8, <2>9, <3>2
    <3>4. (k + c - 1) * u = (k + c) * u - u
      BY <2>2, <2>8, <2>9
    <3> QED
      BY <1>3, <1>4, <2>2, <2>9, <3>3, <3>4
  <2>14. FiniteFloat(t, q)
    <3>1. Float(t, q) /\ q # NaN
      <4> HIDE DEF num
      <4> QED
        BY <1>2, <1>4, NearestTakes
    <3> HIDE DEF q
    <3> QED
      BY <2>3, <3>1 DEF Float, Specials
  <2>15. FFloor(q) = fl /\ Nearest(t, fl, 1) = fl
    <3> HIDE DEF q
    <3> QED
      BY <1>2, <2>13, <2>14, FloorFixed
  <2> QED
    BY <1>5, <2>15
<1> QED
  BY <1>5, <1>6, <1>7

-----------------------------------------------------------------------------
(* The kernels compute what NumPy's do *)

\* An integer of int64 does not wrap.
LEMMA WrapFixes ==
    ASSUME NEW v, Value("i64", v)
    PROVE  Wrap(v) = v
<1>1. PICK h \in Nat : /\ h >= 4 /\ IntMin = (-h) * One /\ IntMax = (h - 1) * One
                       /\ 2 ^ Bits * One = (2 * h) * One /\ h * One \in Nat
                       /\ One \in Nat /\ One > 0
  BY WidthTakes
<1> DEFINE w == h * One
           y == v - IntMin
<1>2. w \in Nat /\ IntMin = -w /\ IntMax = w - One /\ 2 ^ Bits * One = 2 * w
  BY <1>1
<1> HIDE DEF w
<1>3. v \in Int /\ -w <= v /\ v <= w - One
  BY <1>2 DEF Value
<1>4. y \in Nat /\ y < 2 * w
  BY <1>1, <1>2, <1>3
<1> HIDE DEF y
<1>5. y % (2 * w) = y
  BY <1>2, <1>4
<1>6. Wrap(v) = (y % (2 * w)) + IntMin
  BY <1>2 DEF Wrap, y
<1> QED
  BY <1>2, <1>3, <1>5, <1>6 DEF y

\* Max and Min of two.
LEMMA TwoOf ==
    ASSUME NEW a \in Int, NEW b \in Int
    PROVE  /\ Max({a, b}) = IF b < a THEN a ELSE b
           /\ Min({a, b}) = IF a < b THEN a ELSE b
<1> DEFINE hi == IF b < a THEN a ELSE b
           lo == IF a < b THEN a ELSE b
<1>1. hi \in {a, b} /\ \A y \in {a, b} : hi >= y
  OBVIOUS
<1>2. lo \in {a, b} /\ \A y \in {a, b} : lo <= y
  OBVIOUS
<1>3. \A z \in {a, b} : (\A y \in {a, b} : z >= y) => z = hi
  OBVIOUS
<1>4. \A z \in {a, b} : (\A y \in {a, b} : z <= y) => z = lo
  OBVIOUS
<1> HIDE DEF hi, lo
<1>5. Max({a, b}) = hi
  BY <1>1, <1>3 DEF Max
<1>6. Min({a, b}) = lo
  BY <1>2, <1>4 DEF Min
<1> QED
  BY <1>5, <1>6 DEF hi, lo

\* Python's quotient, and the remainder NumPy's reference has, are the kernels'.
LEMMA FloorQuotientIs ==
    ASSUME NEW m \in Int, NEW n \in Int, n # 0
    PROVE  /\ Ints!FloorDivide(m, n) = FloorQuotient(m, n) \div One
           /\ Ints!Mod(m, n) = m - n * (FloorQuotient(m, n) \div One)
<1>1. One \in Nat /\ One > 0
  BY WidthTakes
<1>2. ASSUME NEW q \in Int, NEW r \in Int, FloorQuotient(m, n) = q * One,
             Ints!IsFloorDivision(m, n, q, r)
      PROVE  /\ Ints!FloorDivide(m, n) = FloorQuotient(m, n) \div One
             /\ Ints!Mod(m, n) = m - n * (FloorQuotient(m, n) \div One)
  <2>1. FloorQuotient(m, n) \div One = q
    BY <1>1, <1>2, Multiple
  <2>2. Ints!FloorDivide(m, n) \in Int /\ Ints!Mod(m, n) \in Int
    BY IntsTake
  <2>3. Ints!FloorDivide(m, n) = q /\ Ints!Mod(m, n) = r
    BY <1>2, <2>2, FloorDivision, FloorDivisionUnique
  <2>4. r = m - n * q
    BY <1>2 DEF Ints!IsFloorDivision
  <2> QED
    BY <2>1, <2>3, <2>4
<1>3. CASE n > 0
  <2> DEFINE q == m \div n
             r == m % n
  <2>1. q \in Int /\ r \in Int /\ m = q * n + r /\ 0 <= r /\ r < n
    BY <1>3, Division
  <2>2. FloorQuotient(m, n) = q * One
    BY <1>3 DEF FloorQuotient
  <2> HIDE DEF q, r
  <2>3. Ints!IsFloorDivision(m, n, q, r)
    BY <1>3, <2>1 DEF Ints!IsFloorDivision
  <2> QED
    BY <1>2, <2>1, <2>2, <2>3
<1>4. CASE n < 0
  <2> DEFINE M == -m
             N == -n
             q == M \div N
             r == M % N
  <2>1. M \in Int /\ N \in Nat /\ N > 0 /\ M = -m /\ N = -n
    BY <1>4
  <2>2. FloorQuotient(m, n) = q * One
    BY <1>4 DEF FloorQuotient
  <2> HIDE DEF M, N
  <2>3. q \in Int /\ r \in Int /\ M = q * N + r /\ 0 <= r /\ r < N
    BY <2>1, Division
  <2> HIDE DEF q, r
  <2>4. q * N = -(q * n) /\ q * n \in Int
    BY <2>1, <2>3
  <2> DEFINE y == q * n
  <2>5. y \in Int /\ -m = -y + r
    BY <2>1, <2>3, <2>4
  <2> HIDE DEF y
  <2>6. y + (-r) = m
    BY <2>3, <2>5
  <2>7. Ints!IsFloorDivision(m, n, q, -r)
    BY <1>4, <2>1, <2>3, <2>6 DEF Ints!IsFloorDivision, y
  <2>8. -r \in Int
    BY <2>3
  <2> QED
    BY <1>2, <2>2, <2>3, <2>7, <2>8
<1> QED
  BY <1>3, <1>4

\* The kernels of int64 compute what NumPy's do.
LEMMA IntKernelAsNumPy ==
    ASSUME NEW a, NEW b, Value("i64", a), Value("i64", b), NEW op \in ArrayOps \cup ScalarOps,
           op \notin {"div", "rdiv"}, op = "power" => b \in Few,
           ~KnownDifference(op, "i64", a, b)
    PROVE  Kernel(op, "i64", a, b) = NumPyInt(op, a, b)
<1> DEFINE m == ToInt(a)
           n == ToInt(b)
<1>1. /\ a \in Int /\ b \in Int /\ m \in Int /\ n \in Int /\ a = m * One /\ b = n * One
      /\ a # NaN /\ b # NaN
  BY WholeTakes, SpecialTakes
<1>2. One \in Nat /\ One > 0
  BY WidthTakes
<1>3. m = a \div One /\ n = b \div One
  BY DEF ToInt
<1> HIDE DEF m, n
<1>4. Wrap(a) = a /\ Wrap(b) = b
  BY WrapFixes
<1>5. n = 0 <=> b = 0
  BY <1>1, <1>2
<1>6. CASE op = "add"
  <2>1. a + b = (m + n) * One
    BY <1>1, <1>2
  <2> QED
    BY <1>3, <1>6, <2>1 DEF Kernel, Add, NumPyInt
<1>7. CASE op = "sub"
  <2>1. a - b = (m - n) * One
    BY <1>1, <1>2
  <2> QED
    BY <1>3, <1>7, <2>1 DEF Kernel, Sub, NumPyInt
<1>8. CASE op = "rsub"
  <2>1. b - a = (n - m) * One
    BY <1>1, <1>2
  <2> QED
    BY <1>3, <1>8, <2>1 DEF Kernel, Sub, NumPyInt
<1>9. CASE op = "mul"
  <2>1. m * b = (m * n) * One
    BY <1>1, <1>2
  <2>2. Kernel(op, "i64", a, b) = Wrap(m * b)
    BY <1>3, <1>9 DEF Kernel, Mul
  <2>3. NumPyInt(op, a, b) = Wrap((m * n) * One)
    BY <1>3, <1>9 DEF NumPyInt
  <2> QED
    BY <2>1, <2>2, <2>3
<1>10. CASE op = "maximum"
  <2>1. Kernel(op, "i64", a, b) = IF b < a THEN a ELSE b
    BY <1>1, <1>10 DEF Kernel, Less
  <2>2. NumPyInt(op, a, b) = Wrap(Max({m, n}) * One)
    BY <1>3, <1>10 DEF NumPyInt
  <2>3. b < a <=> n < m
    BY <1>1, <1>2
  <2>4. Max({m, n}) * One = IF b < a THEN a ELSE b
    BY <1>1, <2>3, TwoOf
  <2> QED
    BY <1>4, <2>1, <2>2, <2>4
<1>11. CASE op = "minimum"
  <2>1. Kernel(op, "i64", a, b) = IF a < b THEN a ELSE b
    BY <1>1, <1>11 DEF Kernel, Less
  <2>2. NumPyInt(op, a, b) = Wrap(Min({m, n}) * One)
    BY <1>3, <1>11 DEF NumPyInt
  <2>3. a < b <=> m < n
    BY <1>1, <1>2
  <2>4. Min({m, n}) * One = IF a < b THEN a ELSE b
    BY <1>1, <2>3, TwoOf
  <2> QED
    BY <1>4, <2>1, <2>2, <2>4
<1>12. CASE op = "power"
  <2>1. n \in {0, 1, 2}
    <3>1. "i64" \in DTypes
      BY DEF DTypes
    <3>2. n \in {-1, 0, 1, 2}
      BY <1>12, <3>1, FewTake DEF n
    <3>3. ~(b < 0)
      BY <1>12 DEF KnownDifference
    <3> QED
      BY <1>1, <1>2, <3>2, <3>3
  <2>2. Kernel(op, "i64", a, b) = Wrap(Ints!Power(m, n) * One)
    BY <1>12 DEF Kernel, Power, OfInt, m, n
  <2>3. NumPyInt(op, a, b) = Wrap((CASE n = 0 -> 1 [] n = 1 -> m [] n = 2 -> m * m) * One)
    BY <1>3, <1>12 DEF NumPyInt
  <2>4. Ints!Power(m, n) = (CASE n = 0 -> 1 [] n = 1 -> m [] n = 2 -> m * m)
    BY <1>1, <2>1, PowerTakes
  <2> QED
    BY <2>2, <2>3, <2>4
<1>13. CASE op = "floor_divide"
  <2>1. NumPyInt(op, a, b) = Wrap((IF n = 0 THEN 0 ELSE FloorQuotient(m, n) \div One) * One)
    BY <1>3, <1>13 DEF NumPyInt
  <2>2. Kernel(op, "i64", a, b) = Wrap(Ints!FloorDivide(m, n) * One)
    <3>1. ~(a = IntMin /\ b = -One)
      BY <1>13 DEF KnownDifference
    <3> QED
      BY <1>13, <3>1 DEF Kernel, FloorDivide, OfInt, Divides, m, n
  <2>3. Ints!FloorDivide(m, n) = IF n = 0 THEN 0 ELSE FloorQuotient(m, n) \div One
    <3>1. CASE n = 0
      BY <3>1 DEF Ints!FloorDivide
    <3>2. CASE n # 0
      BY <1>1, <3>2, FloorQuotientIs
    <3> QED
      BY <3>1, <3>2
  <2> QED
    BY <2>1, <2>2, <2>3
<1>14. CASE op = "mod"
  <2>1. NumPyInt(op, a, b)
          = Wrap((IF n = 0 THEN 0 ELSE m - n * (FloorQuotient(m, n) \div One)) * One)
    BY <1>3, <1>14 DEF NumPyInt
  <2>2. Kernel(op, "i64", a, b) = Wrap(Ints!Mod(m, n) * One)
    <3>1. ~(a = IntMin /\ b = -One)
      BY <1>14 DEF KnownDifference
    <3> QED
      BY <1>14, <3>1 DEF Kernel, Mod, OfInt, Divides, m, n
  <2>3. Ints!Mod(m, n) = IF n = 0 THEN 0 ELSE m - n * (FloorQuotient(m, n) \div One)
    <3>1. CASE n = 0
      BY <3>1 DEF Ints!Mod
    <3>2. CASE n # 0
      BY <1>1, <3>2, FloorQuotientIs
    <3> QED
      BY <3>1, <3>2
  <2> QED
    BY <2>1, <2>2, <2>3
<1> QED
  BY <1>6, <1>7, <1>8, <1>9, <1>10, <1>11, <1>12, <1>13, <1>14 DEF ArrayOps, ScalarOps

\* The remainder of the opposite.
LEMMA OppositeRest ==
    ASSUME NEW v \in Int, NEW w \in Nat, w > 0
    PROVE  (-v) % w = IF v % w = 0 THEN 0 ELSE w - (v % w)
<1> DEFINE p == v \div w
           r == v % w
           P == (-v) \div w
           R == (-v) % w
<1>1. p \in Int /\ r \in Int /\ v = p * w + r /\ 0 <= r /\ r < w
  BY Division
<1>2. -v \in Int
  OBVIOUS
<1> DEFINE V == -v
<1>3. P \in Int /\ R \in Int /\ V = P * w + R /\ 0 <= R /\ R < w
  <2>1. V \in Int
    OBVIOUS
  <2> HIDE DEF V
  <2>2. V \div w \in Int /\ V % w \in Int /\ V = (V \div w) * w + (V % w) /\ 0 <= V % w /\ V % w < w
    BY <2>1, Division
  <2> QED
    BY <2>2 DEF V
<1>4. V = -v
  OBVIOUS
<1> HIDE DEF p, r, P, R, V
<1> DEFINE k == p + P
<1>5. k \in Int /\ k * w = -(r + R)
  <2>1. k * w = p * w + P * w /\ p * w \in Int /\ P * w \in Int /\ k \in Int
    BY <1>1, <1>3
  <2> DEFINE y == p * w
             z == P * w
  <2>2. v = y + r /\ V = z + R /\ V = -v /\ k * w = y + z /\ y \in Int /\ z \in Int
    BY <1>1, <1>3, <1>4, <2>1
  <2> HIDE DEF y, z, k
  <2> QED
    BY <1>1, <1>3, <2>1, <2>2
<1> HIDE DEF k
<1>6. k \in {0, -1}
  <2>1. ASSUME k >= 1 PROVE FALSE
    <3>1. k * w >= w
      BY <1>5, <2>1
    <3> QED
      BY <1>1, <1>3, <1>5, <3>1
  <2>2. ASSUME k <= -2 PROVE FALSE
    <3>1. k * w <= (-2) * w
      BY <1>5, <2>2
    <3> QED
      BY <1>1, <1>3, <1>5, <3>1
  <2> QED
    BY <1>5, <2>1, <2>2
<1>7. CASE k = 0
  <2>1. r + R = 0
    BY <1>1, <1>3, <1>5, <1>7
  <2> QED
    BY <1>1, <1>3, <2>1 DEF r, R
<1>8. CASE k = -1
  <2>1. r + R = w
    BY <1>1, <1>3, <1>5, <1>8
  <2>2. r # 0 /\ R = w - r
    BY <1>1, <1>3, <2>1
  <2> QED
    BY <2>2 DEF r, R
<1> QED
  BY <1>6, <1>7, <1>8

\* The kernel of %: fmod, corrected, is the remainder of Python.
LEMMA FloatModAsNumPy ==
    ASSUME NEW t \in Floats, NEW a, NEW b, FiniteFloat(t, a), FiniteFloat(t, b), b # 0
    PROVE  Mod(t, a, b) = Nearest(t, IF b > 0 THEN a % b ELSE -((-a) % (-b)), 1)
<1>1. /\ a \in Int /\ b \in Int /\ IsFinite(a) /\ IsFinite(b) /\ a # NaN /\ b # NaN
      /\ Float(t, a) /\ Float(t, b) /\ t # "i64"
  <2>1. Float(t, a) /\ Float(t, b)
    BY DEF Float
  <2>2. a \in Int /\ b \in Int /\ IsFinite(a) /\ IsFinite(b)
    BY <2>1, FloatTakes
  <2> QED
    BY <2>1, <2>2, SpecialTakes DEF Floats
<1> DEFINE d == Abs(b)
           s == Abs(a) % d
           r == FMod(a, b)
           m == IF b > 0 THEN a % b ELSE -((-a) % (-b))
<1>2. d \in Nat /\ d > 0 /\ s \in Int /\ 0 <= s /\ s < d /\ d < Inf
  <2>1. d \in Nat /\ d > 0 /\ Abs(a) \in Int
    BY <1>1 DEF Abs
  <2>2. d < Inf
    BY <1>1 DEF IsFinite
  <2> HIDE DEF d
  <2> QED
    BY <2>1, <2>2, Division
<1>3. r = Sign(a) * s
  BY <1>1, SpecialTakes DEF FMod
<1>4. (a < 0 /\ r = -s) \/ (a > 0 /\ r = s) \/ (a = 0 /\ r = 0 /\ s = 0)
  <2>1. a = 0 => s = 0
    <3>1. ASSUME a = 0 PROVE s = 0
      <4>1. Abs(a) = 0
        BY <3>1 DEF Abs
      <4> HIDE DEF d
      <4>2. 0 % d = 0
        BY <1>2
      <4> QED
        BY <4>1, <4>2
    <3> QED
      BY <3>1
  <2> HIDE DEF s, r
  <2> QED
    BY <1>1, <1>2, <1>3, <2>1 DEF Sign
<1>5. r \in Int /\ -d < r /\ r < d /\ r # NaN
  <2> HIDE DEF d, s, r
  <2> QED
    BY <1>2, <1>4, SpecialTakes
<1>6. m = IF r # 0 /\ (r < 0) # (b < 0) THEN r + b ELSE r
  <2>1. CASE b > 0
    <3>1. d = b /\ m = a % d
      BY <1>1, <2>1 DEF Abs
    <3> HIDE DEF d
    <3>2. CASE a >= 0
      <4>1. Abs(a) = a
        BY <1>1, <3>2 DEF Abs
      <4>2. m = s
        BY <3>1, <4>1
      <4> HIDE DEF s, r, m
      <4> QED
        BY <1>1, <1>2, <1>4, <2>1, <3>1, <3>2, <4>2
    <3>3. CASE a < 0
      <4> DEFINE n == -a
      <4>1. Abs(a) = n /\ n \in Int /\ a = -n
        BY <1>1, <3>3 DEF Abs
      <4> HIDE DEF n
      <4>2. (-n) % d = IF n % d = 0 THEN 0 ELSE d - (n % d)
        BY <1>2, <4>1, OppositeRest
      <4>3. m = IF s = 0 THEN 0 ELSE d - s
        BY <3>1, <4>1, <4>2
      <4> HIDE DEF s, r, m
      <4> QED
        BY <1>1, <1>2, <1>4, <2>1, <3>1, <3>3, <4>3
    <3> QED
      BY <1>1, <3>2, <3>3
  <2>2. CASE b < 0
    <3>1. d = -b /\ m = -((-a) % d)
      BY <1>1, <2>2 DEF Abs
    <3> HIDE DEF d
    <3>2. CASE a <= 0
      <4>1. Abs(a) = -a
        BY <1>1, <3>2 DEF Abs
      <4>2. m = -s
        BY <3>1, <4>1
      <4> HIDE DEF s, r, m
      <4> QED
        BY <1>1, <1>2, <1>4, <2>2, <3>1, <3>2, <4>2
    <3>3. CASE a > 0
      <4>1. Abs(a) = a
        BY <1>1, <3>3 DEF Abs
      <4>2. (-a) % d = IF a % d = 0 THEN 0 ELSE d - (a % d)
        BY <1>1, <1>2, OppositeRest
      <4>3. m = -(IF s = 0 THEN 0 ELSE d - s)
        BY <3>1, <4>1, <4>2
      <4> HIDE DEF s, r, m
      <4> QED
        BY <1>1, <1>2, <1>4, <2>2, <3>1, <3>3, <4>3
    <3> QED
      BY <1>1, <3>2, <3>3
  <2> QED
    BY <1>1, <2>1, <2>2
<1>7. Mod(t, a, b) = IF r # 0 /\ (r < 0) # (b < 0) THEN FAdd(t, r, b) ELSE r
  <2>1. Less(r, 0) = (r < 0) /\ Less(b, 0) = (b < 0)
    <3> HIDE DEF r
    <3> QED
      BY <1>1, <1>5, SpecialTakes DEF Less
  <2>2. Mod(t, a, b) = IF r # 0 /\ Less(r, 0) # Less(b, 0) THEN FAdd(t, r, b) ELSE r
    BY <1>1 DEF Mod
  <2> QED
    BY <2>1, <2>2
<1> SUFFICES Mod(t, a, b) = Nearest(t, m, 1)
  OBVIOUS
<1>8. CASE r # 0 /\ (r < 0) # (b < 0)
  <2>1. IsFinite(r)
    <3> HIDE DEF r, d
    <3> QED
      BY <1>2, <1>5, SpecialTakes
  <2> HIDE DEF r, m
  <2>2. FAdd(t, r, b) = Nearest(t, r + b, 1)
    BY <1>1, <1>5, <2>1 DEF FAdd
  <2> QED
    BY <1>6, <1>7, <1>8, <2>2
<1>9. CASE ~(r # 0 /\ (r < 0) # (b < 0))
  <2>1. Float(t, r)
    BY <1>1, FModTakes
  <2>2. IsFinite(r)
    <3> HIDE DEF r, d
    <3> QED
      BY <1>2, <1>5, SpecialTakes
  <2> HIDE DEF r, m
  <2>3. FiniteFloat(t, r)
    BY <2>1, <2>2, FloatTakes
  <2>4. Nearest(t, r, 1) = r
    BY <2>3, NearestFixes
  <2> QED
    BY <1>6, <1>7, <1>9, <2>4
<1> HIDE DEF r
<1> QED
  BY <1>8, <1>9

\* The kernel of // on floats.
LEMMA FloatFloorAsNumPy ==
    ASSUME NEW t \in Floats, NEW a, NEW b, Float(t, a), Float(t, b),
           ~KnownDifference("floor_divide", t, a, b)
    PROVE  FloorDivide(t, a, b) = NumPyFloat(t, "floor_divide", a, b)
<1>1. /\ a \in Int /\ b \in Int /\ t # "i64" /\ Inf \in Nat /\ NaN = Inf + 1
      /\ (~IsFinite(a) => a \in Specials) /\ (~IsFinite(b) => b \in Specials)
  BY FloatTakes, SpecialTakes DEF Floats
<1>2. FloorDivide(t, a, b) = FFloor(FDiv(t, a, b))
  BY <1>1 DEF FloorDivide
<1>3. /\ Abs(a) = Inf => ~IsFinite(b) \/ b = 0
      /\ IsFinite(a) /\ Abs(b) = Inf => ~(Sign(a) * Sign(b) < 0)
      /\ IsFinite(a) /\ IsFinite(b) /\ b # 0 => (a * One) % Abs(b) = 0 \/ FDiv(t, a, b) % One # 0
  BY <1>1 DEF KnownDifference
<1>4. /\ ~IsFinite(NaN) /\ ~IsFinite(Inf) /\ ~IsFinite(-Inf) /\ IsFinite(0)
      /\ \A v \in Specials : v = NaN \/ (Abs(v) = Inf /\ v # NaN /\ v # 0)
      /\ \A v \in Int : Abs(v) = Inf => ~IsFinite(v) /\ v # NaN /\ v # 0
  <2>1. Inf > 0
    BY FormatTakes, <1>1 DEF Inf
  <2> QED
    BY <1>1, <2>1, SpecialTakes DEF Specials, Abs
<1>5. ASSUME NEW q, ~IsFinite(q) \/ q = 0 PROVE FFloor(q) = q
  <2>1. One \in Nat /\ One > 0
    BY WidthTakes
  <2>2. 0 % One = 0
    BY <2>1
  <2> QED
    BY <1>5, <2>2 DEF FFloor
<1>6. CASE IsFinite(a) /\ IsFinite(b) /\ b # 0
  <2>1. FiniteFloat(t, a) /\ FiniteFloat(t, b)
    BY <1>6, FloatTakes
  <2>2. FFloor(FDiv(t, a, b)) = Nearest(t, FloorQuotient(a, b), 1)
    BY <1>3, <1>6, <2>1, FloorDivideRounds
  <2>3. ~(b = 0 \/ NaN \in {a, b})
    BY <1>4, <1>6
  <2>4. Abs(a) # Inf /\ Abs(b) # Inf
    BY <1>1, <1>4, <1>6
  <2>5. NumPyFloat(t, "floor_divide", a, b) = Nearest(t, FloorQuotient(a, b), 1)
    BY <1>6, <2>3, <2>4 DEF NumPyFloat
  <2> QED
    BY <1>2, <2>2, <2>5
<1>7. CASE NaN \in {a, b}
  <2>1. FDiv(t, a, b) = NaN
    BY <1>7 DEF FDiv
  <2>2. NumPyFloat(t, "floor_divide", a, b) = NaN
    <3>1. ~(IsFinite(a) /\ IsFinite(b)) /\ ~(IsFinite(a) /\ Abs(b) = Inf)
      BY <1>1, <1>4, <1>7
    <3> QED
      BY <1>7, <2>1, <3>1 DEF NumPyFloat
  <2>3. FFloor(NaN) = NaN
    BY <1>4, <1>5
  <2> QED
    BY <1>2, <2>1, <2>2, <2>3
<1>8. CASE b = 0 /\ NaN \notin {a, b}
  <2>1. NumPyFloat(t, "floor_divide", a, b) = FDiv(t, a, b)
    <3>1. Abs(b) # Inf
      BY <1>1, <1>4, <1>8
    <3> QED
      BY <1>8, <3>1 DEF NumPyFloat
  <2>2. ~IsFinite(FDiv(t, a, b))
    <3>1. CASE a = 0
      <4>1. FDiv(t, a, b) = NaN
        BY <1>8, <3>1 DEF FDiv
      <4> QED
        BY <1>4, <4>1
    <3>2. CASE a # 0
      <4>1. IsFinite(b)
        BY <1>4, <1>8
      <4>2. FDiv(t, a, b) = Sign(a) * Inf
        BY <1>8, <3>2, <4>1 DEF FDiv
      <4>3. Sign(a) \in {1, -1}
        BY <1>1, <3>2 DEF Sign
      <4>4. FDiv(t, a, b) \in {Inf, -Inf}
        BY <1>1, <4>2, <4>3
      <4> QED
        BY <1>4, <4>4
    <3> QED
      BY <3>1, <3>2
  <2> QED
    BY <1>2, <1>5, <2>1, <2>2
<1>9. CASE ~(IsFinite(a) /\ IsFinite(b)) /\ b # 0 /\ NaN \notin {a, b}
  <2>1. /\ ~IsFinite(a) => Abs(a) = Inf
        /\ ~IsFinite(b) => Abs(b) = Inf
    BY <1>1, <1>4, <1>9
  <2>2. ~IsFinite(b) /\ Abs(b) = Inf
    BY <1>3, <1>9, <2>1
  <2>3. CASE IsFinite(a)
    <3>1. FDiv(t, a, b) = 0
      BY <1>4, <1>9, <2>2, <2>3 DEF FDiv
    <3>2. NumPyFloat(t, "floor_divide", a, b) = 0
      <4>1. Abs(a) # Inf /\ ~(Sign(a) * Sign(b) < 0)
        BY <1>1, <1>3, <1>4, <2>2, <2>3
      <4> QED
        BY <1>9, <2>2, <2>3, <4>1 DEF NumPyFloat
    <3> QED
      BY <1>2, <1>5, <3>1, <3>2
  <2>4. CASE ~IsFinite(a)
    <3>1. FDiv(t, a, b) = NaN
      BY <2>2, <2>4 DEF FDiv
    <3>2. NumPyFloat(t, "floor_divide", a, b) = NaN
      BY <1>9, <2>1, <2>4 DEF NumPyFloat
    <3>3. FFloor(NaN) = NaN
      BY <1>4, <1>5
    <3> QED
      BY <1>2, <3>1, <3>2, <3>3
  <2> QED
    BY <2>3, <2>4
<1> QED
  BY <1>6, <1>7, <1>8, <1>9

\* The kernels of the float types compute what NumPy's do.
LEMMA FloatKernelAsNumPy ==
    ASSUME NEW t \in Floats, NEW a, NEW b, Float(t, a), Float(t, b),
           NEW op \in ArrayOps \cup ScalarOps, ~KnownDifference(op, t, a, b)
    PROVE  Kernel(op, t, a, b) = NumPyFloat(t, op, a, b)
<1>1. t # "i64" /\ a \in Int /\ b \in Int
  BY FloatTakes DEF Floats
<1>2. CASE op = "add"
  BY <1>1, <1>2 DEF Kernel, Add, NumPyFloat
<1>3. CASE op = "sub"
  BY <1>1, <1>3 DEF Kernel, Sub, NumPyFloat
<1>4. CASE op = "rsub"
  BY <1>1, <1>4 DEF Kernel, Sub, NumPyFloat
<1>5. CASE op = "mul"
  BY <1>1, <1>5 DEF Kernel, Mul, NumPyFloat
<1>6. CASE op = "div"
  BY <1>6 DEF Kernel, NumPyFloat
<1>7. CASE op = "rdiv"
  BY <1>7 DEF Kernel, NumPyFloat
<1>8. CASE op = "power"
  BY <1>1, <1>8 DEF Kernel, Power, NumPyFloat
<1>9. CASE op = "maximum" \/ op = "minimum"
  <2>1. a # NaN
    BY <1>9 DEF KnownDifference
  <2>2. Max({a, b}) = (IF b < a THEN a ELSE b) /\ Min({a, b}) = (IF a < b THEN a ELSE b)
    BY <1>1, TwoOf
  <2>3. CASE op = "maximum"
    <3>1. Kernel(op, t, a, b) = IF Less(b, a) THEN a ELSE b
      BY <2>3 DEF Kernel
    <3>2. NumPyFloat(t, op, a, b) = IF NaN \in {a, b} THEN NaN ELSE Max({a, b})
      BY <2>3 DEF NumPyFloat
    <3> QED
      BY <2>1, <2>2, <3>1, <3>2 DEF Less
  <2>4. CASE op = "minimum"
    <3>1. Kernel(op, t, a, b) = IF Less(a, b) THEN a ELSE b
      BY <2>4 DEF Kernel
    <3>2. NumPyFloat(t, op, a, b) = IF NaN \in {a, b} THEN NaN ELSE Min({a, b})
      BY <2>4 DEF NumPyFloat
    <3> QED
      BY <2>1, <2>2, <3>1, <3>2 DEF Less
  <2> QED
    BY <1>9, <2>3, <2>4
<1>10. CASE op = "mod"
  <2>1. Kernel(op, t, a, b) = Mod(t, a, b)
    BY <1>10 DEF Kernel
  <2>2. CASE IsFinite(a) /\ IsFinite(b) /\ b # 0
    <3>1. FiniteFloat(t, a) /\ FiniteFloat(t, b)
      BY <2>2, FloatTakes
    <3>2. Mod(t, a, b) = Nearest(t, IF b > 0 THEN a % b ELSE -((-a) % (-b)), 1)
      BY <2>2, <3>1, FloatModAsNumPy
    <3>3. NumPyFloat(t, op, a, b) = Nearest(t, IF b > 0 THEN a % b ELSE -((-a) % (-b)), 1)
      BY <1>10, <2>2 DEF NumPyFloat
    <3> QED
      BY <2>1, <3>2, <3>3
  <2>3. CASE ~(IsFinite(a) /\ IsFinite(b) /\ b # 0)
    <3>1. NumPyFloat(t, op, a, b) = Mod(t, a, b)
      BY <1>10, <2>3 DEF NumPyFloat
    <3> QED
      BY <2>1, <3>1
  <2> QED
    BY <2>2, <2>3
<1>11. CASE op = "floor_divide"
  <2>1. Kernel(op, t, a, b) = FloorDivide(t, a, b)
    BY <1>11 DEF Kernel
  <2>2. ~KnownDifference("floor_divide", t, a, b)
    BY <1>11
  <2>3. FloorDivide(t, a, b) = NumPyFloat(t, "floor_divide", a, b)
    BY <2>2, FloatFloorAsNumPy
  <2> QED
    BY <1>11, <2>1, <2>3
<1> QED
  BY <1>2, <1>3, <1>4, <1>5, <1>6, <1>7, <1>8, <1>9, <1>10, <1>11 DEF ArrayOps, ScalarOps

\* What a call returns is what NumPy's would, at the same element type.
LEMMA ResultAsNumPy ==
    ASSUME NEW op \in ArrayOps \cup ScalarOps, NEW t \in DTypes, NEW a, NEW b,
           Number(a), Number(b), op \in {"div", "rdiv"} => t # "i64",
           op = "power" => Cast(t, b) \in Few,
           ~KnownDifference(op, t, Cast(t, a), Cast(t, b))
    PROVE  Result(op, t, a, b) = NumPy(op, t, Cast(t, a), Cast(t, b))
<1> DEFINE va == Cast(t, a)
           vb == Cast(t, b)
           v == Kernel(op, t, va, vb)
<1>1. Value(t, va) /\ Value(t, vb)
  BY CastTakes
<1>2. Cast(t, va) = va /\ Cast(t, vb) = vb
  <2>1. Number(va) /\ Number(vb)
    BY <1>1, ValueTakes
  <2> HIDE DEF va, vb
  <2> QED
    BY <1>1, <2>1, CastTakes
<1>3. ~KnownDifference(op, t, va, vb) /\ (op = "power" => vb \in Few)
  OBVIOUS
<1>4. Result(op, t, a, b) = IF v = Trap THEN Trapped ELSE Element(t, v)
  BY DEF Result
<1>5. NumPy(op, t, va, vb) = Element(t, IF t = "i64" THEN NumPyInt(op, va, vb) ELSE NumPyFloat(t, op, va, vb))
  BY <1>2 DEF NumPy
<1> HIDE DEF va, vb
<1>6. v # Trap
  <2>1. CASE t = "i64"
    <3>1. Value("i64", va) /\ Value("i64", vb) /\ op \notin {"div", "rdiv"}
      BY <1>1, <2>1
    <3>2. Yields(op, "i64", va, vb, v)
      BY <1>3, <2>1, <3>1, IntKernelTakes
    <3>3. CASE Value("i64", v)
      BY <2>1, <3>3, ValueTakes
    <3>4. CASE op \in {"mod", "floor_divide"} /\ va = IntMin /\ vb = -One
      BY <1>3, <2>1, <3>4 DEF KnownDifference
    <3> QED
      BY <3>2, <3>3, <3>4 DEF Yields
  <2>2. CASE t # "i64"
    <3>1. t \in Floats /\ Float(t, va) /\ Float(t, vb)
      BY <1>1, <2>2 DEF DTypes, Floats, Value
    <3>2. Float(t, v)
      BY <1>3, <3>1, FloatKernelTakes
    <3> HIDE DEF v
    <3>3. Value(t, v)
      BY <2>2, <3>2 DEF Value
    <3> QED
      BY <3>3, ValueTakes
  <2> QED
    BY <2>1, <2>2
<1>7. v = IF t = "i64" THEN NumPyInt(op, va, vb) ELSE NumPyFloat(t, op, va, vb)
  <2>1. CASE t = "i64"
    <3>1. Value("i64", va) /\ Value("i64", vb) /\ op \notin {"div", "rdiv"} /\ ~KnownDifference(op, "i64", va, vb)
      BY <1>1, <1>3, <2>1
    <3>2. Kernel(op, "i64", va, vb) = NumPyInt(op, va, vb)
      BY <1>3, <3>1, IntKernelAsNumPy
    <3> QED
      BY <2>1, <3>2
  <2>2. CASE t # "i64"
    <3>1. t \in Floats /\ Float(t, va) /\ Float(t, vb)
      BY <1>1, <2>2 DEF DTypes, Floats, Value
    <3>2. Kernel(op, t, va, vb) = NumPyFloat(t, op, va, vb)
      BY <1>3, <3>1, FloatKernelAsNumPy
    <3> QED
      BY <2>2, <3>2
  <2> QED
    BY <2>1, <2>2
<1> HIDE DEF v
<1>8. Result(op, t, a, b) = NumPy(op, t, va, vb)
  BY <1>4, <1>5, <1>6, <1>7
<1> QED
  BY <1>8 DEF va, vb

\* The outcome of a call.
Outcome(res) == res \in {Raised, Trapped, Empty} \/ IsElement(res)

\* The inductive invariant: the element and the latest result are values of
\* their types, in the ranges the kernels are proved for.
IInv ==
    /\ x = Empty \/ IsElement(x)
    /\ Outcome(last.res)
    /\ TrapsOnlyOnOverflow

LEMMA ElementDiffers ==
    ASSUME NEW e, IsElement(e) PROVE e \notin {Raised, Trapped, Empty} /\ Outcome(e)
  BY DEF IsElement, DTypes, Raised, Trapped, Empty, Element, Outcome

LEMMA ElementTakes ==
    ASSUME NEW t \in DTypes, NEW v, Value(t, v) PROVE IsElement(Element(t, v))
  BY DEF IsElement, Element

LEMMA ElementNumber ==
    ASSUME NEW e, IsElement(e)
    PROVE  /\ Number(e.v) /\ e.v \in Int /\ e.dt \in DTypes /\ Value(e.dt, e.v)
           /\ Cast(e.dt, e.v) = e.v /\ Representable(e.dt, e.v)
<1>1. e.dt \in DTypes /\ Value(e.dt, e.v)
  BY DEF IsElement
<1>2. Number(e.v) /\ e.v \in Int /\ Representable(e.dt, e.v)
  BY <1>1, ValueTakes
<1> QED
  BY <1>1, <1>2, CastTakes

LEMMA ArgumentsTake ==
    /\ \A e \in Elements : IsElement(e)
    /\ \A s \in Scalars \cup Ends \cup Steps : Number(s.v)
    /\ \A n \in Exponents : n \in Few
    /\ \A n \in Counts : n \in Nat /\ n * One < Inf
<1>1. ASSUME NEW e \in Elements PROVE IsElement(e)
  <2>1. e = Element(e.dt, e.v) /\ e.dt \in DTypes /\ e.v \in -Inf .. NaN /\ Representable(e.dt, e.v)
    BY ArgumentsAssumption
  <2>2. e.v \in Int /\ -Inf <= e.v /\ e.v <= NaN
    BY <2>1, SpecialTakes
  <2>3. Value(e.dt, e.v)
    BY <2>1, <2>2, RepresentableTakes
  <2> QED
    BY <2>1, <2>3 DEF IsElement
<1>2. ASSUME NEW s \in Scalars \cup Ends \cup Steps PROVE Number(s.v)
  BY ArgumentsAssumption, SpecialTakes DEF Number
<1> QED
  BY <1>1, <1>2, ArgumentsAssumption DEF Few

-----------------------------------------------------------------------------
\* A call whose outcome is an element, or an exception, keeps the invariant.
LEMMA CallKeeps ==
    ASSUME IInv, NEW call, Call(call), Outcome(call.res), call.res # Trapped
    PROVE  IInv'
  BY DEF IInv, Call, TrapsOnlyOnOverflow

LEMMA BinaryStep ==
    ASSUME IInv, IsElement(x), NEW op \in ArrayOps, NEW b \in Elements, Binary(op, b)
    PROVE  IInv'
<1> DEFINE t == IF op = "div" THEN div_result_dtype(x.dt, b.dt) ELSE promote(x.dt, b.dt)
           res == Result(op, t, x.v, b.v)
           call == [op |-> op, a |-> x, b |-> b, res |-> res]
<1>1. Call(call) /\ (op = "power" => b.v \in Few)
  BY ArgumentsTake DEF Binary
<1>2. IsElement(b)
  BY ArgumentsTake
<1>3. t \in DTypes /\ (op = "div" => t # "i64") /\ (t = "i64" => x.dt = "i64" /\ b.dt = "i64")
  BY <1>2, ElementNumber DEF div_result_dtype, promote, DTypes
<1> HIDE DEF t
<1>4. op = "power" => Cast(t, b.v) \in Few
  <2> SUFFICES ASSUME op = "power" PROVE Cast(t, b.v) \in Few
    OBVIOUS
  <2>1. Value(t, b.v) /\ Number(b.v)
    BY <1>1, <1>2, <1>3, FewTake, ElementNumber
  <2> QED
    BY <1>1, <1>3, <2>1, CastTakes
<1>5. op \in ArrayOps \cup ScalarOps /\ op # "rdiv"
  BY DEF ArrayOps
<1>6. \/ IsElement(res)
      \/ /\ res = Trapped /\ op \in {"mod", "floor_divide"}
         /\ t = "i64" /\ Cast(t, x.v) = IntMin /\ Cast(t, b.v) = -One
  <2>1. Number(x.v) /\ Number(b.v)
    BY <1>2, ElementNumber
  <2>2. op \in {"div", "rdiv"} => t # "i64"
    BY <1>3, <1>5
  <2> QED
    BY <1>3, <1>4, <1>5, <2>1, <2>2, ResultTakes
<1> HIDE DEF res
<1>7. CASE IsElement(res)
  <2>1. call.res = res /\ Outcome(res) /\ res # Trapped
    BY <1>7, ElementDiffers
  <2> HIDE DEF call
  <2> QED
    BY <1>1, <2>1, CallKeeps
<1>8. CASE res = Trapped /\ op \in {"mod", "floor_divide"} /\ t = "i64" /\ Cast(t, x.v) = IntMin /\ Cast(t, b.v) = -One
  <2>1. x.v = IntMin /\ b.v = -One /\ x.dt = "i64" /\ b.dt = "i64"
    BY <1>2, <1>3, <1>8, ElementNumber
  <2>2. x = Element("i64", IntMin) /\ b = Element("i64", -One)
    BY <1>2, <2>1 DEF IsElement
  <2>3. x' = x /\ last' = call
    BY <1>1 DEF Call
  <2>4. last'.res = Trapped /\ last'.op = op /\ last'.a = x /\ last'.b = b
    BY <1>8, <2>3
  <2> QED
    BY <1>8, <2>2, <2>3, <2>4 DEF IInv, Outcome, TrapsOnlyOnOverflow
<1> QED
  BY <1>6, <1>7, <1>8

LEMMA ScalarStep ==
    ASSUME IInv, IsElement(x), NEW op \in ScalarOps, NEW s \in Scalars, Scalar(op, s)
    PROVE  IInv'
<1> DEFINE exact == op \in {"power", "mod", "floor_divide"}
           res == IF exact THEN ScalarUnary(op, s) ELSE ScalarArith(op, s)
           call == [op |-> op, a |-> x, s |-> s, res |-> res]
<1>1. Call(call) /\ (op = "power" => s.v \in Few)
  BY ArgumentsTake DEF Scalar
<1>2. Number(s.v)
  BY ArgumentsTake
<1>3. Number(x.v) /\ x.dt \in DTypes /\ Cast(x.dt, x.v) = x.v
  BY ElementNumber
<1>4. "f64" \in DTypes
  BY DEF DTypes
<1>5. Number(Cast("f64", s.v))
  BY <1>2, <1>4, CastTakes, ValueTakes
<1>6. Outcome(res) /\ (res = Trapped => op \in {"mod", "floor_divide"} /\ x.dt = "i64" /\ x.v = IntMin)
  <2>1. CASE exact
    <3> DEFINE v == Cast("f64", s.v)
               r == Result(op, x.dt, x.v, v)
    <3>1. res = Raised \/ res = r
      BY <2>1 DEF ScalarUnary
    <3>2. op = "power" => Cast(x.dt, v) \in Few
      <4> SUFFICES ASSUME op = "power" PROVE Cast(x.dt, v) \in Few
        OBVIOUS
      <4>1. Value("f64", s.v) /\ Value(x.dt, s.v)
        BY <1>1, <1>3, <1>4, FewTake
      <4>2. v = s.v /\ Cast(x.dt, s.v) = s.v
        BY <1>2, <1>3, <1>4, <4>1, CastTakes
      <4> QED
        BY <1>1, <4>2
    <3>3. \/ IsElement(r)
          \/ r = Trapped /\ op \in {"mod", "floor_divide"} /\ x.dt = "i64" /\ Cast(x.dt, x.v) = IntMin
      <4>1. op \in ArrayOps \cup ScalarOps /\ op \notin {"div", "rdiv"}
        BY <2>1
      <4> HIDE DEF v
      <4>2. Number(v)
        BY <1>5 DEF v
      <4> QED
        BY <1>3, <3>2, <4>1, <4>2, ResultTakes
    <3>4. Raised # Trapped
      BY DEF Raised, Trapped, Element
    <3> HIDE DEF r, res
    <3> QED
      BY <1>3, <3>1, <3>3, <3>4, ElementDiffers DEF Outcome
  <2>2. CASE ~exact
    <3> DEFINE t == IF x.dt = "i64" /\ (s.float \/ op \in {"div", "rdiv"}) THEN "f64" ELSE x.dt
               v == IF op \in {"div", "rdiv"} THEN Cast("f64", s.v) ELSE s.v
    <3>1. res = Result(op, t, x.v, v)
      BY <2>2 DEF ScalarArith
    <3>2. t \in DTypes /\ (op \in {"div", "rdiv"} => t # "i64") /\ Number(v)
      BY <1>2, <1>3, <1>4, <1>5
    <3> HIDE DEF t, v, res
    <3>3. IsElement(res)
      <4>1. op \in ArrayOps \cup ScalarOps /\ op # "power" /\ op \notin {"mod", "floor_divide"}
        BY <2>2
      <4> QED
        BY <1>3, <3>1, <3>2, <4>1, ResultTakes
    <3> QED
      BY <3>3, ElementDiffers
  <2> QED
    BY <2>1, <2>2
<1> HIDE DEF res
<1>7. CASE res # Trapped
  <2>1. call.res = res
    OBVIOUS
  <2> HIDE DEF call
  <2> QED
    BY <1>1, <1>6, <1>7, <2>1, CallKeeps
<1>8. CASE res = Trapped
  <2>1. x = Element("i64", IntMin)
    BY <1>6, <1>8 DEF IsElement
  <2>2. x' = x /\ last' = call
    BY <1>1 DEF Call
  <2>3. last'.res = Trapped /\ last'.op = op /\ last'.a = x /\ "b" \notin DOMAIN last'
    BY <1>8, <2>2
  <2> QED
    BY <1>6, <1>8, <2>1, <2>2, <2>3 DEF IInv, Outcome, TrapsOnlyOnOverflow
<1> QED
  BY <1>7, <1>8

\* A call that yields an element, or raises, or makes an empty array.
LEMMA CallElement ==
    ASSUME IInv, NEW call, Call(call), NEW res, call.res = res,
           IsElement(res) \/ res \in {Raised, Empty}
    PROVE  IInv'
<1>1. Outcome(res) /\ res # Trapped
  BY ElementDiffers DEF Outcome, Raised, Empty, Trapped, Element
<1> QED
  BY <1>1, CallKeeps

LEMMA CastElement ==
    ASSUME NEW t \in DTypes, NEW v, Number(v) PROVE IsElement(Element(t, Cast(t, v)))
  BY CastTakes, ElementTakes

LEMMA DoubleTakes ==
    ASSUME NEW v, Number(v) PROVE Number(Cast("f64", v)) /\ Float("f64", Cast("f64", v))
<1>1. "f64" \in DTypes
  BY DEF DTypes
<1>2. Value("f64", Cast("f64", v))
  BY <1>1, CastTakes
<1> QED
  BY <1>1, <1>2, ValueTakes DEF Value

LEMMA SetItemStep ==
    ASSUME IInv, IsElement(x), NEW s \in Scalars, SetItem(s) PROVE IInv'
<1> DEFINE res == Element(x.dt, Cast(x.dt, Cast("f64", s.v)))
           call == [op |-> "setitem", a |-> x, s |-> s, res |-> res]
<1>1. Number(s.v) /\ x.dt \in DTypes
  BY ArgumentsTake, ElementNumber
<1>2. IsElement(res)
  BY <1>1, DoubleTakes, CastElement
<1>3. Call(call) /\ call.res = res
  BY DEF SetItem
<1> HIDE DEF call, res
<1> QED
  BY <1>2, <1>3, CallElement

LEMMA ClipStep ==
    ASSUME IInv, IsElement(x), NEW lo, NEW hi, Number(lo), Number(hi), Clip(lo, hi) PROVE IInv'
<1> DEFINE l == Cast(x.dt, Cast("f64", lo))
           h == Cast(x.dt, Cast("f64", hi))
           v == IF Less(x.v, l) THEN l ELSE x.v
           w == IF Less(h, v) THEN h ELSE v
           res == Element(x.dt, w)
           call == [op |-> "clip", a |-> x, lo |-> lo, hi |-> hi, res |-> res]
<1>1. x.dt \in DTypes /\ Value(x.dt, x.v) /\ Value(x.dt, l) /\ Value(x.dt, h)
  BY ElementNumber, DoubleTakes, CastTakes
<1>2. IsElement(res)
  <2>1. w \in {l, h, x.v}
    OBVIOUS
  <2> HIDE DEF w, l, h
  <2>2. Value(x.dt, w)
    BY <1>1, <2>1
  <2> QED
    BY <1>1, <2>2, ElementTakes
<1>3. Call(call) /\ call.res = res
  BY DEF Clip
<1> HIDE DEF call, res
<1> QED
  BY <1>2, <1>3, CallElement

LEMMA UnaryStep ==
    ASSUME IInv, IsElement(x), NEW op \in UnaryOps, Unary(op) PROVE IInv'
<1> DEFINE t == IF x.dt = "i64" /\ op \notin {"negative", "abs", "sign"} THEN "f64" ELSE x.dt
           v == Cast(t, x.v)
           res == Element(t, UnaryValue(op, t, v))
           call == [op |-> op, a |-> x, res |-> res]
<1>1. t \in DTypes /\ Number(x.v) /\ (t = "i64" => op \in {"negative", "abs", "sign"})
  BY ElementNumber DEF DTypes
<1>2. Call(call) /\ call.res = res
  BY DEF Unary
<1>3. IsElement(res)
  <2> HIDE DEF t
  <2>1. Value(t, v)
    BY <1>1, CastTakes
  <2> HIDE DEF v
  <2> QED
    BY <1>1, <2>1, UnaryTakes, ElementTakes
<1> HIDE DEF call, res
<1> QED
  BY <1>2, <1>3, CallElement

LEMMA AsTypeStep ==
    ASSUME IInv, IsElement(x), NEW t \in DTypes, AsType(t) PROVE IInv'
<1> DEFINE res == Element(t, Cast(t, x.v))
           call == [op |-> "astype", a |-> x, res |-> res]
<1>1. IsElement(res)
  BY ElementNumber, CastElement
<1>2. Call(call) /\ call.res = res
  BY DEF AsType
<1> HIDE DEF call, res
<1> QED
  BY <1>1, <1>2, CallElement

LEMMA FromNumpyStep ==
    ASSUME IInv, NEW e \in Elements, FromNumpy(e) PROVE IInv'
<1> DEFINE call == [op |-> "from_numpy", res |-> e]
<1>1. IsElement(e)
  BY ArgumentsTake
<1>2. Call(call) /\ call.res = e
  BY DEF FromNumpy
<1> HIDE DEF call
<1> QED
  BY <1>1, <1>2, CallElement

\* A ramp's element, when a double may hold its index.
LEMMA RampTakes ==
    ASSUME NEW t \in DTypes, NEW start, NEW step, Number(start), Float("f64", step),
           NEW i \in Nat, i * One < Inf
    PROVE  IsElement(RampElement(t, start, step, i))
<1> DEFINE c == Cast("f64", i * One)
           p == FMul("f64", c, step)
           s == FAdd("f64", start, p)
<1>0. "f64" \in Floats
  BY DEF Floats
<1>1. Number(i * One)
  <2>1. i * One \in Nat
    BY <1>0, FormatTakes
  <2> DEFINE k == i * One
  <2> HIDE DEF k
  <2>2. k \in Nat /\ k < Inf => Number(k)
    BY SpecialTakes DEF Number
  <2> QED
    BY <2>1, <2>2 DEF k
<1>2. c \in Int /\ step \in Int
  <2> DEFINE k == i * One
  <2>1. Number(k)
    BY <1>1
  <2> HIDE DEF k
  <2>2. Number(Cast("f64", k))
    BY <2>1, DoubleTakes
  <2>3. c \in Int
    BY <2>2 DEF Number, k
  <2> QED
    BY <1>0, <2>3, FloatTakes
<1> HIDE DEF c
<1>3. Number(p)
  BY <1>0, <1>2, FMulTakes, FloatTakes
<1> HIDE DEF p
<1>4. Number(s)
  BY <1>0, <1>3, FAddTakes, FloatTakes
<1> HIDE DEF s
<1>5. IsElement(Element(t, Cast(t, s)))
  BY <1>4, CastElement
<1> QED
  BY <1>5 DEF RampElement, s, p, c

LEMMA ArangeStep ==
    ASSUME IInv, NEW start \in Ends, NEW stop \in Ends, NEW step \in Steps,
           NEW dtype \in DTypes \cup {"none"}, Arange(start, stop, step, dtype)
    PROVE  IInv'
<1> DEFINE float == start.float \/ stop.float \/ step.float
           t     == IF dtype # "none" THEN dtype ELSE IF float THEN "f64" ELSE "i64"
           Double(s) == Cast("f64", s.v)
           span  == IF start.float \/ stop.float
                    THEN FAdd("f64", Double(stop), FNeg(Double(start))) ELSE stop.v - start.v
           count == IF float THEN FDiv("f64", Cast("f64", span), Double(step))
                             ELSE FDiv("f64", span, step.v)
           n     == Max({0, FCeil(count) \div One})
           Made(k, i, res) == [op |-> "arange", start |-> start, stop |-> stop, step |-> step,
                               dtype |-> dtype, n |-> k, i |-> i, res |-> res]
<1>1. /\ (step.v = 0 \/ ~IsFinite(count)) => Call(Made(0, 0, Raised))
      /\ ~(step.v = 0 \/ ~IsFinite(count)) /\ n = 0 => Call(Made(0, 0, Empty))
      /\ ~(step.v = 0 \/ ~IsFinite(count)) /\ n # 0 =>
            \E i \in 0 .. n - 1 : Call(Made(n, i, RampElement(t, Double(start), Double(step), i)))
  BY DEF Arange, ArangeLength
<1>2. ASSUME NEW k, NEW i, NEW res, Call(Made(k, i, res)), IsElement(res) \/ res \in {Raised, Empty}
      PROVE  IInv'
  <2> DEFINE call == Made(k, i, res)
  <2>1. Call(call) /\ call.res = res
    BY <1>2
  <2> HIDE DEF call
  <2> QED
    BY <1>2, <2>1, CallElement
<1>3. "f64" \in Floats /\ t \in DTypes
  BY DEF Floats, DTypes
<1>4. /\ Number(start.v) /\ Number(stop.v) /\ Number(step.v)
      /\ Number(Double(start)) /\ Number(Double(stop)) /\ Float("f64", Double(step))
  BY ArgumentsTake, DoubleTakes
<1>5. Number(FAdd("f64", Double(stop), FNeg(Double(start))))
  <2>1. Number(FNeg(Double(start)))
    BY <1>4, FNegTakes
  <2> HIDE DEF Double
  <2> QED
    BY <1>3, <1>4, <2>1, FAddTakes, FloatTakes
<1>6. span \in Int
  BY <1>4, <1>5 DEF Number
<1>7. Cast("f64", span) \in Int
  <2> HIDE DEF span
  <2>1. Cast("f64", span) = IF IsFinite(span) THEN Nearest("f64", span, 1) ELSE span
    BY DEF Cast
  <2>2. 1 \in Nat /\ 1 > 0
    OBVIOUS
  <2>3. Float("f64", Nearest("f64", span, 1))
    BY <1>3, <1>6, <2>2, NearestTakes
  <2>4. Nearest("f64", span, 1) \in Int
    BY <1>3, <2>3, FloatTakes
  <2> QED
    BY <1>6, <2>1, <2>4
<1>8. Float("f64", count)
  <2> DEFINE c == Cast("f64", span)
             d == Double(step)
  <2>0. Float("f64", d) /\ Number(step.v) /\ c \in Int /\ span \in Int
    BY <1>4, <1>6, <1>7
  <2> HIDE DEF c, d, span
  <2>1. c \in Int /\ d \in Int /\ span \in Int /\ step.v \in Int
    BY <1>3, <2>0, FloatTakes DEF Number
  <2>2. Float("f64", FDiv("f64", c, d)) /\ Float("f64", FDiv("f64", span, step.v))
    BY <1>3, <2>1, FDivTakes
  <2> QED
    BY <2>2 DEF c, d
<1> HIDE DEF count, Double, span, t
<1>9. IsFinite(count) => n \in Nat /\ \A i \in 0 .. n - 1 : i \in Nat /\ i * One < Inf
  <2> SUFFICES ASSUME IsFinite(count)
               PROVE  n \in Nat /\ \A i \in 0 .. n - 1 : i \in Nat /\ i * One < Inf
    OBVIOUS
  <2> DEFINE c == FCeil(count)
             q == c \div One
  <2>1. One \in Nat /\ One > 0
    BY <1>3, FormatTakes
  <2>2. c \in Int /\ c % One = 0 /\ c < Inf
    <3>1. count \in Int
      BY <1>3, <1>8, FloatTakes
    <3>2. Near(c, count)
      BY <3>1, RoundingTakes
    <3>3. FiniteFloat("f64", c)
      <4>1. FiniteFloat("f64", count)
        BY <1>3, <1>8, FloatTakes
      <4>2. c \in Int /\ c % One = 0 /\ count - One < c /\ c < count + One
        BY <3>2 DEF Near
      <4> HIDE DEF c
      <4> QED
        BY <1>3, <4>1, <4>2, NearWholeTakes
    <3>4. Abs(c) < Top("f64") /\ Top("f64") <= Inf /\ Top("f64") \in Nat /\ Inf \in Nat
      BY <1>3, <3>3, FormatTakes DEF FiniteFloat
    <3> HIDE DEF c
    <3> QED
      BY <3>2, <3>4 DEF Near, Abs
  <2> HIDE DEF c
  <2>3. q \in Int /\ c = q * One
    BY <2>1, <2>2, Division
  <2> HIDE DEF q
  <2>4. n = IF q > 0 THEN q ELSE 0
    <3> DEFINE m == IF q > 0 THEN q ELSE 0
               S == {0, q}
    <3>1. m \in S /\ \A k \in S : m >= k
      BY <2>3
    <3>2. \A k \in S : (\A j \in S : k >= j) => k = m
      BY <2>3
    <3>3. n = CHOOSE k \in S : \A j \in S : k >= j
      BY DEF Max, q, c
    <3> HIDE DEF m, S
    <3>4. n = m
      BY <3>1, <3>2, <3>3
    <3> QED
      BY <3>4 DEF m
  <2> HIDE DEF n
  <2>5. n \in Nat
    BY <2>3, <2>4
  <2>6. ASSUME NEW i \in 0 .. n - 1 PROVE i \in Nat /\ i * One < Inf
    <3>1. i \in Nat /\ i < q /\ q \in Nat
      BY <2>3, <2>4, <2>6
    <3>2. i * One <= q * One /\ i * One \in Int
      BY <2>1, <3>1
    <3> QED
      BY <2>2, <2>3, <3>1, <3>2, SpecialTakes
  <2> QED
    BY <2>5, <2>6
<1>10. CASE step.v = 0 \/ ~IsFinite(count)
  BY <1>1, <1>2, <1>10
<1>11. CASE ~(step.v = 0 \/ ~IsFinite(count)) /\ n = 0
  BY <1>1, <1>2, <1>11
<1>12. CASE ~(step.v = 0 \/ ~IsFinite(count)) /\ n # 0
  <2> HIDE DEF Made
  <2>1. PICK i \in 0 .. n - 1 : Call(Made(n, i, RampElement(t, Double(start), Double(step), i)))
    BY <1>1, <1>12
  <2>2. i \in Nat /\ i * One < Inf
    BY <1>9, <1>12, <2>1
  <2> DEFINE res == RampElement(t, Double(start), Double(step), i)
             a1 == Double(start)
             a2 == Double(step)
  <2>3. IsElement(RampElement(t, a1, a2, i))
    <3>1. Number(a1) /\ Float("f64", a2)
      BY <1>4
    <3> HIDE DEF a1, a2
    <3> QED
      BY <1>3, <2>2, <3>1, RampTakes
  <2>4. IsElement(res) /\ Call(Made(n, i, res))
    BY <2>1, <2>3
  <2> HIDE DEF res, n
  <2> QED
    BY <1>2, <2>4
<1> QED
  BY <1>10, <1>11, <1>12

LEMMA LinspaceStepKeeps ==
    ASSUME IInv, NEW t \in {"f64", "f32"}, NEW start, NEW stop, Number(start), Number(stop),
           NEW num \in Counts, NEW endpoint \in BOOLEAN, Linspace(t, start, stop, num, endpoint)
    PROVE  IInv'
<1> DEFINE step == LinspaceStep(start, stop, num, endpoint)
           R(i) == IF endpoint /\ num > 1 /\ i = num - 1
                   THEN Element(t, Cast(t, stop)) ELSE RampElement(t, start, step, i)
           Made(i) == [op |-> "linspace", start |-> start, stop |-> stop, num |-> num,
                       endpoint |-> endpoint, i |-> i, res |-> R(i)]
<1>1. num > 0 /\ \E i \in 0 .. num - 1 : Call(Made(i))
  BY DEF Linspace
<1>2. "f64" \in Floats /\ t \in DTypes
  BY DEF Floats, DTypes
<1>3. num \in Nat /\ num * One < Inf /\ One \in Nat /\ One > 0 /\ Inf \in Nat
  BY <1>2, ArgumentsTake, FormatTakes
<1>4. Float("f64", step)
  <2> DEFINE div == IF endpoint THEN num - 1 ELSE num
             d == div * One
             w == FAdd("f64", stop, FNeg(start))
  <2>1. step = IF div > 0 THEN FDiv("f64", w, d) ELSE 0
    BY DEF LinspaceStep
  <2>2. d \in Int
    BY <1>3
  <2>3. w \in Int
    <3>1. Number(FNeg(start))
      BY FNegTakes
    <3>2. Float("f64", w)
      BY <1>2, <3>1, FAddTakes
    <3> QED
      BY <1>2, <3>2, FloatTakes
  <2> HIDE DEF d, w, div, step
  <2>4. Float("f64", FDiv("f64", w, d)) /\ Float("f64", 0)
    BY <1>2, <2>2, <2>3, FDivTakes, ZeroTakes
  <2> QED
    BY <2>1, <2>4
<1>5. PICK i \in 0 .. num - 1 : Call(Made(i))
  BY <1>1
<1>6. IsElement(R(i))
  <2>1. IsElement(Element(t, Cast(t, stop)))
    BY <1>2, CastElement
  <2>2. i \in Nat /\ i * One < Inf
    <3>1. i \in Nat /\ i <= num
      BY <1>3
    <3>2. i * One <= num * One /\ i * One \in Int /\ num * One \in Int
      BY <1>3, <3>1
    <3> QED
      BY <1>3, <3>1, <3>2
  <2> HIDE DEF step
  <2>3. IsElement(RampElement(t, start, step, i))
    BY <1>2, <1>4, <2>2, RampTakes
  <2> QED
    BY <2>1, <2>3
<1> DEFINE call == Made(i)
           res == R(i)
<1>7. Call(call) /\ call.res = res /\ IsElement(res)
  BY <1>5, <1>6
<1> HIDE DEF call, res
<1> QED
  BY <1>7, CallElement

-----------------------------------------------------------------------------
LEMMA AssignStep == ASSUME IInv, Assign PROVE IInv'
<1>1. x' = Empty \/ IsElement(x')
  BY DEF IInv, Assign, Outcome
<1>2. last' = [op |-> "none", res |-> x']
  BY DEF Assign
<1>3. last'.res = x' /\ x' # Trapped
  <2>1. last'.res = x'
    BY <1>2
  <2>2. Empty # Trapped
    BY DEF Empty, Trapped, Element
  <2>3. \A e : IsElement(e) => e # Trapped
    BY ElementDiffers
  <2> QED
    BY <1>1, <2>1, <2>2, <2>3
<1>4. Outcome(x')
  <2>1. \A e : IsElement(e) => Outcome(e)
    BY ElementDiffers
  <2>2. Outcome(Empty)
    BY DEF Outcome
  <2> QED
    BY <1>1, <2>1, <2>2
<1> QED
  BY <1>1, <1>3, <1>4 DEF IInv, Outcome, TrapsOnlyOnOverflow

LEMMA InvInit == Init => IInv
<1> SUFFICES ASSUME Init PROVE IInv
  OBVIOUS
<1>1. x = Empty /\ last.res = Empty /\ Empty # Trapped
  BY DEF Init, Empty, Trapped, Element
<1> QED
  BY <1>1 DEF IInv, Outcome, TrapsOnlyOnOverflow

LEMMA InvStep == IInv /\ [Next]_vars => IInv'
<1> SUFFICES ASSUME IInv, [Next]_vars PROVE IInv'
  OBVIOUS
<1>1. CASE UNCHANGED vars
  BY <1>1 DEF vars, IInv, Outcome, TrapsOnlyOnOverflow
<1>2. CASE last.op = "none" /\ x = Empty /\ Constructors
  <2>1. CASE \E e \in Elements : FromNumpy(e)
    BY <2>1, FromNumpyStep
  <2>2. CASE \E start, stop \in Ends, step \in Steps, dtype \in DTypes \cup {"none"} :
                Arange(start, stop, step, dtype)
    BY <2>2, ArangeStep
  <2>3. CASE \E t \in {"f64", "f32"}, start, stop \in {s.v : s \in {s \in Scalars : s.float}},
                num \in Counts, endpoint \in BOOLEAN : Linspace(t, start, stop, num, endpoint)
    <3>1. PICK t \in {"f64", "f32"}, start \in {s.v : s \in {s \in Scalars : s.float}},
               stop \in {s.v : s \in {s \in Scalars : s.float}},
               num \in Counts, endpoint \in BOOLEAN : Linspace(t, start, stop, num, endpoint)
      BY <2>3
    <3>2. Number(start) /\ Number(stop)
      BY ArgumentsTake
    <3> QED
      BY <3>1, <3>2, LinspaceStepKeeps
  <2> QED
    BY <1>2, <2>1, <2>2, <2>3 DEF Constructors
<1>3. CASE last.op = "none" /\ x # Empty /\ Calls
  <2>0. IsElement(x)
    BY <1>3 DEF IInv
  <2>1. CASE \E op \in ArrayOps, b \in Elements : Binary(op, b)
    BY <2>0, <2>1, BinaryStep
  <2>2. CASE \E op \in ScalarOps, s \in Scalars : Scalar(op, s)
    BY <2>0, <2>2, ScalarStep
  <2>3. CASE \E s \in Scalars : SetItem(s)
    BY <2>0, <2>3, SetItemStep
  <2>4. CASE \E lo, hi \in {s.v : s \in Scalars} : Clip(lo, hi)
    <3>1. PICK lo \in {s.v : s \in Scalars}, hi \in {s.v : s \in Scalars} : Clip(lo, hi)
      BY <2>4
    <3>2. Number(lo) /\ Number(hi)
      BY ArgumentsTake
    <3> QED
      BY <2>0, <3>1, <3>2, ClipStep
  <2>5. CASE \E op \in UnaryOps : Unary(op)
    BY <2>0, <2>5, UnaryStep
  <2>6. CASE \E t \in DTypes : AsType(t)
    BY <2>0, <2>6, AsTypeStep
  <2> QED
    BY <1>3, <2>1, <2>2, <2>3, <2>4, <2>5, <2>6 DEF Calls
<1>4. CASE Assign
  BY <1>4, AssignStep
<1> QED
  BY <1>1, <1>2, <1>3, <1>4 DEF Next

\* The element and every result stay values of their types.
THEOREM Invariant == Spec => []IInv
  BY InvInit, InvStep, PTL DEF Spec

\* The typing is a part of it.
LEMMA InvTypeOK == IInv => TypeOK
<1>1. \A e : IsElement(e) => e.dt \in DTypes /\ Representable(e.dt, e.v)
  BY ElementNumber
<1> QED
  BY <1>1 DEF IInv, TypeOK, Outcome

\* A result is a value of the dtype it is labelled with.
THEOREM TypeCorrect == Spec => []TypeOK
  BY Invariant, InvTypeOK, PTL

\* An integer division kills the process for INT_MIN by -1 only.
THEOREM TrapsOnly == Spec => []TrapsOnlyOnOverflow
<1>1. IInv => TrapsOnlyOnOverflow
  BY DEF IInv
<1> QED
  BY <1>1, Invariant, PTL

-----------------------------------------------------------------------------
(* Calls return NumPy's dtype and value *)

\* The dtype of a binary operation is NumPy's.
LEMMA ResultTypeIs ==
    ASSUME NEW op \in ArrayOps, NEW a \in DTypes, NEW b \in DTypes
    PROVE  ResultType(op, a, b) = IF op = "div" THEN div_result_dtype(a, b) ELSE promote(a, b)
<1> DEFINE kinds == IF op \in {"div", "rdiv"} THEN {"f64", "f32"} ELSE DTypes
           common == Safely[a] \cap Safely[b] \cap kinds
           t == IF op = "div" THEN div_result_dtype(a, b) ELSE promote(a, b)
<1>1. /\ Safely["i64"] = {"i64", "f64"} /\ Safely["f32"] = {"f32", "f64"}
      /\ Safely["f64"] = {"f64"}
  BY DEF Safely
<1>2. op = "div" <=> op \in {"div", "rdiv"}
  BY DEF ArrayOps
<1>3. common \subseteq DTypes /\ "f64" \in common
  BY <1>1 DEF DTypes
<1>4. ASSUME a # b PROVE common = {"f64"} /\ t = "f64"
  <2>1. t = "f64"
    BY <1>4 DEF promote, div_result_dtype
  <2>2. common = {"f64"}
    BY <1>1, <1>4 DEF DTypes
  <2> QED
    BY <2>1, <2>2
<1>5. ASSUME a = b PROVE common \subseteq Safely[t] /\ t \in common /\ \A s \in common : common \subseteq Safely[s] => s = t
  <2>1. CASE a = "f64"
    BY <1>1, <1>5, <2>1 DEF promote, div_result_dtype, DTypes
  <2>2. CASE a = "f32"
    BY <1>1, <1>5, <2>2 DEF promote, div_result_dtype, DTypes
  <2>3. CASE a = "i64"
    BY <1>1, <1>2, <1>5, <2>3 DEF promote, div_result_dtype, DTypes
  <2> QED
    BY <2>1, <2>2, <2>3 DEF DTypes
<1>6. t \in common /\ common \subseteq Safely[t] /\ \A s \in common : common \subseteq Safely[s] => s = t
  <2>1. CASE a = b
    BY <1>5, <2>1
  <2>2. CASE a # b
    <3>1. common = {"f64"} /\ t = "f64"
      BY <1>4, <2>2
    <3> HIDE DEF common, t
    <3> QED
      BY <1>1, <3>1
  <2> QED
    BY <2>1, <2>2
<1>7. ResultType(op, a, b) = Least(common)
  BY DEF ResultType
<1> HIDE DEF common, t
<1>8. Least(common) = t
  BY <1>6 DEF Least
<1> QED
  BY <1>7, <1>8 DEF t

\* What the two properties say of a call.
LEMMA BinaryAsNumPy ==
    ASSUME IsElement(x), NEW op \in ArrayOps, NEW b \in Elements, Binary(op, b)
    PROVE  ArrayCallsAsNumPy' /\ ScalarCallsAsNumPy'
<1> DEFINE t == IF op = "div" THEN div_result_dtype(x.dt, b.dt) ELSE promote(x.dt, b.dt)
           va == Cast(t, x.v)
           vb == Cast(t, b.v)
           res == Result(op, t, x.v, b.v)
           call == [op |-> op, a |-> x, b |-> b, res |-> res]
<1>1. /\ last' = call /\ (op = "power" => b.v \in Few)
      /\ IsElement(b) /\ x.dt \in DTypes /\ b.dt \in DTypes /\ Number(x.v) /\ Number(b.v)
  BY ArgumentsTake, ElementNumber DEF Binary, Call
<1>2. t \in DTypes /\ (op \in {"div", "rdiv"} => t # "i64") /\ t = ResultType(op, x.dt, b.dt)
  <2>1. t = ResultType(op, x.dt, b.dt)
    BY <1>1, ResultTypeIs
  <2>2. t \in DTypes /\ (op \in {"div", "rdiv"} => t # "i64")
    BY <1>1 DEF ArrayOps, DTypes, div_result_dtype, promote
  <2> QED
    BY <2>1, <2>2
<1> HIDE DEF t
<1>3. op = "power" => vb \in Few
  <2> SUFFICES ASSUME op = "power" PROVE vb \in Few
    OBVIOUS
  <2>1. Value(t, b.v)
    BY <1>1, <1>2, FewTake
  <2> QED
    BY <1>1, <1>2, <2>1, CastTakes
<1>4. KnownDifference(op, t, va, vb) \/ res = NumPy(op, t, va, vb)
  <2> SUFFICES ASSUME ~KnownDifference(op, t, va, vb) PROVE res = NumPy(op, t, va, vb)
    OBVIOUS
  <2>1. op \in ArrayOps \cup ScalarOps
    OBVIOUS
  <2> QED
    BY <1>1, <1>2, <1>3, <2>1, ResultAsNumPy
<1> HIDE DEF res
<1>5. /\ last'.op = op /\ last'.a = x /\ last'.b = b /\ last'.res = res
      /\ "b" \in DOMAIN last' /\ "s" \notin DOMAIN last'
  BY <1>1
<1> HIDE DEF call
<1>6. ArrayCallsAsNumPy'
  BY <1>2, <1>4, <1>5 DEF ArrayCallsAsNumPy
<1>7. ScalarCallsAsNumPy'
  BY <1>5 DEF ScalarCallsAsNumPy
<1> QED
  BY <1>6, <1>7

LEMMA ScalarAsNumPy ==
    ASSUME IsElement(x), NEW op \in ScalarOps, NEW s \in Scalars, Scalar(op, s)
    PROVE  ArrayCallsAsNumPy' /\ ScalarCallsAsNumPy'
<1> DEFINE exact == op \in {"power", "mod", "floor_divide"}
           t == IF x.dt = "i64" /\ ~exact /\ (s.float \/ op \in {"div", "rdiv"}) THEN "f64" ELSE x.dt
           res == IF exact THEN ScalarUnary(op, s) ELSE ScalarArith(op, s)
           call == [op |-> op, a |-> x, s |-> s, res |-> res]
           va == Cast(t, x.v)
           vb == Cast(t, s.v)
           d == Cast("f64", s.v)
<1>1. /\ last' = call /\ (op = "power" => s.v \in Few)
      /\ x.dt \in DTypes /\ Number(x.v) /\ Number(s.v) /\ s.v \in Int
  BY ArgumentsTake, ElementNumber DEF Scalar, Call, Number
<1>2. "f64" \in DTypes /\ t \in DTypes
  BY <1>1 DEF DTypes
<1>3. Representable("f64", s.v) => d = s.v
  <2> SUFFICES ASSUME Representable("f64", s.v) PROVE d = s.v
    OBVIOUS
  <2>1. Value("f64", s.v)
    BY <1>1, <1>2, RepresentableTakes DEF Number
  <2> QED
    BY <1>1, <1>2, <2>1, CastTakes
<1>4. IF s.float THEN Representable("f64", s.v) ELSE s.v % One = 0 /\ IsFinite(s.v)
  <2> SUFFICES ASSUME ~s.float PROVE s.v % One = 0 /\ IsFinite(s.v)
    BY ArgumentsAssumption
  <2>1. Representable("i64", s.v) /\ "i64" \in DTypes
    BY ArgumentsAssumption DEF DTypes
  <2>2. Value("i64", s.v)
    BY <1>1, <2>1, RepresentableTakes DEF Number
  <2> QED
    BY <1>1, <2>2, WholeTakes, SpecialTakes DEF Value
<1>5. s.v = NaN \/ s.v # FFloor(s.v) <=> s.v % One # 0 \/ s.v = NaN
  <2>1. CASE IsFinite(s.v)
    <3>1. FFloor(s.v) = s.v - (s.v % One)
      BY <2>1 DEF FFloor
    <3>2. s.v % One \in Int
      BY <1>1, WidthTakes
    <3> QED
      BY <1>1, <3>1, <3>2
  <2>2. CASE ~IsFinite(s.v)
    <3>1. FFloor(s.v) = s.v
      BY <2>2 DEF FFloor
    <3>2. s.v \in {NaN, Inf, -Inf}
      BY <1>1, <2>2, SpecialTakes DEF Specials
    <3> QED
      BY <3>1, <3>2, InfWhole
  <2> QED
    BY <2>1, <2>2
<1> HIDE DEF d
<1>6. ASSUME exact, t = "i64", s.float
      PROVE  res = Raised <=> s.v % One # 0 \/ s.v = NaN
  <2>1. x.dt = "i64" /\ d = s.v
    BY <1>3, <1>4, <1>6
  <2>2. Result(op, x.dt, x.v, d) # Raised
    BY <1>1, <2>1 DEF Result, Raised, Trapped, Element
  <2>3. res = IF d = NaN \/ d # FFloor(d) THEN Raised ELSE Result(op, x.dt, x.v, d)
    BY <1>6, <2>1 DEF ScalarUnary, d
  <2> QED
    BY <1>5, <2>1, <2>2, <2>3
<1>7. ASSUME ~(exact /\ t = "i64" /\ s.float), ~KnownDifference(op, t, va, vb), Representable("f64", s.v)
      PROVE  res = NumPy(op, t, va, vb)
  <2>1. d = s.v
    BY <1>3, <1>7
  <2>2. res = Result(op, t, x.v, s.v)
    <3>1. CASE exact
      <4>1. t = x.dt
        BY <3>1
      <4>2. ~(x.dt = "i64" /\ (d = NaN \/ d # FFloor(d)))
        <5> SUFFICES ASSUME x.dt = "i64" PROVE ~(d = NaN \/ d # FFloor(d))
          OBVIOUS
        <5>1. ~s.float
          BY <1>7, <3>1, <4>1
        <5>2. s.v % One = 0 /\ s.v # NaN
          BY <1>4, <5>1, SpecialTakes
        <5> QED
          BY <1>5, <2>1, <5>2
      <4>3. res = Result(op, x.dt, x.v, d)
        BY <3>1, <4>2 DEF ScalarUnary, d
      <4> QED
        BY <2>1, <4>1, <4>3
    <3>2. CASE ~exact
      BY <2>1, <3>2 DEF ScalarArith, d
    <3> QED
      BY <3>1, <3>2
  <2>3. op = "power" => vb \in Few
    <3> SUFFICES ASSUME op = "power" PROVE vb \in Few
      OBVIOUS
    <3> HIDE DEF t
    <3>1. Value(t, s.v)
      BY <1>1, <1>2, FewTake
    <3> QED
      BY <1>1, <1>2, <3>1, CastTakes
  <2>4. op \in {"div", "rdiv"} => t # "i64"
    OBVIOUS
  <2>5. op \in ArrayOps \cup ScalarOps
    OBVIOUS
  <2> HIDE DEF t, res
  <2> QED
    BY <1>1, <1>2, <1>7, <2>2, <2>3, <2>4, <2>5, ResultAsNumPy
<1> HIDE DEF res
<1>8. /\ last'.op = op /\ last'.a = x /\ last'.s = s /\ last'.res = res
      /\ "s" \in DOMAIN last' /\ "b" \notin DOMAIN last'
  BY <1>1
<1> HIDE DEF call
<1>9. ArrayCallsAsNumPy'
  BY <1>8 DEF ArrayCallsAsNumPy
<1>10. ScalarCallsAsNumPy'
  BY <1>6, <1>7, <1>8 DEF ScalarCallsAsNumPy
<1> QED
  BY <1>9, <1>10

\* The other calls say nothing of these two.
LEMMA OthersAsNumPy ==
    ASSUME last'.op \notin ArrayOps \cup ScalarOps
    PROVE  ArrayCallsAsNumPy' /\ ScalarCallsAsNumPy'
  BY DEF ArrayCallsAsNumPy, ScalarCallsAsNumPy

CallsAsNumPy == ArrayCallsAsNumPy /\ ScalarCallsAsNumPy

LEMMA CallsInit == Init => CallsAsNumPy
  BY DEF Init, CallsAsNumPy, ArrayCallsAsNumPy, ScalarCallsAsNumPy, ArrayOps, ScalarOps

LEMMA CallsStep == IInv /\ CallsAsNumPy /\ [Next]_vars => CallsAsNumPy'
<1> SUFFICES ASSUME IInv, CallsAsNumPy, [Next]_vars PROVE CallsAsNumPy'
  OBVIOUS
<1> DEFINE Others == {"none", "from_numpy", "arange", "linspace", "setitem", "clip", "astype"} \cup UnaryOps
<1>1. ASSUME last'.op \in Others PROVE CallsAsNumPy'
  <2>1. last'.op \notin ArrayOps \cup ScalarOps
    BY <1>1 DEF ArrayOps, ScalarOps, UnaryOps
  <2> QED
    BY <2>1, OthersAsNumPy DEF CallsAsNumPy
<1>2. CASE UNCHANGED vars
  <2>1. last' = last
    BY <1>2 DEF vars
  <2> QED
    BY <2>1 DEF CallsAsNumPy, ArrayCallsAsNumPy, ScalarCallsAsNumPy
<1>3. CASE Constructors
  <2>1. CASE \E e \in Elements : FromNumpy(e)
    <3>1. last'.op = "from_numpy"
      BY <2>1 DEF FromNumpy, Call
    <3> QED
      BY <1>1, <3>1
  <2>2. CASE \E start, stop \in Ends, step \in Steps, dtype \in DTypes \cup {"none"} :
                Arange(start, stop, step, dtype)
    <3>1. last'.op = "arange"
      BY <2>2 DEF Arange, Call
    <3> QED
      BY <1>1, <3>1
  <2>3. CASE \E t \in {"f64", "f32"}, start, stop \in {s.v : s \in {s \in Scalars : s.float}},
                num \in Counts, endpoint \in BOOLEAN : Linspace(t, start, stop, num, endpoint)
    <3>1. last'.op = "linspace"
      BY <2>3 DEF Linspace, Call
    <3> QED
      BY <1>1, <3>1
  <2> QED
    BY <1>3, <2>1, <2>2, <2>3 DEF Constructors
<1>4. CASE x # Empty /\ Calls
  <2>0. IsElement(x)
    BY <1>4 DEF IInv
  <2>1. CASE \E op \in ArrayOps, b \in Elements : Binary(op, b)
    BY <2>0, <2>1, BinaryAsNumPy DEF CallsAsNumPy
  <2>2. CASE \E op \in ScalarOps, s \in Scalars : Scalar(op, s)
    BY <2>0, <2>2, ScalarAsNumPy DEF CallsAsNumPy
  <2>3. CASE \E s \in Scalars : SetItem(s)
    <3>1. last'.op = "setitem"
      BY <2>3 DEF SetItem, Call
    <3> QED
      BY <1>1, <3>1
  <2>4. CASE \E lo, hi \in {s.v : s \in Scalars} : Clip(lo, hi)
    <3>1. last'.op = "clip"
      BY <2>4 DEF Clip, Call
    <3> QED
      BY <1>1, <3>1
  <2>5. CASE \E op \in UnaryOps : Unary(op)
    <3>1. last'.op \in UnaryOps
      BY <2>5 DEF Unary, Call
    <3> QED
      BY <1>1, <3>1
  <2>6. CASE \E t \in DTypes : AsType(t)
    <3>1. last'.op = "astype"
      BY <2>6 DEF AsType, Call
    <3> QED
      BY <1>1, <3>1
  <2> QED
    BY <1>4, <2>1, <2>2, <2>3, <2>4, <2>5, <2>6 DEF Calls
<1>5. CASE Assign
  <2>1. last'.op = "none"
    BY <1>5 DEF Assign
  <2> QED
    BY <1>1, <2>1
<1> QED
  BY <1>2, <1>3, <1>4, <1>5 DEF Next

\* Every operation of two arrays (no other call) returns NumPy's dtype and NumPy's
\* value, but for the differences KnownDifference lists.
THEOREM ArrayCallsReturnNumPys == Spec => []ArrayCallsAsNumPy
<1>1. CallsAsNumPy => ArrayCallsAsNumPy
  BY DEF CallsAsNumPy
<1> QED
  BY <1>1, CallsInit, CallsStep, Invariant, PTL DEF Spec

\* Every operation with a Python number does, and power, mod and floor_divide of
\* an int64 element raise for exactly the fractions and NaN.
THEOREM ScalarCallsReturnNumPys == Spec => []ScalarCallsAsNumPy
<1>1. CallsAsNumPy => ScalarCallsAsNumPy
  BY DEF CallsAsNumPy
<1> QED
  BY <1>1, CallsInit, CallsStep, Invariant, PTL DEF Spec

-----------------------------------------------------------------------------
(* Conversions keep the order *)

\* Rounding a larger number does not give a smaller one.
LEMMA RoundedGrows ==
    ASSUME NEW f \in Floats, NEW m1 \in Nat, NEW m2 \in Nat, m1 <= m2,
           NEW e1, NEW e2, Unit(f, m1, 1, e1), Unit(f, m2, 1, e2)
    PROVE  Rounded(f, m1, 1, e1) <= Rounded(f, m2, 1, e2)
<1> DEFINE P == Precision[f]
           u1 == 2 ^ e1
           u2 == 2 ^ e2
           l1 == m1 \div u1
           s1 == m1 % u1
           l2 == m2 \div u2
           s2 == m2 % u2
           up1 == 2 * s1 - u1 > 0 \/ (2 * s1 - u1 = 0 /\ l1 % 2 = 1)
           up2 == 2 * s2 - u2 > 0 \/ (2 * s2 - u2 = 0 /\ l2 % 2 = 1)
           k1 == IF up1 THEN l1 + 1 ELSE l1
           k2 == IF up2 THEN l2 + 1 ELSE l2
<1>1. /\ P \in Nat /\ P > 0 /\ e1 \in Nat /\ e2 \in Nat /\ e1 \in 0 .. TopUnit[f] /\ e2 \in 0 .. TopUnit[f]
      /\ TopUnit[f] \in Nat /\ u1 \in Nat /\ u1 > 0 /\ u2 \in Nat /\ u2 > 0
  <2>1. P \in Nat /\ P > 0 /\ TopUnit[f] \in Nat
    BY FormatTakes
  <2>2. e1 \in 0 .. TopUnit[f] /\ e2 \in 0 .. TopUnit[f]
    BY DEF Unit
  <2>3. e1 \in Nat /\ e2 \in Nat
    BY <2>1, <2>2
  <2> QED
    BY <2>1, <2>2, <2>3, TwoTakes
<1>2. Abs(m1) = m1 /\ Abs(m2) = m2 /\ 1 * u1 = u1 /\ 1 * u2 = u2
  BY <1>1 DEF Abs
<1>3. Rounded(f, m1, 1, e1) = u1 * k1 /\ Rounded(f, m2, 1, e2) = u2 * k2
  BY <1>2 DEF Rounded
<1>4. /\ l1 \in Int /\ s1 \in Int /\ m1 = l1 * u1 + s1 /\ 0 <= s1 /\ s1 < u1
      /\ l2 \in Int /\ s2 \in Int /\ m2 = l2 * u2 + s2 /\ 0 <= s2 /\ s2 < u2
  <2> HIDE DEF u1, u2
  <2> QED
    BY <1>1, Division
<1>5. k1 \in {l1, l1 + 1} /\ k2 \in {l2, l2 + 1} /\ k1 \in Int /\ k2 \in Int
  <2> HIDE DEF l1, l2, up1, up2
  <2> QED
    BY <1>4
<1> SUFFICES u1 * k1 <= u2 * k2
  BY <1>3
<1>6. ASSUME e2 < e1 PROVE FALSE
  <2>1. m1 >= 2 ^ (P + e2) * 1 /\ e2 # TopUnit[f]
    BY <1>1, <1>2, <1>6 DEF Unit
  <2>2. m2 < 2 ^ (P + e2) * 1
    BY <1>1, <1>2, <2>1 DEF Unit
  <2>3. 2 ^ (P + e2) \in Nat
    BY <1>1, TwoTakes
  <2> QED
    BY <2>1, <2>2, <2>3
<1>7. CASE e1 = e2
  <2>1. u2 = u1
    BY <1>7
  <2> HIDE DEF u1, u2, l1, s1, l2, s2
  <2>2. ASSUME l2 <= l1 - 1 PROVE FALSE
    <3>1. l2 * u1 <= (l1 - 1) * u1
      BY <1>1, <1>4, <2>2
    <3> QED
      BY <1>1, <1>4, <2>1, <3>1
  <2>3. k1 <= k2
    <3>1. CASE l1 < l2
      <4> HIDE DEF k1, k2
      <4> QED
        BY <1>4, <1>5, <3>1
    <3>2. CASE l1 = l2
      <4>1. s1 <= s2
        <5> DEFINE y == l1 * u1
        <5>1. y \in Int /\ m1 = y + s1 /\ m2 = y + s2
          BY <1>1, <1>4, <2>1, <3>2
        <5> HIDE DEF y
        <5> QED
          BY <1>4, <5>1
      <4>2. up1 => up2
        BY <1>1, <1>4, <2>1, <3>2, <4>1
      <4> HIDE DEF up1, up2
      <4> QED
        BY <1>4, <3>2, <4>2
    <3> QED
      BY <1>4, <2>2, <3>1, <3>2
  <2> HIDE DEF k1, k2
  <2> QED
    BY <1>1, <1>5, <2>1, <2>3
<1>8. CASE e1 < e2
  <2> DEFINE d == e2 - 1
             p == 2 ^ (P + d)
             c == 2 ^ (P - 1)
  <2>1. d \in Nat /\ d < e2 /\ e1 <= d /\ d \in 0 .. TopUnit[f] /\ P - 1 \in Nat
        /\ P + d = e2 + (P - 1)
    BY <1>1, <1>8
  <2>2. p \in Nat /\ m2 >= p * 1
    BY <1>1, <1>2, <2>1, TwoTakes DEF Unit
  <2>3. m1 < 2 ^ (P + e1) * 1
    BY <1>1, <1>2, <1>8 DEF Unit
  <2>4. 2 ^ (P + e1) <= p /\ 2 ^ (P + e1) \in Nat /\ 2 ^ (P + e1) = 2 ^ P * u1 /\ 2 ^ P \in Nat
    <3> HIDE DEF d
    <3>1. P + e1 \in Nat /\ P + d \in Nat /\ P + e1 <= P + d
      BY <1>1, <2>1
    <3> QED
      BY <1>1, <3>1, TwoTakes, TwoGrows, TwoAdds
  <2>5. p = c * u2 /\ c \in Nat
    <3>1. 2 ^ (e2 + (P - 1)) = u2 * c /\ c \in Nat
      BY <1>1, <2>1, TwoAdds, TwoTakes
    <3> HIDE DEF c, u2, d
    <3> QED
      BY <1>1, <2>1, <3>1
  <2> HIDE DEF d, p, c
  <2>6. u1 * k1 <= p
    <3> DEFINE w == 2 ^ P
    <3>1. w \in Nat /\ m1 < w * u1 /\ w * u1 <= p
      BY <2>2, <2>3, <2>4
    <3> HIDE DEF w, u1, u2, l1, l2, s1, s2, k1, k2
    <3>2. l1 <= w - 1
      <4> SUFFICES ASSUME l1 >= w PROVE FALSE
        BY <1>4, <3>1
      <4>1. l1 * u1 >= w * u1
        BY <1>1, <1>4, <3>1
      <4> QED
        BY <1>1, <1>4, <3>1, <4>1
    <3>3. k1 <= w
      BY <1>4, <1>5, <3>1, <3>2
    <3>4. u1 * k1 <= w * u1
      BY <1>1, <1>5, <3>1, <3>3
    <3> QED
      BY <1>1, <1>5, <2>2, <3>1, <3>4
  <2>7. p <= u2 * k2
    <3> HIDE DEF u1, u2, l1, l2, s1, s2, k1, k2
    <3>1. l2 >= c
      <4> SUFFICES ASSUME l2 <= c - 1 PROVE FALSE
        BY <1>4, <2>5
      <4>1. l2 * u2 <= (c - 1) * u2
        BY <1>1, <1>4, <2>5
      <4> QED
        BY <1>1, <1>4, <2>2, <2>5, <4>1
    <3>2. k2 >= c
      BY <1>4, <1>5, <2>5, <3>1
    <3>3. u2 * k2 >= c * u2
      BY <1>1, <1>5, <2>5, <3>2
    <3> QED
      BY <2>5, <3>3
  <2> HIDE DEF u1, u2, k1, k2
  <2> QED
    BY <1>1, <1>5, <2>2, <2>6, <2>7
<1> QED
  BY <1>1, <1>6, <1>7, <1>8

\* Conversion to a float type keeps the order.
LEMMA NearestGrows ==
    ASSUME NEW f \in Floats, NEW a \in Int, NEW b \in Int, a <= b
    PROVE  Nearest(f, a, 1) <= Nearest(f, b, 1)
<1> DEFINE Mag(e, v) == IF Rounded(f, v, 1, e) < Top(f) THEN Rounded(f, v, 1, e) ELSE Inf
<1>1. 1 \in Nat /\ 1 > 0 /\ Top(f) \in Nat /\ Top(f) <= Inf /\ Inf \in Nat
  BY FormatTakes
<1>2. PICK ea : Unit(f, a, 1, ea) /\ Nearest(f, a, 1) = Sign(a) * Mag(ea, a)
  BY <1>1, NearestChooses
<1>3. PICK eb : Unit(f, b, 1, eb) /\ Nearest(f, b, 1) = Sign(b) * Mag(eb, b)
  BY <1>1, NearestChooses
<1> DEFINE ra == Rounded(f, a, 1, ea)
           rb == Rounded(f, b, 1, eb)
<1>4. ra \in Nat /\ rb \in Nat
  <2>1. ea \in Nat /\ eb \in Nat
    BY <1>2, <1>3, FormatTakes DEF Unit
  <2> QED
    BY <1>1, <1>2, <1>3, <2>1, RoundedTakes
<1>5. \A v \in Int : \A e :
          /\ Rounded(f, v, 1, e) = Rounded(f, Abs(v), 1, e)
          /\ Unit(f, v, 1, e) => Unit(f, Abs(v), 1, e)
  <2>1. \A v \in Int : Abs(Abs(v)) = Abs(v)
    BY DEF Abs
  <2> QED
    BY <2>1 DEF Rounded, Unit
<1>6. Abs(a) \in Nat /\ Abs(b) \in Nat
  BY DEF Abs
<1>7. /\ Unit(f, Abs(a), 1, ea) /\ Unit(f, Abs(b), 1, eb)
      /\ ra = Rounded(f, Abs(a), 1, ea) /\ rb = Rounded(f, Abs(b), 1, eb)
  BY <1>2, <1>3, <1>5
<1>8. /\ Abs(a) <= Abs(b) => ra <= rb
      /\ Abs(b) <= Abs(a) => rb <= ra
  BY <1>6, <1>7, RoundedGrows
<1> HIDE DEF ra, rb
<1> DEFINE A == IF ra < Top(f) THEN ra ELSE Inf
           B == IF rb < Top(f) THEN rb ELSE Inf
<1>9. /\ A \in Nat /\ B \in Nat
      /\ Abs(a) <= Abs(b) => A <= B
      /\ Abs(b) <= Abs(a) => B <= A
  BY <1>1, <1>4, <1>8
<1>10. Nearest(f, a, 1) = Sign(a) * A /\ Nearest(f, b, 1) = Sign(b) * B
  BY <1>2, <1>3 DEF ra, rb
<1> HIDE DEF A, B
<1>11. CASE a >= 0
  <2>1. A <= B
    BY <1>9, <1>11 DEF Abs
  <2>2. (Sign(a) = 0 /\ Sign(b) \in {0, 1}) \/ (Sign(a) = 1 /\ Sign(b) = 1)
    BY <1>11 DEF Sign
  <2> QED
    BY <1>9, <1>10, <2>1, <2>2
<1>12. CASE a < 0 /\ b < 0
  <2>1. B <= A
    BY <1>9, <1>12 DEF Abs
  <2>2. Sign(a) = -1 /\ Sign(b) = -1
    BY <1>12 DEF Sign
  <2> QED
    BY <1>9, <1>10, <2>1, <2>2
<1>13. CASE a < 0 /\ b >= 0
  <2>1. Sign(a) = -1 /\ Sign(b) \in {0, 1}
    BY <1>13 DEF Sign
  <2> QED
    BY <1>9, <1>10, <2>1
<1> QED
  BY <1>11, <1>12, <1>13

\* The floor is the multiple of One below.
LEMMA FloorMultiple ==
    ASSUME NEW v \in Int, IsFinite(v)
    PROVE  \E j \in Int : FFloor(v) = j * One /\ j * One <= v /\ v < j * One + One
<1>1. One \in Nat /\ One > 0
  BY WidthTakes
<1> DEFINE j == v \div One
           r == v % One
<1>2. j \in Int /\ r \in Int /\ v = j * One + r /\ 0 <= r /\ r < One
  BY <1>1, Division
<1>3. FFloor(v) = v - r
  BY DEF FFloor
<1> HIDE DEF j, r
<1>4. j * One \in Int
  BY <1>1, <1>2
<1> DEFINE y == j * One
<1>5. y \in Int /\ v = y + r
  BY <1>2, <1>4
<1> HIDE DEF y
<1>6. FFloor(v) = y /\ y <= v /\ v < y + One
  BY <1>1, <1>2, <1>3, <1>5
<1> QED
  BY <1>2, <1>6 DEF y

LEMMA FloorGrows ==
    ASSUME NEW a \in Int, NEW b \in Int, IsFinite(a), IsFinite(b), a <= b
    PROVE  FFloor(a) <= FFloor(b)
<1>1. One \in Nat /\ One > 0
  BY WidthTakes
<1>2. PICK j \in Int : FFloor(a) = j * One /\ j * One <= a /\ a < j * One + One
  BY FloorMultiple
<1>3. PICK k \in Int : FFloor(b) = k * One /\ k * One <= b /\ b < k * One + One
  BY FloorMultiple
<1>4. ASSUME k <= j - 1 PROVE FALSE
  <2>1. k * One <= (j - 1) * One /\ (j - 1) * One = j * One - One /\ j * One \in Int /\ k * One \in Int
    BY <1>1, <1>4
  <2> DEFINE y == j * One
             z == k * One
  <2>2. z <= y - One /\ y <= a /\ b < z + One /\ y \in Int /\ z \in Int
    BY <1>2, <1>3, <2>1
  <2> HIDE DEF y, z
  <2> QED
    BY <1>1, <2>2
<1>5. j <= k
  BY <1>4
<1>6. j * One <= k * One
  BY <1>1, <1>5
<1> QED
  BY <1>2, <1>3, <1>6

\* Truncation goes towards zero.
LEMMA TruncTakes ==
    ASSUME NEW v \in Int, IsFinite(v)
    PROVE  /\ FTrunc(v) \in Int /\ FTrunc(v) % One = 0
           /\ v >= 0 => 0 <= FTrunc(v) /\ FTrunc(v) <= v /\ v < FTrunc(v) + One
           /\ v < 0 => v <= FTrunc(v) /\ FTrunc(v) <= 0 /\ FTrunc(v) < v + One
<1>1. One \in Nat /\ One > 0
  BY WidthTakes
<1>2. FTrunc(v) \in Int /\ FTrunc(v) % One = 0
  BY RoundingTakes DEF Near
<1>3. ASSUME NEW w \in Int, IsFinite(w), w >= 0
      PROVE  0 <= FFloor(w) /\ FFloor(w) <= w /\ w < FFloor(w) + One /\ FFloor(w) \in Int
  <2>1. PICK j \in Int : FFloor(w) = j * One /\ j * One <= w /\ w < j * One + One
    BY <1>3, FloorMultiple
  <2>2. j * One \in Int
    BY <1>1
  <2>3. ASSUME j <= -1 PROVE FALSE
    <3>1. j * One <= (-1) * One
      BY <1>1, <2>3
    <3> DEFINE y == j * One
    <3>2. y <= -One /\ w < y + One /\ y \in Int
      BY <1>1, <2>1, <2>2, <3>1
    <3> HIDE DEF y
    <3> QED
      BY <1>1, <1>3, <3>2
  <2>4. j * One >= 0
    BY <1>1, <2>3
  <2> QED
    BY <2>1, <2>2, <2>4
<1>4. CASE v >= 0
  <2>1. FTrunc(v) = FFloor(v)
    BY <1>4 DEF FTrunc
  <2> QED
    BY <1>2, <1>3, <1>4, <2>1
<1>5. CASE v < 0
  <2> DEFINE w == -v
  <2>1. w \in Int /\ w >= 0 /\ IsFinite(w) /\ v = -w
    BY <1>5, SpecialTakes
  <2>2. FTrunc(v) = -FFloor(w)
    BY <1>5 DEF FTrunc, FCeil
  <2> HIDE DEF w
  <2>3. 0 <= FFloor(w) /\ FFloor(w) <= w /\ w < FFloor(w) + One /\ FFloor(w) \in Int
    BY <1>3, <2>1
  <2> QED
    BY <1>1, <1>2, <1>5, <2>1, <2>2, <2>3
<1> QED
  BY <1>4, <1>5

LEMMA TruncGrows ==
    ASSUME NEW a \in Int, NEW b \in Int, IsFinite(a), IsFinite(b), a <= b
    PROVE  FTrunc(a) <= FTrunc(b)
<1>1. CASE a >= 0
  <2>1. FTrunc(a) = FFloor(a) /\ FTrunc(b) = FFloor(b)
    BY <1>1 DEF FTrunc
  <2> QED
    BY <2>1, FloorGrows
<1>2. CASE a < 0 /\ b >= 0
  <2>1. FTrunc(a) \in Int /\ FTrunc(a) <= 0 /\ FTrunc(b) \in Int /\ 0 <= FTrunc(b)
    BY <1>2, TruncTakes
  <2> QED
    BY <2>1
<1>3. CASE a < 0 /\ b < 0
  <2> DEFINE na == -a
             nb == -b
  <2>1. na \in Int /\ nb \in Int /\ nb <= na /\ IsFinite(na) /\ IsFinite(nb)
    BY SpecialTakes
  <2>2. FTrunc(a) = -FFloor(na) /\ FTrunc(b) = -FFloor(nb)
    BY <1>3 DEF FTrunc, FCeil
  <2> HIDE DEF na, nb
  <2>3. FFloor(nb) <= FFloor(na) /\ FFloor(nb) \in Int /\ FFloor(na) \in Int
    BY <2>1, FloorGrows, RoundingTakes DEF Near
  <2> QED
    BY <2>2, <2>3
<1> QED
  BY <1>1, <1>2, <1>3

\* A number in range loses only its fraction.
LEMMA InRangeTakes ==
    ASSUME NEW v \in Int, InRange("i64", v)
    PROVE  IsFinite(v) /\ Cast("i64", v) = FTrunc(v)
<1>1. PICK h \in Nat : /\ h >= 4 /\ IntMin = (-h) * One /\ IntMax = (h - 1) * One
                       /\ h * One < Inf /\ h * One \in Nat /\ One \in Nat /\ One > 0 /\ Inf \in Nat
  BY WidthTakes
<1> DEFINE w == h * One
<1>2. w \in Nat /\ IntMin = -w /\ IntMax = w - One /\ w < Inf
  BY <1>1
<1>3. -w - One < v /\ v < w
  <2> HIDE DEF w
  <2> QED
    BY <1>1, <1>2 DEF InRange
<1>4. PICK k \in Int : Inf = k * One
  <2>1. Inf = (Inf \div One) * One + (Inf % One) /\ Inf \div One \in Int
    BY <1>1, Division
  <2>2. (Inf \div One) * One \in Int
    BY <1>1, <2>1
  <2> QED
    BY <2>1, <2>2, InfWhole
<1>5. w + One <= Inf
  <2>1. h + 1 <= k
    <3> SUFFICES ASSUME k <= h PROVE FALSE
      BY <1>1
    <3>1. k * One <= h * One
      BY <1>1
    <3> QED
      BY <1>1, <1>4, <3>1
  <2>2. (h + 1) * One <= k * One /\ (h + 1) * One = h * One + One
    BY <1>1, <2>1
  <2> QED
    BY <1>4, <2>2
<1>6. IsFinite(v)
  <2> HIDE DEF w
  <2>1. -Inf < v /\ v < Inf
    BY <1>1, <1>2, <1>3, <1>5
  <2> QED
    BY <2>1, SpecialTakes
<1> DEFINE n == FTrunc(v)
<1>7. n \in Int /\ n % One = 0 /\ -w - One < n /\ n < w
  <2>1. /\ n \in Int /\ n % One = 0
        /\ v >= 0 => 0 <= n /\ n <= v
        /\ v < 0 => v <= n /\ n <= 0
    BY <1>6, TruncTakes
  <2>2. 0 < w
    BY <1>1
  <2> HIDE DEF n, w
  <2> QED
    BY <1>1, <1>2, <1>3, <2>1, <2>2
<1> HIDE DEF n
<1>8. PICK j \in Int : n = j * One
  <2>1. n = (n \div One) * One + (n % One) /\ n \div One \in Int
    BY <1>1, <1>7, Division
  <2>2. (n \div One) * One \in Int
    BY <1>1, <2>1
  <2> QED
    BY <1>7, <2>1, <2>2
<1>9. j <= h - 1
  <2> SUFFICES ASSUME j >= h PROVE FALSE
    BY <1>1
  <2>1. j * One >= h * One
    BY <1>1
  <2> QED
    BY <1>1, <1>7, <1>8, <2>1
<1>10. j >= -h
  <2> SUFFICES ASSUME j <= -h - 1 PROVE FALSE
    BY <1>1
  <2>1. j * One <= (-h - 1) * One /\ (-h - 1) * One = -(h * One) - One
    BY <1>1
  <2> QED
    BY <1>1, <1>7, <1>8, <2>1
<1>11. IntMin <= n /\ n <= IntMax
  <2>1. j * One <= (h - 1) * One /\ (-h) * One <= j * One
    BY <1>1, <1>9, <1>10
  <2> QED
    BY <1>1, <1>8, <2>1
<1>12. Cast("i64", v) = n
  BY <1>11 DEF Cast, n
<1> QED
  BY <1>6, <1>12 DEF n

\* A conversion keeps the order of what is in range.
LEMMA CastGrows ==
    ASSUME NEW t \in DTypes, NEW a, NEW b, Number(a), Number(b), a # NaN, b # NaN, a <= b,
           InRange(t, a), InRange(t, b)
    PROVE  Cast(t, a) <= Cast(t, b)
<1>1. a \in Int /\ b \in Int /\ -Inf <= a /\ b <= Inf /\ Inf \in Nat /\ -Inf <= b /\ a <= Inf
  BY SpecialTakes DEF Number
<1>2. CASE t = "i64"
  <2>1. IsFinite(a) /\ IsFinite(b) /\ Cast(t, a) = FTrunc(a) /\ Cast(t, b) = FTrunc(b)
    BY <1>1, <1>2, InRangeTakes
  <2> QED
    BY <1>1, <2>1, TruncGrows
<1>3. CASE t # "i64"
  <2>1. t \in Floats
    BY <1>3 DEF DTypes, Floats
  <2>2. ASSUME NEW v, Number(v), v # NaN
        PROVE  Cast(t, v) \in Int /\ -Inf <= Cast(t, v) /\ Cast(t, v) <= Inf
    <3>1. Value(t, Cast(t, v))
      BY <2>2, CastTakes
    <3>2. Number(Cast(t, v)) /\ Cast(t, v) \in Int
      BY <3>1, ValueTakes
    <3>3. Cast(t, v) # NaN
      <4>1. CASE IsFinite(v)
        <5>1. Cast(t, v) = Nearest(t, v, 1) /\ v \in Int
          BY <1>3, <2>2, <4>1 DEF Cast, Number
        <5>2. 1 \in Nat /\ 1 > 0
          OBVIOUS
        <5> QED
          BY <2>1, <5>1, <5>2, NearestTakes
      <4>2. CASE ~IsFinite(v)
        <5>1. Cast(t, v) = v
          BY <1>3, <4>2 DEF Cast
        <5> QED
          BY <2>2, <5>1
      <4> QED
        BY <4>1, <4>2
    <3> QED
      BY <1>1, <3>2, <3>3, SpecialTakes DEF Number
  <2>3. CASE IsFinite(a) /\ IsFinite(b)
    <3>1. Cast(t, a) = Nearest(t, a, 1) /\ Cast(t, b) = Nearest(t, b, 1)
      BY <1>3, <2>3 DEF Cast
    <3> QED
      BY <1>1, <2>1, <3>1, NearestGrows
  <2>4. CASE ~IsFinite(a)
    <3>1. Cast(t, a) = a /\ (a = Inf \/ a = -Inf)
      BY <1>1, <1>3, <2>4, SpecialTakes DEF Cast, Specials
    <3>2. CASE a = -Inf
      BY <2>2, <3>1, <3>2
    <3>3. CASE a = Inf
      <4>1. b = a
        BY <1>1, <3>3
      <4> QED
        BY <1>1, <3>1, <4>1
    <3> QED
      BY <3>1, <3>2, <3>3
  <2>5. CASE ~IsFinite(b)
    <3>1. Cast(t, b) = b /\ (b = Inf \/ b = -Inf)
      BY <1>1, <1>3, <2>5, SpecialTakes DEF Cast, Specials
    <3>2. CASE b = Inf
      BY <2>2, <3>1, <3>2
    <3>3. CASE b = -Inf
      <4>1. b = a
        BY <1>1, <3>3
      <4> QED
        BY <1>1, <3>1, <4>1
    <3> QED
      BY <3>1, <3>2, <3>3
  <2> QED
    BY <2>3, <2>4, <2>5
<1> QED
  BY <1>2, <1>3

-----------------------------------------------------------------------------
(* round, clip and item assignment *)

\* rint goes to the nearest whole number, and from a half to the even one.
LEMMA RintIs ==
    ASSUME NEW v \in Int, IsFinite(v)
    PROVE  /\ FRint(v) \in Int /\ FRint(v) % One = 0
           /\ \/ 2 * Abs(FRint(v) - v) < One
              \/ 2 * Abs(FRint(v) - v) = One /\ FRint(v) % (2 * One) = 0
<1>1. One \in Nat /\ One > 0
  BY WidthTakes
<1>2. FRint(v) \in Int /\ FRint(v) % One = 0
  BY RoundingTakes DEF Near
<1> DEFINE l == FFloor(v)
<1>3. PICK j \in Int : l = j * One /\ j * One <= v /\ v < j * One + One
  BY FloorMultiple
<1>4. l \in Int /\ l <= v /\ v < l + One
  BY <1>1, <1>3
<1>5. FRint(v) = CASE ~IsFinite(v) -> v
                   [] IsFinite(v) /\ 2 * (v - l) < One -> l
                   [] IsFinite(v) /\ 2 * (v - l) > One -> l + One
                   [] OTHER -> IF l % (2 * One) = 0 THEN l ELSE l + One
  BY DEF FRint
<1> HIDE DEF l
<1> DEFINE n == FRint(v)
<1> HIDE DEF n
<1>6. CASE 2 * (v - l) < One
  <2>1. n = l
    BY <1>1, <1>4, <1>5, <1>6 DEF n
  <2>2. 2 * Abs(n - v) < One
    BY <1>4, <1>6, <2>1 DEF Abs
  <2> QED
    BY <1>2, <2>2 DEF n
<1>7. CASE 2 * (v - l) > One
  <2>1. n = l + One
    BY <1>1, <1>4, <1>5, <1>7 DEF n
  <2>2. 2 * Abs(n - v) < One
    BY <1>1, <1>4, <1>7, <2>1 DEF Abs
  <2> QED
    BY <1>2, <2>2 DEF n
<1>8. CASE 2 * (v - l) = One
  <2>1. n = IF l % (2 * One) = 0 THEN l ELSE l + One
    BY <1>1, <1>4, <1>5, <1>8 DEF n
  <2>2. 2 * Abs(n - v) = One
    <3>1. n = l \/ n = l + One
      BY <2>1
    <3> QED
      BY <1>1, <1>4, <1>8, <3>1 DEF Abs
  <2> DEFINE w == 2 * One
             k == j \div 2
  <2>3. w \in Nat /\ w > 0 /\ w = 2 * One
    BY <1>1
  <2>4. k \in Int /\ (j = 2 * k \/ j = 2 * k + 1)
    BY Division
  <2> HIDE DEF w, k
  <2>5. (k * w) % w = 0 /\ ((k + 1) * w) % w = 0 /\ k * w \in Int
    BY <2>3, <2>4, Multiple
  <2>6. n % w = 0
    <3>1. CASE j = 2 * k
      <4>1. l = k * w
        BY <1>1, <1>3, <2>3, <2>4, <3>1
      <4>2. l % w = 0
        BY <2>5, <4>1
      <4> QED
        BY <2>1, <4>2 DEF w
    <3>2. CASE j = 2 * k + 1
      <4>1. l + One = (k + 1) * w
        BY <1>1, <1>3, <2>3, <2>4, <3>2
      <4>2. (l + One) % w = 0
        BY <2>5, <4>1
      <4> QED
        BY <2>1, <4>2 DEF w
    <3> QED
      BY <2>4, <3>1, <3>2
  <2> QED
    BY <1>2, <2>2, <2>6 DEF n, w
<1> QED
  BY <1>1, <1>4, <1>6, <1>7, <1>8

LEMMA RoundStep ==
    ASSUME IsElement(x), Unary("round") PROVE RoundsAndClips'
<1> DEFINE t == IF x.dt = "i64" THEN "f64" ELSE x.dt
           v == Cast(t, x.v)
           res == Element(t, FRint(v))
<1>1. last'.op = "round" /\ last'.a = x /\ last'.res = res
  BY DEF Unary, Call, UnaryValue, RoundHalfEven
<1>2. /\ t \in Floats /\ t \in DTypes /\ t # "i64" /\ Number(x.v) /\ x.v \in Int
      /\ res.dt = t /\ res.v = FRint(v)
  BY ElementNumber DEF DTypes, Floats, Element
<1>3. Float(t, v) /\ v \in Int
  <2>1. Value(t, v)
    BY <1>2, CastTakes
  <2> HIDE DEF t, v
  <2> QED
    BY <1>2, <2>1, FloatTakes DEF Value
<1>4. One \in Nat /\ One > 0
  BY WidthTakes
<1>5. ASSUME IsFinite(x.v)
      PROVE  /\ FRint(v) % One = 0
             /\ \/ 2 * Abs(FRint(v) - v) < One
                \/ 2 * Abs(FRint(v) - v) = One /\ FRint(v) % (2 * One) = 0
  <2>1. v # NaN
    <3>1. v = Nearest(t, x.v, 1)
      BY <1>2, <1>5 DEF Cast
    <3>2. 1 \in Nat /\ 1 > 0
      OBVIOUS
    <3> HIDE DEF t, v
    <3> QED
      BY <1>2, <3>1, <3>2, NearestTakes
  <2> HIDE DEF t, v
  <2>2. CASE IsFinite(v)
    BY <1>3, <2>2, RintIs
  <2>3. CASE ~IsFinite(v)
    <3>1. FRint(v) = v
      BY <2>3 DEF FRint
    <3>2. v = Inf \/ v = -Inf
      BY <1>2, <1>3, <2>1, <2>3, FloatTakes DEF Specials
    <3>3. v % One = 0 /\ Abs(v - v) = 0
      BY <1>3, <3>2, InfWhole DEF Abs
    <3> QED
      BY <1>4, <3>1, <3>3
  <2> QED
    BY <2>2, <2>3
<1>6. Cast(last'.res.dt, last'.a.v) = v /\ last'.res.dt = t /\ last'.res.v = FRint(v)
  BY <1>1, <1>2
<1> HIDE DEF t, v, res
<1> QED
  BY <1>1, <1>2, <1>5, <1>6 DEF RoundsAndClips

LEMMA ClipIs ==
    ASSUME IsElement(x), NEW lo, NEW hi, Number(lo), Number(hi), Clip(lo, hi)
    PROVE  RoundsAndClips'
<1> DEFINE l == Cast(x.dt, Cast("f64", lo))
           h == Cast(x.dt, Cast("f64", hi))
           v == IF Less(x.v, l) THEN l ELSE x.v
           w == IF Less(h, v) THEN h ELSE v
           cl == Cast(x.dt, lo)
           ch == Cast(x.dt, hi)
<1>1. /\ last'.op = "clip" /\ last'.a = x /\ last'.lo = lo /\ last'.hi = hi
      /\ last'.res.dt = x.dt /\ last'.res.v = w
  BY DEF Clip, Call, Element
<1>2. x.dt \in DTypes /\ x.v \in Int /\ "f64" \in DTypes /\ Number(x.v) /\ NaN = Inf + 1 /\ Inf \in Nat
  BY ElementNumber, SpecialTakes DEF DTypes
<1>3. SUFFICES ASSUME lo <= hi, NaN \notin {lo, hi, x.v},
                      \A y \in {lo, hi} : InRange(x.dt, y) /\ Representable("f64", y)
               PROVE  w = Max({cl, Min({x.v, ch})})
  <2> HIDE DEF w, cl, ch
  <2> QED
    BY <1>1 DEF RoundsAndClips, cl, ch
<1>4. Cast("f64", lo) = lo /\ Cast("f64", hi) = hi
  <2>1. Value("f64", lo) /\ Value("f64", hi)
    BY <1>2, <1>3, RepresentableTakes DEF Number
  <2> QED
    BY <1>2, <2>1, CastTakes
<1>5. l = cl /\ h = ch
  BY <1>4
<1>6. cl <= ch /\ cl \in Int /\ ch \in Int /\ Number(cl) /\ Number(ch)
  <2>1. cl <= ch
    BY <1>2, <1>3, CastGrows
  <2>2. Value(x.dt, cl) /\ Value(x.dt, ch)
    BY <1>2, CastTakes
  <2> HIDE DEF cl, ch
  <2> QED
    BY <1>2, <2>1, <2>2, ValueTakes
<1>7. cl # NaN /\ ch # NaN
  <2>1. ASSUME NEW y, Number(y), y # NaN, InRange(x.dt, y) PROVE Cast(x.dt, y) # NaN
    <3>1. CASE x.dt = "i64"
      <4>1. Value("i64", Cast(x.dt, y))
        BY <1>2, <2>1, <3>1, CastTakes
      <4> QED
        BY <1>2, <4>1, WholeTakes
    <3>2. CASE x.dt # "i64" /\ IsFinite(y)
      <4>1. Cast(x.dt, y) = Nearest(x.dt, y, 1) /\ x.dt \in Floats /\ y \in Int
        BY <1>2, <2>1, <3>2 DEF Cast, DTypes, Floats, Number
      <4>2. 1 \in Nat /\ 1 > 0
        OBVIOUS
      <4> QED
        BY <4>1, <4>2, NearestTakes
    <3>3. CASE x.dt # "i64" /\ ~IsFinite(y)
      BY <2>1, <3>3 DEF Cast
    <3> QED
      BY <3>1, <3>2, <3>3
  <2> QED
    BY <1>3, <2>1
<1> HIDE DEF l, h, cl, ch
<1>8. v = (IF x.v < cl THEN cl ELSE x.v) /\ v \in Int /\ v # NaN
  BY <1>2, <1>3, <1>5, <1>6, <1>7 DEF Less
<1> HIDE DEF v
<1>9. w = IF ch < v THEN ch ELSE v
  BY <1>5, <1>7, <1>8 DEF Less
<1> HIDE DEF w
<1> DEFINE m == IF x.v < ch THEN x.v ELSE ch
<1>10. Min({x.v, ch}) = m /\ m \in Int
  BY <1>2, <1>6, TwoOf
<1>11. Max({cl, m}) = IF m < cl THEN cl ELSE m
  <2> HIDE DEF m
  <2> QED
    BY <1>6, <1>10, TwoOf
<1>12. w = IF m < cl THEN cl ELSE m
  BY <1>2, <1>6, <1>8, <1>9
<1> HIDE DEF m
<1> QED
  BY <1>10, <1>11, <1>12

LEMMA SetItemIs ==
    ASSUME IsElement(x), NEW s \in Scalars, SetItem(s) PROVE RoundsAndClips'
<1>1. /\ last'.op = "setitem" /\ last'.a = x /\ last'.s = s
      /\ last'.res = Element(x.dt, Cast(x.dt, Cast("f64", s.v)))
  BY DEF SetItem, Call
<1>2. Number(s.v) /\ s.v \in Int /\ "f64" \in DTypes /\ One \in Nat /\ One > 0
  BY ArgumentsTake, WidthTakes DEF DTypes, Number
<1>3. ASSUME x.dt = "i64", Representable("f64", s.v), InRange("i64", s.v)
      PROVE  /\ last'.res.dt = "i64" /\ last'.res.v % One = 0
             /\ Abs(last'.res.v) <= Abs(s.v) /\ Abs(s.v) < Abs(last'.res.v) + One
             /\ last'.res.v * s.v >= 0
  <2> DEFINE n == FTrunc(s.v)
  <2>1. Cast("f64", s.v) = s.v
    <3>1. Value("f64", s.v)
      BY <1>2, <1>3, RepresentableTakes DEF Number
    <3> QED
      BY <1>2, <3>1, CastTakes
  <2>2. IsFinite(s.v) /\ Cast("i64", s.v) = n
    BY <1>2, <1>3, InRangeTakes
  <2>3. last'.res.dt = "i64" /\ last'.res.v = n
    BY <1>1, <1>3, <2>1, <2>2 DEF Element
  <2>4. /\ n \in Int /\ n % One = 0
        /\ s.v >= 0 => 0 <= n /\ n <= s.v /\ s.v < n + One
        /\ s.v < 0 => s.v <= n /\ n <= 0 /\ n < s.v + One
    BY <1>2, <2>2, TruncTakes
  <2> HIDE DEF n
  <2>5. Abs(n) <= Abs(s.v) /\ Abs(s.v) < Abs(n) + One
    BY <1>2, <2>4 DEF Abs
  <2>6. n * s.v >= 0
    <3>1. CASE s.v >= 0
      BY <1>2, <2>4, <3>1
    <3>2. CASE s.v < 0
      <4> DEFINE p == -n
                 q == -s.v
      <4>1. p \in Nat /\ q \in Nat /\ n = -p /\ s.v = -q
        BY <1>2, <2>4, <3>2
      <4> HIDE DEF p, q
      <4>2. p * q >= 0 /\ (-p) * (-q) = p * q
        BY <4>1
      <4> QED
        BY <4>1, <4>2
    <3> QED
      BY <1>2, <3>1, <3>2
  <2> QED
    BY <2>3, <2>4, <2>5, <2>6
<1> QED
  BY <1>1, <1>3 DEF RoundsAndClips

LEMMA OthersRoundAndClip ==
    ASSUME last'.op \notin {"round", "clip", "setitem"} PROVE RoundsAndClips'
  BY DEF RoundsAndClips

LEMMA RoundsInit == Init => RoundsAndClips
  BY DEF Init, RoundsAndClips

LEMMA RoundsStep == IInv /\ RoundsAndClips /\ [Next]_vars => RoundsAndClips'
<1> SUFFICES ASSUME IInv, RoundsAndClips, [Next]_vars PROVE RoundsAndClips'
  OBVIOUS
<1>1. CASE UNCHANGED vars
  <2>1. last' = last
    BY <1>1 DEF vars
  <2> QED
    BY <2>1 DEF RoundsAndClips
<1>2. CASE Constructors
  <2>1. CASE \E e \in Elements : FromNumpy(e)
    <3>1. last'.op = "from_numpy"
      BY <2>1 DEF FromNumpy, Call
    <3> QED
      BY <3>1, OthersRoundAndClip
  <2>2. CASE \E start, stop \in Ends, step \in Steps, dtype \in DTypes \cup {"none"} :
                Arange(start, stop, step, dtype)
    <3>1. last'.op = "arange"
      BY <2>2 DEF Arange, Call
    <3> QED
      BY <3>1, OthersRoundAndClip
  <2>3. CASE \E t \in {"f64", "f32"}, start, stop \in {s.v : s \in {s \in Scalars : s.float}},
                num \in Counts, endpoint \in BOOLEAN : Linspace(t, start, stop, num, endpoint)
    <3>1. last'.op = "linspace"
      BY <2>3 DEF Linspace, Call
    <3> QED
      BY <3>1, OthersRoundAndClip
  <2> QED
    BY <1>2, <2>1, <2>2, <2>3 DEF Constructors
<1>3. CASE x # Empty /\ Calls
  <2>0. IsElement(x)
    BY <1>3 DEF IInv
  <2>1. CASE \E op \in ArrayOps, b \in Elements : Binary(op, b)
    <3>1. last'.op \in ArrayOps
      BY <2>1 DEF Binary, Call
    <3> QED
      BY <3>1, OthersRoundAndClip DEF ArrayOps
  <2>2. CASE \E op \in ScalarOps, s \in Scalars : Scalar(op, s)
    <3>1. last'.op \in ScalarOps
      BY <2>2 DEF Scalar, Call
    <3> QED
      BY <3>1, OthersRoundAndClip DEF ScalarOps
  <2>3. CASE \E s \in Scalars : SetItem(s)
    BY <2>0, <2>3, SetItemIs
  <2>4. CASE \E lo, hi \in {s.v : s \in Scalars} : Clip(lo, hi)
    <3>1. PICK lo \in {s.v : s \in Scalars}, hi \in {s.v : s \in Scalars} : Clip(lo, hi)
      BY <2>4
    <3>2. Number(lo) /\ Number(hi)
      BY ArgumentsTake
    <3> QED
      BY <2>0, <3>1, <3>2, ClipIs
  <2>5. CASE \E op \in UnaryOps : Unary(op)
    <3>1. PICK op \in UnaryOps : Unary(op)
      BY <2>5
    <3>2. CASE op = "round"
      BY <2>0, <3>1, <3>2, RoundStep
    <3>3. CASE op # "round"
      <4>1. last'.op = op
        BY <3>1 DEF Unary, Call
      <4> QED
        BY <3>3, <4>1, OthersRoundAndClip DEF UnaryOps
    <3> QED
      BY <3>2, <3>3
  <2>6. CASE \E t \in DTypes : AsType(t)
    <3>1. last'.op = "astype"
      BY <2>6 DEF AsType, Call
    <3> QED
      BY <3>1, OthersRoundAndClip
  <2> QED
    BY <1>3, <2>1, <2>2, <2>3, <2>4, <2>5, <2>6 DEF Calls
<1>4. CASE Assign
  <2>1. last'.op = "none"
    BY <1>4 DEF Assign
  <2> QED
    BY <2>1, OthersRoundAndClip
<1> QED
  BY <1>1, <1>2, <1>3, <1>4 DEF Next

\* round goes to the nearest and from a half to the even integer, clip to the
\* nearest number between its bounds, and an item assignment loses a fraction only.
THEOREM RoundsClipsStores == Spec => []RoundsAndClips
  BY RoundsInit, RoundsStep, Invariant, PTL DEF Spec
=============================================================================
