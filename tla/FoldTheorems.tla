---------------------------- MODULE FoldTheorems ----------------------------
(***************************************************************************)
(* Sums over sets of indices, in any commutative monoid: that the folds of *)
(* the community modules are defined, and that a sum does not depend on    *)
(* the order in which, or the groups by which, it is taken. Induction is   *)
(* by the least counterexample in a set of natural numbers.                *)
(***************************************************************************)
EXTENDS Integers, FiniteSetsExt, FiniteSetTheorems, NaturalsInduction, WellFoundedInduction, TLAPS

-----------------------------------------------------------------------------
(* Numbers *)

\* A set of natural numbers that is not empty has a least member.
LEMMA LeastMember ==
    ASSUME NEW T, T \subseteq Nat, T # {}
    PROVE  \E n \in T : \A m \in T : n <= m
<1> DEFINE R == {ss \in Nat \X Nat : ss[1] < ss[2]}
<1>1. IsWellFoundedOn(R, Nat)
  <2>1. OpToRel(<, Nat) = R
    BY DEF OpToRel
  <2> QED
    BY <2>1, NatLessThanWellFounded
<1>2. PICK n \in T : \A m \in Nat : <<m, n>> \in R => ~(m \in T)
  BY <1>1, WFMin, Zenon
<1>3. \A m \in T : n <= m
  <2> SUFFICES ASSUME NEW m \in T, ~(n <= m) PROVE FALSE
    OBVIOUS
  <2>1. <<m, n>> \in R
    OBVIOUS
  <2> QED
    BY <1>2, <2>1
<1> QED
  BY <1>2, <1>3

\* A set that has 0, and with each number below n its successor, has n.
LEMMA Reaches ==
    ASSUME NEW n \in Nat, NEW T, 0 \in T, \A k \in 0 .. n - 1 : k \in T => k + 1 \in T
    PROVE  n \in T
<1> DEFINE Bad == {k \in 0 .. n : k \notin T}
<1> SUFFICES ASSUME Bad # {} PROVE FALSE
  OBVIOUS
<1>1. Bad \subseteq Nat
  OBVIOUS
<1>2. PICK k \in Bad : \A m \in Bad : k <= m
  <2> HIDE DEF Bad
  <2> QED
    BY <1>1, LeastMember
<1>3. k - 1 \in 0 .. n - 1 /\ k - 1 \notin Bad
  BY <1>2
<1>4. k - 1 \in T /\ (k - 1) + 1 = k
  BY <1>3
<1> QED
  BY <1>3, <1>4

LEMMA GreatestMember ==
    ASSUME NEW n \in Nat, NEW s \in SUBSET (0 .. n), s # {}
    PROVE  Max(s) \in s /\ \A x \in s : x <= Max(s)
<1> DEFINE T == {m \in Nat : \A x \in s : x <= m}
<1>1. n \in T /\ T \subseteq Nat
  OBVIOUS
<1>2. PICK m \in T : \A k \in T : m <= k
  BY <1>1, LeastMember
<1>3. m \in s
  <2> SUFFICES ASSUME m \notin s PROVE FALSE
    OBVIOUS
  <2>1. \A x \in s : x <= m - 1
    BY <1>2
  <2>2. PICK x \in s : TRUE
    OBVIOUS
  <2>3. m - 1 \in T
    BY <2>1, <2>2
  <2> QED
    BY <1>2, <2>3
<1>4. \E x \in s : \A y \in s : x >= y
  BY <1>2, <1>3
<1>5. Max(s) \in s /\ \A y \in s : Max(s) >= y
  BY <1>4 DEF Max
<1> QED
  BY <1>5

\* What is left of a set without its greatest member.
LEMMA WithoutGreatest ==
    ASSUME NEW k \in Nat, NEW s \in SUBSET (0 .. k), s # {}
    PROVE  /\ Max(s) \in s /\ Max(s) \in 0 .. k
           /\ Max(s) > 0 => s \ {Max(s)} \in SUBSET (0 .. Max(s) - 1)
           /\ Max(s) = 0 => s \ {Max(s)} = {}
           /\ k > 0 => s \ {Max(s)} \in SUBSET (0 .. k - 1)
<1> DEFINE m == Max(s)
<1>1. m \in s /\ \A x \in s : x <= m
  BY GreatestMember
<1> HIDE DEF m
<1>2. m \in 0 .. k
  BY <1>1
<1>3. \A x \in s \ {m} : x \in 0 .. m - 1 /\ m > 0 /\ k > 0 /\ x \in 0 .. k - 1
  BY <1>1, <1>2
<1>4. m = 0 => s \ {m} = {}
  BY <1>3
<1> QED
  BY <1>1, <1>2, <1>3, <1>4 DEF m

-----------------------------------------------------------------------------
(* Folds that take the greatest index last *)

Greatest(n, base, F, g) ==
    \A s \in SUBSET (0 .. n) : g[s] = IF s = {} THEN base ELSE F[<<Max(s), g[s \ {Max(s)}]>>]

LEMMA FoldDefined ==
    ASSUME NEW n \in Nat, NEW D, NEW base \in D, NEW F \in [(0 .. n) \X D -> D]
    PROVE  \E g \in [SUBSET (0 .. n) -> D] : Greatest(n, base, F, g)
<1> DEFINE Value(g, s) == IF s = {} THEN base ELSE F[<<Max(s), g[s \ {Max(s)}]>>]
           T == {k \in 0 .. n : \E g \in [SUBSET (0 .. k) -> D] :
                                    \A s \in SUBSET (0 .. k) : g[s] = Value(g, s)}
<1>1. 0 \in T
  <2> DEFINE g == [s \in SUBSET (0 .. 0) |-> IF s = {} THEN base ELSE F[<<0, base>>]]
  <2>1. g \in [SUBSET (0 .. 0) -> D]
    OBVIOUS
  <2>2. ASSUME NEW s \in SUBSET (0 .. 0) PROVE g[s] = Value(g, s)
    <3>1. CASE s = {}
      BY <3>1
    <3>2. CASE s # {}
      <4>1. Max(s) = 0 /\ s \ {Max(s)} = {} /\ {} \in SUBSET (0 .. 0)
        BY <3>2, WithoutGreatest
      <4>2. g[{}] = base /\ g[s] = F[<<0, base>>]
        BY <3>2, <4>1
      <4> HIDE DEF g
      <4> QED
        BY <3>2, <4>1, <4>2
    <3> QED
      BY <3>1, <3>2
  <2> HIDE DEF g
  <2>3. 0 \in 0 .. n
    OBVIOUS
  <2> QED
    BY <2>1, <2>2, <2>3
<1>2. ASSUME NEW k \in 0 .. n - 1, k \in T PROVE k + 1 \in T
  <2>1. PICK g \in [SUBSET (0 .. k) -> D] : \A s \in SUBSET (0 .. k) : g[s] = Value(g, s)
    BY <1>2
  <2> DEFINE h == [s \in SUBSET (0 .. k + 1) |-> Value(g, s)]
  <2>2. ASSUME NEW s \in SUBSET (0 .. k + 1), s # {}
        PROVE  Max(s) \in 0 .. n /\ s \ {Max(s)} \in SUBSET (0 .. k)
    <3>1. k + 1 \in Nat /\ k + 1 > 0 /\ (k + 1) - 1 = k
      OBVIOUS
    <3>2. Max(s) \in 0 .. k + 1 /\ s \ {Max(s)} \in SUBSET (0 .. (k + 1) - 1)
      BY <2>2, <3>1, WithoutGreatest
    <3>3. Max(s) \in 0 .. n
      BY <3>2
    <3> QED
      BY <3>1, <3>2, <3>3
  <2>3. h \in [SUBSET (0 .. k + 1) -> D]
    BY <2>2
  <2>4. \A s \in SUBSET (0 .. k) : s \in SUBSET (0 .. k + 1) /\ h[s] = g[s]
    BY <2>1
  <2>5. \A s \in SUBSET (0 .. k + 1) : h[s] = Value(h, s)
    BY <2>2, <2>4
  <2> HIDE DEF h
  <2>6. k + 1 \in 0 .. n
    OBVIOUS
  <2> QED
    BY <2>3, <2>5, <2>6
<1>3. n \in T
  <2> HIDE DEF T
  <2> QED
    BY <1>1, <1>2, Reaches
<1> QED
  BY <1>3 DEF Greatest

-----------------------------------------------------------------------------
(* Sums *)

Monoid(D, F, e) ==
    /\ e \in D /\ F \in [D \X D -> D]
    /\ \A x \in D : F[<<e, x>>] = x
    /\ \A x, y \in D : F[<<x, y>>] = F[<<y, x>>]
    /\ \A x, y, z \in D : F[<<F[<<x, y>>], z>>] = F[<<x, F[<<y, z>>]>>]

\* S gives the sum of v over every set of indices up to n.
SumsOf(S, n, D, F, e, v) ==
    /\ S \in [SUBSET (0 .. n) -> D]
    /\ S[{}] = e
    /\ \A i \in 0 .. n : S[{i}] = v[i]
    /\ \A A, B \in SUBSET (0 .. n) : A \cap B = {} => S[A \cup B] = F[<<S[A], S[B]>>]

\* There are sums: the members of a set may be taken in any order and in any groups.
LEMMA SumsExist ==
    ASSUME NEW n \in Nat, NEW D, NEW F, NEW e, Monoid(D, F, e), NEW v \in [0 .. n -> D]
    PROVE  \E S : SumsOf(S, n, D, F, e, v)
<1> DEFINE G == [p \in (0 .. n) \X D |-> F[<<v[p[1]], p[2]>>]]
<1>1. /\ e \in D /\ F \in [D \X D -> D]
      /\ \A x \in D : F[<<e, x>>] = x
      /\ \A x, y \in D : F[<<x, y>>] = F[<<y, x>>] /\ F[<<x, y>>] \in D
      /\ \A x, y, z \in D : F[<<F[<<x, y>>], z>>] = F[<<x, F[<<y, z>>]>>]
  BY DEF Monoid
<1>swap. ASSUME NEW x \in D, NEW y \in D, NEW z \in D
       PROVE  F[<<x, F[<<y, z>>]>>] = F[<<y, F[<<x, z>>]>>]
  <2>1. F[<<x, F[<<y, z>>]>>] = F[<<F[<<x, y>>], z>>]
    BY <1>1
  <2>2. F[<<y, F[<<x, z>>]>>] = F[<<F[<<y, x>>], z>>]
    BY <1>1
  <2>3. F[<<x, y>>] = F[<<y, x>>]
    BY <1>1
  <2> QED
    BY <2>1, <2>2, <2>3
<1>2. G \in [(0 .. n) \X D -> D]
  BY <1>1
<1>3. PICK S \in [SUBSET (0 .. n) -> D] : Greatest(n, e, G, S)
  <2> HIDE DEF G
  <2> QED
    BY <1>1, <1>2, FoldDefined
<1>4. {} \in SUBSET (0 .. n) /\ S[{}] = e
  BY <1>3 DEF Greatest
<1>5. ASSUME NEW s \in SUBSET (0 .. n), s # {}
      PROVE  /\ Max(s) \in 0 .. n /\ s \ {Max(s)} \in SUBSET (0 .. n)
             /\ S[s] = F[<<v[Max(s)], S[s \ {Max(s)}]>>]
  <2>1. Max(s) \in 0 .. n /\ s \ {Max(s)} \in SUBSET (0 .. n)
    BY <1>5, WithoutGreatest
  <2>2. S[s] = G[<<Max(s), S[s \ {Max(s)}]>>]
    BY <1>3, <1>5 DEF Greatest
  <2>3. S[s \ {Max(s)}] \in D
    BY <2>1
  <2> QED
    BY <2>1, <2>2, <2>3
<1> HIDE DEF G
<1>6. ASSUME NEW i \in 0 .. n PROVE S[{i}] = v[i]
  <2>1. {i} \in SUBSET (0 .. n) /\ {i} # {}
    OBVIOUS
  <2>2. Max({i}) = i
    BY <2>1, WithoutGreatest
  <2>3. {i} \ {i} = {}
    OBVIOUS
  <2>4. S[{i}] = F[<<v[i], e>>]
    BY <1>4, <1>5, <2>1, <2>2, <2>3
  <2> QED
    BY <1>1, <2>4
\* Any member may be taken last.
<1> DEFINE T == {k \in 0 .. n : \A s \in SUBSET (0 .. k) : \A i \in s : S[s] = F[<<v[i], S[s \ {i}]>>]}
<1>7. ASSUME NEW k \in 0 .. n, k = 0 \/ k - 1 \in T PROVE k \in T
  <2> SUFFICES ASSUME NEW s \in SUBSET (0 .. k), NEW i \in s PROVE S[s] = F[<<v[i], S[s \ {i}]>>]
    OBVIOUS
  <2>1. s \in SUBSET (0 .. n) /\ s # {} /\ i \in 0 .. n /\ k \in Nat
    OBVIOUS
  <2> DEFINE m == Max(s)
  <2>2. /\ m \in s /\ m \in 0 .. n /\ m \in 0 .. k
        /\ k > 0 => s \ {m} \in SUBSET (0 .. k - 1)
        /\ m = 0 => s \ {m} = {}
    BY <2>1, WithoutGreatest
  <2>3. S[s] = F[<<v[m], S[s \ {m}]>>]
    BY <1>5, <2>1
  <2>4. \A x \in s : x <= m
    BY <2>1, GreatestMember
  <2> HIDE DEF m
  <2>5. CASE i = m
    BY <2>3, <2>5
  <2>6. CASE i # m
    <3>1. k > 0
      BY <2>1, <2>2, <2>6
    <3> DEFINE r == (s \ {m}) \ {i}
    <3>2. r \in SUBSET (0 .. n) /\ r = (s \ {i}) \ {m} /\ S[r] \in D /\ v[i] \in D /\ v[m] \in D
      BY <2>1, <2>2
    <3>3. S[s \ {m}] = F[<<v[i], S[r]>>]
      <4>1. k - 1 \in T
        BY <1>7, <3>1
      <4>2. s \ {m} \in SUBSET (0 .. k - 1) /\ i \in s \ {m}
        BY <2>2, <2>6, <3>1
      <4> QED
        BY <4>1, <4>2
    <3>4. S[s \ {i}] = F[<<v[m], S[r]>>]
      <4>1. s \ {i} \in SUBSET (0 .. n) /\ s \ {i} # {} /\ m \in s \ {i}
        BY <2>1, <2>2, <2>6
      <4>2. Max(s \ {i}) \in s \ {i} /\ \A x \in s \ {i} : x <= Max(s \ {i})
        BY <4>1, GreatestMember
      <4>3. Max(s \ {i}) = m
        <5> DEFINE x == Max(s \ {i})
        <5>1. x \in s /\ m <= x
          BY <4>1, <4>2
        <5> HIDE DEF x
        <5>2. x <= m /\ x \in Int /\ m \in Int
          BY <2>2, <2>4, <5>1
        <5>3. x = m
          BY <5>1, <5>2
        <5> QED
          BY <5>3 DEF x
      <4>4. S[s \ {i}] = F[<<v[m], S[(s \ {i}) \ {m}]>>]
        BY <1>5, <4>1, <4>3
      <4> QED
        BY <3>2, <4>4
    <3> HIDE DEF r, T
    <3>5. F[<<v[m], F[<<v[i], S[r]>>]>>] = F[<<v[i], F[<<v[m], S[r]>>]>>]
      BY <1>swap, <3>2
    <3> QED
      BY <2>3, <3>3, <3>4, <3>5
  <2> QED
    BY <2>5, <2>6
<1>8. n \in T
  <2> HIDE DEF T
  <2>1. 0 \in T
    BY <1>7
  <2>2. \A k \in 0 .. n - 1 : k \in T => k + 1 \in T
    <3> TAKE k \in 0 .. n - 1
    <3>1. k + 1 \in 0 .. n /\ (k + 1) - 1 = k
      OBVIOUS
    <3> QED
      BY <1>7, <3>1
  <2> QED
    BY <2>1, <2>2, Reaches
<1>9. \A s \in SUBSET (0 .. n) : \A i \in s : S[s] = F[<<v[i], S[s \ {i}]>>]
  BY <1>8
<1> HIDE DEF T
\* A set may be taken in two groups.
<1> DEFINE U == {k \in 0 .. n : \A A \in SUBSET (0 .. k), B \in SUBSET (0 .. n) :
                                    A \cap B = {} => S[A \cup B] = F[<<S[A], S[B]>>]}
<1>10. ASSUME NEW k \in 0 .. n, k = 0 \/ k - 1 \in U PROVE k \in U
  <2> SUFFICES ASSUME NEW A \in SUBSET (0 .. k), NEW B \in SUBSET (0 .. n), A \cap B = {}
               PROVE  S[A \cup B] = F[<<S[A], S[B]>>]
    OBVIOUS
  <2>1. CASE A = {}
    <3>1. A \cup B = B /\ S[B] \in D
      BY <2>1
    <3> QED
      BY <1>1, <1>4, <2>1, <3>1
  <2>2. CASE A # {}
    <3> DEFINE m == Max(A)
               r == A \ {m}
    <3>1. /\ m \in A /\ m \in 0 .. n /\ A \in SUBSET (0 .. n)
          /\ k > 0 => r \in SUBSET (0 .. k - 1)
          /\ k = 0 => r = {}
      <4>1. k \in Nat
        OBVIOUS
      <4>2. m \in A /\ m \in 0 .. k /\ (k > 0 => r \in SUBSET (0 .. k - 1)) /\ (m = 0 => r = {})
        BY <2>2, <4>1, WithoutGreatest
      <4> QED
        BY <4>2
    <3> HIDE DEF m
    <3>2. /\ r \in SUBSET (0 .. n) /\ r \cap B = {} /\ (A \cup B) \ {m} = r \cup B
          /\ S[r] \in D /\ S[B] \in D /\ v[m] \in D
      BY <3>1
    <3>3. S[r \cup B] = F[<<S[r], S[B]>>]
      <4>1. CASE k = 0
        <5>1. r = {} /\ r \cup B = B
          BY <3>1, <4>1
        <5> QED
          BY <1>1, <1>4, <3>2, <5>1
      <4>2. CASE k # 0
        <5>1. r \in SUBSET (0 .. k - 1) /\ k - 1 \in U
          BY <1>10, <3>1, <4>2
        <5> QED
          BY <3>2, <5>1
      <4> QED
        BY <4>1, <4>2
    <3>4. S[A] = F[<<v[m], S[r]>>]
      BY <1>9, <3>1
    <3>5. S[A \cup B] = F[<<v[m], S[r \cup B]>>]
      <4>1. A \cup B \in SUBSET (0 .. n) /\ m \in A \cup B
        BY <3>1
      <4> QED
        BY <1>9, <3>2, <4>1
    <3> HIDE DEF r, U
    <3> QED
      BY <1>1, <3>2, <3>3, <3>4, <3>5
  <2> QED
    BY <2>1, <2>2
<1>11. n \in U
  <2> HIDE DEF U
  <2>1. 0 \in U
    BY <1>10
  <2>2. \A k \in 0 .. n - 1 : k \in U => k + 1 \in U
    <3> TAKE k \in 0 .. n - 1
    <3>1. k + 1 \in 0 .. n /\ (k + 1) - 1 = k
      OBVIOUS
    <3> QED
      BY <1>10, <3>1
  <2> QED
    BY <2>1, <2>2, Reaches
<1>12. \A A, B \in SUBSET (0 .. n) : A \cap B = {} => S[A \cup B] = F[<<S[A], S[B]>>]
  BY <1>11
<1> HIDE DEF U
<1>13. SumsOf(S, n, D, F, e, v)
  BY <1>3, <1>4, <1>6, <1>12 DEF SumsOf
<1> QED
  BY <1>13
-----------------------------------------------------------------------------
(* MapThenSumSet, over a set of indices *)

Adding == [p \in Int \X Int |-> p[1] + p[2]]

\* The sum over T of what v has, as MapThenSumSet takes it: any member first.
Solves(g, T, v) ==
    g = [s \in SUBSET T |-> IF s = {} THEN 0
                            ELSE v[CHOOSE x \in s : TRUE] + g[s \ {CHOOSE x \in s : TRUE}]]

SetSum(T, v) == (CHOOSE g : Solves(g, T, v))[T]

Agree(T, v, w) == \A x \in T : v[x] = w[x]
AgreeBut(i, T, v, w) == \A x \in T : x # i => v[x] = w[x]
IntsOn(T, v) == \A x \in T : v[x] \in Int

LEMMA SetSumIsSum ==
    ASSUME NEW n \in Nat, NEW T \in SUBSET (0 .. n), NEW v, NEW u, NEW S,
           SumsOf(S, n, Int, Adding, 0, u), Agree(T, v, u)
    PROVE  SetSum(T, v) = S[T]
<1>1. /\ S \in [SUBSET (0 .. n) -> Int] /\ S[{}] = 0
      /\ \A i \in 0 .. n : S[{i}] = u[i]
      /\ \A A, B \in SUBSET (0 .. n) : A \cap B = {} => S[A \cup B] = S[A] + S[B]
  BY DEF SumsOf, Adding
<1>2. ASSUME NEW s \in SUBSET T, NEW x \in s PROVE S[s] = v[x] + S[s \ {x}]
  <2>1. s = {x} \cup (s \ {x}) /\ {x} \in SUBSET (0 .. n) /\ s \ {x} \in SUBSET (0 .. n)
        /\ {x} \cap (s \ {x}) = {} /\ x \in T /\ x \in 0 .. n
    OBVIOUS
  <2>2. S[{x} \cup (s \ {x})] = S[{x}] + S[s \ {x}]
    BY <1>1, <2>1
  <2> QED
    BY <1>1, <2>1, <2>2 DEF Agree
<1> DEFINE pick(s) == CHOOSE x \in s : TRUE
           h == [s \in SUBSET T |-> S[s]]
           g == CHOOSE g : Solves(g, T, v)
<1>3. \A s \in SUBSET T : s # {} => pick(s) \in s
  OBVIOUS
<1>4. Solves(h, T, v)
  <2>1. ASSUME NEW s \in SUBSET T
        PROVE  h[s] = IF s = {} THEN 0 ELSE v[pick(s)] + h[s \ {pick(s)}]
    <3>1. CASE s = {}
      BY <1>1, <3>1
    <3>2. CASE s # {}
      <4>1. pick(s) \in s /\ s \ {pick(s)} \in SUBSET T
        BY <1>3, <3>2
      <4>2. h[s] = S[s] /\ h[s \ {pick(s)}] = S[s \ {pick(s)}]
        BY <4>1
      <4> HIDE DEF pick, h
      <4> QED
        BY <1>2, <3>2, <4>1, <4>2
    <3> QED
      BY <3>1, <3>2
  <2>2. h = [s \in SUBSET T |-> h[s]]
    OBVIOUS
  <2> HIDE DEF h
  <2> QED
    BY <2>1, <2>2 DEF Solves
<1>5. Solves(g, T, v)
  <2> HIDE DEF h
  <2> QED
    BY <1>4
<1> HIDE DEF g, h
<1>6. \A s \in SUBSET T : g[s] = IF s = {} THEN 0 ELSE v[pick(s)] + g[s \ {pick(s)}]
  BY <1>5 DEF Solves
<1> HIDE DEF pick
<1>7. IsFiniteSet(T) /\ Cardinality(T) \in Nat
  <2>1. IsFiniteSet(0 .. n)
    BY FS_Interval
  <2>2. IsFiniteSet(T)
    BY <2>1, FS_Subset
  <2> QED
    BY <2>2, FS_CardinalityType
<1>finite. \A s \in SUBSET T : IsFiniteSet(s)
  BY <1>7, FS_Subset
<1> DEFINE K == {k \in 0 .. Cardinality(T) : \A s \in SUBSET T : Cardinality(s) = k => g[s] = S[s]}
<1>8. 0 \in K
  <2>1. ASSUME NEW s \in SUBSET T, Cardinality(s) = 0 PROVE s = {}
    BY <1>finite, <2>1, FS_EmptySet
  <2>2. g[{}] = S[{}]
    BY <1>1, <1>6
  <2>3. 0 \in 0 .. Cardinality(T)
    BY <1>7
  <2> QED
    BY <2>1, <2>2, <2>3
<1>9. ASSUME NEW k \in 0 .. Cardinality(T) - 1, k \in K PROVE k + 1 \in K
  <2>1. ASSUME NEW s \in SUBSET T, Cardinality(s) = k + 1 PROVE g[s] = S[s]
    <3>1. s # {} /\ IsFiniteSet(s)
      <4>1. IsFiniteSet(s) /\ k + 1 # 0
        BY <1>7, <1>finite
      <4> QED
        BY <2>1, <4>1, FS_EmptySet
    <3>2. pick(s) \in s /\ s \ {pick(s)} \in SUBSET T
      BY <1>3, <3>1
    <3>3. Cardinality(s \ {pick(s)}) = (k + 1) - 1
      BY <2>1, <3>1, <3>2, FS_RemoveElement
    <3>4. Cardinality(s \ {pick(s)}) = k
      BY <3>3
    <3>5. g[s \ {pick(s)}] = S[s \ {pick(s)}]
      BY <1>9, <3>2, <3>4
    <3> QED
      BY <1>2, <1>6, <3>1, <3>2, <3>5
  <2>2. k + 1 \in 0 .. Cardinality(T)
    BY <1>7
  <2> QED
    BY <2>1, <2>2
<1>10. Cardinality(T) \in K
  <2> HIDE DEF K
  <2> QED
    BY <1>7, <1>8, <1>9, Reaches
<1> QED
  BY <1>10 DEF SetSum, g

LEMMA SetSumTakes ==
    ASSUME NEW n \in Nat, NEW T \in SUBSET (0 .. n), NEW v, \A x \in T : v[x] \in Int
    PROVE  /\ SetSum(T, v) \in Int
           /\ T = {} => SetSum(T, v) = 0
           /\ \A x \in T : SetSum(T, v) = SetSum(T \ {x}, v) + v[x] /\ SetSum(T \ {x}, v) \in Int
           /\ (\A x \in T : v[x] = 0) => SetSum(T, v) = 0
           /\ \A w : Agree(T, w, v) => SetSum(T, w) = SetSum(T, v)
<1> DEFINE u == [i \in 0 .. n |-> IF i \in T THEN v[i] ELSE 0]
<1>1. u \in [0 .. n -> Int] /\ \A x \in T : u[x] = v[x]
  OBVIOUS
<1> HIDE DEF u
<1>2. Monoid(Int, Adding, 0)
  <2>1. \A x, y \in Int : Adding[<<x, y>>] = x + y
    BY DEF Adding
  <2>2. Adding \in [Int \X Int -> Int]
    BY DEF Adding
  <2>3. \A x, y \in Int : x + y = y + x /\ 0 + x = x /\ x + y \in Int
    OBVIOUS
  <2>4. \A x, y, z \in Int : (x + y) + z = x + (y + z)
    OBVIOUS
  <2> QED
    BY <2>1, <2>2, <2>3, <2>4 DEF Monoid
<1>3. PICK S : SumsOf(S, n, Int, Adding, 0, u)
  BY <1>1, <1>2, SumsExist
<1>4. \A A \in SUBSET T : \A w : Agree(A, w, v) => SetSum(A, w) = S[A]
  <2> SUFFICES ASSUME NEW A \in SUBSET T, NEW w, Agree(A, w, v)
               PROVE  SetSum(A, w) = S[A]
    OBVIOUS
  <2>1. A \in SUBSET (0 .. n)
    OBVIOUS
  <2>2. Agree(A, w, u)
    BY <1>1 DEF Agree
  <2> QED
    BY <1>3, <2>1, <2>2, SetSumIsSum
<1>5. /\ S \in [SUBSET (0 .. n) -> Int] /\ S[{}] = 0
      /\ \A i \in 0 .. n : S[{i}] = u[i]
      /\ \A A, B \in SUBSET (0 .. n) : A \cap B = {} => S[A \cup B] = S[A] + S[B]
  BY <1>3 DEF SumsOf, Adding
<1>same. \A A : Agree(A, v, v)
  BY DEF Agree
<1>6. SetSum(T, v) = S[T] /\ S[T] \in Int
  BY <1>4, <1>5, <1>same
<1>7. ASSUME NEW x \in T PROVE SetSum(T, v) = SetSum(T \ {x}, v) + v[x] /\ SetSum(T \ {x}, v) \in Int
  <2>1. T = (T \ {x}) \cup {x} /\ {x} \in SUBSET (0 .. n) /\ T \ {x} \in SUBSET (0 .. n)
        /\ {x} \cap (T \ {x}) = {} /\ x \in 0 .. n
    OBVIOUS
  <2>2. S[T] = S[T \ {x}] + S[{x}]
    BY <1>5, <2>1
  <2>3. SetSum(T \ {x}, v) = S[T \ {x}] /\ S[T \ {x}] \in Int
    BY <1>4, <1>5, <1>same, <2>1
  <2> QED
    BY <1>1, <1>5, <1>6, <2>1, <2>2, <2>3
<1>8. ASSUME \A x \in T : v[x] = 0 PROVE SetSum(T, v) = 0
  <2> DEFINE Z == [A \in SUBSET (0 .. n) |-> 0]
             z == [i \in 0 .. n |-> 0]
  <2>1. SumsOf(Z, n, Int, Adding, 0, z)
    <3>1. Adding[<<0, 0>>] = 0
      BY DEF Adding
    <3>2. \A A, B \in SUBSET (0 .. n) : A \cup B \in SUBSET (0 .. n)
      OBVIOUS
    <3> QED
      BY <3>1, <3>2 DEF SumsOf
  <2>2. Agree(T, v, z)
    BY <1>8 DEF Agree
  <2> HIDE DEF Z, z
  <2>3. SetSum(T, v) = Z[T]
    BY <2>1, <2>2, SetSumIsSum
  <2> QED
    BY <2>3 DEF Z
<1>9. T = {} => SetSum(T, v) = 0
  BY <1>5, <1>6
<1> QED
  BY <1>4, <1>6, <1>7, <1>8, <1>9

\* Two functions that agree on the indices have the same sum.
LEMMA SetSumAgree ==
    ASSUME NEW n \in Nat, NEW T \in SUBSET (0 .. n), NEW v, NEW w, IntsOn(T, v), Agree(T, w, v)
    PROVE  SetSum(T, w) = SetSum(T, v)
<1>1. \A x \in T : v[x] \in Int
  BY DEF IntsOn
<1> QED
  BY <1>1, SetSumTakes

\* One term more, at the end of an interval.
LEMMA SetSumNext ==
    ASSUME NEW lo \in Nat, NEW hi \in Nat, lo <= hi, NEW v, \A x \in lo .. hi : v[x] \in Int
    PROVE  SetSum(lo .. hi, v) = SetSum(lo .. hi - 1, v) + v[hi] /\ SetSum(lo .. hi - 1, v) \in Int
<1>1. /\ lo .. hi \in SUBSET (0 .. hi) /\ hi \in lo .. hi
      /\ (lo .. hi) \ {hi} = lo .. hi - 1
  OBVIOUS
<1> QED
  BY <1>1, SetSumTakes

\* One term replaced.
LEMMA SetSumChanged ==
    ASSUME NEW n \in Nat, NEW T \in SUBSET (0 .. n), NEW i \in T, NEW v, NEW w,
           IntsOn(T, v), w[i] \in Int, AgreeBut(i, T, w, v)
    PROVE  SetSum(T, w) = SetSum(T, v) - v[i] + w[i]
<1>1. T \ {i} \in SUBSET (0 .. n) /\ (\A x \in T : w[x] \in Int /\ v[x] \in Int)
      /\ \A x \in T \ {i} : v[x] \in Int
  BY DEF AgreeBut, IntsOn
<1>2. SetSum(T, v) = SetSum(T \ {i}, v) + v[i] /\ SetSum(T \ {i}, v) \in Int
  BY <1>1, SetSumTakes
<1>3. SetSum(T, w) = SetSum(T \ {i}, w) + w[i]
  BY <1>1, SetSumTakes
<1>4. SetSum(T \ {i}, w) = SetSum(T \ {i}, v)
  <2>1. Agree(T \ {i}, w, v)
    BY DEF AgreeBut, Agree
  <2> QED
    BY <1>1, <2>1, SetSumTakes
<1> QED
  BY <1>1, <1>2, <1>3, <1>4

LEMMA FirstChanged ==
    ASSUME NEW n \in Nat, NEW i \in 0 .. n - 1, NEW v, NEW w,
           IntsOn(0 .. n - 1, v), w[i] \in Int, AgreeBut(i, 0 .. n - 1, w, v)
    PROVE  SetSum(0 .. n - 1, w) = SetSum(0 .. n - 1, v) - v[i] + w[i]
<1> DEFINE T == 0 .. n - 1
<1>1. T \in SUBSET (0 .. n) /\ i \in T /\ IntsOn(T, v) /\ AgreeBut(i, T, w, v)
  OBVIOUS
<1> HIDE DEF T
<1>2. SetSum(T, w) = SetSum(T, v) - v[i] + w[i]
  BY <1>1, SetSumChanged
<1> QED
  BY <1>2 DEF T

\* One term that is not 0.
LEMMA SetSumOnly ==
    ASSUME NEW n \in Nat, NEW T \in SUBSET (0 .. n), NEW i \in T, NEW v,
           v[i] \in Int, \A x \in T \ {i} : v[x] = 0
    PROVE  SetSum(T, v) = v[i]
<1>1. T \ {i} \in SUBSET (0 .. n) /\ \A x \in T : v[x] \in Int
  OBVIOUS
<1>2. SetSum(T, v) = SetSum(T \ {i}, v) + v[i]
  BY <1>1, SetSumTakes
<1>3. SetSum(T \ {i}, v) = 0
  BY <1>1, SetSumTakes
<1> QED
  BY <1>2, <1>3

\* Products summed in the order they are stored, and by column: entry k of a row
\* is v[k], in column c[k], and x has the other factors.
Each(v, c, x, hi, lo) == [k \in lo .. hi |-> v[k] * x[c[k]]]
InColumn(v, c, j, hi, lo) == [k \in lo .. hi |-> IF c[k] = j THEN v[k] ELSE 0]
ByColumn(v, c, x, n, hi, lo) ==
    [j \in 0 .. n - 1 |-> SetSum(lo .. hi, InColumn(v, c, j, hi, lo)) * x[j]]

LEMMA SetSumByColumn ==
    ASSUME NEW n \in Nat, NEW lo \in Nat, NEW hi \in Int, lo - 1 <= hi,
           NEW c \in [lo .. hi -> 0 .. n - 1], NEW v \in [lo .. hi -> Int],
           NEW x \in [0 .. n - 1 -> Int]
    PROVE  SetSum(lo .. hi, Each(v, c, x, hi, lo)) = SetSum(0 .. n - 1, ByColumn(v, c, x, n, hi, lo))
<1>change. ASSUME NEW f, NEW g, NEW j \in 0 .. n - 1, IntsOn(0 .. n - 1, f), g[j] \in Int,
                  AgreeBut(j, 0 .. n - 1, g, f)
           PROVE  SetSum(0 .. n - 1, g) = SetSum(0 .. n - 1, f) - f[j] + g[j]
  BY <1>change, FirstChanged
<1> DEFINE L(m) == SetSum(lo .. lo + m - 1, Each(v, c, x, hi, lo))
           D(m, j) == SetSum(lo .. lo + m - 1, InColumn(v, c, j, hi, lo))
           Row(m) == [j \in 0 .. n - 1 |-> D(m, j) * x[j]]
           R(m) == SetSum(0 .. n - 1, Row(m))
           len == hi - lo + 1
           Equal == {m \in 0 .. len : L(m) = R(m)}
<1>1. len \in Nat /\ 0 .. n - 1 \in SUBSET (0 .. n) /\ lo + len - 1 = hi
  OBVIOUS
<1>2. ASSUME NEW m \in 0 .. len, NEW j \in 0 .. n - 1
      PROVE  /\ D(m, j) \in Int
             /\ m = 0 => D(m, j) = 0
             /\ m > 0 => D(m, j) = D(m - 1, j) + (IF c[lo + m - 1] = j THEN v[lo + m - 1] ELSE 0)
             /\ m > 0 => D(m - 1, j) \in Int
  <2> DEFINE u == InColumn(v, c, j, hi, lo)
  <2>1. \A k \in lo .. hi : u[k] = (IF c[k] = j THEN v[k] ELSE 0) /\ u[k] \in Int
    BY DEF InColumn
  <2>2. /\ lo .. lo + m - 1 \in SUBSET (0 .. lo + m) /\ lo + m \in Nat
        /\ m = 0 => lo .. lo + m - 1 = {}
        /\ \A k \in lo .. lo + m - 1 : k \in lo .. hi
    OBVIOUS
  <2> HIDE DEF u
  <2>3. D(m, j) \in Int /\ (m = 0 => D(m, j) = 0)
    BY <2>1, <2>2, SetSumTakes DEF u
  <2>4. CASE m > 0
    <3> DEFINE q == lo + m - 1
    <3>1. q \in Nat /\ lo <= q /\ q - 1 = lo + (m - 1) - 1 /\ q \in lo .. hi
      BY <2>4
    <3>2. \A k \in lo .. q : u[k] \in Int
      BY <2>1, <2>2
    <3> HIDE DEF q
    <3>3. SetSum(lo .. q, u) = SetSum(lo .. q - 1, u) + u[q] /\ SetSum(lo .. q - 1, u) \in Int
      BY <3>1, <3>2, SetSumNext
    <3>4. u[q] = IF c[q] = j THEN v[q] ELSE 0
      BY <2>1, <3>1
    <3> QED
      BY <2>3, <3>1, <3>3, <3>4 DEF u, q
  <2> QED
    BY <2>3, <2>4
<1> HIDE DEF D
<1>3. \A m \in 0 .. len : \A j \in 0 .. n - 1 : Row(m)[j] = D(m, j) * x[j] /\ Row(m)[j] \in Int
  BY <1>2
<1>4. 0 \in Equal
  <2>1. L(0) = 0
    <3>1. lo .. lo + 0 - 1 \in SUBSET (0 .. lo) /\ lo .. lo + 0 - 1 = {}
      OBVIOUS
    <3> QED
      BY <3>1, SetSumTakes
  <2>2. \A j \in 0 .. n - 1 : Row(0)[j] = 0
    <3> SUFFICES ASSUME NEW j \in 0 .. n - 1 PROVE Row(0)[j] = 0
      OBVIOUS
    <3>1. D(0, j) = 0 /\ x[j] \in Int
      BY <1>1, <1>2
    <3> QED
      BY <3>1
  <2> DEFINE f == Row(0)
  <2> HIDE DEF f, L
  <2>3. SetSum(0 .. n - 1, f) = 0
    <3>1. \A j \in 0 .. n - 1 : f[j] = 0
      BY <2>2 DEF f
    <3>2. \A j \in 0 .. n - 1 : f[j] \in Int
      BY <3>1
    <3> QED
      BY <1>1, <3>1, <3>2, SetSumTakes
  <2> QED
    BY <1>1, <2>1, <2>3 DEF f
<1>5. ASSUME NEW k \in 0 .. len - 1, k \in Equal PROVE k + 1 \in Equal
  <2> DEFINE m == k + 1
             p == lo + k
             col == c[p]
  <2>1. m \in 0 .. len /\ k \in 0 .. len /\ m > 0 /\ m - 1 = k /\ lo + m - 1 = p
        /\ p \in lo .. hi /\ p \in Nat /\ lo <= p /\ p - 1 = lo + k - 1
    BY <1>1
  <2>2. col \in 0 .. n - 1 /\ v[p] \in Int /\ x[col] \in Int
    BY <2>1
  <2>3. L(m) = L(k) + v[p] * x[col] /\ L(k) \in Int
    <3> DEFINE u == Each(v, c, x, hi, lo)
    <3>1. \A q \in lo .. p : u[q] = v[q] * x[c[q]] /\ u[q] \in Int
      <4> SUFFICES ASSUME NEW q \in lo .. p PROVE u[q] = v[q] * x[c[q]] /\ u[q] \in Int
        OBVIOUS
      <4>1. q \in lo .. hi
        BY <2>1
      <4>2. v[q] \in Int /\ x[c[q]] \in Int
        BY <4>1
      <4> QED
        BY <4>1, <4>2 DEF Each
    <3> HIDE DEF u
    <3>2. SetSum(lo .. p, u) = SetSum(lo .. p - 1, u) + u[p] /\ SetSum(lo .. p - 1, u) \in Int
      BY <2>1, <3>1, SetSumNext
    <3>3. u[p] = v[p] * x[col]
      <4>1. p \in lo .. p
        BY <2>1
      <4> QED
        BY <3>1, <4>1
    <3> HIDE DEF p, col
    <3> QED
      BY <2>1, <3>2, <3>3 DEF u
  <2>4. R(m) = R(k) - Row(k)[col] + Row(m)[col] /\ R(k) \in Int
    <3>1. ASSUME NEW j \in (0 .. n - 1) \ {col} PROVE Row(m)[j] = Row(k)[j]
      <4>1. D(m, j) = D(k, j) + 0 /\ D(k, j) \in Int
        BY <1>2, <2>1
      <4> HIDE DEF Row
      <4> QED
        BY <1>3, <2>1, <4>1
    <3>2. AgreeBut(col, 0 .. n - 1, Row(m), Row(k))
      BY <3>1 DEF AgreeBut
    <3>3. \A j \in 0 .. n - 1 : Row(k)[j] \in Int /\ Row(m)[j] \in Int
      BY <1>3, <2>1
    <3> DEFINE f == Row(k)
               g == Row(m)
    <3>4. /\ AgreeBut(col, 0 .. n - 1, g, f)
          /\ \A j \in 0 .. n - 1 : f[j] \in Int
          /\ g[col] \in Int
      BY <2>2, <3>2, <3>3
    <3> HIDE DEF f, g, col
    <3>5. SetSum(0 .. n - 1, g) = SetSum(0 .. n - 1, f) - f[col] + g[col]
      <4>1. IntsOn(0 .. n - 1, f) /\ g[col] \in Int
        BY <3>4 DEF IntsOn
      <4> QED
        BY <1>change, <2>2, <3>4, <4>1
    <3>6. SetSum(0 .. n - 1, f) \in Int
      BY <1>1, <3>4, SetSumTakes
    <3> QED
      BY <3>5, <3>6 DEF f, g
  <2>5. Row(m)[col] = Row(k)[col] + v[p] * x[col] /\ Row(k)[col] \in Int
    <3>1. D(m, col) = D(k, col) + v[p] /\ D(k, col) \in Int
      BY <1>2, <2>1, <2>2
    <3>2. Row(m)[col] = D(m, col) * x[col] /\ Row(k)[col] = D(k, col) * x[col] /\ Row(k)[col] \in Int
      BY <1>3, <2>1, <2>2
    <3> HIDE DEF D, Row, col, p, m
    <3>3. (D(k, col) + v[p]) * x[col] = D(k, col) * x[col] + v[p] * x[col]
      BY <2>2, <3>1
    <3> QED
      BY <3>1, <3>2, <3>3
  <2>6. L(k) = R(k)
    BY <1>5
  <2>7. v[p] * x[col] \in Int
    BY <2>2
  <2> HIDE DEF L, R, Row, col, p
  <2>8. L(m) = R(m)
    BY <2>3, <2>4, <2>5, <2>6, <2>7
  <2> QED
    BY <2>1, <2>8
<1>6. len \in Equal
  <2> HIDE DEF Equal, len
  <2> QED
    BY <1>1, <1>4, <1>5, Reaches
<1>7. Row(len) = ByColumn(v, c, x, n, hi, lo)
  BY <1>1 DEF ByColumn, D
<1> HIDE DEF len
<1> QED
  BY <1>1, <1>6, <1>7
=============================================================================
