-------------------------- MODULE Ownership_proofs --------------------------
(***************************************************************************)
(* Memory safety of the Array/NumPy bridge for any finite set of threads,  *)
(* variables, objects and blocks. The inductive invariant is that every    *)
(* count is exact, that each pointer into memory follows the chain of      *)
(* owners, and that owners close no circle.                                *)
(***************************************************************************)
EXTENDS Ownership, FiniteSetTheorems, TLAPS

-----------------------------------------------------------------------------
(* The inductive invariant *)

TypeOK ==
    /\ names \in [Names -> Objects \cup {None}]
    /\ kind \in [Objects -> {"free", "array", "ndarray"}]
    /\ refs \in [Objects -> Nat]
    /\ owner \in [Objects -> Things \cup {None}]
    /\ data \in [Objects -> Things \cup {None}]
    /\ uses \in [Blocks -> Nat]
    /\ keep \in [Blocks -> Objects \cup {None}]
    /\ gil \in Threads \cup {None}
    /\ pc \in [Threads -> {"idle", "kernel", "return"}]
    /\ args \in [Threads -> (Objects \cup {None}) \X (Objects \cup {None})]
    /\ temp \in [Threads -> Blocks \cup {None}]
    /\ todo \in [1 .. 3 -> Things \cup {None}]

\* What a reference of x goes to: an Array's block, a borrow's ndarray, the
\* Array of an exported ndarray.
Holds(x) == IF x \in Blocks THEN keep[x] ELSE owner[x]

\* The memory that x gives access to, where d and k are data and keep.
Memory(d, k, x) == IF x \in Objects THEN d[x] ELSE IF k[x] = None THEN x ELSE d[k[x]]

\* An object that is not there has no references and holds none; an Array owns
\* a share of a block, an ndarray an Array or nothing.
KindsAgree ==
    /\ \A o \in Objects :
        /\ kind[o] = "free" <=> refs[o] = 0
        /\ kind[o] = "free" => owner[o] = None
        /\ kind[o] = "array" => owner[o] \in Blocks
        /\ kind[o] = "ndarray" => owner[o] \in Objects \cup {None}
    /\ \A b \in Blocks : uses[b] = 0 => keep[b] = None

\* A kernel's local copy shares the block of its first operand, which the call
\* holds; references are given up only with the GIL.
FramesHold ==
    /\ gil = None => todo = Nothing
    /\ \A t \in Threads :
        /\ pc[t] = "idle" => args[t] = <<None, None>>
        /\ pc[t] # "kernel" => temp[t] = None
        /\ temp[t] # None => args[t][1] # None /\ owner[args[t][1]] = temp[t]

\* An Array's pointer follows its chain of owners, one link at a time.
Anchored ==
    \A o \in Objects : kind[o] # "free" =>
        data[o] = IF owner[o] = None THEN o ELSE Memory(data, keep, owner[o])

\* Owners close no circle: of any live things one is held by none of them, and
\* one holds none of them.
Acyclic ==
    \A S \in SUBSET Live : S # {} =>
        /\ \E x \in S : \A y \in S : Holds(y) # x
        /\ \E x \in S : Holds(x) \notin S

IInv == TypeOK /\ CountsExact /\ KindsAgree /\ FramesHold /\ Anchored /\ Acyclic

-----------------------------------------------------------------------------
(* Counting *)

Is(v, x) == IF v = x THEN 1 ELSE 0

LEMMA TimesNat ==
    ASSUME NEW f, IsFiniteSet(DOMAIN f), NEW x
    PROVE  /\ IsFiniteSet({i \in DOMAIN f : f[i] = x})
           /\ Times(f, x) \in Nat
<1>1. IsFiniteSet({i \in DOMAIN f : f[i] = x})
  BY FS_Subset
<1> QED
  BY <1>1, FS_CardinalityType DEF Times

\* One value of a function changes.
LEMMA TimesPut ==
    ASSUME NEW f, NEW g, NEW D, NEW d \in D, NEW x, IsFiniteSet(D),
           DOMAIN f = D, DOMAIN g = D, \A i \in D \ {d} : g[i] = f[i]
    PROVE  Times(g, x) = Times(f, x) + Is(g[d], x) - Is(f[d], x)
<1> DEFINE S == {i \in D : f[i] = x}
           T == {i \in D : g[i] = x}
<1>1. Times(f, x) = Cardinality(S) /\ Times(g, x) = Cardinality(T)
  BY DEF Times
<1>2. IsFiniteSet(S) /\ Cardinality(S) \in Nat /\ IsFiniteSet(T) /\ Cardinality(T) \in Nat
  BY FS_Subset, FS_CardinalityType
<1>3. CASE (g[d] = x) <=> (f[d] = x)
  <2>1. S = T
    BY <1>3
  <2> QED
    BY <1>1, <1>2, <1>3, <2>1 DEF Is
<1>4. CASE g[d] = x /\ f[d] # x
  <2>1. T = S \cup {d} /\ d \notin S
    BY <1>4
  <2>2. Cardinality(T) = Cardinality(S) + 1
    BY <1>2, <2>1, FS_AddElement
  <2> QED
    BY <1>1, <1>2, <1>4, <2>2 DEF Is
<1>5. CASE g[d] # x /\ f[d] = x
  <2>1. T = S \ {d} /\ d \in S
    BY <1>5
  <2>2. Cardinality(T) = Cardinality(S) - 1
    BY <1>2, <2>1, FS_RemoveElement
  <2> QED
    BY <1>1, <1>2, <1>5, <2>2 DEF Is
<1> QED
  BY <1>3, <1>4, <1>5

LEMMA TimesZero ==
    ASSUME NEW f, IsFiniteSet(DOMAIN f), NEW x
    PROVE  Times(f, x) = 0 <=> \A i \in DOMAIN f : f[i] # x
BY TimesNat, FS_EmptySet DEF Times

LEMMA SlotsFinite == IsFiniteSet(1 .. 3)
<1>1. 1 .. 3 = {1} \cup {2} \cup {3}
  OBVIOUS
<1> QED
  <2>1. IsFiniteSet({1}) /\ IsFiniteSet({2}) /\ IsFiniteSet({3})
    BY FS_Singleton, Zenon
  <2>2. IsFiniteSet({1} \cup {2})
    BY <2>1, FS_Union, Zenon
  <2>3. IsFiniteSet(({1} \cup {2}) \cup {3})
    BY <2>1, <2>2, FS_Union, Zenon
  <2> QED
    BY <1>1, <2>3

\* The reference counts are about things, of which there are finitely many.
LEMMA HoldersType ==
    ASSUME TypeOK, NEW x \in Things
    PROVE  /\ Times(names, x) \in Nat /\ Times(owner, x) \in Nat /\ Times(keep, x) \in Nat
           /\ Times(temp, x) \in Nat /\ Times(todo, x) \in Nat
           /\ Times(Operand(1), x) \in Nat
           /\ Times(Operand(2), x) \in Nat
<1>1. /\ DOMAIN names = Names /\ DOMAIN owner = Objects /\ DOMAIN keep = Blocks
      /\ DOMAIN temp = Threads /\ DOMAIN todo = 1 .. 3
      /\ DOMAIN Operand(1) = Threads /\ DOMAIN Operand(2) = Threads
  BY DEF TypeOK, Operand
<1> QED
  BY <1>1, TimesNat, SlotsFinite, FinitenessAssumption

\* The count of holders in three parts: what the program's variables name and a
\* thread gives up, what things hold, and what calls in progress hold.
Bound(x) == Times(names, x) + Times(todo, x)
Linked(x) == Times(owner, x) + Times(keep, x)
Framed(x) == Times(temp, x) + (Times(Operand(1), x) + Times(Operand(2), x))

LEMMA Parts ==
    ASSUME TypeOK, NEW x \in Things
    PROVE  /\ Bound(x) \in Nat /\ Linked(x) \in Nat /\ Framed(x) \in Nat
           /\ Holders(x) = Bound(x) + Linked(x) + Framed(x)
<1>1. /\ Times(names, x) \in Nat /\ Times(owner, x) \in Nat /\ Times(keep, x) \in Nat
      /\ Times(temp, x) \in Nat /\ Times(todo, x) \in Nat
      /\ Times(Operand(1), x) \in Nat /\ Times(Operand(2), x) \in Nat
  BY HoldersType
<1> QED
  BY <1>1 DEF Holders, Bound, Linked, Framed

\* Whoever holds x, its count of holders is not 0.
LEMMA Unheld ==
    ASSUME TypeOK, NEW x \in Things, Holders(x) = 0
    PROVE  /\ \A n \in Names : names[n] # x
           /\ \A o \in Objects : owner[o] # x
           /\ \A b \in Blocks : keep[b] # x
           /\ \A t \in Threads : temp[t] # x /\ args[t][1] # x /\ args[t][2] # x
           /\ \A i \in 1 .. 3 : todo[i] # x
<1>1. /\ DOMAIN names = Names /\ DOMAIN owner = Objects /\ DOMAIN keep = Blocks
      /\ DOMAIN temp = Threads /\ DOMAIN todo = 1 .. 3
      /\ DOMAIN Operand(1) = Threads /\ DOMAIN Operand(2) = Threads
  BY DEF TypeOK, Operand
<1>3. /\ Times(names, x) = 0 /\ Times(owner, x) = 0 /\ Times(keep, x) = 0
      /\ Times(temp, x) = 0 /\ Times(todo, x) = 0
      /\ Times(Operand(1), x) = 0 /\ Times(Operand(2), x) = 0
  <2>1. /\ Times(names, x) \in Nat /\ Times(owner, x) \in Nat /\ Times(keep, x) \in Nat
        /\ Times(temp, x) \in Nat /\ Times(todo, x) \in Nat
        /\ Times(Operand(1), x) \in Nat /\ Times(Operand(2), x) \in Nat
    BY HoldersType
  <2>2. /\ Bound(x) \in Nat /\ Linked(x) \in Nat /\ Framed(x) \in Nat
        /\ Bound(x) + Linked(x) + Framed(x) = 0
    BY Parts
  <2>3. Bound(x) = 0 /\ Linked(x) = 0 /\ Framed(x) = 0
    BY <2>2
  <2>4. Times(names, x) = 0 /\ Times(todo, x) = 0
    BY <2>1, <2>3 DEF Bound
  <2>5. Times(owner, x) = 0 /\ Times(keep, x) = 0
    BY <2>1, <2>3 DEF Linked
  <2>6. Times(temp, x) = 0 /\ Times(Operand(1), x) + Times(Operand(2), x) = 0
    BY <2>1, <2>3 DEF Framed
  <2>7. Times(Operand(1), x) = 0 /\ Times(Operand(2), x) = 0
    BY <2>1, <2>6
  <2> QED
    BY <2>4, <2>5, <2>6, <2>7
<1>4. \A n \in Names : names[n] # x
  BY <1>1, <1>3, TimesZero, FinitenessAssumption
<1>5. \A o \in Objects : owner[o] # x
  BY <1>1, <1>3, TimesZero, FinitenessAssumption
<1>6. \A b \in Blocks : keep[b] # x
  BY <1>1, <1>3, TimesZero, FinitenessAssumption
<1>7. \A t \in Threads : temp[t] # x
  BY <1>1, <1>3, TimesZero, FinitenessAssumption
<1>8. \A t \in Threads : args[t][1] # x
  BY <1>1, <1>3, TimesZero, FinitenessAssumption DEF Operand
<1>9. \A t \in Threads : args[t][2] # x
  BY <1>1, <1>3, TimesZero, FinitenessAssumption DEF Operand
<1>10. \A i \in 1 .. 3 : todo[i] # x
  BY <1>1, <1>3, TimesZero, SlotsFinite
<1> QED
  BY <1>4, <1>5, <1>6, <1>7, <1>8, <1>9, <1>10

\* The last reference, when it is being given up, is nowhere else.
LEMMA LastReference ==
    ASSUME TypeOK, NEW x \in Things, Holders(x) = 1, NEW j \in 1 .. 3, todo[j] = x
    PROVE  /\ \A n \in Names : names[n] # x
           /\ \A o \in Objects : owner[o] # x
           /\ \A b \in Blocks : keep[b] # x
           /\ \A t \in Threads : temp[t] # x /\ args[t][1] # x /\ args[t][2] # x
<1>1. /\ DOMAIN names = Names /\ DOMAIN owner = Objects /\ DOMAIN keep = Blocks
      /\ DOMAIN temp = Threads /\ DOMAIN todo = 1 .. 3
      /\ DOMAIN Operand(1) = Threads /\ DOMAIN Operand(2) = Threads
  BY DEF TypeOK, Operand
<1>0. Times(todo, x) # 0
  BY <1>1, TimesZero, SlotsFinite
<1>3. /\ Times(names, x) = 0 /\ Times(owner, x) = 0 /\ Times(keep, x) = 0
      /\ Times(temp, x) = 0
      /\ Times(Operand(1), x) = 0
      /\ Times(Operand(2), x) = 0
  <2>1. /\ Times(names, x) \in Nat /\ Times(owner, x) \in Nat /\ Times(keep, x) \in Nat
        /\ Times(temp, x) \in Nat /\ Times(todo, x) \in Nat
        /\ Times(Operand(1), x) \in Nat /\ Times(Operand(2), x) \in Nat
    BY HoldersType
  <2>2. /\ Bound(x) \in Nat /\ Linked(x) \in Nat /\ Framed(x) \in Nat
        /\ Bound(x) + Linked(x) + Framed(x) = 1
    BY Parts
  <2>3. Bound(x) # 0
    BY <1>0, <2>1 DEF Bound
  <2>4. Bound(x) = 1 /\ Linked(x) = 0 /\ Framed(x) = 0
    BY <2>2, <2>3
  <2>5. Times(names, x) = 0
    BY <1>0, <2>1, <2>4 DEF Bound
  <2>6. Times(owner, x) = 0 /\ Times(keep, x) = 0
    BY <2>1, <2>4 DEF Linked
  <2>7. Times(temp, x) = 0 /\ Times(Operand(1), x) + Times(Operand(2), x) = 0
    BY <2>1, <2>4 DEF Framed
  <2>8. Times(Operand(1), x) = 0 /\ Times(Operand(2), x) = 0
    BY <2>1, <2>7
  <2> QED
    BY <2>5, <2>6, <2>7, <2>8
<1>4. \A n \in Names : names[n] # x
  BY <1>1, <1>3, TimesZero, FinitenessAssumption
<1>5. \A o \in Objects : owner[o] # x
  BY <1>1, <1>3, TimesZero, FinitenessAssumption
<1>6. \A b \in Blocks : keep[b] # x
  BY <1>1, <1>3, TimesZero, FinitenessAssumption
<1>7. \A t \in Threads : temp[t] # x
  BY <1>1, <1>3, TimesZero, FinitenessAssumption
<1>8. \A t \in Threads : args[t][1] # x
  BY <1>1, <1>3, TimesZero, FinitenessAssumption DEF Operand
<1>9. \A t \in Threads : args[t][2] # x
  BY <1>1, <1>3, TimesZero, FinitenessAssumption DEF Operand
<1> QED
  BY <1>4, <1>5, <1>6, <1>7, <1>8, <1>9

\* The block a kernel's local copy shares has another share, its operand's.
LEMMA CopyShares ==
    ASSUME TypeOK, FramesHold, NEW t \in Threads, temp[t] # None
    PROVE  temp[t] \in Blocks /\ Holders(temp[t]) > 1
<1> DEFINE b == temp[t]
           a == args[t][1]
<1>1. b \in Blocks /\ b \in Things /\ a \in Objects /\ owner[a] = b
  BY DEF TypeOK, FramesHold, Things
<1>2. DOMAIN owner = Objects /\ DOMAIN temp = Threads
  BY DEF TypeOK
<1>3. Times(owner, b) # 0 /\ Times(temp, b) # 0
  BY <1>1, <1>2, TimesZero, FinitenessAssumption
<1>4. Linked(b) # 0 /\ Framed(b) # 0
  <2>1. /\ Times(owner, b) \in Nat /\ Times(keep, b) \in Nat /\ Times(temp, b) \in Nat
        /\ Times(Operand(1), b) \in Nat /\ Times(Operand(2), b) \in Nat
    BY <1>1, HoldersType
  <2>2. Linked(b) # 0
    BY <1>3, <2>1 DEF Linked
  <2>3. Framed(b) # 0
    BY <1>3, <2>1 DEF Framed
  <2> QED
    BY <2>2, <2>3
<1>5. /\ Bound(b) \in Nat /\ Linked(b) \in Nat /\ Framed(b) \in Nat
      /\ Holders(b) = Bound(b) + Linked(b) + Framed(b)
  BY <1>1, Parts
<1>6. Bound(b) + Linked(b) + Framed(b) > 1
  BY <1>4, <1>5
<1> QED
  BY <1>1, <1>5, <1>6

LEMMA PartsAfter ==
    ASSUME TypeOK', NEW x \in Things
    PROVE  Holders(x)' = Bound(x)' + Linked(x)' + Framed(x)'
<1>1. /\ DOMAIN names' = Names /\ DOMAIN owner' = Objects /\ DOMAIN keep' = Blocks
      /\ DOMAIN temp' = Threads /\ DOMAIN todo' = 1 .. 3
      /\ DOMAIN Operand(1)' = Threads /\ DOMAIN Operand(2)' = Threads
  BY DEF TypeOK, Operand
<1>2. /\ Times(names', x) \in Nat /\ Times(owner', x) \in Nat /\ Times(keep', x) \in Nat
      /\ Times(temp', x) \in Nat /\ Times(todo', x) \in Nat
      /\ Times(Operand(1)', x) \in Nat /\ Times(Operand(2)', x) \in Nat
  BY <1>1, TimesNat, SlotsFinite, FinitenessAssumption
<1> QED
  BY <1>2 DEF Holders, Bound, Linked, Framed, Times, Operand

\* Binding a variable and giving up what it named moves a reference; the
\* operands of a call that ends are given up, too.
LEMMA BindCounts ==
    ASSUME TypeOK, todo = Nothing, NEW t \in Threads, NEW n \in Names \cup {None},
           NEW v \in Objects \cup {None},
           NEW ops \in (Objects \cup {None}) \X (Objects \cup {None}),
           Rebind(t, n, v, ops), NEW x \in Things
    PROVE  Bound(x)' = Bound(x) + (IF n = None THEN 0 ELSE Is(v, x)) + Is(ops[1], x) + Is(ops[2], x)
<1> DEFINE w == IF n = None THEN None ELSE names[n]
           p == [todo EXCEPT ![1] = ops[1]]
           q == [p EXCEPT ![2] = ops[2]]
           T == Things \cup {None}
<1>1. /\ names \in [Names -> T] /\ todo \in [1 .. 3 -> T] /\ \A i \in 1 .. 3 : todo[i] = None
      /\ ops[1] \in T /\ ops[2] \in T /\ w \in T /\ v \in T /\ x # None
  BY AddressesAssumption DEF TypeOK, Things, Nothing
<1>2. /\ DOMAIN todo' = 1 .. 3
      /\ todo'[1] = ops[1] /\ todo'[2] = ops[2] /\ todo'[3] = w
  BY DEF Rebind, GiveUp
<1>3. /\ DOMAIN todo = 1 .. 3 /\ DOMAIN p = 1 .. 3 /\ DOMAIN q = 1 .. 3
      /\ todo[1] = None /\ p[1] = ops[1] /\ p[2] = None /\ p[3] = None
      /\ q[1] = ops[1] /\ q[2] = ops[2] /\ q[3] = None
  BY <1>1
<1> HIDE DEF p, q
<1>4. Times(p, x) = Times(todo, x) + Is(p[1], x) - Is(todo[1], x)
  <2>1. \A i \in (1 .. 3) \ {1} : p[i] = todo[i]
    BY <1>1 DEF p
  <2> QED
    BY <1>3, <2>1, TimesPut, SlotsFinite, 1 \in 1 .. 3
<1>5. Times(q, x) = Times(p, x) + Is(q[2], x) - Is(p[2], x)
  <2>1. \A i \in (1 .. 3) \ {2} : q[i] = p[i]
    BY <1>3
  <2> QED
    BY <1>3, <2>1, TimesPut, SlotsFinite, 2 \in 1 .. 3
<1>6. Times(todo', x) = Times(q, x) + Is(w, x) - Is(q[3], x)
  <2>1. \A i \in (1 .. 3) \ {3} : todo'[i] = q[i]
    BY <1>2, <1>3
  <2> QED
    BY <1>2, <1>3, <2>1, TimesPut, SlotsFinite, 3 \in 1 .. 3
<1>7. Times(names', x) = Times(names, x) + (IF n = None THEN 0 ELSE Is(v, x) - Is(names[n], x))
  <2>1. CASE n = None
    BY <2>1, HoldersType DEF Rebind
  <2>2. CASE n # None
    <3>1. /\ n \in Names /\ DOMAIN names = Names /\ DOMAIN names' = Names /\ names'[n] = v
          /\ \A m \in Names \ {n} : names'[m] = names[m]
      BY <1>1, <2>2 DEF Rebind
    <3> QED
      BY <2>2, <3>1, TimesPut, FinitenessAssumption
  <2> QED
    BY <2>1, <2>2
<1>8. Times(names, x) \in Nat /\ Times(todo, x) \in Nat
  BY HoldersType
<1>9. Bound(x)' = Times(names', x) + Times(todo', x)
  BY DEF Bound, Times
<1>10. Times(todo', x) = Times(todo, x) + Is(ops[1], x) + Is(ops[2], x) + Is(w, x)
  BY <1>1, <1>3, <1>4, <1>5, <1>6, <1>8 DEF Is
<1> QED
  BY <1>1, <1>7, <1>8, <1>9, <1>10 DEF Bound, Is

-----------------------------------------------------------------------------
(* What the counts say of a state *)

\* What somebody holds is there, and what nobody holds is not.
LEMMA HeldLives ==
    ASSUME TypeOK, CountsExact, KindsAgree
    PROVE  /\ \A x \in Things : Alive(x) <=> Holders(x) # 0
           /\ \A n \in Names : names[n] # None => Alive(names[n])
           /\ \A o \in Objects : owner[o] # None => Alive(owner[o])
           /\ \A b \in Blocks : keep[b] # None => Alive(keep[b])
           /\ \A t \in Threads : temp[t] # None => Alive(temp[t])
           /\ \A t \in Threads, i \in 1 .. 2 : args[t][i] # None => Alive(args[t][i])
           /\ \A i \in 1 .. 3 : todo[i] # None => Alive(todo[i])
<1>1. ASSUME NEW x \in Things
      PROVE  Alive(x) <=> Holders(x) # 0
  <2>1. Holders(x) = IF x \in Blocks THEN uses[x] ELSE refs[x]
    BY DEF CountsExact, Count
  <2>2. CASE x \in Blocks
    BY <2>1, <2>2 DEF Alive, TypeOK
  <2>3. CASE x \notin Blocks
    BY <2>1, <2>3 DEF Alive, KindsAgree, Things
  <2> QED
    BY <2>2, <2>3
<1>2. ASSUME NEW n \in Names, names[n] # None
      PROVE  Alive(names[n])
  <2>1. names[n] \in Things
    BY <1>2 DEF TypeOK, Things
  <2> QED
    BY <1>1, <2>1, Unheld
<1>3. ASSUME NEW o \in Objects, owner[o] # None
      PROVE  Alive(owner[o])
  <2>1. owner[o] \in Things
    BY <1>3 DEF TypeOK, Things
  <2> QED
    BY <1>1, <2>1, Unheld
<1>4. ASSUME NEW b \in Blocks, keep[b] # None
      PROVE  Alive(keep[b])
  <2>1. keep[b] \in Things
    BY <1>4 DEF TypeOK, Things
  <2> QED
    BY <1>1, <2>1, Unheld
<1>5. ASSUME NEW t \in Threads, temp[t] # None
      PROVE  Alive(temp[t])
  <2>1. temp[t] \in Things
    BY <1>5 DEF TypeOK, Things
  <2> QED
    BY <1>1, <2>1, Unheld
<1>6. ASSUME NEW t \in Threads, NEW i \in 1 .. 2, args[t][i] # None
      PROVE  Alive(args[t][i])
  <2>1. args[t][i] \in Things /\ (i = 1 \/ i = 2)
    BY <1>6 DEF TypeOK, Things
  <2> QED
    BY <1>1, <2>1, Unheld
<1>7. ASSUME NEW i \in 1 .. 3, todo[i] # None
      PROVE  Alive(todo[i])
  <2>1. todo[i] \in Things
    BY <1>7 DEF TypeOK, Things
  <2> QED
    BY <1>1, <2>1, Unheld
<1> QED
  BY <1>1, <1>2, <1>3, <1>4, <1>5, <1>6, <1>7

\* How many references a call takes on an object.
LEMMA OperandCounts ==
    ASSUME NEW ops, NEW o
    PROVE  Cardinality({i \in 1 .. 2 : ops[i] = o}) = Is(ops[1], o) + Is(ops[2], o)
<1> DEFINE S == {i \in 1 .. 2 : ops[i] = o}
<1>1. CASE ops[1] = o /\ ops[2] = o
  <2>1. S = {1} \cup {2} /\ 2 \notin {1}
    BY <1>1
  <2>2. IsFiniteSet({1}) /\ Cardinality({1}) = 1
    BY FS_Singleton, Zenon
  <2>3. Cardinality({1} \cup {2}) = Cardinality({1}) + 1
    BY <2>1, <2>2, FS_AddElement, Zenon
  <2> QED
    BY <1>1, <2>1, <2>2, <2>3 DEF Is
<1>2. CASE ops[1] = o /\ ops[2] # o
  <2>1. S = {1}
    BY <1>2
  <2>2. Cardinality({1}) = 1
    BY FS_Singleton, Zenon
  <2> QED
    BY <1>2, <2>1, <2>2 DEF Is
<1>3. CASE ops[1] # o /\ ops[2] = o
  <2>1. S = {2}
    BY <1>3
  <2>2. Cardinality(S) = 1
    BY <2>1, FS_Singleton, Zenon
  <2>3. Is(ops[1], o) = 0 /\ Is(ops[2], o) = 1
    BY <1>3 DEF Is
  <2> QED
    BY <2>2, <2>3
<1>4. CASE ops[1] # o /\ ops[2] # o
  <2>1. S = {}
    BY <1>4
  <2>2. Cardinality({}) = 0
    BY FS_EmptySet, Zenon
  <2> QED
    BY <1>4, <2>1, <2>2 DEF Is
<1> QED
  BY <1>1, <1>2, <1>3, <1>4

LEMMA OperandsType ==
    ASSUME TypeOK, NEW ops \in Operands
    PROVE  /\ ops \in (Objects \cup {None}) \X (Objects \cup {None})
           /\ ops[1] \in Objects
           /\ \A b \in Copied(ops) : b # None => kind[ops[1]] = "array" /\ b = owner[ops[1]]
<1>1. Named \subseteq Objects
  BY DEF Named, TypeOK
<1>2. \/ ops \in Named \X {None}
      \/ ops \in {o \in Named : kind[o] = "array"} \X {o \in Named : kind[o] = "array"}
  BY DEF Operands
<1>3. ops \in (Objects \cup {None}) \X (Objects \cup {None}) /\ ops[1] \in Objects
  BY <1>1, <1>2
<1>4. \A b \in Copied(ops) : b # None => kind[ops[1]] = "array" /\ b = owner[ops[1]]
  BY DEF Copied
<1> QED
  BY <1>3, <1>4

-----------------------------------------------------------------------------
(* Every step keeps the types *)

LEMMA BindType ==
    ASSUME TypeOK, NEW t \in Threads, NEW n \in Names \cup {None}, NEW v \in Objects \cup {None},
           NEW ops \in (Objects \cup {None}) \X (Objects \cup {None}), Rebind(t, n, v, ops)
    PROVE  /\ names' \in [Names -> Objects \cup {None}]
           /\ gil' \in Threads \cup {None}
           /\ todo' \in [1 .. 3 -> Things \cup {None}]
<1>1. names' \in [Names -> Objects \cup {None}]
  BY DEF Rebind, TypeOK
<1>2. gil' \in Threads \cup {None}
  BY DEF Rebind, GiveUp
<1>3. ASSUME NEW i \in 1 .. 3
      PROVE  todo'[i] \in Things \cup {None}
  <2>1. ops[1] \in Things \cup {None} /\ ops[2] \in Things \cup {None}
    BY DEF Things
  <2>2. n # None => names[n] \in Things \cup {None}
    BY DEF TypeOK, Things
  <2>3. todo'[i] = IF i < 3 THEN ops[i] ELSE IF n = None THEN None ELSE names[n]
    BY DEF Rebind, GiveUp
  <2> QED
    BY <2>1, <2>2, <2>3
<1>4. todo' = [i \in 1 .. 3 |-> todo'[i]]
  BY DEF Rebind, GiveUp
<1> QED
  BY <1>1, <1>2, <1>3, <1>4

LEMMA CreateType ==
    ASSUME TypeOK, NEW o, NEW k \in {"array", "ndarray"}, NEW own \in Things \cup {None},
           NEW mem \in Things \cup {None}, Create(o, k, own, mem)
    PROVE  /\ kind' \in [Objects -> {"free", "array", "ndarray"}]
           /\ owner' \in [Objects -> Things \cup {None}]
           /\ data' \in [Objects -> Things \cup {None}]
BY DEF Create, TypeOK

LEMMA TypeStep ==
    ASSUME TypeOK, CountsExact, KindsAgree, NEW t \in Threads, Step(t)
    PROVE  TypeOK'
<1> DEFINE NoOps == <<None, None>>
<1>0. NoOps \in (Objects \cup {None}) \X (Objects \cup {None}) /\ Named \subseteq Objects
  BY DEF Named, TypeOK
<1>a. refs \in [Objects -> Nat] /\ uses \in [Blocks -> Nat]
  BY DEF TypeOK
<1>1. ASSUME NEW n \in Names, NEW o \in Objects, NEW b \in Blocks, NewArray(t, n, o, b)
      PROVE  TypeOK'
  <2>1. Rebind(t, n, o, NoOps)
    BY <1>1 DEF NewArray
  <2> QED
    BY <1>0, <1>1, <2>1, BindType
    DEF NewArray, Create, Allocate, runVars, TypeOK, Things
<1>2. ASSUME NEW n \in Names, NEW o \in Objects, NewNdarray(t, n, o)
      PROVE  TypeOK'
  <2>1. Rebind(t, n, o, NoOps) /\ Create(o, "ndarray", None, o)
    BY <1>2 DEF NewNdarray
  <2>2. o \in Things
    BY DEF Things
  <2> QED
    BY <1>0, <1>2, <2>1, <2>2, BindType, CreateType DEF NewNdarray, blkVars, runVars, TypeOK
<1>3. ASSUME NEW n \in Names, NEW src \in Named, NEW o \in Objects, View(t, n, src, o)
      PROVE  TypeOK'
  <2>1. Rebind(t, n, o, NoOps) /\ Create(o, "array", owner[src], data[src])
    BY <1>3 DEF View
  <2>2. owner[src] \in Things \cup {None} /\ data[src] \in Things \cup {None}
    BY <1>0 DEF TypeOK
  <2>3. uses' \in [Blocks -> Nat] /\ refs' \in [Objects -> Nat]
    <3>1. owner[src] \in Blocks
      BY <1>0, <1>3 DEF View, KindsAgree
    <3> QED
      BY <1>a, <1>3, <3>1 DEF View
  <2> QED
    BY <1>0, <1>3, <2>1, <2>2, <2>3, BindType, CreateType DEF View, runVars, TypeOK
<1>4. ASSUME NEW n \in Names, NEW src \in Named, NEW o \in Objects, ToNumpy(t, n, src, o)
      PROVE  TypeOK'
  <2>1. Rebind(t, n, o, NoOps) /\ Create(o, "ndarray", src, data[src])
    BY <1>4 DEF ToNumpy
  <2>2. src \in Things /\ data[src] \in Things \cup {None}
    BY <1>0 DEF TypeOK, Things
  <2>3. refs' \in [Objects -> Nat]
    BY <1>0, <1>a, <1>4 DEF ToNumpy
  <2> QED
    BY <1>0, <1>4, <2>1, <2>2, <2>3, BindType, CreateType DEF ToNumpy, blkVars, runVars, TypeOK
<1>5. ASSUME NEW n \in Names, NEW src \in Named, NEW o \in Objects, NEW b \in Blocks,
             Borrow(t, n, src, o, b)
      PROVE  TypeOK'
  <2>1. Rebind(t, n, o, NoOps) /\ Create(o, "array", b, data[src])
    BY <1>5 DEF Borrow
  <2>2. b \in Things /\ data[src] \in Things \cup {None}
    BY <1>0 DEF TypeOK, Things
  <2>3. /\ uses' \in [Blocks -> Nat] /\ keep' \in [Blocks -> Objects \cup {None}]
        /\ refs' \in [Objects -> Nat]
    BY <1>0, <1>5 DEF Borrow, Allocate, TypeOK
  <2> QED
    BY <1>0, <1>5, <2>1, <2>2, <2>3, BindType, CreateType DEF Borrow, runVars, TypeOK
<1>6. ASSUME NEW n \in Names, Delete(t, n)
      PROVE  TypeOK'
  <2>1. Rebind(t, n, None, NoOps)
    BY <1>6 DEF Delete
  <2> QED
    BY <1>0, <1>6, <2>1, BindType DEF Delete, objVars, blkVars, runVars, TypeOK
<1>7. ASSUME NEW ops \in Operands, KernelCall(t, ops)
      PROVE  TypeOK'
  <2>1. ops \in (Objects \cup {None}) \X (Objects \cup {None})
    BY OperandsType
  <2>2. refs' \in [Objects -> Nat]
    <3>1. refs' = [o \in Objects |-> refs[o] + (Is(ops[1], o) + Is(ops[2], o))]
      BY <1>7, OperandCounts DEF KernelCall
    <3> QED
      BY <3>1 DEF TypeOK, Is
  <2>3. PICK b \in Copied(ops) : temp' = [temp EXCEPT ![t] = b] /\ uses' = Share(b)
    BY <1>7 DEF KernelCall
  <2>4. b \in Blocks \cup {None}
    <3>1. b # None => kind[ops[1]] = "array" /\ b = owner[ops[1]] /\ ops[1] \in Objects
      BY OperandsType
    <3> QED
      BY <3>1 DEF KindsAgree
  <2>5. uses' \in [Blocks -> Nat] /\ temp' \in [Threads -> Blocks \cup {None}]
    BY <2>3, <2>4 DEF Share, TypeOK
  <2> QED
    BY <1>7, <2>1, <2>2, <2>5 DEF KernelCall, TypeOK
<1>8. ASSUME KernelEnd(t)
      PROVE  TypeOK'
  <2>1. temp[t] # None => temp[t] \in Blocks /\ uses[temp[t]] > 0
    BY HeldLives DEF Alive, TypeOK
  <2>2. uses' \in [Blocks -> Nat]
    BY <1>8, <2>1 DEF KernelEnd, TypeOK
  <2> QED
    BY <1>8, <2>2 DEF KernelEnd, objVars, TypeOK
<1>9. ASSUME NEW n \in Names, NEW o \in Objects, NEW b \in Blocks, ReturnArray(t, n, o, b)
      PROVE  TypeOK'
  <2>1. Rebind(t, n, o, args[t]) /\ args[t] \in (Objects \cup {None}) \X (Objects \cup {None})
    BY <1>9 DEF ReturnArray, TypeOK
  <2> QED
    BY <1>0, <1>9, <2>1, BindType
    DEF ReturnArray, Returned, Create, Allocate, TypeOK, Things
<1>10. ASSUME ReturnOther(t)
       PROVE  TypeOK'
  <2>1. Rebind(t, None, None, args[t]) /\ args[t] \in (Objects \cup {None}) \X (Objects \cup {None})
    BY <1>10 DEF ReturnOther, TypeOK
  <2> QED
    BY <1>0, <1>10, <2>1, BindType DEF ReturnOther, Returned, objVars, blkVars, TypeOK
<1>11. ASSUME NEW i \in 1 .. 3, DropObject(t, i)
       PROVE  TypeOK'
  <2> DEFINE o == todo[i]
  <2>1. o \in Objects /\ o \notin Blocks /\ refs[o] # 0
    <3>1. o \in Objects /\ o # None /\ o \notin Blocks /\ kind[o] # "free"
      BY <1>11, HeldLives, AddressesAssumption DEF DropObject, Current, Alive
    <3> QED
      BY <3>1 DEF KindsAgree
  <2>2. refs' = [refs EXCEPT ![o] = @ - 1] /\ refs' \in [Objects -> Nat]
    BY <1>a, <1>11, <2>1 DEF DropObject
  <2>3. kind' \in [Objects -> {"free", "array", "ndarray"}]
    BY <1>11 DEF DropObject, TypeOK
  <2>4. owner' \in [Objects -> Things \cup {None}] /\ data' \in [Objects -> Things \cup {None}]
    BY <1>11 DEF DropObject, TypeOK
  <2>5. todo' \in [1 .. 3 -> Things \cup {None}]
    BY <1>11, <2>1 DEF DropObject, GiveUp, TypeOK
  <2>6. gil' \in Threads \cup {None}
    BY <1>11 DEF DropObject, GiveUp
  <2> QED
    BY <1>11, <2>2, <2>3, <2>4, <2>5, <2>6 DEF DropObject, blkVars, runVars, TypeOK
<1>12. ASSUME NEW i \in 1 .. 3, DropBlock(t, i)
       PROVE  TypeOK'
  <2> DEFINE b == todo[i]
  <2>1. b \in Blocks /\ uses[b] > 0
    BY <1>12, HeldLives DEF DropBlock, Current, Alive
  <2>2. uses' \in [Blocks -> Nat]
    BY <1>12, <2>1 DEF DropBlock, TypeOK
  <2>3. keep' \in [Blocks -> Objects \cup {None}]
    BY <1>12 DEF DropBlock, TypeOK
  <2>4. todo' \in [1 .. 3 -> Things \cup {None}]
    BY <1>12, <2>1 DEF DropBlock, GiveUp, TypeOK, Things
  <2>5. gil' \in Threads \cup {None}
    BY <1>12 DEF DropBlock, GiveUp
  <2> QED
    BY <1>12, <2>2, <2>3, <2>4, <2>5 DEF DropBlock, objVars, runVars, TypeOK
<1> QED
  BY <1>1, <1>2, <1>3, <1>4, <1>5, <1>6, <1>7, <1>8, <1>9, <1>10, <1>11, <1>12 DEF Step

-----------------------------------------------------------------------------
(* Every step keeps the counts exact *)

LEMMA After ==
    ASSUME NEW x
    PROVE  /\ Bound(x)' = Times(names', x) + Times(todo', x)
           /\ Linked(x)' = Times(owner', x) + Times(keep', x)
           /\ Framed(x)' = Times(temp', x) + (Times(Operand(1)', x) + Times(Operand(2)', x))
BY DEF Bound, Linked, Framed, Times, Operand

\* A new object holds what it is given as its owner.
LEMMA CreateCounts ==
    ASSUME TypeOK, KindsAgree, NEW o \in Objects, NEW k, NEW own, NEW mem,
           Create(o, k, own, mem), NEW x \in Things
    PROVE  Times(owner', x) = Times(owner, x) + Is(own, x)
<1>1. owner[o] = None /\ None # x
  BY AddressesAssumption DEF Create, KindsAgree, Things
<1>2. /\ DOMAIN owner = Objects /\ DOMAIN owner' = Objects /\ owner'[o] = own
      /\ \A a \in Objects \ {o} : owner'[a] = owner[a]
  BY DEF Create, TypeOK
<1>3. Times(owner', x) = Times(owner, x) + Is(owner'[o], x) - Is(owner[o], x)
  BY <1>2, TimesPut, FinitenessAssumption
<1>4. Times(owner, x) \in Nat
  BY HoldersType
<1> QED
  BY <1>1, <1>2, <1>3, <1>4 DEF Is

LEMMA AllocateCounts ==
    ASSUME TypeOK, KindsAgree, NEW b \in Blocks, NEW held, Allocate(b, held), NEW x \in Things
    PROVE  Times(keep', x) = Times(keep, x) + Is(held, x)
<1>1. keep[b] = None /\ None # x
  BY AddressesAssumption DEF Allocate, KindsAgree, Things
<1>2. /\ DOMAIN keep = Blocks /\ DOMAIN keep' = Blocks /\ keep'[b] = held
      /\ \A a \in Blocks \ {b} : keep'[a] = keep[a]
  BY DEF Allocate, TypeOK
<1>3. Times(keep', x) = Times(keep, x) + Is(keep'[b], x) - Is(keep[b], x)
  BY <1>2, TimesPut, FinitenessAssumption
<1>4. Times(keep, x) \in Nat
  BY HoldersType
<1> QED
  BY <1>1, <1>2, <1>3, <1>4 DEF Is

\* The frame of thread t takes ops, or lets go of what it has.
LEMMA FrameCounts ==
    ASSUME TypeOK, NEW t \in Threads, NEW ops \in (Objects \cup {None}) \X (Objects \cup {None}),
           args' = [args EXCEPT ![t] = ops], NEW x \in Things
    PROVE  Times(Operand(1)', x) + Times(Operand(2)', x)
             = (Times(Operand(1), x) + Times(Operand(2), x))
                 + (Is(ops[1], x) + Is(ops[2], x)) - (Is(args[t][1], x) + Is(args[t][2], x))
<1>1. ASSUME NEW i \in {1, 2}
      PROVE  Times(Operand(i)', x) = Times(Operand(i), x) + Is(ops[i], x) - Is(args[t][i], x)
  <2>1. /\ DOMAIN Operand(i) = Threads /\ DOMAIN Operand(i)' = Threads
        /\ Operand(i)[t] = args[t][i]
        /\ \A s \in Threads : Operand(i)'[s] = args'[s][i] /\ Operand(i)[s] = args[s][i]
    BY DEF Operand
  <2>2. args'[t] = ops /\ \A s \in Threads \ {t} : args'[s] = args[s]
    BY DEF TypeOK
  <2>3. Operand(i)'[t] = ops[i] /\ \A s \in Threads \ {t} : Operand(i)'[s] = Operand(i)[s]
    BY <2>1, <2>2
  <2> QED
    BY <2>1, <2>3, TimesPut, FinitenessAssumption
<1>2. Times(Operand(1), x) \in Nat /\ Times(Operand(2), x) \in Nat
  BY HoldersType
<1>3. Times(Operand(1)', x) = Times(Operand(1), x) + Is(ops[1], x) - Is(args[t][1], x)
  BY <1>1
<1>4. Times(Operand(2)', x) = Times(Operand(2), x) + Is(ops[2], x) - Is(args[t][2], x)
  BY <1>1
<1> QED
  BY <1>2, <1>3, <1>4 DEF Is

\* A call that returns a new object: it is bound, it holds its owner, and a new
\* block holds the ndarray it borrows.
LEMMA NewCounts ==
    ASSUME TypeOK, TypeOK', KindsAgree, todo = Nothing, NEW t \in Threads, NEW n \in Names,
           NEW o \in Objects, NEW k, NEW own, NEW mem,
           NEW ops \in (Objects \cup {None}) \X (Objects \cup {None}),
           Create(o, k, own, mem), Rebind(t, n, o, ops), NEW x \in Things
    PROVE  /\ keep' = keep =>
                Bound(x)' + Linked(x)'
                  = Bound(x) + Linked(x) + Is(o, x) + Is(own, x) + (Is(ops[1], x) + Is(ops[2], x))
           /\ \A b \in Blocks : \A held : Allocate(b, held) =>
                Bound(x)' + Linked(x)'
                  = Bound(x) + Linked(x) + Is(o, x) + Is(own, x) + Is(held, x)
                      + (Is(ops[1], x) + Is(ops[2], x))
<1>1. n # None
  BY NoneAssumption
<1>2. Bound(x)' = Bound(x) + Is(o, x) + Is(ops[1], x) + Is(ops[2], x)
  BY <1>1, BindCounts
<1>3. Linked(x)' = Times(owner', x) + Times(keep', x)
  BY After
<1>4. Times(owner', x) = Times(owner, x) + Is(own, x)
  BY CreateCounts
<1>5. Times(owner, x) \in Nat /\ Times(keep, x) \in Nat
  BY HoldersType
<1>6. Bound(x) \in Nat
  BY Parts
<1>7. ASSUME keep' = keep
      PROVE  Bound(x)' + Linked(x)'
               = Bound(x) + Linked(x) + Is(o, x) + Is(own, x) + (Is(ops[1], x) + Is(ops[2], x))
  <2>1. Times(keep', x) = Times(keep, x)
    BY <1>7
  <2> QED
    BY <1>2, <1>3, <1>4, <1>5, <1>6, <2>1 DEF Linked, Is
<1>8. ASSUME NEW b \in Blocks, NEW held, Allocate(b, held)
      PROVE  Bound(x)' + Linked(x)'
               = Bound(x) + Linked(x) + Is(o, x) + Is(own, x) + Is(held, x)
                   + (Is(ops[1], x) + Is(ops[2], x))
  <2>1. Times(keep', x) = Times(keep, x) + Is(held, x)
    BY <1>8, AllocateCounts
  <2> QED
    BY <1>2, <1>3, <1>4, <1>5, <1>6, <2>1 DEF Linked, Is
<1> QED
  BY <1>7, <1>8

LEMMA CountsStep ==
    ASSUME TypeOK, TypeOK', CountsExact, KindsAgree, FramesHold, NEW t \in Threads, Step(t)
    PROVE  CountsExact'
<1> SUFFICES ASSUME NEW x \in Things
             PROVE  Count(x)' = Holders(x)'
  BY DEF CountsExact, Things
<1> DEFINE NoOps == <<None, None>>
<1>a. /\ Holders(x)' = Bound(x)' + Linked(x)' + Framed(x)'
      /\ Count(x) = Bound(x) + Linked(x) + Framed(x)
      /\ Bound(x) \in Nat /\ Linked(x) \in Nat /\ Framed(x) \in Nat
  BY Parts, PartsAfter DEF CountsExact
<1>b. /\ NoOps \in (Objects \cup {None}) \X (Objects \cup {None})
      /\ Is(NoOps[1], x) = 0 /\ Is(NoOps[2], x) = 0 /\ Is(None, x) = 0
  BY AddressesAssumption DEF Is, Things
<1>c. Named \subseteq Objects
  BY DEF Named, TypeOK
<1>d. UNCHANGED runVars => Framed(x)' = Framed(x)
  BY DEF runVars, Framed, Operand, Times
<1>e. Ready(t) \/ Returned(t) => todo = Nothing
  BY DEF Ready, Returned, FramesHold
<1>f. /\ refs \in [Objects -> Nat] /\ uses \in [Blocks -> Nat] /\ Objects \cap Blocks = {}
      /\ \A o \in Objects : kind[o] = "free" => refs[o] = 0
      /\ \A o \in Objects : kind[o] = "array" => owner[o] \in Blocks
  BY AddressesAssumption DEF TypeOK, KindsAgree
<1>1. ASSUME NEW n \in Names, NEW o \in Objects, NEW b \in Blocks, NewArray(t, n, o, b)
      PROVE  Count(x)' = Holders(x)'
  <2>1. /\ Create(o, "array", b, b) /\ Rebind(t, n, o, NoOps) /\ Allocate(b, None)
        /\ todo = Nothing /\ UNCHANGED runVars
    BY <1>1, <1>e DEF NewArray
  <2>2. Bound(x)' + Linked(x)'
          = Bound(x) + Linked(x) + Is(o, x) + Is(b, x) + Is(None, x) + (Is(NoOps[1], x) + Is(NoOps[2], x))
    BY <2>1, <1>b, NewCounts
  <2>3. Count(x)' = Count(x) + Is(o, x) + Is(b, x)
    BY <1>1, <1>f DEF NewArray, Create, Allocate, Count, Is, Things
  <2> QED
    BY <1>a, <1>b, <1>d, <2>1, <2>2, <2>3 DEF Is
<1>2. ASSUME NEW n \in Names, NEW o \in Objects, NewNdarray(t, n, o)
      PROVE  Count(x)' = Holders(x)'
  <2>1. /\ Create(o, "ndarray", None, o) /\ Rebind(t, n, o, NoOps) /\ keep' = keep
        /\ todo = Nothing /\ UNCHANGED runVars
    BY <1>2, <1>e DEF NewNdarray, blkVars
  <2>2. Bound(x)' + Linked(x)'
          = Bound(x) + Linked(x) + Is(o, x) + Is(None, x) + (Is(NoOps[1], x) + Is(NoOps[2], x))
    BY <2>1, <1>b, NewCounts
  <2>3. Count(x)' = Count(x) + Is(o, x)
    BY <1>2, <1>f DEF NewNdarray, Create, blkVars, Count, Is, Things
  <2> QED
    BY <1>a, <1>b, <1>d, <2>1, <2>2, <2>3 DEF Is
<1>3. ASSUME NEW n \in Names, NEW src \in Named, NEW o \in Objects, View(t, n, src, o)
      PROVE  Count(x)' = Holders(x)'
  <2>1. /\ Create(o, "array", owner[src], data[src]) /\ Rebind(t, n, o, NoOps) /\ keep' = keep
        /\ todo = Nothing /\ UNCHANGED runVars /\ owner[src] \in Blocks
    BY <1>3, <1>c, <1>e, <1>f DEF View
  <2>2. Bound(x)' + Linked(x)'
          = Bound(x) + Linked(x) + Is(o, x) + Is(owner[src], x) + (Is(NoOps[1], x) + Is(NoOps[2], x))
    BY <2>1, <1>b, NewCounts
  <2>3. Count(x)' = Count(x) + Is(o, x) + Is(owner[src], x)
    BY <1>3, <1>f, <2>1 DEF View, Create, Count, Is, Things
  <2> QED
    BY <1>a, <1>b, <1>d, <2>1, <2>2, <2>3 DEF Is
<1>4. ASSUME NEW n \in Names, NEW src \in Named, NEW o \in Objects, ToNumpy(t, n, src, o)
      PROVE  Count(x)' = Holders(x)'
  <2>1. /\ Create(o, "ndarray", src, data[src]) /\ Rebind(t, n, o, NoOps) /\ keep' = keep
        /\ todo = Nothing /\ UNCHANGED runVars /\ src \in Objects /\ src # o
    BY <1>4, <1>c, <1>e DEF ToNumpy, blkVars, Create
  <2>2. Bound(x)' + Linked(x)'
          = Bound(x) + Linked(x) + Is(o, x) + Is(src, x) + (Is(NoOps[1], x) + Is(NoOps[2], x))
    BY <2>1, <1>b, NewCounts
  <2>3. Count(x)' = Count(x) + Is(o, x) + Is(src, x)
    BY <1>4, <1>f, <2>1 DEF ToNumpy, Create, blkVars, Count, Is, Things
  <2> QED
    BY <1>a, <1>b, <1>d, <2>1, <2>2, <2>3 DEF Is
<1>5. ASSUME NEW n \in Names, NEW src \in Named, NEW o \in Objects, NEW b \in Blocks,
             Borrow(t, n, src, o, b)
      PROVE  Count(x)' = Holders(x)'
  <2>1. /\ Create(o, "array", b, data[src]) /\ Rebind(t, n, o, NoOps) /\ Allocate(b, src)
        /\ todo = Nothing /\ UNCHANGED runVars /\ src \in Objects /\ src # o
    BY <1>5, <1>c, <1>e DEF Borrow, Create
  <2>2. Bound(x)' + Linked(x)'
          = Bound(x) + Linked(x) + Is(o, x) + Is(b, x) + Is(src, x) + (Is(NoOps[1], x) + Is(NoOps[2], x))
    BY <2>1, <1>b, NewCounts
  <2>3. Count(x)' = Count(x) + Is(o, x) + Is(b, x) + Is(src, x)
    BY <1>5, <1>f, <2>1 DEF Borrow, Create, Allocate, Count, Is, Things
  <2> QED
    BY <1>a, <1>b, <1>d, <2>1, <2>2, <2>3 DEF Is
<1>6. ASSUME NEW n \in Names, Delete(t, n)
      PROVE  Count(x)' = Holders(x)'
  <2>1. /\ Rebind(t, n, None, NoOps) /\ todo = Nothing /\ UNCHANGED runVars
        /\ owner' = owner /\ keep' = keep /\ Count(x)' = Count(x)
    BY <1>6, <1>e DEF Delete, objVars, blkVars, Count
  <2>2. Bound(x)' = Bound(x) + (IF n = None THEN 0 ELSE Is(None, x)) + Is(NoOps[1], x) + Is(NoOps[2], x)
    BY <2>1, <1>b, BindCounts
  <2>3. Linked(x)' = Linked(x)
    BY <2>1, After DEF Linked
  <2> QED
    BY <1>a, <1>b, <1>d, <2>1, <2>2, <2>3
<1>7. ASSUME NEW ops \in Operands, KernelCall(t, ops)
      PROVE  Count(x)' = Holders(x)'
  <2>1. PICK b \in Copied(ops) : temp' = [temp EXCEPT ![t] = b] /\ uses' = Share(b)
    BY <1>7 DEF KernelCall
  <2>2. b \in Blocks \cup {None} /\ ops \in (Objects \cup {None}) \X (Objects \cup {None})
    <3>1. b # None => kind[ops[1]] = "array" /\ b = owner[ops[1]] /\ ops[1] \in Objects
      BY OperandsType
    <3> QED
      BY <1>f, <3>1, OperandsType
  <2>3. args[t] = NoOps /\ temp[t] = None
    BY <1>7 DEF KernelCall, Ready, FramesHold
  <2>4. Times(temp', x) = Times(temp, x) + Is(b, x)
    <3>1. /\ DOMAIN temp = Threads /\ DOMAIN temp' = Threads /\ temp'[t] = b
          /\ \A s \in Threads \ {t} : temp'[s] = temp[s]
      BY <2>1 DEF TypeOK
    <3>2. Times(temp', x) = Times(temp, x) + Is(temp'[t], x) - Is(temp[t], x)
      BY <3>1, TimesPut, FinitenessAssumption
    <3>3. Times(temp, x) \in Nat
      BY HoldersType
    <3> QED
      BY <1>b, <2>3, <3>1, <3>2, <3>3 DEF Is
  <2>5. Times(Operand(1)', x) + Times(Operand(2)', x)
          = (Times(Operand(1), x) + Times(Operand(2), x))
              + (Is(ops[1], x) + Is(ops[2], x)) - (Is(args[t][1], x) + Is(args[t][2], x))
    BY <1>7, <2>2, FrameCounts DEF KernelCall
  <2>6. Framed(x)' = Framed(x) + Is(b, x) + (Is(ops[1], x) + Is(ops[2], x))
    <3>1. /\ Times(Operand(1), x) \in Nat /\ Times(Operand(2), x) \in Nat /\ Times(temp, x) \in Nat
          /\ Framed(x)' = Times(temp', x) + (Times(Operand(1)', x) + Times(Operand(2)', x))
      BY HoldersType, After
    <3> QED
      BY <1>b, <2>3, <2>4, <2>5, <3>1 DEF Framed, Is
  <2>7. Bound(x)' = Bound(x) /\ Linked(x)' = Linked(x)
    BY <1>7, After DEF KernelCall, Bound, Linked
  <2>8. Count(x)' = Count(x) + Is(b, x) + (Is(ops[1], x) + Is(ops[2], x))
    <3>1. CASE x \in Blocks
      <4>1. uses'[x] = uses[x] + Is(b, x)
        BY <1>b, <1>f, <2>1, <2>2, <3>1 DEF Share, Is
      <4>2. Is(ops[1], x) = 0 /\ Is(ops[2], x) = 0
        BY <1>b, <1>f, <2>2, <3>1 DEF Is
      <4> QED
        BY <1>f, <3>1, <4>1, <4>2 DEF Count, Is
    <3>2. CASE x \notin Blocks
      <4>1. x \in Objects /\ Is(b, x) = 0
        BY <1>b, <2>2, <3>2 DEF Is, Things
      <4>2. refs'[x] = refs[x] + (Is(ops[1], x) + Is(ops[2], x))
        BY <1>7, <4>1, OperandCounts DEF KernelCall
      <4> QED
        BY <1>f, <3>2, <4>1, <4>2 DEF Count, Is
    <3> QED
      BY <3>1, <3>2
  <2> QED
    BY <1>a, <2>6, <2>7, <2>8 DEF Is
<1>8. ASSUME KernelEnd(t)
      PROVE  Count(x)' = Holders(x)'
  <2>1. /\ DOMAIN temp = Threads /\ DOMAIN temp' = Threads /\ temp'[t] = None
        /\ \A s \in Threads \ {t} : temp'[s] = temp[s]
    BY <1>8 DEF KernelEnd, TypeOK
  <2>2. Times(temp', x) = Times(temp, x) + Is(temp'[t], x) - Is(temp[t], x)
    BY <2>1, TimesPut, FinitenessAssumption
  <2>3. Framed(x)' = Framed(x) - Is(temp[t], x)
    <3>1. /\ Times(Operand(1), x) \in Nat /\ Times(Operand(2), x) \in Nat /\ Times(temp, x) \in Nat
          /\ Framed(x)' = Times(temp', x) + (Times(Operand(1)', x) + Times(Operand(2)', x))
          /\ Times(Operand(1)', x) = Times(Operand(1), x)
          /\ Times(Operand(2)', x) = Times(Operand(2), x)
      BY <1>8, HoldersType, After DEF KernelEnd, Operand
    <3> QED
      BY <1>b, <2>1, <2>2, <3>1 DEF Framed, Is
  <2>4. Bound(x)' = Bound(x) /\ Linked(x)' = Linked(x)
    BY <1>8, After DEF KernelEnd, objVars, Bound, Linked
  <2>5. Count(x)' = Count(x) - Is(temp[t], x)
    <3>1. temp[t] \in Blocks \cup {None}
      BY DEF TypeOK
    <3>2. CASE x \in Blocks
      BY <1>8, <1>b, <1>f, <3>1, <3>2 DEF KernelEnd, Count, Is
    <3>3. CASE x \notin Blocks
      <4>1. x \in Objects /\ Is(temp[t], x) = 0 /\ Count(x)' = Count(x)
        BY <1>8, <1>b, <3>1, <3>3 DEF KernelEnd, objVars, Count, Is, Things
      <4> QED
        BY <1>a, <4>1
    <3> QED
      BY <3>2, <3>3
  <2> QED
    BY <1>a, <2>3, <2>4, <2>5 DEF Is
<1>9. ASSUME NEW n \in Names, NEW o \in Objects, NEW b \in Blocks, ReturnArray(t, n, o, b)
      PROVE  Count(x)' = Holders(x)'
  <2>1. /\ Create(o, "array", b, b) /\ Rebind(t, n, o, args[t]) /\ Allocate(b, None)
        /\ args[t] \in (Objects \cup {None}) \X (Objects \cup {None})
        /\ todo = Nothing /\ temp' = temp /\ args' = [args EXCEPT ![t] = NoOps]
    BY <1>9, <1>e DEF ReturnArray, Returned, TypeOK
  <2>2. Bound(x)' + Linked(x)'
          = Bound(x) + Linked(x) + Is(o, x) + Is(b, x) + Is(None, x)
              + (Is(args[t][1], x) + Is(args[t][2], x))
    BY <2>1, NewCounts
  <2>3. Count(x)' = Count(x) + Is(o, x) + Is(b, x)
    BY <1>9, <1>f DEF ReturnArray, Create, Allocate, Count, Is, Things
  <2>4. Framed(x)' = Framed(x) - (Is(args[t][1], x) + Is(args[t][2], x))
    <3>1. Times(Operand(1)', x) + Times(Operand(2)', x)
            = (Times(Operand(1), x) + Times(Operand(2), x))
                + (Is(NoOps[1], x) + Is(NoOps[2], x)) - (Is(args[t][1], x) + Is(args[t][2], x))
      BY <1>b, <2>1, FrameCounts
    <3>2. /\ Times(Operand(1), x) \in Nat /\ Times(Operand(2), x) \in Nat /\ Times(temp, x) \in Nat
          /\ Framed(x)' = Times(temp', x) + (Times(Operand(1)', x) + Times(Operand(2)', x))
          /\ Times(temp', x) = Times(temp, x)
      BY <2>1, HoldersType, After
    <3> QED
      BY <1>b, <3>1, <3>2 DEF Framed, Is
  <2> QED
    BY <1>a, <1>b, <2>2, <2>3, <2>4 DEF Is
<1>10. ASSUME ReturnOther(t)
       PROVE  Count(x)' = Holders(x)'
  <2>1. /\ Rebind(t, None, None, args[t]) /\ todo = Nothing
        /\ args[t] \in (Objects \cup {None}) \X (Objects \cup {None})
        /\ temp' = temp /\ args' = [args EXCEPT ![t] = NoOps]
        /\ owner' = owner /\ keep' = keep /\ Count(x)' = Count(x)
    BY <1>10, <1>e DEF ReturnOther, Returned, TypeOK, objVars, blkVars, Count
  <2>2. Bound(x)' = Bound(x) + 0 + Is(args[t][1], x) + Is(args[t][2], x)
    BY <2>1, BindCounts
  <2>3. Linked(x)' = Linked(x)
    BY <2>1, After DEF Linked
  <2>4. Framed(x)' = Framed(x) - (Is(args[t][1], x) + Is(args[t][2], x))
    <3>1. Times(Operand(1)', x) + Times(Operand(2)', x)
            = (Times(Operand(1), x) + Times(Operand(2), x))
                + (Is(NoOps[1], x) + Is(NoOps[2], x)) - (Is(args[t][1], x) + Is(args[t][2], x))
      BY <1>b, <2>1, FrameCounts
    <3>2. /\ Times(Operand(1), x) \in Nat /\ Times(Operand(2), x) \in Nat /\ Times(temp, x) \in Nat
          /\ Framed(x)' = Times(temp', x) + (Times(Operand(1)', x) + Times(Operand(2)', x))
          /\ Times(temp', x) = Times(temp, x)
      BY <2>1, HoldersType, After
    <3> QED
      BY <1>b, <3>1, <3>2 DEF Framed, Is
  <2> QED
    BY <1>a, <2>1, <2>2, <2>3, <2>4 DEF Is
<1>11. ASSUME NEW i \in 1 .. 3, DropObject(t, i)
       PROVE  Count(x)' = Holders(x)'
  <2> DEFINE o == todo[i]
             w == IF refs[o] = 1 THEN owner[o] ELSE None
  <2>1. /\ o \in Objects /\ UNCHANGED runVars /\ names' = names /\ uses' = uses /\ keep' = keep
        /\ refs' = [refs EXCEPT ![o] = @ - 1] /\ todo' = [todo EXCEPT ![i] = w]
        /\ owner' = IF refs[o] = 1 THEN [owner EXCEPT ![o] = None] ELSE owner
    BY <1>11 DEF DropObject, GiveUp, blkVars
  <2>2. Times(todo', x) = Times(todo, x) + Is(w, x) - Is(o, x)
    <3>1. /\ DOMAIN todo = 1 .. 3 /\ DOMAIN todo' = 1 .. 3 /\ todo'[i] = w
          /\ \A j \in (1 .. 3) \ {i} : todo'[j] = todo[j]
      BY <2>1 DEF TypeOK
    <3> QED
      BY <3>1, TimesPut, SlotsFinite
  <2>3. Times(owner', x) = Times(owner, x) - Is(w, x)
    <3>1. CASE refs[o] = 1
      <4>1. /\ o \in Objects
            /\ DOMAIN owner = Objects /\ DOMAIN owner' = Objects /\ owner'[o] = None
            /\ \A a \in Objects \ {o} : owner'[a] = owner[a]
        BY <2>1, <3>1 DEF TypeOK
      <4>2. Times(owner', x) = Times(owner, x) + Is(owner'[o], x) - Is(owner[o], x)
        BY <4>1, TimesPut, FinitenessAssumption
      <4>3. Times(owner, x) \in Nat
        BY HoldersType
      <4> QED
        BY <1>b, <3>1, <4>1, <4>2, <4>3 DEF Is
    <3>2. CASE refs[o] # 1
      <4>0. owner' = owner
        BY <2>1, <3>2
      <4>1. Times(owner', x) = Times(owner, x) /\ w = None
        BY <3>2, <4>0
      <4>2. Times(owner, x) \in Nat
        BY HoldersType
      <4> QED
        BY <1>b, <4>1, <4>2
    <3> QED
      BY <3>1, <3>2
  <2> HIDE DEF w
  <2>4. Bound(x)' + Linked(x)' = Bound(x) + Linked(x) - Is(o, x)
    <3>1. /\ Bound(x)' = Times(names', x) + Times(todo', x)
          /\ Linked(x)' = Times(owner', x) + Times(keep', x)
          /\ Times(names', x) = Times(names, x) /\ Times(keep', x) = Times(keep, x)
      BY <2>1, After
    <3>2. /\ Times(names, x) \in Nat /\ Times(todo, x) \in Nat
          /\ Times(owner, x) \in Nat /\ Times(keep, x) \in Nat
      BY HoldersType
    <3> QED
      BY <2>2, <2>3, <3>1, <3>2 DEF Bound, Linked, Is
  <2>5. Count(x)' = Count(x) - Is(o, x)
    <3>1. CASE x \in Blocks
      <4>1. Count(x)' = Count(x) /\ Is(o, x) = 0
        BY <1>f, <2>1, <3>1 DEF Count, Is
      <4> QED
        BY <1>a, <4>1
    <3>2. CASE x \notin Blocks
      BY <1>f, <2>1, <3>2 DEF Count, Is, Things
    <3> QED
      BY <3>1, <3>2
  <2> QED
    BY <1>a, <1>d, <2>1, <2>4, <2>5 DEF Is
<1>12. ASSUME NEW i \in 1 .. 3, DropBlock(t, i)
       PROVE  Count(x)' = Holders(x)'
  <2> DEFINE b == todo[i]
             w == IF uses[b] = 1 THEN keep[b] ELSE None
  <2>1. /\ b \in Blocks /\ UNCHANGED runVars /\ names' = names /\ refs' = refs /\ owner' = owner
        /\ uses' = [uses EXCEPT ![b] = @ - 1] /\ todo' = [todo EXCEPT ![i] = w]
        /\ keep' = IF uses[b] = 1 THEN [keep EXCEPT ![b] = None] ELSE keep
    BY <1>12 DEF DropBlock, GiveUp, objVars
  <2>2. Times(todo', x) = Times(todo, x) + Is(w, x) - Is(b, x)
    <3>1. /\ DOMAIN todo = 1 .. 3 /\ DOMAIN todo' = 1 .. 3 /\ todo'[i] = w
          /\ \A j \in (1 .. 3) \ {i} : todo'[j] = todo[j]
      BY <2>1 DEF TypeOK
    <3> QED
      BY <3>1, TimesPut, SlotsFinite
  <2>3. Times(keep', x) = Times(keep, x) - Is(w, x)
    <3>1. CASE uses[b] = 1
      <4>1. /\ b \in Blocks
            /\ DOMAIN keep = Blocks /\ DOMAIN keep' = Blocks /\ keep'[b] = None
            /\ \A a \in Blocks \ {b} : keep'[a] = keep[a]
        BY <2>1, <3>1 DEF TypeOK
      <4>2. Times(keep', x) = Times(keep, x) + Is(keep'[b], x) - Is(keep[b], x)
        BY <4>1, TimesPut, FinitenessAssumption
      <4>3. Times(keep, x) \in Nat
        BY HoldersType
      <4> QED
        BY <1>b, <3>1, <4>1, <4>2, <4>3 DEF Is
    <3>2. CASE uses[b] # 1
      <4>0. keep' = keep
        BY <2>1, <3>2
      <4>1. Times(keep', x) = Times(keep, x) /\ w = None
        BY <3>2, <4>0
      <4>2. Times(keep, x) \in Nat
        BY HoldersType
      <4> QED
        BY <1>b, <4>1, <4>2
    <3> QED
      BY <3>1, <3>2
  <2> HIDE DEF w
  <2>4. Bound(x)' + Linked(x)' = Bound(x) + Linked(x) - Is(b, x)
    <3>1. /\ Bound(x)' = Times(names', x) + Times(todo', x)
          /\ Linked(x)' = Times(owner', x) + Times(keep', x)
          /\ Times(names', x) = Times(names, x) /\ Times(owner', x) = Times(owner, x)
      BY <2>1, After
    <3>2. /\ Times(names, x) \in Nat /\ Times(todo, x) \in Nat
          /\ Times(owner, x) \in Nat /\ Times(keep, x) \in Nat
      BY HoldersType
    <3> QED
      BY <2>2, <2>3, <3>1, <3>2 DEF Bound, Linked, Is
  <2>5. Count(x)' = Count(x) - Is(b, x)
    <3>1. CASE x \in Blocks
      BY <1>f, <2>1, <3>1 DEF Count, Is
    <3>2. CASE x \notin Blocks
      <4>1. Count(x)' = Count(x) /\ Is(b, x) = 0
        BY <2>1, <3>2 DEF Count, Is
      <4> QED
        BY <1>a, <4>1
    <3> QED
      BY <3>1, <3>2
  <2> QED
    BY <1>a, <1>d, <2>1, <2>4, <2>5 DEF Is
<1> QED
  BY <1>1, <1>2, <1>3, <1>4, <1>5, <1>6, <1>7, <1>8, <1>9, <1>10, <1>11, <1>12 DEF Step

-----------------------------------------------------------------------------
(* Every step keeps kinds and counts in agreement *)

LEMMA NamedLive ==
    ASSUME TypeOK, CountsExact, KindsAgree
    PROVE  /\ Named \subseteq Objects
           /\ \A o \in Named : kind[o] # "free" /\ refs[o] # 0
           /\ \A ops \in Operands : \A i \in 1 .. 2 : ops[i] = None \/ ops[i] \in Named
<1>1. ASSUME NEW o \in Named
      PROVE  o \in Objects /\ kind[o] # "free" /\ refs[o] # 0
  <2>1. PICK n \in Names : o = names[n] /\ o # None
    BY DEF Named
  <2>2. o \in Objects /\ o \notin Blocks
    BY <2>1, AddressesAssumption DEF TypeOK
  <2>3. Alive(o)
    BY <2>1, HeldLives
  <2> QED
    BY <2>2, <2>3 DEF Alive, KindsAgree
<1>2. \A ops \in Operands : \A i \in 1 .. 2 : ops[i] = None \/ ops[i] \in Named
  <2> DEFINE A == {o \in Named : kind[o] = "array"}
  <2>1. ASSUME NEW ops \in Named \X {None}, NEW i \in 1 .. 2
        PROVE  ops[i] = None \/ ops[i] \in Named
    BY <2>1, i = 1 \/ i = 2
  <2>2. ASSUME NEW ops \in A \X A, NEW i \in 1 .. 2
        PROVE  ops[i] = None \/ ops[i] \in Named
    BY <2>2, i = 1 \/ i = 2
  <2> QED
    BY <2>1, <2>2 DEF Operands
<1> QED
  BY <1>1, <1>2

LEMMA CreateKinds ==
    ASSUME TypeOK, KindsAgree, NEW o \in Objects, NEW k, NEW own, NEW mem, Create(o, k, own, mem),
           \/ k = "array" /\ own \in Blocks
           \/ k = "ndarray" /\ own \in Objects \cup {None},
           \A a \in Objects : refs'[a] = 0 <=> a # o /\ refs[a] = 0,
           \A b \in Blocks : uses'[b] = 0 => keep'[b] = None
    PROVE  KindsAgree'
<1>1. /\ kind'[o] = k /\ owner'[o] = own
      /\ \A a \in Objects \ {o} : kind'[a] = kind[a] /\ owner'[a] = owner[a]
  BY DEF Create, TypeOK
<1> QED
  BY <1>1 DEF KindsAgree

LEMMA KindsStep ==
    ASSUME TypeOK, TypeOK', CountsExact, KindsAgree, FramesHold, NEW t \in Threads, Step(t)
    PROVE  KindsAgree'
<1>f. /\ refs \in [Objects -> Nat] /\ uses \in [Blocks -> Nat] /\ keep \in [Blocks -> Objects \cup {None}]
      /\ \A b \in Blocks : uses[b] = 0 => keep[b] = None
      /\ \A o \in Named : o \in Objects /\ kind[o] # "free" /\ refs[o] # 0
  BY NamedLive DEF TypeOK, KindsAgree
<1>1. ASSUME NEW n \in Names, NEW o \in Objects, NEW b \in Blocks, NewArray(t, n, o, b)
      PROVE  KindsAgree'
  <2>1. \A a \in Objects : refs'[a] = 0 <=> a # o /\ refs[a] = 0
    BY <1>1, <1>f DEF NewArray
  <2>2. \A c \in Blocks : uses'[c] = 0 => keep'[c] = None
    BY <1>1, <1>f DEF NewArray, Allocate
  <2> QED
    BY <1>1, <2>1, <2>2, CreateKinds DEF NewArray
<1>2. ASSUME NEW n \in Names, NEW o \in Objects, NewNdarray(t, n, o)
      PROVE  KindsAgree'
  <2>1. \A a \in Objects : refs'[a] = 0 <=> a # o /\ refs[a] = 0
    BY <1>2, <1>f DEF NewNdarray
  <2>2. \A c \in Blocks : uses'[c] = 0 => keep'[c] = None
    BY <1>2, <1>f DEF NewNdarray, blkVars
  <2> QED
    BY <1>2, <2>1, <2>2, CreateKinds DEF NewNdarray
<1>3. ASSUME NEW n \in Names, NEW src \in Named, NEW o \in Objects, View(t, n, src, o)
      PROVE  KindsAgree'
  <2>1. \A a \in Objects : refs'[a] = 0 <=> a # o /\ refs[a] = 0
    BY <1>3, <1>f DEF View
  <2>2. owner[src] \in Blocks
    BY <1>3, <1>f DEF View, KindsAgree
  <2>3. \A c \in Blocks : uses'[c] = 0 => keep'[c] = None
    BY <1>3, <1>f, <2>2 DEF View
  <2> QED
    BY <1>3, <2>1, <2>2, <2>3, CreateKinds DEF View
<1>4. ASSUME NEW n \in Names, NEW src \in Named, NEW o \in Objects, ToNumpy(t, n, src, o)
      PROVE  KindsAgree'
  <2>1. \A a \in Objects : refs'[a] = 0 <=> a # o /\ refs[a] = 0
    BY <1>4, <1>f DEF ToNumpy
  <2>2. \A c \in Blocks : uses'[c] = 0 => keep'[c] = None
    BY <1>4, <1>f DEF ToNumpy, blkVars
  <2> QED
    BY <1>4, <1>f, <2>1, <2>2, CreateKinds DEF ToNumpy
<1>5. ASSUME NEW n \in Names, NEW src \in Named, NEW o \in Objects, NEW b \in Blocks,
             Borrow(t, n, src, o, b)
      PROVE  KindsAgree'
  <2>1. \A a \in Objects : refs'[a] = 0 <=> a # o /\ refs[a] = 0
    BY <1>5, <1>f DEF Borrow
  <2>2. \A c \in Blocks : uses'[c] = 0 => keep'[c] = None
    BY <1>5, <1>f DEF Borrow, Allocate
  <2> QED
    BY <1>5, <2>1, <2>2, CreateKinds DEF Borrow
<1>6. ASSUME NEW n \in Names, Delete(t, n)
      PROVE  KindsAgree'
  BY <1>6 DEF Delete, objVars, blkVars, KindsAgree
<1>7. ASSUME NEW ops \in Operands, KernelCall(t, ops)
      PROVE  KindsAgree'
  <2>1. ASSUME NEW a \in Objects
        PROVE  refs'[a] = 0 <=> refs[a] = 0
    <3>1. refs'[a] = refs[a] + (Is(ops[1], a) + Is(ops[2], a))
      BY <1>7, OperandCounts DEF KernelCall
    <3>2. ops[1] = a \/ ops[2] = a => refs[a] # 0
      <4>1. /\ ops[1] = None \/ ops[1] \in Named
            /\ ops[2] = None \/ ops[2] \in Named
        BY NamedLive, 1 \in 1 .. 2, 2 \in 1 .. 2
      <4> QED
        BY <1>f, <4>1, AddressesAssumption
    <3> QED
      BY <1>f, <3>1, <3>2 DEF Is
  <2>2. PICK b \in Copied(ops) : uses' = Share(b)
    BY <1>7 DEF KernelCall
  <2>3. \A c \in Blocks : uses'[c] = 0 => uses[c] = 0
    BY <1>f, <2>2 DEF Share
  <2> QED
    BY <1>7, <2>1, <2>3 DEF KernelCall, KindsAgree
<1>8. ASSUME KernelEnd(t)
      PROVE  KindsAgree'
  <2>1. temp[t] # None => temp[t] \in Blocks /\ uses[temp[t]] > 1
    BY CopyShares DEF CountsExact, Count, Things
  <2>2. \A c \in Blocks : uses'[c] = 0 => uses[c] = 0
    BY <1>8, <1>f, <2>1 DEF KernelEnd
  <2> QED
    BY <1>8, <2>2 DEF KernelEnd, objVars, KindsAgree
<1>9. ASSUME NEW n \in Names, NEW o \in Objects, NEW b \in Blocks, ReturnArray(t, n, o, b)
      PROVE  KindsAgree'
  <2>1. \A a \in Objects : refs'[a] = 0 <=> a # o /\ refs[a] = 0
    BY <1>9, <1>f DEF ReturnArray
  <2>2. \A c \in Blocks : uses'[c] = 0 => keep'[c] = None
    BY <1>9, <1>f DEF ReturnArray, Allocate
  <2> QED
    BY <1>9, <2>1, <2>2, CreateKinds DEF ReturnArray
<1>10. ASSUME ReturnOther(t)
       PROVE  KindsAgree'
  BY <1>10 DEF ReturnOther, objVars, blkVars, KindsAgree
<1>11. ASSUME NEW i \in 1 .. 3, DropObject(t, i)
       PROVE  KindsAgree'
  <2> DEFINE o == todo[i]
  <2>1. o \in Objects /\ refs[o] # 0
    <3>1. o \in Objects /\ o # None /\ o \notin Blocks /\ kind[o] # "free"
      BY <1>11, HeldLives, AddressesAssumption DEF DropObject, Current, Alive
    <3> QED
      BY <3>1 DEF KindsAgree
  <2>2. refs'[o] = refs[o] - 1 /\ \A a \in Objects \ {o} : refs'[a] = refs[a]
    BY <1>11, <1>f DEF DropObject
  <2>3. CASE refs[o] = 1
    <3>1. kind' = [kind EXCEPT ![o] = "free"] /\ owner' = [owner EXCEPT ![o] = None]
      BY <1>11, <2>3 DEF DropObject
    <3>2. /\ kind'[o] = "free" /\ owner'[o] = None
          /\ \A a \in Objects \ {o} : kind'[a] = kind[a] /\ owner'[a] = owner[a]
      BY <2>1, <3>1 DEF TypeOK
    <3>3. uses' = uses /\ keep' = keep
      BY <1>11 DEF DropObject, blkVars
    <3> QED
      BY <2>1, <2>2, <2>3, <3>2, <3>3 DEF KindsAgree
  <2>4. CASE refs[o] # 1
    <3>1. kind' = kind /\ owner' = owner /\ uses' = uses /\ keep' = keep
      BY <1>11, <2>4 DEF DropObject, blkVars
    <3>2. \A a \in Objects : refs'[a] = 0 <=> refs[a] = 0
      BY <1>f, <2>1, <2>2, <2>4
    <3> QED
      BY <3>1, <3>2 DEF KindsAgree
  <2> QED
    BY <2>3, <2>4
<1>12. ASSUME NEW i \in 1 .. 3, DropBlock(t, i)
       PROVE  KindsAgree'
  <2> DEFINE b == todo[i]
  <2>1. kind' = kind /\ owner' = owner /\ refs' = refs
    BY <1>12 DEF DropBlock, objVars
  <2>2. b \in Blocks /\ uses[b] > 0
    BY <1>12, HeldLives DEF DropBlock, Current, Alive
  <2>3. \A c \in Blocks : uses'[c] = 0 => keep'[c] = None
    BY <1>12, <1>f, <2>2 DEF DropBlock
  <2> QED
    BY <2>1, <2>3 DEF KindsAgree
<1> QED
  BY <1>1, <1>2, <1>3, <1>4, <1>5, <1>6, <1>7, <1>8, <1>9, <1>10, <1>11, <1>12 DEF Step

-----------------------------------------------------------------------------
(* Every step keeps what the frames hold *)

\* A step that changes no frame, and no owner of an object that is there.
LEMMA SameFrames ==
    ASSUME TypeOK, CountsExact, KindsAgree, FramesHold, UNCHANGED runVars,
           gil' = None => todo' = Nothing,
           \A t \in Threads : args[t][1] # None => owner'[args[t][1]] = owner[args[t][1]]
    PROVE  FramesHold'
BY DEF FramesHold, runVars

LEMMA RebindGil ==
    ASSUME NEW t \in Threads, NEW n, NEW v, NEW ops, Rebind(t, n, v, ops)
    PROVE  gil' = None => todo' = Nothing
BY NoneAssumption DEF Rebind, GiveUp

\* The operands of a call are there, so a new object is none of them.
LEMMA CreateOwners ==
    ASSUME TypeOK, CountsExact, KindsAgree, NEW o \in Objects, NEW k, NEW own, NEW mem,
           Create(o, k, own, mem)
    PROVE  \A t \in Threads : args[t][1] # None => owner'[args[t][1]] = owner[args[t][1]]
<1> SUFFICES ASSUME NEW t \in Threads, args[t][1] # None
             PROVE  owner'[args[t][1]] = owner[args[t][1]]
  OBVIOUS
<1>1. args[t][1] \in Objects /\ args[t][1] \notin Blocks
  BY AddressesAssumption DEF TypeOK
<1>2. Alive(args[t][1])
  BY HeldLives, 1 \in 1 .. 2
<1>3. args[t][1] # o
  BY <1>1, <1>2 DEF Alive, Create
<1> QED
  BY <1>1, <1>3 DEF Create, TypeOK

LEMMA FramesStep ==
    ASSUME TypeOK, TypeOK', CountsExact, KindsAgree, FramesHold, NEW t \in Threads, Step(t)
    PROVE  FramesHold'
<1>a. /\ pc \in [Threads -> {"idle", "kernel", "return"}]
      /\ temp \in [Threads -> Blocks \cup {None}]
      /\ args \in [Threads -> (Objects \cup {None}) \X (Objects \cup {None})]
  BY DEF TypeOK
<1>1. ASSUME NEW n \in Names, NEW o \in Objects, NEW b \in Blocks, NewArray(t, n, o, b)
      PROVE  FramesHold'
  <2>1. /\ Create(o, "array", b, b) /\ Rebind(t, n, o, <<None, None>>) /\ UNCHANGED runVars
    BY <1>1 DEF NewArray
  <2> QED
    BY <2>1, SameFrames, RebindGil, CreateOwners
<1>2. ASSUME NEW n \in Names, NEW o \in Objects, NewNdarray(t, n, o)
      PROVE  FramesHold'
  <2>1. /\ Create(o, "ndarray", None, o) /\ Rebind(t, n, o, <<None, None>>) /\ UNCHANGED runVars
    BY <1>2 DEF NewNdarray
  <2> QED
    BY <2>1, SameFrames, RebindGil, CreateOwners
<1>3. ASSUME NEW n \in Names, NEW src \in Named, NEW o \in Objects, View(t, n, src, o)
      PROVE  FramesHold'
  <2>1. /\ Create(o, "array", owner[src], data[src]) /\ Rebind(t, n, o, <<None, None>>)
        /\ UNCHANGED runVars
    BY <1>3 DEF View
  <2> QED
    BY <2>1, SameFrames, RebindGil, CreateOwners
<1>4. ASSUME NEW n \in Names, NEW src \in Named, NEW o \in Objects, ToNumpy(t, n, src, o)
      PROVE  FramesHold'
  <2>1. /\ Create(o, "ndarray", src, data[src]) /\ Rebind(t, n, o, <<None, None>>)
        /\ UNCHANGED runVars
    BY <1>4 DEF ToNumpy
  <2> QED
    BY <2>1, SameFrames, RebindGil, CreateOwners
<1>5. ASSUME NEW n \in Names, NEW src \in Named, NEW o \in Objects, NEW b \in Blocks,
             Borrow(t, n, src, o, b)
      PROVE  FramesHold'
  <2>1. /\ Create(o, "array", b, data[src]) /\ Rebind(t, n, o, <<None, None>>)
        /\ UNCHANGED runVars
    BY <1>5 DEF Borrow
  <2> QED
    BY <2>1, SameFrames, RebindGil, CreateOwners
<1>6. ASSUME NEW n \in Names, Delete(t, n)
      PROVE  FramesHold'
  <2>1. Rebind(t, n, None, <<None, None>>) /\ UNCHANGED runVars /\ owner' = owner
    BY <1>6 DEF Delete, objVars
  <2> QED
    BY <2>1, SameFrames, RebindGil
<1>7. ASSUME NEW ops \in Operands, KernelCall(t, ops)
      PROVE  FramesHold'
  <2>1. PICK b \in Copied(ops) : temp' = [temp EXCEPT ![t] = b]
    BY <1>7 DEF KernelCall
  <2>2. ops[1] # None /\ (b # None => b = owner[ops[1]])
    BY OperandsType, AddressesAssumption
  <2>3. /\ pc' = [pc EXCEPT ![t] = "kernel"] /\ args' = [args EXCEPT ![t] = ops]
        /\ gil' = gil /\ todo' = todo /\ owner' = owner
    BY <1>7 DEF KernelCall
  <2>4. /\ pc'[t] = "kernel" /\ temp'[t] = b /\ args'[t] = ops
        /\ \A s \in Threads \ {t} : pc'[s] = pc[s] /\ temp'[s] = temp[s] /\ args'[s] = args[s]
    BY <1>a, <2>1, <2>3
  <2> QED
    BY <2>2, <2>3, <2>4 DEF FramesHold
<1>8. ASSUME KernelEnd(t)
      PROVE  FramesHold'
  <2>1. /\ pc' = [pc EXCEPT ![t] = "return"] /\ temp' = [temp EXCEPT ![t] = None]
        /\ args' = args /\ gil' = gil /\ todo' = todo /\ owner' = owner
    BY <1>8 DEF KernelEnd, objVars
  <2>2. /\ pc'[t] = "return" /\ temp'[t] = None
        /\ \A s \in Threads \ {t} : pc'[s] = pc[s] /\ temp'[s] = temp[s]
    BY <1>a, <2>1
  <2> QED
    BY <2>1, <2>2 DEF FramesHold
<1>9. ASSUME Returned(t), gil' = None => todo' = Nothing,
             \A s \in Threads : args[s][1] # None => owner'[args[s][1]] = owner[args[s][1]]
      PROVE  FramesHold'
  <2>1. /\ pc[t] = "return" /\ pc' = [pc EXCEPT ![t] = "idle"]
        /\ args' = [args EXCEPT ![t] = <<None, None>>] /\ temp' = temp
    BY <1>9 DEF Returned
  <2>2. /\ pc'[t] = "idle" /\ args'[t] = <<None, None>> /\ temp'[t] = None
        /\ \A s \in Threads \ {t} : pc'[s] = pc[s] /\ temp'[s] = temp[s] /\ args'[s] = args[s]
    BY <1>a, <2>1 DEF FramesHold
  <2> QED
    BY <1>9, <2>2 DEF FramesHold
<1>10. ASSUME NEW n \in Names, NEW o \in Objects, NEW b \in Blocks, ReturnArray(t, n, o, b)
       PROVE  FramesHold'
  <2>1. Returned(t) /\ Create(o, "array", b, b) /\ Rebind(t, n, o, args[t])
    BY <1>10 DEF ReturnArray
  <2> QED
    BY <1>9, <2>1, RebindGil, CreateOwners
<1>11. ASSUME ReturnOther(t)
       PROVE  FramesHold'
  <2>1. Returned(t) /\ Rebind(t, None, None, args[t]) /\ owner' = owner
    BY <1>11 DEF ReturnOther, objVars
  <2> QED
    BY <1>9, <2>1, RebindGil
<1>12. ASSUME NEW i \in 1 .. 3, DropObject(t, i)
       PROVE  FramesHold'
  <2> DEFINE o == todo[i]
  <2>1. UNCHANGED runVars /\ (gil' = None => todo' = Nothing)
    BY <1>12, NoneAssumption DEF DropObject, GiveUp
  <2>2. ASSUME NEW s \in Threads, args[s][1] # None
        PROVE  owner'[args[s][1]] = owner[args[s][1]]
    <3>1. CASE refs[o] = 1
      <4>1. o \in Objects /\ o \in Things /\ o \notin Blocks
        BY <1>12, AddressesAssumption DEF DropObject, Things
      <4>2. Holders(o) = 1
        BY <3>1, <4>1 DEF CountsExact, Count
      <4>3. args[s][1] # o /\ args[s][1] \in Objects
        BY <2>2, <4>1, <4>2, LastReference DEF TypeOK
      <4>4. owner' = [owner EXCEPT ![o] = None]
        BY <1>12, <3>1 DEF DropObject
      <4> QED
        BY <4>3, <4>4 DEF TypeOK
    <3>2. CASE refs[o] # 1
      <4>1. owner' = owner
        BY <1>12, <3>2 DEF DropObject
      <4> QED
        BY <4>1
    <3> QED
      BY <3>1, <3>2
  <2> QED
    BY <2>1, <2>2, SameFrames
<1>13. ASSUME NEW i \in 1 .. 3, DropBlock(t, i)
       PROVE  FramesHold'
  <2>1. UNCHANGED runVars /\ owner' = owner /\ (gil' = None => todo' = Nothing)
    BY <1>13, NoneAssumption DEF DropBlock, GiveUp, objVars
  <2> QED
    BY <2>1, SameFrames
<1> QED
  BY <1>1, <1>2, <1>3, <1>4, <1>5, <1>6, <1>7, <1>8, <1>10, <1>11, <1>12, <1>13 DEF Step

-----------------------------------------------------------------------------
(* Every step keeps pointers on the chain of owners *)

LEMMA SameMemory ==
    ASSUME Anchored, UNCHANGED <<kind, owner, data, keep>>
    PROVE  Anchored'
BY DEF Anchored, Memory

\* What a live object's owner gives access to is not disturbed by a new object o
\* or a new block b.
LEMMA CreateMemory ==
    ASSUME TypeOK, CountsExact, KindsAgree, Anchored, NEW o \in Objects, NEW k, NEW own, NEW mem,
           Create(o, k, own, mem),
           keep' = keep \/ \E b \in Blocks : \E held : Allocate(b, held)
    PROVE  /\ \A x \in Things : Alive(x) => Memory(data', keep', x) = Memory(data, keep, x)
           /\ mem = (IF own = None THEN o ELSE Memory(data', keep', own)) => Anchored'
<1>1. /\ data'[o] = mem /\ owner'[o] = own
      /\ \A a \in Objects \ {o} :
            data'[a] = data[a] /\ owner'[a] = owner[a] /\ (kind'[a] = "free" <=> kind[a] = "free")
  BY DEF Create, TypeOK
<1>2. \A a \in Objects : a \notin Blocks /\ (kind[a] # "free" => a # o)
  BY AddressesAssumption DEF Create
<1>3. ASSUME NEW x \in Things, Alive(x)
      PROVE  Memory(data', keep', x) = Memory(data, keep, x)
  <2>1. CASE x \in Objects
    <3>1. data'[x] = data[x]
      BY <1>1, <1>2, <1>3, <2>1 DEF Alive
    <3> QED
      BY <2>1, <3>1 DEF Memory
  <2>2. CASE x \notin Objects
    <3>1. x \in Blocks /\ uses[x] > 0
      BY <1>3, <2>2 DEF Alive, Things
    <3>2. keep'[x] = keep[x]
      BY <3>1 DEF Allocate, TypeOK
    <3>3. keep[x] # None => keep[x] \in Objects /\ Alive(keep[x])
      BY <3>1, HeldLives DEF TypeOK
    <3>4. keep[x] # None => data'[keep[x]] = data[keep[x]]
      BY <1>1, <1>2, <3>3 DEF Alive
    <3> QED
      BY <2>2, <3>2, <3>4 DEF Memory
  <2> QED
    BY <2>1, <2>2
<1>4. ASSUME mem = (IF own = None THEN o ELSE Memory(data', keep', own))
      PROVE  Anchored'
  <2> SUFFICES ASSUME NEW a \in Objects, kind'[a] # "free"
               PROVE  data'[a] = IF owner'[a] = None THEN a ELSE Memory(data', keep', owner'[a])
    BY DEF Anchored, Memory
  <2>1. CASE a = o
    BY <1>1, <1>4, <2>1
  <2>2. CASE a # o
    <3>1. /\ data'[a] = data[a] /\ owner'[a] = owner[a] /\ kind[a] # "free"
          /\ data[a] = IF owner[a] = None THEN a ELSE Memory(data, keep, owner[a])
      BY <1>1, <2>2 DEF Anchored
    <3>2. owner[a] # None => owner[a] \in Things /\ Alive(owner[a])
      BY HeldLives DEF TypeOK
    <3>3. owner[a] # None => Memory(data', keep', owner[a]) = Memory(data, keep, owner[a])
      BY <1>3, <3>2
    <3> QED
      BY <3>1, <3>3
  <2> QED
    BY <2>1, <2>2
<1> QED
  BY <1>3, <1>4

LEMMA AnchoredStep ==
    ASSUME TypeOK, CountsExact, KindsAgree, Anchored, NEW t \in Threads, Step(t)
    PROVE  Anchored'
<1>a. /\ \A o \in Named : o \in Objects /\ o \in Things /\ kind[o] # "free" /\ Alive(o)
      /\ Objects \cap Blocks = {} /\ None \notin Blocks /\ None \notin Objects
  BY NamedLive, AddressesAssumption DEF Alive, Things
<1>1. ASSUME NEW n \in Names, NEW o \in Objects, NEW b \in Blocks, NewArray(t, n, o, b)
      PROVE  Anchored'
  <2>1. Create(o, "array", b, b) /\ Allocate(b, None)
    BY <1>1 DEF NewArray
  <2>2. Memory(data', keep', b) = b
    BY <1>a, <2>1 DEF Memory, Allocate, TypeOK
  <2> QED
    BY <1>a, <2>1, <2>2, CreateMemory
<1>2. ASSUME NEW n \in Names, NEW o \in Objects, NewNdarray(t, n, o)
      PROVE  Anchored'
  <2>1. Create(o, "ndarray", None, o) /\ keep' = keep
    BY <1>2 DEF NewNdarray, blkVars
  <2> QED
    BY <2>1, CreateMemory
<1>3. ASSUME NEW n \in Names, NEW src \in Named, NEW o \in Objects, View(t, n, src, o)
      PROVE  Anchored'
  <2>1. /\ Create(o, "array", owner[src], data[src]) /\ keep' = keep
        /\ owner[src] \in Blocks /\ owner[src] # None
    BY <1>3, <1>a DEF View, KindsAgree
  <2>2. data[src] = Memory(data, keep, owner[src])
    BY <1>a, <2>1 DEF Anchored
  <2>3. owner[src] \in Things /\ Alive(owner[src])
    BY <1>a, <2>1, HeldLives DEF Things
  <2>4. Memory(data', keep', owner[src]) = Memory(data, keep, owner[src])
    BY <2>1, <2>3, CreateMemory
  <2> QED
    BY <2>1, <2>2, <2>4, CreateMemory
<1>4. ASSUME NEW n \in Names, NEW src \in Named, NEW o \in Objects, ToNumpy(t, n, src, o)
      PROVE  Anchored'
  <2>1. Create(o, "ndarray", src, data[src]) /\ keep' = keep
    BY <1>4 DEF ToNumpy, blkVars
  <2>2. Memory(data', keep', src) = Memory(data, keep, src) /\ Memory(data, keep, src) = data[src] /\ src # None
    BY <1>a, <2>1, CreateMemory DEF Memory
  <2> QED
    BY <2>1, <2>2, CreateMemory
<1>5. ASSUME NEW n \in Names, NEW src \in Named, NEW o \in Objects, NEW b \in Blocks,
             Borrow(t, n, src, o, b)
      PROVE  Anchored'
  <2>1. Create(o, "array", b, data[src]) /\ Allocate(b, src)
    BY <1>5 DEF Borrow
  <2>2. data'[src] = data[src] /\ keep'[b] = src
    BY <1>a, <2>1 DEF Create, Allocate, TypeOK
  <2>3. Memory(data', keep', b) = data[src] /\ b # None
    BY <1>a, <2>2 DEF Memory
  <2> QED
    BY <2>1, <2>3, CreateMemory
<1>6. ASSUME NEW n \in Names, Delete(t, n)
      PROVE  Anchored'
  BY <1>6, SameMemory DEF Delete, objVars, blkVars
<1>7. ASSUME NEW ops \in Operands, KernelCall(t, ops)
      PROVE  Anchored'
  BY <1>7, SameMemory DEF KernelCall
<1>8. ASSUME KernelEnd(t)
      PROVE  Anchored'
  BY <1>8, SameMemory DEF KernelEnd, objVars
<1>9. ASSUME NEW n \in Names, NEW o \in Objects, NEW b \in Blocks, ReturnArray(t, n, o, b)
      PROVE  Anchored'
  <2>1. Create(o, "array", b, b) /\ Allocate(b, None)
    BY <1>9 DEF ReturnArray
  <2>2. Memory(data', keep', b) = b
    BY <1>a, <2>1 DEF Memory, Allocate, TypeOK
  <2> QED
    BY <1>a, <2>1, <2>2, CreateMemory
<1>10. ASSUME ReturnOther(t)
       PROVE  Anchored'
  BY <1>10, SameMemory DEF ReturnOther, objVars, blkVars
<1>11. ASSUME NEW i \in 1 .. 3, DropObject(t, i)
       PROVE  Anchored'
  <2> DEFINE o == todo[i]
  <2>1. o \in Objects /\ o \in Things /\ o \notin Blocks /\ keep' = keep
    BY <1>11, AddressesAssumption DEF DropObject, Things, blkVars
  <2>2. CASE refs[o] = 1
    <3>1. Holders(o) = 1
      BY <2>1, <2>2 DEF CountsExact, Count
    <3>2. (\A a \in Objects : owner[a] # o) /\ (\A b \in Blocks : keep[b] # o)
      BY <2>1, <3>1, LastReference
    <3>3. /\ kind' = [kind EXCEPT ![o] = "free"] /\ owner' = [owner EXCEPT ![o] = None]
          /\ data' = [data EXCEPT ![o] = None]
      BY <1>11, <2>2 DEF DropObject
    <3>4. /\ kind'[o] = "free"
          /\ \A a \in Objects \ {o} : kind'[a] = kind[a] /\ owner'[a] = owner[a] /\ data'[a] = data[a]
      BY <2>1, <3>3 DEF TypeOK
    <3> SUFFICES ASSUME NEW a \in Objects, kind'[a] # "free"
                 PROVE  data'[a] = IF owner'[a] = None THEN a ELSE Memory(data', keep', owner'[a])
      BY DEF Anchored, Memory
    <3>5. /\ a # o /\ data'[a] = data[a] /\ owner'[a] = owner[a]
          /\ data[a] = IF owner[a] = None THEN a ELSE Memory(data, keep, owner[a])
      BY <3>4 DEF Anchored
    <3>6. owner[a] # None => Memory(data', keep', owner[a]) = Memory(data, keep, owner[a])
      <4>1. owner[a] \in Objects => data'[owner[a]] = data[owner[a]]
        BY <3>2, <3>4
      <4>2. owner[a] \in Blocks /\ keep[owner[a]] # None =>
                data'[keep[owner[a]]] = data[keep[owner[a]]]
        BY <3>2, <3>4 DEF TypeOK
      <4>3. owner[a] \in Objects \cup Blocks \cup {None}
        BY DEF TypeOK, Things
      <4> QED
        BY <2>1, <4>1, <4>2, <4>3 DEF Memory
    <3> QED
      BY <3>5, <3>6
  <2>3. CASE refs[o] # 1
    BY <1>11, <2>1, <2>3, SameMemory DEF DropObject
  <2> QED
    BY <2>2, <2>3
<1>12. ASSUME NEW i \in 1 .. 3, DropBlock(t, i)
       PROVE  Anchored'
  <2> DEFINE b == todo[i]
  <2>1. b \in Blocks /\ b \in Things /\ kind' = kind /\ owner' = owner /\ data' = data
    BY <1>12 DEF DropBlock, Things, objVars
  <2>2. CASE uses[b] = 1
    <3>1. Holders(b) = 1
      BY <2>1, <2>2 DEF CountsExact, Count
    <3>2. \A a \in Objects : owner[a] # b
      BY <2>1, <3>1, LastReference
    <3>3. \A c \in Blocks \ {b} : keep'[c] = keep[c]
      BY <1>12, <2>1, <2>2 DEF DropBlock, TypeOK
    <3>4. \A a \in Objects : owner[a] # None => Memory(data', keep', owner[a]) = Memory(data, keep, owner[a])
      BY <2>1, <3>2, <3>3 DEF Memory, TypeOK, Things
    <3> QED
      BY <2>1, <3>4 DEF Anchored, Memory
  <2>3. CASE uses[b] # 1
    <3>1. keep' = keep
      BY <1>12, <2>3 DEF DropBlock
    <3> QED
      BY <2>1, <3>1, SameMemory
  <2> QED
    BY <2>2, <2>3
<1> QED
  BY <1>1, <1>2, <1>3, <1>4, <1>5, <1>6, <1>7, <1>8, <1>9, <1>10, <1>11, <1>12 DEF Step

-----------------------------------------------------------------------------
(* No step closes a circle of owners *)

\* The things in N are new, or there are none: nothing else holds them, and they
\* close no circle among themselves.
LEMMA Grow ==
    ASSUME Acyclic, NEW N,
           \A x \in Things : Alive(x)' /\ x \notin N =>
                Alive(x) /\ Holds(x)' = Holds(x) /\ Holds(x) \notin N,
           \A S \in SUBSET N : S # {} =>
                /\ \E x \in S : \A y \in S : Holds(y)' # x
                /\ \E x \in S : Holds(x)' \notin S
    PROVE  Acyclic'
<1> SUFFICES ASSUME NEW S \in SUBSET Live', S # {}
             PROVE  /\ \E x \in S : \A y \in S : Holds(y)' # x
                    /\ \E x \in S : Holds(x)' \notin S
  BY DEF Acyclic
<1> DEFINE new == S \cap N
           old == S \ N
<1>1. \A x \in old : x \in Live /\ Holds(x)' = Holds(x) /\ Holds(x) \notin N
  BY DEF Live, Alive, Things
<1>2. old \in SUBSET Live
  BY <1>1
<1>3. \E x \in S : \A y \in S : Holds(y)' # x
  <2>1. CASE new # {}
    <3>1. PICK x \in new : \A y \in new : Holds(y)' # x
      BY <2>1
    <3>2. \A y \in old : Holds(y)' # x
      BY <1>1
    <3> QED
      BY <3>1, <3>2
  <2>2. CASE new = {}
    <3>1. old = S
      BY <2>2
    <3>2. PICK x \in old : \A y \in old : Holds(y) # x
      BY <1>2, <3>1 DEF Acyclic
    <3> QED
      BY <1>1, <3>1, <3>2
  <2> QED
    BY <2>1, <2>2
<1>4. \E x \in S : Holds(x)' \notin S
  <2>1. CASE old # {}
    <3>1. PICK x \in old : Holds(x) \notin old
      BY <1>2, <2>1 DEF Acyclic
    <3> QED
      BY <1>1, <3>1
  <2>2. CASE old = {}
    <3>1. new = S
      BY <2>2
    <3> QED
      BY <3>1
  <2> QED
    BY <2>1, <2>2
<1> QED
  BY <1>3, <1>4

LEMMA Shrink ==
    ASSUME Acyclic, \A x \in Things : Alive(x)' => Alive(x) /\ Holds(x)' = Holds(x)
    PROVE  Acyclic'
<1>1. \A S \in SUBSET {} : S = {}
  OBVIOUS
<1> QED
  BY <1>1, Grow

\* A new object o that holds something older.
LEMMA NewObject ==
    ASSUME TypeOK, CountsExact, KindsAgree, Acyclic, NEW o \in Objects, NEW k, NEW own, NEW mem,
           Create(o, k, own, mem), own # o, keep' = keep,
           \A b \in Blocks : uses'[b] > 0 => uses[b] > 0
    PROVE  Acyclic'
<1>1. /\ o \in Things /\ o \notin Blocks /\ kind[o] = "free" /\ owner'[o] = own
      /\ \A a \in Objects \ {o} : kind'[a] = kind[a] /\ owner'[a] = owner[a]
  BY AddressesAssumption DEF Create, TypeOK, Things
<1>2. (\A a \in Objects : owner[a] # o) /\ (\A b \in Blocks : keep[b] # o)
  <2>1. Holders(o) = 0
    BY <1>1, HeldLives DEF Alive, CountsExact, Count, TypeOK
  <2> QED
    BY <1>1, <2>1, Unheld
<1>3. ASSUME NEW x \in Things, Alive(x)', x \notin {o}
      PROVE  Alive(x) /\ Holds(x)' = Holds(x) /\ Holds(x) \notin {o}
  BY <1>1, <1>2, <1>3 DEF Alive, Holds, Things
<1>4. ASSUME NEW S \in SUBSET {o}, S # {}
      PROVE  /\ \E x \in S : \A y \in S : Holds(y)' # x
             /\ \E x \in S : Holds(x)' \notin S
  <2>1. S = {o} /\ Holds(o)' = own
    BY <1>1, <1>4 DEF Holds
  <2> QED
    BY <2>1
<1> QED
  BY <1>3, <1>4, Grow

\* A new object o with a new block b that holds something older.
LEMMA NewPair ==
    ASSUME TypeOK, CountsExact, KindsAgree, Acyclic, NEW o \in Objects, NEW b \in Blocks,
           NEW mem, NEW held,
           Create(o, "array", b, mem), Allocate(b, held), held # o, held # b
    PROVE  Acyclic'
<1>1. /\ o \in Things /\ o \notin Blocks /\ kind[o] = "free" /\ owner'[o] = b
      /\ b \in Things /\ b \notin Objects /\ uses[b] = 0 /\ keep'[b] = held
      /\ \A a \in Objects \ {o} : kind'[a] = kind[a] /\ owner'[a] = owner[a]
      /\ \A c \in Blocks \ {b} : uses'[c] = uses[c] /\ keep'[c] = keep[c]
  BY AddressesAssumption DEF Create, Allocate, TypeOK, Things
<1>2. (\A a \in Objects : owner[a] # o) /\ (\A c \in Blocks : keep[c] # o)
  <2>1. Holders(o) = 0
    BY <1>1, HeldLives DEF Alive, CountsExact, Count, TypeOK
  <2> QED
    BY <1>1, <2>1, Unheld
<1>3. (\A a \in Objects : owner[a] # b) /\ (\A c \in Blocks : keep[c] # b)
  <2>1. Holders(b) = 0
    BY <1>1 DEF CountsExact, Count
  <2> QED
    BY <1>1, <2>1, Unheld
<1>4. ASSUME NEW x \in Things, Alive(x)', x \notin {o, b}
      PROVE  Alive(x) /\ Holds(x)' = Holds(x) /\ Holds(x) \notin {o, b}
  BY <1>1, <1>2, <1>3, <1>4 DEF Alive, Holds, Things
<1>5. ASSUME NEW S \in SUBSET {o, b}, S # {}
      PROVE  /\ \E x \in S : \A y \in S : Holds(y)' # x
             /\ \E x \in S : Holds(x)' \notin S
  <2>1. Holds(o)' = b /\ Holds(b)' = held /\ o # b
    BY <1>1 DEF Holds
  <2>2. S = {o} \/ S = {b} \/ S = {o, b}
    BY <1>5
  <2> QED
    BY <2>1, <2>2
<1> QED
  BY <1>4, <1>5, Grow

LEMMA AcyclicStep ==
    ASSUME TypeOK, TypeOK', CountsExact, KindsAgree, FramesHold, Acyclic, NEW t \in Threads, Step(t)
    PROVE  Acyclic'
<1>a. /\ \A o \in Named : o \in Objects /\ o \notin Blocks /\ kind[o] # "free"
      /\ Objects \cap Blocks = {} /\ None \notin Blocks /\ None \notin Objects
      /\ uses \in [Blocks -> Nat]
  BY NamedLive, AddressesAssumption DEF TypeOK
<1>1. ASSUME NEW n \in Names, NEW o \in Objects, NEW b \in Blocks, NewArray(t, n, o, b)
      PROVE  Acyclic'
  <2>1. Create(o, "array", b, b) /\ Allocate(b, None) /\ None # o /\ None # b
    BY <1>1, <1>a DEF NewArray
  <2> QED
    BY <2>1, NewPair
<1>2. ASSUME NEW n \in Names, NEW o \in Objects, NewNdarray(t, n, o)
      PROVE  Acyclic'
  <2>1. Create(o, "ndarray", None, o) /\ None # o /\ keep' = keep /\ uses' = uses
    BY <1>2, <1>a DEF NewNdarray, blkVars
  <2> QED
    BY <2>1, NewObject
<1>3. ASSUME NEW n \in Names, NEW src \in Named, NEW o \in Objects, View(t, n, src, o)
      PROVE  Acyclic'
  <2>1. Create(o, "array", owner[src], data[src]) /\ keep' = keep
    BY <1>3 DEF View
  <2>2. owner[src] \in Blocks /\ owner[src] # None /\ owner[src] # o /\ src \in Objects
    BY <1>3, <1>a DEF View, KindsAgree
  <2>3. uses[owner[src]] > 0
    BY <2>2, HeldLives DEF Alive
  <2>4. \A b \in Blocks : uses'[b] > 0 => uses[b] > 0
    BY <1>3, <1>a, <2>2, <2>3 DEF View
  <2> QED
    BY <2>1, <2>2, <2>4, NewObject
<1>4. ASSUME NEW n \in Names, NEW src \in Named, NEW o \in Objects, ToNumpy(t, n, src, o)
      PROVE  Acyclic'
  <2>1. Create(o, "ndarray", src, data[src]) /\ src # o /\ keep' = keep /\ uses' = uses
    BY <1>4, <1>a DEF ToNumpy, blkVars, Create
  <2> QED
    BY <2>1, NewObject
<1>5. ASSUME NEW n \in Names, NEW src \in Named, NEW o \in Objects, NEW b \in Blocks,
             Borrow(t, n, src, o, b)
      PROVE  Acyclic'
  <2>1. Create(o, "array", b, data[src]) /\ Allocate(b, src) /\ src # o /\ src # b
    BY <1>5, <1>a DEF Borrow, Create
  <2> QED
    BY <2>1, NewPair
<1>6. ASSUME UNCHANGED <<kind, owner, keep>>, \A b \in Blocks : uses'[b] > 0 => uses[b] > 0
      PROVE  Acyclic'
  <2>1. \A x \in Things : Alive(x)' => Alive(x) /\ Holds(x)' = Holds(x)
    BY <1>6 DEF Alive, Holds
  <2> QED
    BY <2>1, Shrink
<1>7. ASSUME NEW n \in Names, Delete(t, n)
      PROVE  Acyclic'
  BY <1>6, <1>7 DEF Delete, objVars, blkVars
<1>8. ASSUME NEW ops \in Operands, KernelCall(t, ops)
      PROVE  Acyclic'
  <2>1. PICK b \in Copied(ops) : uses' = Share(b)
    BY <1>8 DEF KernelCall
  <2>2. b # None => b \in Blocks /\ uses[b] > 0
    <3>1. b # None => kind[ops[1]] = "array" /\ b = owner[ops[1]] /\ ops[1] \in Objects
      BY OperandsType
    <3>2. b # None => b \in Blocks /\ Alive(b)
      BY <3>1, HeldLives DEF KindsAgree
    <3> QED
      BY <3>2 DEF Alive
  <2>3. \A c \in Blocks : uses'[c] > 0 => uses[c] > 0
    BY <1>a, <2>1, <2>2 DEF Share
  <2> QED
    BY <1>6, <1>8, <2>3 DEF KernelCall
<1>9. ASSUME KernelEnd(t)
      PROVE  Acyclic'
  <2>1. \A c \in Blocks : uses'[c] > 0 => uses[c] > 0
    BY <1>a, <1>9 DEF KernelEnd
  <2> QED
    BY <1>6, <1>9, <2>1 DEF KernelEnd, objVars
<1>10. ASSUME NEW n \in Names, NEW o \in Objects, NEW b \in Blocks, ReturnArray(t, n, o, b)
       PROVE  Acyclic'
  <2>1. Create(o, "array", b, b) /\ Allocate(b, None) /\ None # o /\ None # b
    BY <1>10, <1>a DEF ReturnArray
  <2> QED
    BY <2>1, NewPair
<1>11. ASSUME ReturnOther(t)
       PROVE  Acyclic'
  BY <1>6, <1>11 DEF ReturnOther, objVars, blkVars
<1>12. ASSUME NEW i \in 1 .. 3, DropObject(t, i)
       PROVE  Acyclic'
  <2> DEFINE o == todo[i]
  <2>1. o \in Objects /\ uses' = uses /\ keep' = keep
    BY <1>12 DEF DropObject, blkVars
  <2>2. CASE refs[o] = 1
    <3>1. kind' = [kind EXCEPT ![o] = "free"] /\ owner' = [owner EXCEPT ![o] = None]
      BY <1>12, <2>2 DEF DropObject
    <3>2. /\ kind'[o] = "free"
          /\ \A a \in Objects \ {o} : kind'[a] = kind[a] /\ owner'[a] = owner[a]
      BY <2>1, <3>1 DEF TypeOK
    <3>3. \A x \in Things : Alive(x)' => Alive(x) /\ Holds(x)' = Holds(x)
      BY <2>1, <3>2 DEF Alive, Holds, Things
    <3> QED
      BY <3>3, Shrink
  <2>3. CASE refs[o] # 1
    <3>1. UNCHANGED <<kind, owner>>
      BY <1>12, <2>3 DEF DropObject
    <3> QED
      BY <1>6, <2>1, <3>1
  <2> QED
    BY <2>2, <2>3
<1>13. ASSUME NEW i \in 1 .. 3, DropBlock(t, i)
       PROVE  Acyclic'
  <2> DEFINE b == todo[i]
  <2>1. b \in Blocks /\ kind' = kind /\ owner' = owner
    BY <1>13 DEF DropBlock, objVars
  <2>2. /\ uses'[b] = uses[b] - 1 /\ (uses[b] # 1 => keep'[b] = keep[b])
        /\ \A c \in Blocks \ {b} : uses'[c] = uses[c] /\ keep'[c] = keep[c]
    BY <1>13, <2>1 DEF DropBlock, TypeOK
  <2>3. ASSUME NEW x \in Things, Alive(x)'
        PROVE  Alive(x) /\ Holds(x)' = Holds(x)
    BY <1>a, <2>1, <2>2, <2>3 DEF Alive, Holds
  <2> QED
    BY <2>3, Shrink
<1> QED
  BY <1>1, <1>2, <1>3, <1>4, <1>5, <1>7, <1>8, <1>9, <1>10, <1>11, <1>12, <1>13 DEF Step

-----------------------------------------------------------------------------
(* The invariant and what follows from it *)

\* What is in none of the places has no holder.
LEMMA Nowhere ==
    ASSUME TypeOK, NEW x \in Things,
           \A n \in Names : names[n] # x,
           \A o \in Objects : owner[o] # x,
           \A b \in Blocks : keep[b] # x,
           \A t \in Threads : temp[t] # x /\ args[t][1] # x /\ args[t][2] # x,
           \A i \in 1 .. 3 : todo[i] # x
    PROVE  Holders(x) = 0
<1>1. /\ DOMAIN names = Names /\ DOMAIN owner = Objects /\ DOMAIN keep = Blocks
      /\ DOMAIN temp = Threads /\ DOMAIN todo = 1 .. 3
  BY DEF TypeOK
<1>2. Times(names, x) = 0
  BY <1>1, TimesZero, FinitenessAssumption
<1>3. Times(owner, x) = 0
  BY <1>1, TimesZero, FinitenessAssumption
<1>4. Times(keep, x) = 0
  BY <1>1, TimesZero, FinitenessAssumption
<1>5. Times(temp, x) = 0
  BY <1>1, TimesZero, FinitenessAssumption
<1>6. Times(todo, x) = 0
  BY <1>1, TimesZero, SlotsFinite
<1>7. ASSUME NEW i \in 1 .. 2
      PROVE  Times(Operand(i), x) = 0
  <2>1. DOMAIN Operand(i) = Threads /\ \A t \in Threads : Operand(i)[t] = args[t][i]
    BY DEF Operand
  <2>2. \A t \in Threads : Operand(i)[t] # x
    BY <2>1, i = 1 \/ i = 2
  <2> QED
    BY <2>1, <2>2, TimesZero, FinitenessAssumption
<1>8. Times(Operand(1), x) = 0 /\ Times(Operand(2), x) = 0
  BY <1>7
<1> QED
  BY <1>2, <1>3, <1>4, <1>5, <1>6, <1>8 DEF Holders

LEMMA InvInit == Init => IInv
<1> SUFFICES ASSUME Init PROVE IInv
  OBVIOUS
<1>1. TypeOK
  BY DEF Init, TypeOK, Nothing
<1>2. CountsExact
  <2> SUFFICES ASSUME NEW x \in Things PROVE Count(x) = Holders(x)
    BY DEF CountsExact
  <2>1. x # None
    BY AddressesAssumption DEF Things
  <2>2. Holders(x) = 0
    BY <1>1, <2>1, Nowhere DEF Init, Nothing
  <2> QED
    BY <2>2 DEF Init, Count, Things
<1>3. KindsAgree
  BY DEF Init, KindsAgree
<1>4. FramesHold
  BY DEF Init, FramesHold
<1>5. Anchored
  BY DEF Init, Anchored
<1>6. Acyclic
  <2>1. Live = {}
    BY DEF Init, Live, Alive, Things
  <2> QED
    BY <2>1 DEF Acyclic
<1> QED
  BY <1>1, <1>2, <1>3, <1>4, <1>5, <1>6 DEF IInv

LEMMA InvStep == IInv /\ [Next]_vars => IInv'
<1> SUFFICES ASSUME IInv, [Next]_vars PROVE IInv'
  OBVIOUS
<1>1. TypeOK /\ CountsExact /\ KindsAgree /\ FramesHold /\ Anchored /\ Acyclic
  BY DEF IInv
<1>2. ASSUME NEW t \in Threads, Step(t)
      PROVE  IInv'
  <2>1. TypeOK'
    BY <1>1, <1>2, TypeStep
  <2>2. CountsExact'
    BY <1>1, <1>2, <2>1, CountsStep
  <2>3. KindsAgree'
    BY <1>1, <1>2, <2>1, KindsStep
  <2>4. FramesHold'
    BY <1>1, <1>2, <2>1, FramesStep
  <2>5. Anchored'
    BY <1>1, <1>2, AnchoredStep
  <2>6. Acyclic'
    BY <1>1, <1>2, <2>1, AcyclicStep
  <2> QED
    BY <2>1, <2>2, <2>3, <2>4, <2>5, <2>6 DEF IInv
<1>3. CASE UNCHANGED vars
  <2>1. TypeOK'
    BY <1>1, <1>3 DEF TypeOK, vars
  <2>2. CountsExact'
    BY <1>1, <1>3 DEF CountsExact, Count, Holders, Operand, vars
  <2>3. KindsAgree'
    BY <1>1, <1>3 DEF KindsAgree, vars
  <2>4. FramesHold'
    BY <1>1, <1>3 DEF FramesHold, vars
  <2>5. Anchored'
    BY <1>1, <1>3, SameMemory DEF vars
  <2>6. Acyclic'
    <3>1. \A x \in Things : Alive(x)' => Alive(x) /\ Holds(x)' = Holds(x)
      BY <1>3 DEF vars, Alive, Holds
    <3> QED
      BY <1>1, <3>1, Shrink
  <2> QED
    BY <2>1, <2>2, <2>3, <2>4, <2>5, <2>6 DEF IInv
<1> QED
  BY <1>2, <1>3 DEF Next

THEOREM Invariant == Spec => []IInv
BY InvInit, InvStep, PTL DEF Spec

\* Both kinds of reference count are exact, for any number of threads, variables,
\* objects and blocks: no call of the bridge forgets a reference or drops one twice.
THEOREM CountsExactHolds == Spec => []CountsExact
<1>1. IInv => CountsExact
  BY DEF IInv
<1> QED
  BY <1>1, Invariant, PTL

\* The chain of owners of a live object ends at the memory it points into.
LEMMA ChainEnds ==
    ASSUME IInv, NEW o \in Objects, kind[o] # "free"
    PROVE  data[o] \in Things /\ Alive(data[o])
<1> DEFINE S == {x \in Live : Memory(data, keep, x) = data[o]}
<1>1. TypeOK /\ CountsExact /\ KindsAgree /\ Anchored /\ Acyclic
      /\ Objects \cap Blocks = {}
  BY AddressesAssumption DEF IInv
<1>2. o \in S /\ S \in SUBSET Live
  BY <1>1 DEF Live, Alive, Memory, Things
<1>3. PICK x \in S : Holds(x) \notin S
  BY <1>1, <1>2 DEF Acyclic
<1>4. x \in Things /\ Alive(x) /\ Memory(data, keep, x) = data[o]
  BY <1>3 DEF Live
<1>5. CASE x \in Objects
  <2>1. kind[x] # "free" /\ data[x] = data[o] /\ Holds(x) = owner[x]
    BY <1>1, <1>4, <1>5 DEF Alive, Memory, Holds
  <2>2. CASE owner[x] = None
    BY <1>1, <1>4, <1>5, <2>1, <2>2 DEF Anchored
  <2>3. CASE owner[x] # None
    <3>1. Memory(data, keep, owner[x]) = data[o]
      BY <1>1, <1>5, <2>1, <2>3 DEF Anchored
    <3>2. owner[x] \in Things /\ Alive(owner[x])
      BY <1>1, <1>5, <2>3, HeldLives DEF TypeOK
    <3> QED
      BY <1>3, <2>1, <3>1, <3>2 DEF Live
  <2> QED
    BY <2>2, <2>3
<1>6. CASE x \notin Objects
  <2>1. x \in Blocks /\ Holds(x) = keep[x]
    BY <1>4, <1>6 DEF Things, Holds
  <2>2. CASE keep[x] = None
    BY <1>4, <1>6, <2>2 DEF Memory
  <2>3. CASE keep[x] # None
    <3>1. keep[x] \in Objects /\ keep[x] \in Things /\ Alive(keep[x])
      BY <1>1, <2>1, <2>3, HeldLives DEF TypeOK, Things
    <3>2. Memory(data, keep, keep[x]) = data[o]
      BY <1>4, <1>6, <2>3, <3>1 DEF Memory
    <3> QED
      BY <1>3, <2>1, <3>1, <3>2 DEF Live
  <2> QED
    BY <2>2, <2>3
<1> QED
  BY <1>5, <1>6

\* No Array, ndarray, variable or running kernel ever points to memory that has
\* been freed: views, exports and borrows of each other may lose their names in
\* any order, and threads may delete what a kernel works on.
THEOREM NoDanglingHolds == Spec => []NoDangling
<1>1. IInv => NoDangling
  <2> SUFFICES ASSUME IInv PROVE NoDangling
    OBVIOUS
  <2>1. \A o \in Objects : kind[o] # "free" => Alive(data[o])
    BY ChainEnds
  <2>2. /\ \A n \in Names : names[n] # None => Alive(names[n])
        /\ \A t \in Threads, i \in 1 .. 2 : args[t][i] # None => Alive(args[t][i])
        /\ \A t \in Threads : temp[t] # None => Alive(temp[t])
    BY HeldLives DEF IInv
  <2> QED
    BY <2>1, <2>2 DEF NoDangling
<1> QED
  BY <1>1, Invariant, PTL

\* Nothing stays allocated that only things nobody can reach hold: the bridge
\* cannot build a circle of an Array, its block and an ndarray.
THEOREM NoLeakHolds == Spec => []NoLeak
<1>1. IInv => NoLeak
  <2> SUFFICES ASSUME IInv, NEW S \in SUBSET Live, S # {}
               PROVE  \E x \in S :
                        \/ x \in Named
                        \/ \E t \in Threads : x \in {temp[t], args[t][1], args[t][2]}
                        \/ \E i \in 1 .. 3 : x = todo[i]
                        \/ \E o \in Objects \ S : x = owner[o]
                        \/ \E b \in Blocks \ S : x = keep[b]
    BY DEF NoLeak
  <2>1. PICK x \in S : \A y \in S : Holds(y) # x
    BY DEF IInv, Acyclic
  <2>2. x \in Things /\ x # None /\ Holders(x) # 0
    BY HeldLives, AddressesAssumption DEF IInv, Live, Things
  <2>3. \/ \E n \in Names : x = names[n]
        \/ \E o \in Objects : x = owner[o]
        \/ \E b \in Blocks : x = keep[b]
        \/ \E t \in Threads : x \in {temp[t], args[t][1], args[t][2]}
        \/ \E i \in 1 .. 3 : x = todo[i]
    BY <2>2, Nowhere DEF IInv
  <2>4. \A n \in Names : x = names[n] => x \in Named
    BY <2>2 DEF Named
  <2>5. \A o \in Objects : x = owner[o] => o \notin S
    BY <2>1, AddressesAssumption DEF Holds
  <2>6. \A b \in Blocks : x = keep[b] => b \notin S
    BY <2>1 DEF Holds
  <2> QED
    BY <2>3, <2>4, <2>5, <2>6
<1> QED
  BY <1>1, Invariant, PTL

\* A borrow's deleter, which drops a Python reference, only runs on a thread that
\* has the GIL: the local copy that a kernel lets go of without the GIL is never
\* the last share of a block.
THEOREM BorrowsDieUnderGilHolds == Spec => BorrowsDieUnderGil
<1> DEFINE Dies(b) == Alive(b) /\ keep[b] # None /\ ~Alive(b)'
<1>1. IInv /\ [Next]_vars => [\A b \in Blocks : Dies(b) => gil # None]_vars
  <2> SUFFICES ASSUME IInv, NEW t \in Threads, Step(t), NEW b \in Blocks, Dies(b)
               PROVE  gil # None
    BY DEF Next
  <2>1. /\ uses \in [Blocks -> Nat] /\ uses[b] > 0 /\ ~(uses'[b] > 0)
        /\ TypeOK /\ CountsExact /\ KindsAgree /\ FramesHold
    BY DEF Alive, IInv, TypeOK
  <2>2. uses' # uses
    BY <2>1
  <2>3. \A c \in Blocks : \A held : ~Allocate(c, held)
    BY <2>1 DEF Allocate
  <2>4. ~ \E n \in Names, src \in Named, o \in Objects : View(t, n, src, o)
    <3> SUFFICES ASSUME NEW n \in Names, NEW src \in Named, NEW o \in Objects, View(t, n, src, o)
                 PROVE  FALSE
      OBVIOUS
    <3>1. src \in Objects /\ owner[src] \in Blocks
      BY <2>1, NamedLive DEF View, KindsAgree
    <3> QED
      BY <2>1, <3>1 DEF View
  <2>5. ~ \E ops \in Operands : KernelCall(t, ops)
    <3> SUFFICES ASSUME NEW ops \in Operands, KernelCall(t, ops)
                 PROVE  FALSE
      OBVIOUS
    <3>1. PICK c \in Copied(ops) : uses' = Share(c)
      BY DEF KernelCall
    <3> QED
      BY <2>1, <3>1 DEF Share
  <2>6. ~KernelEnd(t)
    <3>1. temp[t] # None => temp[t] \in Blocks /\ uses[temp[t]] > 1
      BY <2>1, CopyShares DEF CountsExact, Count, Things
    <3> QED
      BY <2>1, <3>1 DEF KernelEnd
  <2>7. /\ \A n \in Names, o \in Objects : ~NewNdarray(t, n, o)
        /\ \A n \in Names, src \in Named, o \in Objects : ~ToNumpy(t, n, src, o)
        /\ \A n \in Names : ~Delete(t, n)
        /\ ~ReturnOther(t)
        /\ \A i \in 1 .. 3 : ~DropObject(t, i)
    BY <2>2 DEF NewNdarray, ToNumpy, Delete, ReturnOther, DropObject, blkVars
  <2>8. PICK i \in 1 .. 3 : DropBlock(t, i)
    BY <2>3, <2>4, <2>5, <2>6, <2>7 DEF Step, NewArray, Borrow, ReturnArray
  <2> QED
    BY <2>8, NoneAssumption DEF DropBlock, Current
<1> QED
  BY <1>1, Invariant, PTL DEF Spec, BorrowsDieUnderGil
=============================================================================
