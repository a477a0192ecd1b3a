----------------------------- MODULE Ownership -----------------------------
(***************************************************************************)
(* Who keeps which memory alive between hpxpy and NumPy: an Array's        *)
(* owner_ (src/src/array.hpp), to_numpy's ndarray that holds the Array,    *)
(* from_numpy's borrow that holds the ndarray (src/src/_core.cpp), and the *)
(* kernels that read their operands with the GIL released.                 *)
(*                                                                         *)
(* The memory of an HPX buffer lives in its shared_ptr control block, that *)
(* of a NumPy array in the ndarray object: a pointer into it is named by   *)
(* that block or object. CPython's counting of references, and the         *)
(* references a call's frame holds on its arguments, are external. A       *)
(* Python-level step needs the GIL for that one step; a thread that gives  *)
(* up references keeps it until all that dies with them is gone.           *)
(***************************************************************************)
EXTENDS Naturals, FiniteSets

CONSTANTS
    Threads, Names,     \* the program's threads and variables
    Objects,            \* addresses of Array and ndarray objects
    Blocks,             \* addresses of shared_ptr control blocks
    None

ASSUME FinitenessAssumption ==
    IsFiniteSet(Threads) /\ IsFiniteSet(Names) /\ IsFiniteSet(Objects) /\ IsFiniteSet(Blocks)
ASSUME AddressesAssumption == Objects \cap Blocks = {} /\ None \notin Objects \cup Blocks
ASSUME NoneAssumption == None \notin Threads /\ None \notin Names

VARIABLES
    names,      \* what each variable of the program is bound to
    kind,       \* "free", "array" or "ndarray", per object
    refs,       \* its Python reference count
    owner,      \* Array: the block of owner_; ndarray: its base, if any
    data,       \* base_: the block or object whose memory it points into
    uses,       \* use count of a block; 0 when it is not allocated
    keep,       \* the ndarray a borrow's np_rw holds, per block
    gil,        \* the thread that keeps the GIL across steps, or None
    pc,         \* "idle", "kernel" (GIL released) or "return", per thread
    args,       \* the operands a call in progress holds, at most two
    temp,       \* the block a kernel's local copy of its operand shares
    todo        \* references the thread that keeps the GIL is giving up

objVars == <<kind, refs, owner, data>>
blkVars == <<uses, keep>>
runVars == <<pc, args, temp>>
vars    == <<names, kind, refs, owner, data, uses, keep, gil, pc, args, temp, todo>>

Nothing == [i \in 1 .. 3 |-> None]

Init ==
    /\ names = [n \in Names |-> None]
    /\ kind = [o \in Objects |-> "free"]
    /\ refs = [o \in Objects |-> 0]
    /\ owner = [o \in Objects |-> None]
    /\ data = [o \in Objects |-> None]
    /\ uses = [b \in Blocks |-> 0]
    /\ keep = [b \in Blocks |-> None]
    /\ gil = None
    /\ pc = [t \in Threads |-> "idle"]
    /\ args = [t \in Threads |-> <<None, None>>]
    /\ temp = [t \in Threads |-> None]
    /\ todo = Nothing

Named == {names[n] : n \in Names} \ {None}

\* Thread t is between two calls and has the GIL.
Ready(t) == pc[t] = "idle" /\ gil = None

\* Thread t has the references in `left` to give up, with the GIL kept.
GiveUp(t, left) ==
    /\ todo' = left
    /\ gil' = IF left = Nothing THEN None ELSE t

\* Variable n is bound to o; what it named before, and a call's operands, are
\* given up.
Rebind(t, n, o, operands) ==
    /\ names' = IF n = None THEN names ELSE [names EXCEPT ![n] = o]
    /\ GiveUp(t, [i \in 1 .. 3 |-> IF i < 3 THEN operands[i] ELSE IF n = None THEN None ELSE names[n]])

\* A Python object is created at the free address o.
Create(o, k, own, mem) ==
    /\ kind[o] = "free"
    /\ kind' = [kind EXCEPT ![o] = k]
    /\ owner' = [owner EXCEPT ![o] = own]
    /\ data' = [data EXCEPT ![o] = mem]

Allocate(b, held) ==
    /\ uses[b] = 0
    /\ uses' = [uses EXCEPT ![b] = 1]
    /\ keep' = [keep EXCEPT ![b] = held]

-----------------------------------------------------------------------------
(* Calls that keep the GIL *)

\* hpx.zeros(n) and the other constructors: a fresh HPX buffer.
NewArray(t, n, o, b) ==
    /\ Ready(t)
    /\ Create(o, "array", b, b)
    /\ Allocate(b, None)
    /\ refs' = [refs EXCEPT ![o] = 1]
    /\ Rebind(t, n, o, <<None, None>>)
    /\ UNCHANGED runVars

\* np.zeros(n)
NewNdarray(t, n, o) ==
    /\ Ready(t)
    /\ Create(o, "ndarray", None, o)
    /\ refs' = [refs EXCEPT ![o] = 1]
    /\ Rebind(t, n, o, <<None, None>>)
    /\ UNCHANGED <<blkVars, runVars>>

\* a[i:j], a.T, a.reshape(...): a view shares the parent's owner_.
View(t, n, src, o) ==
    /\ Ready(t) /\ kind[src] = "array"
    /\ Create(o, "array", owner[src], data[src])
    /\ uses' = [uses EXCEPT ![owner[src]] = @ + 1]
    /\ refs' = [refs EXCEPT ![o] = 1]
    /\ Rebind(t, n, o, <<None, None>>)
    /\ UNCHANGED <<keep, runVars>>

\* Mutant: the ndarray has no owner.
ToNumpyUnowned(t, n, src, o) ==
    /\ Ready(t) /\ kind[src] = "array"
    /\ Create(o, "ndarray", None, data[src])
    /\ refs' = [refs EXCEPT ![o] = 1]
    /\ Rebind(t, n, o, <<None, None>>)
    /\ UNCHANGED <<blkVars, runVars>>

\* a.to_numpy(), np.asarray(a): the ndarray's owner is the Array object.
ToNumpy(t, n, src, o) ==
    /\ Ready(t) /\ kind[src] = "array"
    /\ Create(o, "ndarray", src, data[src])
    /\ refs' = [refs EXCEPT ![o] = 1, ![src] = @ + 1]
    /\ Rebind(t, n, o, <<None, None>>)
    /\ UNCHANGED <<blkVars, runVars>>

\* hpx.from_numpy(x, copy=False): owner_ is a block whose deleter releases the
\* np_rw, which holds the ndarray.
Borrow(t, n, src, o, b) ==
    /\ Ready(t) /\ kind[src] = "ndarray"
    /\ Create(o, "array", b, data[src])
    /\ Allocate(b, src)
    /\ refs' = [refs EXCEPT ![o] = 1, ![src] = @ + 1]
    /\ Rebind(t, n, o, <<None, None>>)
    /\ UNCHANGED runVars

\* del n
Delete(t, n) ==
    /\ Ready(t) /\ names[n] # None
    /\ Rebind(t, n, None, <<None, None>>)
    /\ UNCHANGED <<objVars, blkVars, runVars>>

-----------------------------------------------------------------------------
(* Calls that release the GIL *)

Share(b) == IF b = None THEN uses ELSE [uses EXCEPT ![b] = @ + 1]

\* from_numpy(x, copy=True) takes an ndarray, the other kernels one or two Arrays.
Operands ==
    LET arrays == {o \in Named : kind[o] = "array"}
    IN  (Named \X {None}) \cup (arrays \X arrays)

\* Blocks that a kernel on the given operands may share through a local copy of
\* the first as an Array (mean_axis).
Copied(operands) ==
    {None} \cup (IF kind[operands[1]] = "array" THEN {owner[operands[1]]} ELSE {})

\* Mutant: the call holds no reference on its operands.
KernelCallUnheld(t, operands) ==
    /\ Ready(t)
    /\ pc' = [pc EXCEPT ![t] = "kernel"]
    /\ \E b \in Copied(operands) : temp' = [temp EXCEPT ![t] = b] /\ uses' = Share(b)
    /\ UNCHANGED <<names, objVars, keep, gil, args, todo>>

\* A kernel on Arrays, or from_numpy(x, copy=True): the frame holds the operands,
\* the GIL is released.
KernelCall(t, operands) ==
    /\ Ready(t)
    /\ pc' = [pc EXCEPT ![t] = "kernel"]
    /\ args' = [args EXCEPT ![t] = operands]
    /\ refs' = [o \in Objects |-> refs[o] + Cardinality({i \in 1 .. 2 : operands[i] = o})]
    /\ \E b \in Copied(operands) : temp' = [temp EXCEPT ![t] = b] /\ uses' = Share(b)
    /\ UNCHANGED <<names, kind, owner, data, keep, gil, todo>>

\* The kernel is done; its locals go away with the GIL still released.
KernelEnd(t) ==
    /\ pc[t] = "kernel"
    /\ pc' = [pc EXCEPT ![t] = "return"]
    /\ uses' = IF temp[t] = None THEN uses ELSE [uses EXCEPT ![temp[t]] = @ - 1]
    /\ temp' = [temp EXCEPT ![t] = None]
    /\ UNCHANGED <<names, objVars, keep, gil, args, todo>>

Returned(t) ==
    /\ pc[t] = "return" /\ gil = None
    /\ pc' = [pc EXCEPT ![t] = "idle"]
    /\ args' = [args EXCEPT ![t] = <<None, None>>]
    /\ UNCHANGED temp

\* With the GIL taken again the result becomes an Array of its own buffer.
ReturnArray(t, n, o, b) ==
    /\ Returned(t)
    /\ Create(o, "array", b, b)
    /\ Allocate(b, None)
    /\ refs' = [refs EXCEPT ![o] = 1]
    /\ Rebind(t, n, o, args[t])

\* A scalar result, or an exception.
ReturnOther(t) ==
    /\ Returned(t)
    /\ Rebind(t, None, None, args[t])
    /\ UNCHANGED <<objVars, blkVars>>

-----------------------------------------------------------------------------
(* Giving up references *)

\* The reference thread t gives up now. What an object or block gives up when it
\* dies takes its place, before the others.
Current(t, i) == gil = t /\ todo[i] # None /\ \A j \in 1 .. i - 1 : todo[j] = None

\* A reference on a Python object: the last one destroys the object, which
\* gives up its owner.
DropObject(t, i) ==
    /\ Current(t, i) /\ todo[i] \in Objects
    /\ LET o == todo[i]
           dies == refs[o] = 1
       IN  /\ refs' = [refs EXCEPT ![o] = @ - 1]
           /\ IF dies
              THEN /\ kind' = [kind EXCEPT ![o] = "free"]
                   /\ owner' = [owner EXCEPT ![o] = None]
                   /\ data' = [data EXCEPT ![o] = None]
              ELSE UNCHANGED <<kind, owner, data>>
           /\ GiveUp(t, [todo EXCEPT ![i] = IF dies THEN owner[o] ELSE None])
    /\ UNCHANGED <<names, blkVars, runVars>>

\* Mutant: the deleter of a borrow does not delete the np_rw.
DropBlockKeeps(t, i) ==
    /\ Current(t, i) /\ todo[i] \in Blocks
    /\ LET b == todo[i]
       IN  /\ uses' = [uses EXCEPT ![b] = @ - 1]
           /\ keep' = IF uses[b] = 1 THEN [keep EXCEPT ![b] = None] ELSE keep
           /\ GiveUp(t, [todo EXCEPT ![i] = None])
    /\ UNCHANGED <<names, objVars, runVars>>

\* A share of owner_: the last one frees the HPX buffer, or runs the borrow's
\* deleter, which lets go of the ndarray.
DropBlock(t, i) ==
    /\ Current(t, i) /\ todo[i] \in Blocks
    /\ LET b == todo[i]
           dies == uses[b] = 1
       IN  /\ uses' = [uses EXCEPT ![b] = @ - 1]
           /\ keep' = IF dies THEN [keep EXCEPT ![b] = None] ELSE keep
           /\ GiveUp(t, [todo EXCEPT ![i] = IF dies THEN keep[b] ELSE None])
    /\ UNCHANGED <<names, objVars, runVars>>

-----------------------------------------------------------------------------
Step(t) ==
    \/ \E n \in Names, o \in Objects, b \in Blocks : NewArray(t, n, o, b)
    \/ \E n \in Names, o \in Objects : NewNdarray(t, n, o)
    \/ \E n \in Names, src \in Named, o \in Objects : View(t, n, src, o)
    \/ \E n \in Names, src \in Named, o \in Objects : ToNumpy(t, n, src, o)
    \/ \E n \in Names, src \in Named, o \in Objects, b \in Blocks : Borrow(t, n, src, o, b)
    \/ \E n \in Names : Delete(t, n)
    \/ \E operands \in Operands : KernelCall(t, operands)
    \/ KernelEnd(t)
    \/ \E n \in Names, o \in Objects, b \in Blocks : ReturnArray(t, n, o, b)
    \/ ReturnOther(t)
    \/ \E i \in 1 .. 3 : DropObject(t, i) \/ DropBlock(t, i)

Next == \E t \in Threads : Step(t)

Spec == Init /\ [][Next]_vars
-----------------------------------------------------------------------------
(* Properties *)

Things == Objects \cup Blocks

Count(x) == IF x \in Blocks THEN uses[x] ELSE refs[x]

Alive(x) == IF x \in Blocks THEN uses[x] > 0 ELSE kind[x] # "free"

Live == {x \in Things : Alive(x)}

\* How often x is among the values of f.
Times(f, x) == Cardinality({i \in DOMAIN f : f[i] = x})

\* The i-th operands of the calls in progress.
Operand(i) == [t \in Threads |-> args[t][i]]

\* The places that hold a reference on x.
Holders(x) ==
    Times(names, x) + Times(owner, x) + Times(keep, x) + Times(temp, x) + Times(todo, x)
        + Times(Operand(1), x) + Times(Operand(2), x)

\* Both kinds of count, Python's and shared_ptr's, are the number of holders:
\* the chain Array -> owner_ -> np_rw -> ndarray -> Array loses none and counts
\* none twice, wherever the GIL changes hands.
CountsExact == \A x \in Things : Count(x) = Holders(x)

\* Whatever a live Array, a live ndarray or a running kernel points to is
\* allocated, though every name of it may be gone.
NoDangling ==
    /\ \A o \in Objects : kind[o] # "free" => Alive(data[o])
    /\ \A n \in Names : names[n] # None => Alive(names[n])
    /\ \A t \in Threads, i \in 1 .. 2 : args[t][i] # None => Alive(args[t][i])
    /\ \A t \in Threads : temp[t] # None => Alive(temp[t])

\* Nothing outlives its last use: of any live objects and blocks, one is held
\* from elsewhere. None are kept alive by each other alone; borrows of exports of
\* borrows never close a circle.
NoLeak ==
    \A S \in SUBSET Live : S # {} =>
        \E x \in S :
            \/ x \in Named
            \/ \E t \in Threads : x \in {temp[t], args[t][1], args[t][2]}
            \/ \E i \in 1 .. 3 : x = todo[i]
            \/ \E o \in Objects \ S : x = owner[o]
            \/ \E b \in Blocks \ S : x = keep[b]

\* The deleter of a borrow changes a Python reference count: it runs on a
\* thread that has the GIL, never at the end of a kernel.
BorrowsDieUnderGil ==
    [][\A b \in Blocks : Alive(b) /\ keep[b] # None /\ ~Alive(b)' => gil # None]_vars
=============================================================================
