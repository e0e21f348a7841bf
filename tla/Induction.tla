----------------------------- MODULE Induction -----------------------------
(***************************************************************************)
(* Induction over the natural numbers, stated of sets, and the existence   *)
(* of functions that are defined by recursion.  The library states both of *)
(* operators; a set, or a function, can be put in their place.  Nothing    *)
(* here is about the kernel: the proofs of ProcSched, LineInput and        *)
(* FileSys, on chains of processes, strings and directories, cite it.      *)
(***************************************************************************)
EXTENDS Integers, WellFoundedInduction, TLAPS

Less == {x \in Nat \X Nat : x[1] < x[2]}

\* A set of natural numbers that is not empty has a least element.
LEMMA LeastElement ==
    ASSUME NEW T \in SUBSET Nat, T # {}
    PROVE  \E n \in T : \A m \in T : n <= m
<1>1. IsWellFoundedOn(Less, Nat)
  BY NatLessThanWellFounded, Zenon DEF OpToRel, Less
<1>2. PICK x \in T : \A y \in T : ~ (<< y, x >> \in Less)
  BY <1>1, WFMin
<1>3. ASSUME NEW y \in T PROVE x <= y
  <2>1. << y, x >> \notin Less
    BY <1>2
  <2>2. ~ (y < x)
    BY <2>1, SMT DEF Less
  <2> QED BY <2>2
<1> QED BY <1>3

\* Induction up to n: what holds of 0, and of k + 1 if it holds of k, holds of all.
LEMMA InductionUpTo ==
    ASSUME NEW n \in Nat, NEW S, 0 \in S,
           \A k \in 0 .. n - 1 : k \in S => k + 1 \in S
    PROVE  \A k \in 0 .. n : k \in S
<1> DEFINE Bad == {k \in 0 .. n : k \notin S}
<1>1. SUFFICES ASSUME Bad # {} PROVE FALSE
  OBVIOUS
<1>2. Bad \in SUBSET Nat
  OBVIOUS
<1>3. PICK k \in Bad : \A m \in Bad : k <= m
  BY <1>1, <1>2, LeastElement
<1>4. k # 0 /\ k \in Nat
  BY <1>2, <1>3
<1>5. k - 1 \in S /\ k - 1 \in 0 .. n - 1
  BY <1>3, <1>4
<1> QED BY <1>3, <1>4, <1>5

\* f has the value v at 0 and follows step from there to n.
Follows(f, n, v, step) == f[0] = v /\ \A k \in 1 .. n : f[k] = step[k][f[k - 1]]

\* A function on 0 .. n can be defined by its value at 0 and a step, which may
\* depend on the argument.
LEMMA RecursionExists ==
    ASSUME NEW n \in Nat, NEW V, NEW v \in V, NEW step \in [1 .. n -> [V -> V]]
    PROVE  \E f \in [0 .. n -> V] : Follows(f, n, v, step)
<1> DEFINE Good(f, m) == f[0] = v /\ \A k \in 1 .. m : f[k] = step[k][f[k - 1]]
           S == {m \in 0 .. n : \E f \in [0 .. n -> V] : Good(f, m)}
<1>1. 0 \in S
  <2>1. [k \in 0 .. n |-> v] \in [0 .. n -> V]
    OBVIOUS
  <2>2. Good([k \in 0 .. n |-> v], 0)
    OBVIOUS
  <2>3. 0 \in 0 .. n
    OBVIOUS
  <2> QED BY <2>1, <2>2, <2>3, Zenon
<1>2. ASSUME NEW m \in 0 .. n - 1, m \in S PROVE m + 1 \in S
  <2>1. PICK f \in [0 .. n -> V] : Good(f, m)
    BY <1>2
  <2> DEFINE w == step[m + 1][f[m]]
             g == [f EXCEPT ![m + 1] = w]
  <2>2. m + 1 \in 1 .. n /\ w \in V
    OBVIOUS
  <2>3. g \in [0 .. n -> V] /\ g[m + 1] = w /\ \A k \in 0 .. n : k # m + 1 => g[k] = f[k]
    BY <2>2
  <2> HIDE DEF g
  <2>4. g[0] = v
    BY <2>1, <2>3
  <2>5. ASSUME NEW k \in 1 .. m + 1 PROVE g[k] = step[k][g[k - 1]]
    <3>1. CASE k = m + 1
      BY <2>3, <3>1
    <3>2. CASE k # m + 1
      <4>1. k \in 1 .. m /\ k \in 0 .. n /\ k - 1 \in 0 .. n /\ k - 1 # m + 1
        BY <3>2
      <4>2. g[k] = f[k] /\ g[k - 1] = f[k - 1]
        BY <2>3, <3>2, <4>1
      <4> QED BY <2>1, <4>1, <4>2
    <3> QED BY <3>1, <3>2
  <2>6. \E f2 \in [0 .. n -> V] : Good(f2, m + 1)
    BY <2>3, <2>4, <2>5
  <2>7. m + 1 \in 0 .. n
    OBVIOUS
  <2> QED BY <2>6, <2>7
<1> HIDE DEF S
<1>3. \A m \in 0 .. n : m \in S
  BY <1>1, <1>2, InductionUpTo
<1> QED BY <1>3 DEF S, Follows
=============================================================================
