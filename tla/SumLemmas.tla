------------------------------ MODULE SumLemmas ------------------------------
(***************************************************************************)
(* Lemmas about counting and adding up, which need no model: induction     *)
(* over the numbers and over the subsets of a finite set, functions        *)
(* defined by recursion, and the sums of the module Functions.             *)
(*                                                                         *)
(* An induction is stated about a set, the set of the numbers (or subsets) *)
(* for which the claim holds, so that it can be cited without an operator. *)
(***************************************************************************)
EXTENDS Integers, Functions, FiniteSetTheorems, WellFoundedInduction

------------------------------------------------------------------------------
(***************************************************************************)
(* Induction, over sets of numbers and over finite sets, and functions     *)
(* defined by recursion on a number.                                       *)
(***************************************************************************)
LEMMA Induction ==
    ASSUME NEW P \in SUBSET Nat, 0 \in P, \A n \in P : n + 1 \in P
    PROVE  P = Nat
<1> DEFINE Q == Nat \ P
           R == OpToRel(<, Nat)
<1> SUFFICES ASSUME Q # {} PROVE FALSE
  OBVIOUS
<1>1. IsWellFoundedOn(R, Nat)
  BY NatLessThanWellFounded
<1>2. Q \subseteq Nat
  OBVIOUS
<1> HIDE DEF R, Q
<1>3. PICK m \in Q : \A k \in Q : <<k, m>> \notin R
  BY <1>1, <1>2, WFMin
<1>4. \A k \in Q : ~(k < m)
  BY <1>2, <1>3 DEF R, OpToRel
<1>5. m \in Nat /\ m # 0 /\ m \notin P
  BY <1>3 DEF Q
<1>6. m - 1 \in Nat /\ m - 1 < m /\ (m - 1) + 1 = m
  BY <1>5
<1>7. m - 1 \in P
  BY <1>4, <1>6 DEF Q
<1> QED
  BY <1>5, <1>6, <1>7

\* A family of sets that has the empty set and grows by one element at a time
\* has every finite set.
LEMMA SetInduction ==
    ASSUME NEW S, IsFiniteSet(S), NEW P \in SUBSET SUBSET S, {} \in P,
           \A T \in P : \A x \in S \ T : T \cup {x} \in P
    PROVE  P = SUBSET S
<1> DEFINE N == {n \in Nat : \A T \in SUBSET S : Cardinality(T) = n => T \in P}
<1>1. \A T \in SUBSET S : IsFiniteSet(T) /\ Cardinality(T) \in Nat
  BY FS_Subset, FS_CardinalityType
<1>2. 0 \in N
  BY <1>1, FS_EmptySet
<1>3. ASSUME NEW n \in N
      PROVE  n + 1 \in N
  <2>0. n \in Nat /\ \A U \in SUBSET S : Cardinality(U) = n => U \in P
    BY <1>3
  <2> SUFFICES ASSUME NEW T \in SUBSET S, Cardinality(T) = n + 1
               PROVE  T \in P
    BY <2>0
  <2>1. T # {}
    <3>1. Cardinality({}) = 0 /\ n + 1 # 0
      BY <2>0, FS_EmptySet
    <3> QED
      BY <3>1
  <2>2. PICK x \in T : TRUE
    BY <2>1
  <2> DEFINE U == T \ {x}
  <2>3. U \in SUBSET S /\ Cardinality(U) = n
    <3>1. IsFiniteSet(T)
      BY <1>1
    <3>2. Cardinality(T \ {x}) = Cardinality(T) - 1
      BY <3>1, FS_RemoveElement
    <3> QED
      BY <2>0, <3>2
  <2>4. U \in P
    BY <2>0, <2>3
  <2>5. T = U \cup {x} /\ x \in S \ U
    OBVIOUS
  <2> HIDE DEF U
  <2> QED
    BY <2>4, <2>5
<1>4. N = Nat
  <2> HIDE DEF N
  <2>1. N \in SUBSET Nat
    BY DEF N
  <2> QED
    BY <1>2, <1>3, <2>1, Induction
<1> QED
  BY <1>1, <1>4

\* A step function can be iterated.
StepFunctions(V) == [Nat \X V -> V]
Iterates(f, a, next) == f[0] = a /\ \A n \in Nat : f[n + 1] = next[<<n, f[n]>>]

LEMMA Recursion ==
    ASSUME NEW V, NEW a \in V, NEW next \in StepFunctions(V)
    PROVE  \E f \in [Nat -> V] : Iterates(f, a, next)
<1> USE DEF StepFunctions
<1> DEFINE Runs(n, f) == f[0] = a /\ \A i \in 0..n-1 : f[i + 1] = next[<<i, f[i]>>]
           P == {n \in Nat : \E f \in [0..n -> V] : Runs(n, f)}
<1>1. 0 \in P
  <2>1. [i \in 0..0 |-> a] \in [0..0 -> V] /\ Runs(0, [i \in 0..0 |-> a])
    OBVIOUS
  <2> QED
    BY <2>1
<1>2. ASSUME NEW n \in P
      PROVE  n + 1 \in P
  <2>0. n \in Nat
    BY <1>2
  <2>1. PICK f \in [0..n -> V] : f[0] = a /\ \A i \in 0..n-1 : f[i + 1] = next[<<i, f[i]>>]
    BY <1>2
  <2> DEFINE g == [i \in 0..n+1 |-> IF i <= n THEN f[i] ELSE next[<<n, f[n]>>]]
  <2>2. f[n] \in V /\ next[<<n, f[n]>>] \in V
    BY <2>0, <2>1
  <2>3. g \in [0..n+1 -> V]
    BY <2>0, <2>1, <2>2
  <2>4. /\ \A i \in 0..n : g[i] = f[i]
        /\ g[n + 1] = next[<<n, f[n]>>]
    BY <2>0
  <2> HIDE DEF g
  <2>5. ASSUME NEW i \in 0..n
        PROVE  g[i + 1] = next[<<i, g[i]>>]
    <3>1. CASE i = n
      BY <3>1, <2>0, <2>4
    <3>2. CASE i # n
      <4>1. i \in 0..n-1 /\ i + 1 \in 0..n
        BY <3>2, <2>0
      <4> QED
        BY <4>1, <2>1, <2>4
    <3> QED
      BY <3>1, <3>2
  <2>6. g[0] = a
    BY <2>0, <2>1, <2>4
  <2>7. Runs(n + 1, g)
    <3>1. (n + 1) - 1 = n
      BY <2>0
    <3> QED
      BY <2>5, <2>6, <3>1
  <2>8. n + 1 \in Nat /\ \E e \in [0..n+1 -> V] : Runs(n + 1, e)
    BY <2>0, <2>3, <2>7
  <2> HIDE DEF Runs
  <2> QED
    BY <2>8
<1>3. P = Nat
  <2> HIDE DEF P
  <2>1. P \in SUBSET Nat
    BY DEF P
  <2> QED
    BY <1>1, <1>2, <2>1, Induction
<1>4. \A n \in Nat : \E f \in [0..n -> V] : Runs(n, f)
  BY <1>3
<1> DEFINE run(n) == CHOOSE f \in [0..n -> V] : Runs(n, f)
           h == [n \in Nat |-> run(n)[n]]
<1> HIDE DEF P
<1>5. \A n \in Nat : run(n) \in [0..n -> V] /\ Runs(n, run(n))
  BY <1>4
<1> HIDE DEF run
<1>6. ASSUME NEW n \in Nat
      PROVE  \A i \in 0..n : run(n)[i] = run(n + 1)[i]
  <2> DEFINE f == run(n)
             g == run(n + 1)
             A == {i \in Nat : i <= n => f[i] = g[i]}
  <2>1. f[0] = a /\ \A i \in 0..n-1 : f[i + 1] = next[<<i, f[i]>>]
    BY <1>5
  <2>2. g[0] = a /\ \A i \in 0..n : g[i + 1] = next[<<i, g[i]>>]
    <3>1. n + 1 \in Nat /\ (n + 1) - 1 = n
      OBVIOUS
    <3>2. Runs(n + 1, g)
      BY <1>5, <3>1
    <3> QED
      BY <3>1, <3>2
  <2> HIDE DEF f, g
  <2>3. 0 \in A
    BY <2>1, <2>2
  <2>4. ASSUME NEW i \in A
        PROVE  i + 1 \in A
    <3> SUFFICES ASSUME i + 1 <= n PROVE f[i + 1] = g[i + 1]
      OBVIOUS
    <3>1. i \in 0..n-1 /\ i \in 0..n /\ f[i] = g[i]
      OBVIOUS
    <3> QED
      BY <2>1, <2>2, <3>1
  <2>5. A = Nat
    <3> HIDE DEF A
    <3>1. A \in SUBSET Nat
      BY DEF A
    <3> QED
      BY <2>3, <2>4, <3>1, Induction
  <2> QED
    BY <2>5 DEF f, g
<1>7. h \in [Nat -> V]
  BY <1>5
<1>8. h[0] = a
  BY <1>5
<1>9. ASSUME NEW n \in Nat
      PROVE  h[n + 1] = next[<<n, h[n]>>]
  <2>1. h[n + 1] = run(n + 1)[n + 1] /\ h[n] = run(n)[n]
    OBVIOUS
  <2>2. n + 1 \in Nat /\ n \in 0..(n + 1) - 1 /\ n \in 0..n
    OBVIOUS
  <2>3. run(n + 1)[n + 1] = next[<<n, run(n + 1)[n]>>]
    BY <1>5, <2>2
  <2>4. run(n)[n] = run(n + 1)[n]
    BY <1>6, <2>2
  <2> QED
    BY <2>1, <2>3, <2>4
<1> HIDE DEF h
<1> QED
  BY <1>7, <1>8, <1>9 DEF Iterates

------------------------------------------------------------------------------
(***************************************************************************)
(* Sums over finite sets.                                                  *)
(***************************************************************************)
\* h gives the sums of f over the subsets of S, taking one element at a time.
Peels(h, f, S) ==
    /\ h \in [SUBSET S -> Int] /\ h[{}] = 0
    /\ \A T \in SUBSET S : \A x \in T : h[T] = f[x] + h[T \ {x}]

\* The recursive function behind SumFunctionOnSet exists, and the order in
\* which it takes the elements does not matter.
LEMMA SumIterates ==
    ASSUME NEW S, IsFiniteSet(S), NEW f, \A x \in S : f[x] \in Int
    PROVE  \E h : Peels(h, f, S) /\ SumFunctionOnSet(f, S) = h[S]
<1> DEFINE pick(s) == CHOOSE x \in s : TRUE
           step(h, s) == IF s = {} THEN 0 ELSE f[pick(s)] + h[s \ {pick(s)}]
           Solves(h) == h = [s \in SUBSET S |-> step(h, s)]
           iter == CHOOSE h : Solves(h)
<1>1. SumFunctionOnSet(f, S) = iter[S]
  BY DEF SumFunctionOnSet, FoldFunctionOnSet, MapThenFoldSet
<1>2. /\ \A T \in SUBSET S : IsFiniteSet(T) /\ Cardinality(T) \in Nat
      /\ \A T \in SUBSET S : T # {} => pick(T) \in T
  BY FS_Subset, FS_CardinalityType
<1>3. \A T \in SUBSET S : \A x \in T :
         T \ {x} \in SUBSET S /\ Cardinality(T \ {x}) = Cardinality(T) - 1
  <2> TAKE T \in SUBSET S
  <2> TAKE x \in T
  <2>1. IsFiniteSet(T)
    BY <1>2
  <2> QED
    BY <2>1, FS_RemoveElement
<1>4. \E h : Solves(h)
  <2> DEFINE V == [SUBSET S -> Int]
             next == [p \in Nat \X V |-> [s \in SUBSET S |-> step(p[2], s)]]
             zero == [s \in SUBSET S |-> 0]
  <2>1. ASSUME NEW g \in V, NEW s \in SUBSET S
        PROVE  step(g, s) \in Int
    <3>1. CASE s = {}
      BY <3>1
    <3>2. CASE s # {}
      <4>1. pick(s) \in s
        BY <1>2, <3>2
      <4> HIDE DEF pick
      <4> QED
        BY <3>2, <4>1
    <3> QED
      BY <3>1, <3>2
  <2> HIDE DEF step
  <2>2. zero \in V /\ next \in [Nat \X V -> V]
    <3>1. \A g \in V : [s \in SUBSET S |-> step(g, s)] \in V
      BY <2>1
    <3>2. \A p \in Nat \X V : p[2] \in V
      OBVIOUS
    <3>3. zero \in V
      OBVIOUS
    <3> HIDE DEF V, zero
    <3> QED
      BY <3>1, <3>2, <3>3
  <2>3. \A n \in Nat : \A g \in V : next[<<n, g>>] = [s \in SUBSET S |-> step(g, s)]
    OBVIOUS
  <2> HIDE DEF next, V, zero
  <2>4. PICK F \in [Nat -> V] : F[0] = zero /\ \A n \in Nat : F[n + 1] = next[<<n, F[n]>>]
    <3>1. next \in StepFunctions(V)
      BY <2>2 DEF StepFunctions
    <3>2. PICK F \in [Nat -> V] : Iterates(F, zero, next)
      BY <2>2, <3>1, Recursion
    <3> QED
      BY <3>2 DEF Iterates
  <2>5. \A n \in Nat : F[n] \in V /\ F[n + 1] = [s \in SUBSET S |-> step(F[n], s)]
    BY <2>3, <2>4
  <2> DEFINE h == [s \in SUBSET S |-> F[Cardinality(s)][s]]
  <2>6. ASSUME NEW s \in SUBSET S
        PROVE  h[s] = step(h, s)
    <3>1. CASE s = {}
      <4>1. Cardinality(s) = 0
        BY <3>1, FS_EmptySet
      <4>2. h[s] = F[0][s]
        BY <4>1
      <4> QED
        BY <2>4, <3>1, <4>2 DEF zero, step
    <3>2. CASE s # {}
      <4> DEFINE x == pick(s)
                 n == Cardinality(s) - 1
                 r == s \ {x}
      <4>1. x \in s
        BY <1>2, <3>2
      <4> HIDE DEF x
      <4>2. r \in SUBSET S /\ Cardinality(r) = n /\ n \in Nat /\ n + 1 = Cardinality(s)
        <5>1. Cardinality(r) \in Nat /\ Cardinality(s) \in Nat
          BY <1>2, <4>1
        <5> QED
          BY <1>3, <4>1, <5>1
      <4>3. h[s] = F[n + 1][s] /\ h[r] = F[n][r]
        BY <4>2
      <4>4. F[n + 1][s] = step(F[n], s)
        BY <2>5, <4>2
      <4>5. step(F[n], s) = f[x] + F[n][r] /\ step(h, s) = f[x] + h[r]
        <5> HIDE DEF h, n
        <5> QED
          BY <3>2 DEF step, x
      <4> QED
        BY <4>3, <4>4, <4>5
    <3> QED
      BY <3>1, <3>2
  <2>7. Solves(h)
    <3>1. h = [s \in SUBSET S |-> h[s]]
      OBVIOUS
    <3> HIDE DEF h
    <3> QED
      BY <2>6, <3>1
  <2> HIDE DEF Solves
  <2> QED
    BY <2>7
<1>5. Solves(iter)
  <2> HIDE DEF Solves
  <2> QED
    BY <1>4
<1> HIDE DEF iter
<1>6. /\ iter = [T \in SUBSET S |-> iter[T]]
      /\ iter[{}] = 0
      /\ \A T \in SUBSET S : T # {} => iter[T] = f[pick(T)] + iter[T \ {pick(T)}]
  BY <1>5
<1> HIDE DEF pick, Solves
<1> DEFINE Free(T) == iter[T] \in Int /\ \A x \in T : iter[T] = f[x] + iter[T \ {x}]
           N == {n \in Nat : \A T \in SUBSET S : Cardinality(T) <= n => Free(T)}
<1>7. 0 \in N
  <2> SUFFICES ASSUME NEW T \in SUBSET S, Cardinality(T) <= 0 PROVE Free(T)
    OBVIOUS
  <2>1. T = {}
    BY <1>2, FS_EmptySet
  <2> QED
    BY <1>6, <2>1
<1>8. ASSUME NEW n \in N
      PROVE  n + 1 \in N
  <2>0. n \in Nat /\ \A T \in SUBSET S : Cardinality(T) <= n => Free(T)
    BY <1>8
  <2>1. ASSUME NEW T \in SUBSET S, Cardinality(T) = n + 1
        PROVE  Free(T)
    <3> DEFINE p == pick(T)
    <3>1. T # {}
      <4>1. Cardinality({}) = 0 /\ n + 1 # 0
        BY <2>0, FS_EmptySet
      <4> QED
        BY <2>1, <4>1
    <3>2. p \in T /\ iter[T] = f[p] + iter[T \ {p}]
      BY <1>2, <1>6, <3>1
    <3> HIDE DEF p, N
    <3>3. \A x \in T : Free(T \ {x}) /\ f[x] \in Int
      <4> TAKE x \in T
      <4>1. Cardinality(T \ {x}) = n /\ T \ {x} \in SUBSET S
        BY <1>3, <2>0, <2>1
      <4>2. Cardinality(T \ {x}) <= n
        BY <2>0, <4>1
      <4> HIDE DEF Free
      <4> QED
        BY <2>0, <4>1, <4>2
    <3>4. iter[T] \in Int
      BY <3>2, <3>3
    <3>5. ASSUME NEW x \in T, x # p
          PROVE  iter[T] = f[x] + iter[T \ {x}]
      <4> DEFINE r == (T \ {p}) \ {x}
      <4>1. (T \ {x}) \ {p} = r
        OBVIOUS
      <4>2. Free(r)
        <5>1. T \ {p} \in SUBSET S /\ Cardinality(T \ {p}) = n /\ x \in T \ {p}
          BY <1>3, <2>0, <2>1, <3>2, <3>5
        <5>2. r \in SUBSET S /\ Cardinality(r) = n - 1
          BY <1>3, <5>1
        <5>3. Cardinality(r) <= n
          BY <2>0, <5>2
        <5> HIDE DEF Free, r
        <5> QED
          BY <2>0, <5>2, <5>3
      <4>3. iter[T \ {p}] = f[x] + iter[r] /\ iter[T \ {x}] = f[p] + iter[r]
        BY <3>2, <3>3, <3>5, <4>1
      <4>4. iter[r] \in Int /\ f[x] \in Int /\ f[p] \in Int
        BY <3>2, <3>3, <4>2
      <4> HIDE DEF r
      <4> QED
        BY <3>2, <4>3, <4>4
    <3> QED
      BY <3>2, <3>4, <3>5
  <2>2. ASSUME NEW T \in SUBSET S, Cardinality(T) <= n + 1
        PROVE  Free(T)
    <3>1. Cardinality(T) <= n \/ Cardinality(T) = n + 1
      BY <1>2, <2>0, <2>2
    <3> HIDE DEF Free, N
    <3> QED
      BY <2>0, <2>1, <3>1
  <2> HIDE DEF Free
  <2> QED
    BY <2>0, <2>2
<1>9. N = Nat
  <2> HIDE DEF N
  <2>1. N \in SUBSET Nat
    BY DEF N
  <2> QED
    BY <1>7, <1>8, <2>1, Induction
<1>10. \A T \in SUBSET S : Free(T)
  BY <1>2, <1>9
<1>11. iter \in [SUBSET S -> Int]
  BY <1>6, <1>10
<1>12. Peels(iter, f, S)
  BY <1>6, <1>10, <1>11 DEF Peels
<1> QED
  BY <1>1, <1>12

LEMMA SumUnique ==
    ASSUME NEW S, IsFiniteSet(S), NEW f, NEW g, NEW h, Peels(g, f, S), Peels(h, f, S)
    PROVE  \A T \in SUBSET S : g[T] = h[T]
<1> DEFINE P == {T \in SUBSET S : g[T] = h[T]}
<1>1. {} \in P
  BY DEF Peels
<1>2. ASSUME NEW T \in P, NEW x \in S \ T
      PROVE  T \cup {x} \in P
  <2>1. T \cup {x} \in SUBSET S /\ x \in T \cup {x} /\ (T \cup {x}) \ {x} = T
    OBVIOUS
  <2> DEFINE U == T \cup {x}
  <2>2. U \in SUBSET S /\ x \in U /\ U \ {x} = T
    BY <2>1
  <2> HIDE DEF U
  <2>3. g[U] = f[x] + g[T] /\ h[U] = f[x] + h[T]
    BY <2>2 DEF Peels
  <2> QED
    BY <2>2, <2>3 DEF U
<1>3. P = SUBSET S
  <2> HIDE DEF P
  <2>1. P \in SUBSET SUBSET S
    BY DEF P
  <2> QED
    BY <1>1, <1>2, <2>1, SetInduction
<1> QED
  BY <1>3

LEMMA SumOnSubsets ==
    ASSUME NEW S, IsFiniteSet(S), NEW f, \A x \in S : f[x] \in Int
    PROVE  \E h : Peels(h, f, S) /\ \A T \in SUBSET S : SumFunctionOnSet(f, T) = h[T]
<1>1. PICK h : Peels(h, f, S)
  BY SumIterates
<1>3. ASSUME NEW T \in SUBSET S
      PROVE  SumFunctionOnSet(f, T) = h[T]
  <2>1. IsFiniteSet(T) /\ \A x \in T : f[x] \in Int
    BY FS_Subset
  <2>2. PICK g : Peels(g, f, T) /\ SumFunctionOnSet(f, T) = g[T]
    BY <2>1, SumIterates
  <2> DEFINE k == [U \in SUBSET T |-> h[U]]
  <2>4. Peels(k, f, T)
    <3>1. \A U \in SUBSET T : U \in SUBSET S /\ \A x \in U : U \ {x} \in SUBSET T
      OBVIOUS
    <3>2. k \in [SUBSET T -> Int] /\ k[{}] = 0
      BY <1>1 DEF Peels
    <3>3. \A U \in SUBSET T : k[U] = h[U]
      OBVIOUS
    <3> HIDE DEF k
    <3> QED
      BY <1>1, <3>1, <3>2, <3>3 DEF Peels
  <2>5. k[T] = h[T]
    OBVIOUS
  <2> HIDE DEF k
  <2>6. g[T] = k[T]
    BY <2>1, <2>2, <2>4, SumUnique
  <2> QED
    BY <2>2, <2>5, <2>6
<1> QED
  BY <1>1, <1>3

\* The sum over no element, and the sum by its first one.
LEMMA SumEmpty ==
    ASSUME NEW f
    PROVE  SumFunctionOnSet(f, {}) = 0
<1>1. IsFiniteSet({}) /\ \A x \in {} : f[x] \in Int
  BY FS_EmptySet
<1>2. PICK h : Peels(h, f, {}) /\ \A T \in SUBSET {} : SumFunctionOnSet(f, T) = h[T]
  BY <1>1, SumOnSubsets
<1> QED
  BY <1>2 DEF Peels

LEMMA SumPeel ==
    ASSUME NEW S, IsFiniteSet(S), NEW f, \A x \in S : f[x] \in Int,
           NEW T \in SUBSET S, NEW x \in T, NEW U, U = T \ {x}
    PROVE  SumFunctionOnSet(f, T) = f[x] + SumFunctionOnSet(f, U)
<1>1. PICK h : Peels(h, f, S) /\ \A V \in SUBSET S : SumFunctionOnSet(f, V) = h[V]
  BY SumOnSubsets
<1>2. U \in SUBSET S
  OBVIOUS
<1> QED
  BY <1>1, <1>2 DEF Peels

LEMMA SumInt ==
    ASSUME NEW S, IsFiniteSet(S), NEW f, \A x \in S : f[x] \in Int, NEW T \in SUBSET S
    PROVE  SumFunctionOnSet(f, T) \in Int
<1>1. PICK h : Peels(h, f, S) /\ \A V \in SUBSET S : SumFunctionOnSet(f, V) = h[V]
  BY SumOnSubsets
<1> QED
  BY <1>1 DEF Peels

LEMMA SumNat ==
    ASSUME NEW S, IsFiniteSet(S), NEW f, \A x \in S : f[x] \in Nat
    PROVE  SumFunctionOnSet(f, S) \in Nat
<1> DEFINE P == {T \in SUBSET S : SumFunctionOnSet(f, T) \in Nat}
<1>1. \A x \in S : f[x] \in Int
  OBVIOUS
<1>2. {} \in P
  BY SumEmpty
<1>3. ASSUME NEW T \in P, NEW x \in S \ T
      PROVE  T \cup {x} \in P
  <2>1. T \cup {x} \in SUBSET S /\ x \in T \cup {x} /\ (T \cup {x}) \ {x} = T
    OBVIOUS
  <2>2. SumFunctionOnSet(f, T \cup {x}) = f[x] + SumFunctionOnSet(f, T)
    BY <1>1, <2>1, SumPeel
  <2> QED
    BY <2>1, <2>2
<1>4. P = SUBSET S
  <2> HIDE DEF P
  <2>1. P \in SUBSET SUBSET S
    BY DEF P
  <2> QED
    BY <1>2, <1>3, <2>1, SetInduction
<1> QED
  BY <1>4

LEMMA SumZero ==
    ASSUME NEW S, IsFiniteSet(S), NEW f, \A x \in S : f[x] = 0
    PROVE  SumFunctionOnSet(f, S) = 0
<1> DEFINE P == {T \in SUBSET S : SumFunctionOnSet(f, T) = 0}
<1>1. \A x \in S : f[x] \in Int
  OBVIOUS
<1>2. {} \in P
  BY SumEmpty
<1>3. ASSUME NEW T \in P, NEW x \in S \ T
      PROVE  T \cup {x} \in P
  <2>1. T \cup {x} \in SUBSET S /\ x \in T \cup {x} /\ (T \cup {x}) \ {x} = T
    OBVIOUS
  <2>2. SumFunctionOnSet(f, T \cup {x}) = f[x] + SumFunctionOnSet(f, T)
    BY <1>1, <2>1, SumPeel
  <2> QED
    BY <2>1, <2>2
<1>4. P = SUBSET S
  <2> HIDE DEF P
  <2>1. P \in SUBSET SUBSET S
    BY DEF P
  <2> QED
    BY <1>2, <1>3, <2>1, SetInduction
<1> QED
  BY <1>4

\* The images of a finite set.
LEMMA ImageFinite ==
    ASSUME NEW S, IsFiniteSet(S), NEW b, NEW T, T = {b[x] : x \in S}
    PROVE  /\ IsFiniteSet(T) /\ Cardinality(T) <= Cardinality(S)
           /\ (\A x, y \in S : b[x] = b[y] => x = y) => Cardinality(T) = Cardinality(S)
<1> DEFINE f == [x \in S |-> b[x]]
<1>1. f \in Surjection(S, T)
  BY DEF Surjection
<1>2. (\A x, y \in S : b[x] = b[y] => x = y) => f \in Injection(S, T)
  BY DEF Injection, IsInjective
<1> HIDE DEF f
<1> QED
  BY <1>1, <1>2, FS_Surjection

\* Sums over sets that correspond to each other are equal.
LEMMA SumImage ==
    ASSUME NEW S, IsFiniteSet(S), NEW f, NEW g, NEW b,
           \A x \in S : f[x] \in Int /\ g[b[x]] = f[x],
           \A x, y \in S : b[x] = b[y] => x = y
    PROVE  SumFunctionOnSet(g, {b[x] : x \in S}) = SumFunctionOnSet(f, S)
<1> DEFINE image(T) == {b[x] : x \in T}
           P == {T \in SUBSET S : SumFunctionOnSet(g, image(T)) = SumFunctionOnSet(f, T)}
<1>1. \A x \in S : f[x] \in Int
  OBVIOUS
<1>2. IsFiniteSet(image(S)) /\ \A y \in image(S) : g[y] \in Int
  BY ImageFinite
<1>3. {} \in P
  <2>1. image({}) = {}
    OBVIOUS
  <2> QED
    BY <2>1, SumEmpty
<1>4. ASSUME NEW T \in P, NEW x \in S \ T
      PROVE  T \cup {x} \in P
  <2>1. T \cup {x} \in SUBSET S /\ x \in T \cup {x} /\ (T \cup {x}) \ {x} = T
    OBVIOUS
  <2>2. SumFunctionOnSet(f, T \cup {x}) = f[x] + SumFunctionOnSet(f, T)
    BY <1>1, <2>1, SumPeel
  <2>3. /\ image(T \cup {x}) \in SUBSET image(S) /\ b[x] \in image(T \cup {x})
        /\ image(T \cup {x}) \ {b[x]} = image(T)
    OBVIOUS
  <2>4. SumFunctionOnSet(g, image(T \cup {x})) = g[b[x]] + SumFunctionOnSet(g, image(T))
    <3> DEFINE A == image(S)
               B == image(T \cup {x})
               C == image(T)
               y == b[x]
    <3>1. IsFiniteSet(A) /\ (\A z \in A : g[z] \in Int)
      BY <1>2
    <3>2. B \in SUBSET A /\ y \in B /\ C = B \ {y}
      BY <2>3
    <3> HIDE DEF A, B, C, y, image
    <3>3. SumFunctionOnSet(g, B) = g[y] + SumFunctionOnSet(g, C)
      BY <3>1, <3>2, SumPeel
    <3> QED
      BY <3>3 DEF B, C, y
  <2>5. SumFunctionOnSet(g, image(T)) = SumFunctionOnSet(f, T)
    OBVIOUS
  <2> HIDE DEF image
  <2> QED
    BY <2>1, <2>2, <2>4, <2>5
<1>5. P = SUBSET S
  <2> HIDE DEF P
  <2>1. P \in SUBSET SUBSET S
    BY DEF P
  <2> QED
    BY <1>3, <1>4, <2>1, SetInduction
<1> QED
  BY <1>5

LEMMA SumAgree ==
    ASSUME NEW S, IsFiniteSet(S), NEW f, NEW g, \A x \in S : f[x] \in Int /\ g[x] = f[x]
    PROVE  SumFunctionOnSet(g, S) = SumFunctionOnSet(f, S)
<1> DEFINE b == [x \in S |-> x]
<1>1. {b[x] : x \in S} = S
  OBVIOUS
<1>2. /\ \A x \in S : f[x] \in Int /\ g[b[x]] = f[x]
      /\ \A x, y \in S : b[x] = b[y] => x = y
  OBVIOUS
<1> HIDE DEF b
<1>3. SumFunctionOnSet(g, {b[x] : x \in S}) = SumFunctionOnSet(f, S)
  BY <1>2, SumImage
<1> QED
  BY <1>1, <1>3

LEMMA SumUnion ==
    ASSUME NEW S, IsFiniteSet(S), NEW f, \A x \in S : f[x] \in Int,
           NEW A \in SUBSET S, NEW B \in SUBSET S, A \cap B = {}
    PROVE  SumFunctionOnSet(f, A \cup B) = SumFunctionOnSet(f, A) + SumFunctionOnSet(f, B)
<1> DEFINE P == {T \in SUBSET B :
                    SumFunctionOnSet(f, A \cup T) = SumFunctionOnSet(f, A) + SumFunctionOnSet(f, T)}
<1>1. {} \in P
  <2>1. A \cup {} = A /\ SumFunctionOnSet(f, A) \in Int
    BY SumInt
  <2> QED
    BY <2>1, SumEmpty
<1>2. ASSUME NEW T \in P, NEW x \in B \ T
      PROVE  T \cup {x} \in P
  <2> DEFINE U == T \cup {x}
             W == A \cup U
  <2>1. /\ U \in SUBSET S /\ x \in U /\ U \ {x} = T /\ U \in SUBSET B
        /\ W \in SUBSET S /\ x \in W /\ W \ {x} = A \cup T
    OBVIOUS
  <2>2. T \in SUBSET S
    OBVIOUS
  <2> HIDE DEF U, W
  <2>3. /\ SumFunctionOnSet(f, U) = f[x] + SumFunctionOnSet(f, T)
        /\ SumFunctionOnSet(f, W) = f[x] + SumFunctionOnSet(f, A \cup T)
    BY <2>1, SumPeel
  <2>4. /\ SumFunctionOnSet(f, A) \in Int /\ SumFunctionOnSet(f, T) \in Int /\ f[x] \in Int
        /\ SumFunctionOnSet(f, A \cup T) = SumFunctionOnSet(f, A) + SumFunctionOnSet(f, T)
    BY <2>2, SumInt
  <2>5. SumFunctionOnSet(f, W) = SumFunctionOnSet(f, A) + SumFunctionOnSet(f, U)
    BY <2>3, <2>4
  <2> QED
    BY <2>1, <2>5 DEF U, W
<1>3. P = SUBSET B
  <2> HIDE DEF P
  <2>1. P \in SUBSET SUBSET B /\ IsFiniteSet(B)
    BY FS_Subset DEF P
  <2> QED
    BY <1>1, <1>2, <2>1, SetInduction
<1> QED
  BY <1>3

------------------------------------------------------------------------------
(***************************************************************************)
(* Positions in a finite total order.                                      *)
(***************************************************************************)
\* R orders S: <<x, y>> is in R when x comes before y.
TotallyOrders(R, S) ==
    /\ IsFiniteSet(S)
    /\ \A x \in S : <<x, x>> \notin R
    /\ \A x, y \in S : x # y => <<x, y>> \in R \/ <<y, x>> \in R
    /\ \A x, y, z \in S : <<x, y>> \in R /\ <<y, z>> \in R => <<x, z>> \in R

\* How many elements come before x.
Position(R, S, x) == Cardinality({y \in S : <<y, x>> \in R})

LEMMA PositionRises ==
    ASSUME NEW S, NEW R, TotallyOrders(R, S), NEW x \in S, NEW y \in S, <<x, y>> \in R
    PROVE  Position(R, S, x) < Position(R, S, y)
<1> DEFINE A == {z \in S : <<z, x>> \in R}
           B == {z \in S : <<z, y>> \in R}
<1>1. IsFiniteSet(A) /\ IsFiniteSet(B)
  BY FS_Subset DEF TotallyOrders
<1>2. A \in SUBSET B /\ A # B
  BY DEF TotallyOrders
<1> HIDE DEF A, B
<1>3. Cardinality(A) < Cardinality(B)
  BY <1>1, <1>2, FS_Subset, FS_CardinalityType
<1> QED
  BY <1>3 DEF Position, A, B

\* The positions number the elements without a gap.
LEMMA PositionCounts ==
    ASSUME NEW S, NEW R, TotallyOrders(R, S)
    PROVE  /\ Cardinality(S) \in Nat
           /\ \A x \in S : Position(R, S, x) \in 0..Cardinality(S) - 1
           /\ \A x, y \in S : Position(R, S, x) < Position(R, S, y) <=> <<x, y>> \in R
           /\ \A x, y \in S : Position(R, S, x) = Position(R, S, y) => x = y
           /\ \A m \in 0..Cardinality(S) - 1 : \E x \in S : Position(R, S, x) = m
<1> DEFINE N == Cardinality(S)
           p(x) == Position(R, S, x)
           f == [x \in S |-> p(x)]
           T == 0..N - 1
<1>1. N \in Nat /\ IsFiniteSet(S)
  BY FS_CardinalityType DEF TotallyOrders
<1>2. ASSUME NEW x \in S
      PROVE  p(x) \in T
  <2> DEFINE A == {y \in S : <<y, x>> \in R}
  <2>1. A \in SUBSET S /\ A # S
    BY DEF TotallyOrders
  <2> HIDE DEF A
  <2>2. Cardinality(A) \in Nat /\ Cardinality(A) < N
    BY <1>1, <2>1, FS_Subset, FS_CardinalityType
  <2> QED
    BY <1>1, <2>2 DEF Position, A
<1>3. \A x, y \in S : <<x, y>> \in R => p(x) < p(y)
  BY PositionRises
<1> HIDE DEF p
<1>4. \A x, y \in S : p(x) < p(y) => <<x, y>> \in R
  <2> SUFFICES ASSUME NEW x \in S, NEW y \in S, p(x) < p(y) PROVE <<x, y>> \in R
    OBVIOUS
  <2>1. p(x) \in Int /\ p(y) \in Int
    BY <1>1, <1>2
  <2>2. x # y /\ <<y, x>> \notin R
    BY <1>3, <2>1
  <2> QED
    BY <2>2 DEF TotallyOrders
<1>5. \A x, y \in S : p(x) = p(y) => x = y
  <2> SUFFICES ASSUME NEW x \in S, NEW y \in S, p(x) = p(y) PROVE x = y
    OBVIOUS
  <2>1. p(x) \in Int /\ p(y) \in Int
    BY <1>1, <1>2
  <2>2. <<x, y>> \notin R /\ <<y, x>> \notin R
    BY <1>3, <2>1
  <2> QED
    BY <2>2 DEF TotallyOrders
<1>6. IsFiniteSet(T) /\ Cardinality(T) = N
  <2>1. 0 \in Int /\ N - 1 \in Int
    BY <1>1
  <2> QED
    BY <1>1, <2>1, FS_Interval
<1>7. f \in Injection(S, T)
  BY <1>2, <1>5 DEF Injection, IsInjective
<1>8. f \in Surjection(S, T)
  <2> HIDE DEF f, T
  <2> QED
    BY <1>1, <1>6, <1>7, FS_Injection
<1>9. \A m \in T : \E x \in S : p(x) = m
  BY <1>8 DEF Surjection
<1> QED
  BY <1>1, <1>2, <1>3, <1>4, <1>5, <1>9 DEF p


------------------------------------------------------------------------------
(***************************************************************************)
(* Sums by parts.                                                          *)
(***************************************************************************)
LEMMA LeastExists ==
    ASSUME NEW S \in SUBSET Nat, S # {}
    PROVE  \E x \in S : \A y \in S : x <= y
<1> DEFINE R == OpToRel(<, Nat)
<1>1. IsWellFoundedOn(R, Nat)
  BY NatLessThanWellFounded
<1> HIDE DEF R
<1>2. PICK x \in S : \A y \in S : <<y, x>> \notin R
  BY <1>1, WFMin
<1>3. \A y \in S : x <= y
  <2>1. \A y \in S : ~(y < x)
    <3> USE DEF R
    <3> QED
      BY <1>2 DEF OpToRel
  <2> QED
    BY <2>1
<1> QED
  BY <1>3

\* The parts of S, one for each element of D.
Parts(F, D, S) ==
    /\ \A t \in D : F[t] \in SUBSET S
    /\ \A t, u \in D : t # u => F[t] \cap F[u] = {}

LEMMA SumByParts ==
    ASSUME NEW S, IsFiniteSet(S), NEW f, \A x \in S : f[x] \in Int,
           NEW D, IsFiniteSet(D), NEW F, Parts(F, D, S),
           NEW g, \A t \in D : g[t] = SumFunctionOnSet(f, F[t])
    PROVE  SumFunctionOnSet(g, D) = SumFunctionOnSet(f, UNION {F[t] : t \in D})
<1> DEFINE all(T) == UNION {F[t] : t \in T}
           P == {T \in SUBSET D : SumFunctionOnSet(g, T) = SumFunctionOnSet(f, all(T))}
<1>1. \A t \in D : g[t] \in Int
  <2> TAKE t \in D
  <2>1. SumFunctionOnSet(f, F[t]) \in Int
    BY SumInt DEF Parts
  <2> QED
    BY <2>1
<1>2. {} \in P
  <2>1. all({}) = {}
    OBVIOUS
  <2> HIDE DEF all
  <2> QED
    BY <2>1, SumEmpty
<1>3. ASSUME NEW T \in P, NEW x \in D \ T
      PROVE  T \cup {x} \in P
  <2> DEFINE U == T \cup {x}
  <2>1. U \in SUBSET D /\ x \in U /\ T = U \ {x} /\ T \in SUBSET D
    OBVIOUS
  <2>2. SumFunctionOnSet(g, U) = g[x] + SumFunctionOnSet(g, T)
    <3> HIDE DEF U, P
    <3> QED
      BY <1>1, <2>1, SumPeel
  <2>3. all(U) = F[x] \cup all(T) /\ F[x] \cap all(T) = {}
        /\ F[x] \in SUBSET S /\ all(T) \in SUBSET S
    BY DEF Parts
  <2> HIDE DEF all, U
  <2>4. SumFunctionOnSet(f, all(U)) = SumFunctionOnSet(f, F[x]) + SumFunctionOnSet(f, all(T))
    BY <2>3, SumUnion
  <2> QED
    BY <2>1, <2>2, <2>4 DEF U
<1>4. P = SUBSET D
  <2>1. P \in SUBSET SUBSET D
    OBVIOUS
  <2> HIDE DEF P
  <2> QED
    BY <1>2, <1>3, <2>1, SetInduction
<1> QED
  BY <1>4

LEMMA CountIsSum ==
    ASSUME NEW S, IsFiniteSet(S), NEW T \in SUBSET S, NEW f, \A x \in S : f[x] = 1
    PROVE  Cardinality(T) = SumFunctionOnSet(f, T)
<1> DEFINE P == {U \in SUBSET S : Cardinality(U) = SumFunctionOnSet(f, U)}
<1>1. {} \in P
  BY SumEmpty, FS_EmptySet
<1>2. ASSUME NEW U \in P, NEW x \in S \ U
      PROVE  U \cup {x} \in P
  <2> DEFINE W == U \cup {x}
  <2>1. W \in SUBSET S /\ x \in W /\ U = W \ {x} /\ x \notin U /\ U \in SUBSET S
    OBVIOUS
  <2>2. IsFiniteSet(U)
    BY <2>1, FS_Subset
  <2>3. Cardinality(W) = Cardinality(U) + 1 /\ Cardinality(U) \in Nat
    BY <2>1, <2>2, FS_AddElement, FS_CardinalityType
  <2>4. SumFunctionOnSet(f, W) = f[x] + SumFunctionOnSet(f, U)
    <3> HIDE DEF W, P
    <3>1. \A y \in S : f[y] \in Int
      OBVIOUS
    <3> QED
      BY <2>1, <3>1, SumPeel
  <2> HIDE DEF W
  <2> QED
    BY <2>1, <2>3, <2>4 DEF W
<1>3. P = SUBSET S
  <2>1. P \in SUBSET SUBSET S
    OBVIOUS
  <2> HIDE DEF P
  <2> QED
    BY <1>1, <1>2, <2>1, SetInduction
<1> QED
  BY <1>3

LEMMA CountByParts ==
    ASSUME NEW S, IsFiniteSet(S), NEW D, IsFiniteSet(D), NEW F, Parts(F, D, S),
           NEW g, \A t \in D : g[t] = Cardinality(F[t])
    PROVE  SumFunctionOnSet(g, D) = Cardinality(UNION {F[t] : t \in D})
<1> DEFINE f == [x \in S |-> 1]
<1>1. \A x \in S : f[x] = 1 /\ f[x] \in Int
  OBVIOUS
<1> HIDE DEF f
<1>2. \A t \in D : g[t] = SumFunctionOnSet(f, F[t])
  BY <1>1, CountIsSum DEF Parts
<1>3. UNION {F[t] : t \in D} \in SUBSET S
  BY DEF Parts
<1>4. Cardinality(UNION {F[t] : t \in D}) = SumFunctionOnSet(f, UNION {F[t] : t \in D})
  BY <1>1, <1>3, CountIsSum
<1> QED
  BY <1>1, <1>2, <1>4, SumByParts

LEMMA SumDifference ==
    ASSUME NEW S, IsFiniteSet(S), NEW f, NEW g, NEW h,
           \A x \in S : f[x] \in Int /\ g[x] \in Int /\ h[x] = f[x] - g[x]
    PROVE  SumFunctionOnSet(h, S) = SumFunctionOnSet(f, S) - SumFunctionOnSet(g, S)
<1> DEFINE P == {T \in SUBSET S : SumFunctionOnSet(h, T) =
                                    SumFunctionOnSet(f, T) - SumFunctionOnSet(g, T)}
<1>0. \A x \in S : f[x] \in Int /\ g[x] \in Int /\ h[x] \in Int
  <2> TAKE x \in S
  <2>1. f[x] \in Int /\ g[x] \in Int /\ h[x] = f[x] - g[x]
    OBVIOUS
  <2> QED
    BY <2>1
<1>1. {} \in P
  BY SumEmpty
<1>2. ASSUME NEW T \in P, NEW x \in S \ T
      PROVE  T \cup {x} \in P
  <2> DEFINE U == T \cup {x}
  <2>1. U \in SUBSET S /\ x \in U /\ T = U \ {x} /\ T \in SUBSET S
    OBVIOUS
  <2> HIDE DEF U, P
  <2>2. /\ SumFunctionOnSet(f, U) = f[x] + SumFunctionOnSet(f, T)
        /\ SumFunctionOnSet(g, U) = g[x] + SumFunctionOnSet(g, T)
        /\ SumFunctionOnSet(h, U) = h[x] + SumFunctionOnSet(h, T)
    BY <1>0, <2>1, SumPeel
  <2>3. SumFunctionOnSet(f, T) \in Int /\ SumFunctionOnSet(g, T) \in Int
    BY <1>0, <2>1, SumInt
  <2>4. SumFunctionOnSet(h, T) = SumFunctionOnSet(f, T) - SumFunctionOnSet(g, T)
    BY DEF P
  <2>5. f[x] \in Int /\ g[x] \in Int /\ h[x] = f[x] - g[x]
    OBVIOUS
  <2>6. SumFunctionOnSet(h, U) = SumFunctionOnSet(f, U) - SumFunctionOnSet(g, U)
    BY <2>2, <2>3, <2>4, <2>5
  <2> QED
    BY <2>1, <2>6 DEF P, U
<1>3. P = SUBSET S
  <2>1. P \in SUBSET SUBSET S
    OBVIOUS
  <2> HIDE DEF P
  <2> QED
    BY <1>1, <1>2, <2>1, SetInduction
<1> QED
  BY <1>3

LEMMA HighestValue ==
    ASSUME NEW S, IsFiniteSet(S), S # {}, NEW f, \A x \in S : f[x] \in Int
    PROVE  \E x \in S : \A y \in S : f[y] <= f[x]
<1> DEFINE P == {T \in SUBSET S : T # {} => \E x \in T : \A y \in T : f[y] <= f[x]}
<1>1. {} \in P
  OBVIOUS
<1>2. ASSUME NEW T \in P, NEW z \in S \ T
      PROVE  T \cup {z} \in P
  <2>1. \E x \in T \cup {z} : \A y \in T \cup {z} : f[y] <= f[x]
    <3>1. CASE T = {}
      <4>1. f[z] <= f[z]
        OBVIOUS
      <4> QED
        BY <3>1, <4>1
    <3>2. CASE T # {}
      <4>1. PICK x \in T : \A y \in T : f[y] <= f[x]
        BY <3>2
      <4>2. f[x] \in Int /\ f[z] \in Int /\ \A y \in T : f[y] \in Int
        OBVIOUS
      <4>3. CASE f[z] <= f[x]
        BY <4>1, <4>3
      <4>4. CASE f[x] < f[z]
        <5>1. \A y \in T \cup {z} : f[y] <= f[z]
          BY <4>1, <4>2, <4>4
        <5> QED
          BY <5>1
      <4> QED
        BY <4>2, <4>3, <4>4
    <3> QED
      BY <3>1, <3>2
  <2> QED
    BY <2>1
<1>3. P = SUBSET S
  <2>1. P \in SUBSET SUBSET S
    OBVIOUS
  <2> HIDE DEF P
  <2> QED
    BY <1>1, <1>2, <2>1, SetInduction
<1> QED
  BY <1>3

\* The first k elements of a ranking: with each the ones that rank above it.
Leads(T, k, S, f) ==
    /\ T \in SUBSET S /\ Cardinality(T) = k
    /\ \A x \in T : {y \in S : f[y] > f[x]} \subseteq T

LEMMA LeadersExist ==
    ASSUME NEW S, IsFiniteSet(S), NEW f, \A x \in S : f[x] \in Int,
           NEW k \in 0..Cardinality(S)
    PROVE  \E T : Leads(T, k, S, f)
<1> DEFINE N == Cardinality(S)
           P == {n \in Nat : n <= N => \E T : Leads(T, n, S, f)}
<1>1. N \in Nat
  BY FS_CardinalityType
<1>2. 0 \in P
  <2>1. Leads({}, 0, S, f)
    BY FS_EmptySet DEF Leads
  <2> QED
    BY <2>1
<1>3. ASSUME NEW n \in P
      PROVE  n + 1 \in P
  <2> SUFFICES ASSUME n + 1 <= N PROVE \E T : Leads(T, n + 1, S, f)
    OBVIOUS
  <2>1. PICK T : Leads(T, n, S, f)
    BY <1>1
  <2>2. T \in SUBSET S /\ Cardinality(T) = n /\ IsFiniteSet(T)
    BY <2>1, FS_Subset DEF Leads
  <2>3. S \ T # {}
    <3> SUFFICES ASSUME S \ T = {} PROVE FALSE
      OBVIOUS
    <3>1. S = T
      BY <2>2
    <3> QED
      BY <1>1, <2>2, <3>1
  <2>4. IsFiniteSet(S \ T)
    BY FS_Subset
  <2>5. PICK x \in S \ T : \A y \in S \ T : f[y] <= f[x]
    <3> DEFINE R == S \ T
    <3>1. R \in SUBSET S /\ IsFiniteSet(R) /\ R # {}
      BY <2>3, <2>4
    <3> HIDE DEF R
    <3>2. \E x \in R : \A y \in R : f[y] <= f[x]
      BY <3>1, HighestValue
    <3> QED
      BY <3>2 DEF R
  <2>6. Cardinality(T \cup {x}) = n + 1
    BY <2>2, <2>5, FS_AddElement
  <2>7. ASSUME NEW z \in T \cup {x}, NEW y \in S, f[y] > f[z]
        PROVE  y \in T \cup {x}
    <3>1. CASE z \in T
      BY <2>1, <2>7, <3>1 DEF Leads
    <3>2. CASE z = x
      <4>1. ~(f[y] <= f[x]) /\ f[y] \in Int /\ f[x] \in Int
        BY <2>7, <3>2
      <4> QED
        BY <2>5, <4>1
    <3> QED
      BY <3>1, <3>2
  <2>8. Leads(T \cup {x}, n + 1, S, f)
    BY <2>2, <2>6, <2>7 DEF Leads
  <2> QED
    BY <2>8
<1>4. P = Nat
  <2> HIDE DEF P
  <2>1. P \in SUBSET Nat
    BY DEF P
  <2> QED
    BY <1>2, <1>3, <2>1, Induction
<1> QED
  BY <1>1, <1>4
==============================================================================
