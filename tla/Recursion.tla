------------------------------ MODULE Recursion ------------------------------
(***************************************************************************)
(* Facts for proofs about recursive definitions, stated over sets and      *)
(* functions only, so that they can be applied to a definition without an  *)
(* operator as a parameter: a property is the set of the numbers that do   *)
(* not have it, and a recursive definition is the function that makes a    *)
(* value from those before it.                                             *)
(***************************************************************************)
EXTENDS Integers, WellFoundedInduction, TLAPS

\* Every set of natural numbers has a least one.
LEMMA LeastElement ==
  ASSUME NEW T \in SUBSET Nat, T # {}
  PROVE  \E m \in T : \A k \in T : m <= k
  <1> DEFINE R == {ss \in Nat \X Nat : ss[1] < ss[2]}
  <1>1. OpToRel(<, Nat) = R
    BY DEF OpToRel
  <1>2. IsWellFoundedOn(R, Nat)
    BY <1>1, NatLessThanWellFounded
  <1> HIDE DEF R
  <1>3. PICK m \in T : \A k \in T : <<k, m>> \notin R
    BY <1>2, WFMin
  <1>4. ASSUME NEW k \in T, k < m PROVE FALSE
    <2>1. <<k, m>> \in Nat \X Nat /\ <<k, m>>[1] < <<k, m>>[2]
      BY <1>4
    <2>2. <<k, m>> \in R
      BY <2>1 DEF R
    <2> QED  BY <1>3, <2>2
  <1> QED  BY <1>4

\* What holds of a number when it holds of all below it, holds of all: T is the
\* set of those it holds of.
LEMMA Induction ==
  ASSUME NEW T, \A n \in Nat : (\A m \in Nat : m < n => m \in T) => n \in T
  PROVE  \A n \in Nat : n \in T
  <1> SUFFICES ASSUME Nat \ T # {} PROVE FALSE
    OBVIOUS
  <1>1. Nat \ T \in SUBSET Nat
    OBVIOUS
  <1>2. PICK n \in Nat \ T : \A m \in Nat \ T : n <= m
    BY <1>1, LeastElement
  <1>3. \A m \in Nat : m < n => m \in T
    BY <1>2
  <1> QED  BY <1>2, <1>3

\* s is in T when all are that are below it, in the measure m
Inductive(S, m, T) ==
  /\ m \in [S -> Nat]
  /\ \A s \in S : (\A t \in S : m[t] < m[s] => t \in T) => s \in T

\* The same over a set whose elements are measured by numbers.
LEMMA MeasureInduction ==
  ASSUME NEW S, NEW m, NEW T, Inductive(S, m, T)
  PROVE  \A s \in S : s \in T
  <1> DEFINE U == {n \in Nat : \A s \in S : m[s] = n => s \in T}
  <1>1. ASSUME NEW n \in Nat, \A k \in Nat : k < n => k \in U PROVE n \in U
    <2>1. ASSUME NEW s \in S, m[s] = n PROVE s \in T
      <3>1. \A t \in S : m[t] < m[s] => t \in T
        BY <1>1, <2>1 DEF Inductive
      <3> QED  BY <3>1 DEF Inductive
    <2> QED  BY <2>1
  <1> HIDE DEF U
  <1>2. \A n \in Nat : n \in U
    BY <1>1, Induction
  <1> QED  BY <1>2 DEF U, Inductive

\* What a recursive definition makes of an argument s, step[<<g, s>>], rests on what
\* g is below s, in the measure m.
Recursive(S, D, m, step) ==
  /\ D # {}
  /\ m \in [S -> Nat]
  /\ step \in [[S -> D] \X S -> D]
  /\ \A g, h \in [S -> D], s \in S :
       (\A t \in S : m[t] < m[s] => g[t] = h[t]) => step[<<g, s>>] = step[<<h, s>>]

\* f is what the definition says, for the arguments of measure less than n
Defined(S, m, step, f, n) == \A s \in S : m[s] < n => f[s] = step[<<f, s>>]

LEMMA RecursionUnique ==
  ASSUME NEW S, NEW D, NEW m, NEW step, Recursive(S, D, m, step),
         NEW n \in Nat, NEW f \in [S -> D], NEW g \in [S -> D],
         Defined(S, m, step, f, n), Defined(S, m, step, g, n)
  PROVE  \A s \in S : m[s] < n => f[s] = g[s]
  <1> DEFINE T == {k \in Nat : \A s \in S : m[s] = k /\ k < n => f[s] = g[s]}
  <1>1. ASSUME NEW k \in Nat, \A j \in Nat : j < k => j \in T PROVE k \in T
    <2> SUFFICES ASSUME NEW s \in S, m[s] = k, k < n PROVE f[s] = g[s]
      OBVIOUS
    <2>1. m \in [S -> Nat]
      BY DEF Recursive
    <2>2. \A t \in S : m[t] < m[s] => f[t] = g[t]
      BY <1>1, <2>1
    <2>3. step[<<f, s>>] = step[<<g, s>>]
      BY <2>2 DEF Recursive
    <2> QED  BY <2>3 DEF Defined
  <1> HIDE DEF T
  <1>2. \A k \in Nat : k \in T
    BY <1>1, Induction
  <1> QED  BY <1>2 DEF T, Recursive

\* For every bound on the measure there is a function that is as defined.
LEMMA RecursionBelow ==
  ASSUME NEW S, NEW D, NEW m, NEW step, Recursive(S, D, m, step)
  PROVE  \A n \in Nat : \E f \in [S -> D] : Defined(S, m, step, f, n)
  <1> DEFINE T == {n \in Nat : \E f \in [S -> D] : Defined(S, m, step, f, n)}
  <1>0. m \in [S -> Nat] /\ step \in [[S -> D] \X S -> D]
    BY DEF Recursive
  <1>1. ASSUME NEW n \in Nat, \A j \in Nat : j < n => j \in T PROVE n \in T
    <2>1. CASE n = 0
      <3>1. PICK d \in D : TRUE
        BY DEF Recursive
      <3>2. [s \in S |-> d] \in [S -> D]
        OBVIOUS
      <3>3. Defined(S, m, step, [s \in S |-> d], 0)
        BY <1>0 DEF Defined
      <3> QED  BY <2>1, <3>2, <3>3
    <2>2. CASE n # 0
      <3>1. n - 1 \in Nat /\ n - 1 < n
        BY <2>2
      <3>2. PICK f \in [S -> D] : Defined(S, m, step, f, n - 1)
        BY <1>1, <3>1
      <3> DEFINE g == [s \in S |-> IF m[s] < n - 1 THEN f[s] ELSE step[<<f, s>>]]
      <3>3. g \in [S -> D]
        BY <1>0
      <3>4. ASSUME NEW s \in S, m[s] < n PROVE g[s] = step[<<g, s>>]
        <4>1. \A t \in S : m[t] < m[s] => g[t] = f[t]
          BY <1>0, <3>4
        <4>2. step[<<g, s>>] = step[<<f, s>>]
          BY <3>3, <4>1 DEF Recursive
        <4>3. CASE m[s] < n - 1
          BY <3>2, <4>2, <4>3 DEF Defined
        <4>4. CASE ~ m[s] < n - 1
          BY <4>2, <4>4
        <4> QED  BY <4>3, <4>4
      <3>5. Defined(S, m, step, g, n)
        <4> HIDE DEF g
        <4> QED  BY <3>4 DEF Defined
      <3> QED  BY <3>3, <3>5
    <2> QED  BY <2>1, <2>2
  <1> HIDE DEF T
  <1>2. \A n \in Nat : n \in T
    BY <1>1, Induction
  <1> QED  BY <1>2 DEF T

\* A recursive definition whose arguments go down defines one function, and that
\* is what its equation says.
THEOREM RecursiveFunction ==
  ASSUME NEW S, NEW D, NEW m, NEW step, Recursive(S, D, m, step)
  PROVE  \E f \in [S -> D] : \A s \in S : f[s] = step[<<f, s>>]
  <1>0. m \in [S -> Nat] /\ step \in [[S -> D] \X S -> D]
    BY DEF Recursive
  <1>1. \A n \in Nat : \E f \in [S -> D] : Defined(S, m, step, f, n)
    BY RecursionBelow
  <1> DEFINE F(n) == CHOOSE f \in [S -> D] : Defined(S, m, step, f, n)
  <1>2. \A n \in Nat : F(n) \in [S -> D] /\ Defined(S, m, step, F(n), n)
    BY <1>1
  <1> HIDE DEF F
  <1> DEFINE f == [s \in S |-> F(m[s] + 1)[s]]
  <1>3. f \in [S -> D]
    BY <1>0, <1>2
  <1>4. ASSUME NEW s \in S PROVE f[s] = step[<<f, s>>]
    <2>1. m[s] \in Nat /\ m[s] + 1 \in Nat
      BY <1>0
    <2>2. PICK h \in [S -> D] : h = F(m[s] + 1)
      BY <1>2, <2>1
    <2>3. Defined(S, m, step, h, m[s] + 1)
      BY <1>2, <2>1, <2>2
    <2>4. ASSUME NEW t \in S, m[t] < m[s] PROVE f[t] = h[t]
      <3>1. m[t] + 1 \in Nat /\ m[t] + 1 <= m[s] + 1
        BY <1>0, <2>1, <2>4
      <3>2. PICK k \in [S -> D] : k = F(m[t] + 1)
        BY <1>2, <3>1
      <3>3. Defined(S, m, step, k, m[t] + 1)
        BY <1>2, <3>1, <3>2
      <3>4. Defined(S, m, step, h, m[t] + 1)
        BY <1>0, <2>1, <2>3, <3>1 DEF Defined
      <3>5. k[t] = h[t]
        BY <1>0, <3>1, <3>3, <3>4, RecursionUnique
      <3> QED  BY <3>2, <3>5
    <2>5. step[<<f, s>>] = step[<<h, s>>]
      BY <1>3, <2>4 DEF Recursive
    <2>6. h[s] = step[<<h, s>>]
      BY <2>1, <2>3 DEF Defined
    <2>7. f[s] = h[s]
      BY <2>2
    <2> QED  BY <2>5, <2>6, <2>7
  <1> HIDE DEF f
  <1> QED  BY <1>3, <1>4
=============================================================================
