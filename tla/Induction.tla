----------------------------- MODULE Induction ------------------------------
(***************************************************************************)
(* Induction on the naturals, for the proofs about the numerals, the work  *)
(* and the sorted results of the other modules.  What is proved by         *)
(* induction is given as the set of the numbers it holds for.              *)
(***************************************************************************)
EXTENDS Integers, WellFoundedInduction

(* A set that holds 0 and the successor of each of its naturals holds them *)
(* all.                                                                    *)
LEMMA SetInduction ==
  ASSUME NEW S, 0 \in S, \A n \in Nat : n \in S => n + 1 \in S
  PROVE  \A n \in Nat : n \in S
<1> DEFINE R == OpToRel(<, Nat)  T == {n \in Nat : n \notin S}
<1> SUFFICES ASSUME T # {} PROVE FALSE
  OBVIOUS
<1>1. PICK k \in T : \A l \in T : ~(<<l, k>> \in R)
  <2>1. T \subseteq Nat
    OBVIOUS
  <2> HIDE DEF R, T
  <2>2. IsWellFoundedOn(R, Nat)
    BY NatLessThanWellFounded DEF R
  <2> QED
    BY <2>1, <2>2, WFMin
<1>2. \A l \in T : ~(l < k)
  BY <1>1 DEF OpToRel
<1>3. k # 0 /\ k - 1 \in Nat /\ k - 1 \in S
  BY <1>2
<1> QED
  BY <1>3

(* A set of naturals has a least member.                                   *)
LEMMA LeastExists ==
  ASSUME NEW T, T \subseteq Nat, T # {}
  PROVE  \E x \in T : \A y \in T : x <= y
<1> DEFINE R == OpToRel(<, Nat)
<1>1. PICK x \in T : \A y \in T : ~(<<y, x>> \in R)
  <2>1. IsWellFoundedOn(R, Nat)
    BY NatLessThanWellFounded
  <2> HIDE DEF R
  <2> QED
    BY <2>1, WFMin
<1>2. \A y \in T : ~(y < x)
  BY <1>1 DEF OpToRel
<1> QED
  BY <1>2

(* A set of naturals that is bounded has a greatest member.                *)
LEMMA GreatestExists ==
  ASSUME NEW n, NEW T, n \in Nat, T \subseteq 0 .. n, T # {}
  PROVE  \E x \in T : \A y \in T : y <= x
<1> DEFINE D == {n - y : y \in T}
<1>1. D \subseteq Nat /\ D # {}
  <2>1. \A y \in T : n - y \in Nat
    OBVIOUS
  <2> QED
    BY <2>1
<1>2. PICK d \in D : \A e \in D : d <= e
  <2> HIDE DEF D
  <2> QED
    BY <1>1, LeastExists
<1>3. PICK x \in T : d = n - x
  OBVIOUS
<1>4. \A y \in T : n - x <= n - y
  BY <1>2, <1>3
<1> QED
  BY <1>4

(* The first n + 1 values of what starts as z and goes on by step.         *)
Iterates(f, S, z, step, n) ==
  /\ f \in [0 .. n -> S] /\ f[0] = z
  /\ \A k \in 0 .. n - 1 : f[k + 1] = step[f[k]]

(* There are such values for every n.                                      *)
LEMMA IteratesExist ==
  ASSUME NEW S, NEW z, NEW step, z \in S, step \in [S -> S]
  PROVE  \A n \in Nat : \E f : Iterates(f, S, z, step, n)
<1> DEFINE P == {n \in Nat : \E f : Iterates(f, S, z, step, n)}
<1>1. 0 \in P
  <2>1. Iterates([k \in 0 .. 0 |-> z], S, z, step, 0)
    BY DEF Iterates
  <2> QED
    BY <2>1
<1>2. ASSUME NEW n \in Nat, n \in P PROVE n + 1 \in P
  <2>1. PICK f : Iterates(f, S, z, step, n)
    BY <1>2
  <2> DEFINE m == n + 1  g == [k \in 0 .. m |-> IF k = m THEN step[f[n]] ELSE f[k]]
  <2>2. f \in [0 .. n -> S] /\ f[n] \in S /\ step[f[n]] \in S
    BY <2>1 DEF Iterates
  <2>3. g \in [0 .. m -> S] /\ g[0] = z
    <3>1. \A k \in 0 .. m : k = m \/ k \in 0 .. n
      OBVIOUS
    <3>2. 0 \in 0 .. m /\ 0 # m
      OBVIOUS
    <3> QED
      BY <2>1, <2>2, <3>1, <3>2 DEF Iterates
  <2>4. ASSUME NEW k \in 0 .. m - 1 PROVE g[k + 1] = step[g[k]]
    <3>1. k \in 0 .. m /\ k + 1 \in 0 .. m /\ k # m
      OBVIOUS
    <3>2. CASE k = n
      BY <3>1, <3>2
    <3>3. CASE k # n
      <4>1. k \in 0 .. n - 1 /\ k + 1 # m
        BY <3>3
      <4>2. f[k + 1] = step[f[k]]
        BY <2>1, <4>1 DEF Iterates
      <4> QED
        BY <3>1, <4>1, <4>2
    <3> QED
      BY <3>2, <3>3
  <2> HIDE DEF g
  <2>5. Iterates(g, S, z, step, n + 1)
    BY <2>3, <2>4 DEF Iterates
  <2> QED
    BY <2>5
<1> HIDE DEF P
<1>3. \A n \in Nat : n \in P
  BY <1>1, <1>2, SetInduction
<1> QED
  BY <1>3 DEF P

(* Two such beginnings agree as far as both go.                            *)
LEMMA IteratesAgree ==
  ASSUME NEW S, NEW z, NEW step, NEW m, NEW n, NEW f, NEW g, m \in Nat, n \in Nat, m <= n,
         Iterates(f, S, z, step, m), Iterates(g, S, z, step, n)
  PROVE  f[m] = g[m]
<1> DEFINE P == {k \in Nat : k <= m => f[k] = g[k]}
<1>1. 0 \in P
  BY DEF Iterates
<1>2. ASSUME NEW k \in Nat, k \in P PROVE k + 1 \in P
  <2>1. SUFFICES ASSUME k + 1 <= m PROVE f[k + 1] = g[k + 1]
    OBVIOUS
  <2>2. k \in 0 .. m - 1 /\ k \in 0 .. n - 1 /\ f[k] = g[k]
    BY <1>2, <2>1
  <2> QED
    BY <2>2 DEF Iterates
<1> HIDE DEF P
<1>3. m \in P
  BY <1>1, <1>2, SetInduction
<1> QED
  BY <1>3 DEF P

(* All of its values. *)
Iterated(f, S, z, step) ==
  /\ f \in [Nat -> S] /\ f[0] = z
  /\ \A n \in Nat : f[n + 1] = step[f[n]]

(* A function of the naturals is defined by its first value and the step   *)
(* from each value to the next.                                            *)
LEMMA Iteration ==
  ASSUME NEW S, NEW z, NEW step, z \in S, step \in [S -> S]
  PROVE  \E f : Iterated(f, S, z, step)
<1> DEFINE first(n) == CHOOSE f : Iterates(f, S, z, step, n)
           f == [n \in Nat |-> first(n)[n]]
<1>1. \A n \in Nat : Iterates(first(n), S, z, step, n)
  BY IteratesExist
<1> HIDE DEF first
<1>2. \A n \in Nat : first(n)[n] \in S
  BY <1>1 DEF Iterates
<1>3. ASSUME NEW n \in Nat PROVE f[n + 1] = step[f[n]]
  <2> DEFINE m == n + 1
  <2>1. m \in Nat /\ n <= m /\ n \in 0 .. m - 1
    OBVIOUS
  <2>2. Iterates(first(n), S, z, step, n) /\ Iterates(first(m), S, z, step, m)
    BY <1>1, <2>1
  <2>3. first(n)[n] = first(m)[n]
    BY <2>1, <2>2, IteratesAgree
  <2>4. first(m)[n + 1] = step[first(m)[n]]
    BY <2>1, <2>2 DEF Iterates
  <2> QED
    BY <2>1, <2>3, <2>4
<1>4. f[0] = z
  BY <1>1 DEF Iterates
<1>5. f \in [Nat -> S]
  BY <1>2
<1> HIDE DEF f
<1>6. Iterated(f, S, z, step)
  BY <1>3, <1>4, <1>5 DEF Iterated
<1> QED
  BY <1>6
=============================================================================
