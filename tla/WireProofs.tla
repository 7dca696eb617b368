----------------------------- MODULE WireProofs -----------------------------
(***************************************************************************)
(* Proofs about Wire for every width, group size, cap and set of bytes:    *)
(* the types, the comment's induction in le_bytes_to_decimal (the loop     *)
(* that strips leading zeros never fires), that a varint is the number its *)
(* groups spell, and that the digits of a bigint are its magnitude.        *)
(***************************************************************************)
EXTENDS Wire, Induction, SequenceTheorems, TLAPS

-----------------------------------------------------------------------------
(* Numerals: what the recursive function Above computes, by induction on   *)
(* the number of digits.                                                   *)

(* The equation of Above, of a function f. *)
IsAbove(f, ds, b, n, top) ==
  f = [i \in 1 .. n + 1 |-> IF i = n + 1 THEN top ELSE ds[i] + b * f[i + 1]]

(* Two functions that are the same on an interval.                         *)
AgreeOn(f, g, lo, hi) == \A i \in lo .. hi : f[i] = g[i]

(* What two functions agree on at the end of a range, and below each place *)
(* they agree on, they agree on in all of it.                              *)
LEMMA Agree ==
  ASSUME NEW f, NEW g, NEW lo, NEW hi, lo \in Int, hi \in Int, f[hi] = g[hi],
         \A i \in lo .. hi - 1 : f[i + 1] = g[i + 1] => f[i] = g[i]
  PROVE  AgreeOn(f, g, lo, hi)
<1> DEFINE S == {k \in Nat : hi - k >= lo => f[hi - k] = g[hi - k]}
<1>1. 0 \in S
  OBVIOUS
<1>2. ASSUME NEW k \in Nat, k \in S PROVE k + 1 \in S
  <2> SUFFICES ASSUME hi - (k + 1) >= lo PROVE f[hi - (k + 1)] = g[hi - (k + 1)]
    OBVIOUS
  <2> DEFINE i == hi - (k + 1)
  <2>1. i \in lo .. hi - 1 /\ i + 1 = hi - k
    OBVIOUS
  <2>2. f[i + 1] = g[i + 1]
    BY <1>2, <2>1
  <2> HIDE DEF i, S
  <2>3. f[i] = g[i]
    BY <2>1, <2>2
  <2> QED
    BY <2>3 DEF i
<1>3. \A k \in Nat : k \in S
  <2> HIDE DEF S
  <2> QED
    BY <1>1, <1>2, SetInduction
<1> SUFFICES ASSUME NEW i \in lo .. hi PROVE f[i] = g[i]
  BY DEF AgreeOn
<1>4. hi - i \in Nat /\ hi - (hi - i) = i /\ i >= lo
  OBVIOUS
<1> QED
  BY <1>3, <1>4

(* There is a function that solves the equation. *)
LEMMA AboveExists ==
  ASSUME NEW ds, NEW b \in Int, NEW n \in Nat, \A i \in 1 .. n : ds[i] \in Int
  PROVE  \A top \in Int : \E f \in [1 .. n + 1 -> Int] : IsAbove(f, ds, b, n, top)
<1> DEFINE Solved(m, top) == \E f \in [1 .. m + 1 -> Int] : IsAbove(f, ds, b, m, top)
           S == {m \in Nat : m <= n => \A top \in Int : Solved(m, top)}
<1>1. 0 \in S
  <2> SUFFICES ASSUME NEW top \in Int
               PROVE  \E f \in [1 .. 1 -> Int] : IsAbove(f, ds, b, 0, top)
    OBVIOUS
  <2> WITNESS [i \in 1 .. 1 |-> top] \in [1 .. 1 -> Int]
  <2> QED
    BY DEF IsAbove
<1>2. ASSUME NEW m \in Nat, m \in S PROVE m + 1 \in S
  <2> SUFFICES ASSUME m + 1 <= n, NEW top \in Int PROVE Solved(m + 1, top)
    <3> HIDE DEF Solved
    <3> QED
      OBVIOUS
  <2> DEFINE low == ds[m + 1] + b * top
  <2>1. low \in Int
    OBVIOUS
  <2>2. PICK g \in [1 .. m + 1 -> Int] : IsAbove(g, ds, b, m, low)
    BY <1>2, <2>1
  <2> DEFINE f == [i \in 1 .. (m + 1) + 1 |-> IF i = (m + 1) + 1 THEN top ELSE g[i]]
  <2>3. f \in [1 .. (m + 1) + 1 -> Int]
    OBVIOUS
  <2>4. ASSUME NEW i \in 1 .. (m + 1) + 1
        PROVE  f[i] = IF i = (m + 1) + 1 THEN top ELSE ds[i] + b * f[i + 1]
    <3>1. CASE i = (m + 1) + 1
      BY <3>1
    <3>2. CASE i = m + 1
      <4>1. f[i] = g[m + 1] /\ f[i + 1] = top
        BY <3>2
      <4>2. g[m + 1] = low
        BY <2>2 DEF IsAbove
      <4> QED
        BY <3>2, <4>1, <4>2
    <3>3. CASE i \in 1 .. m
      <4>1. f[i] = g[i] /\ f[i + 1] = g[i + 1]
        BY <3>3
      <4> HIDE DEF f, low
      <4>2. g[i] = ds[i] + b * g[i + 1]
        <5>1. i \in 1 .. m + 1 /\ i # m + 1
          BY <3>3
        <5> QED
          BY <2>2, <5>1 DEF IsAbove
      <4> QED
        BY <3>3, <4>1, <4>2
    <3> QED
      BY <3>1, <3>2, <3>3
  <2>5. f = [i \in 1 .. (m + 1) + 1 |->
               IF i = (m + 1) + 1 THEN top ELSE ds[i] + b * f[i + 1]]
    <3> DEFINE h == [i \in 1 .. (m + 1) + 1 |->
                       IF i = (m + 1) + 1 THEN top ELSE ds[i] + b * f[i + 1]]
    <3>1. \A i \in 1 .. (m + 1) + 1 : f[i] = h[i]
      <4> HIDE DEF f
      <4> QED
        BY <2>4, Zenon
    <3>2. DOMAIN f = 1 .. (m + 1) + 1 /\ f = [i \in DOMAIN f |-> f[i]]
      OBVIOUS
    <3> HIDE DEF f
    <3>3. DOMAIN h = 1 .. (m + 1) + 1 /\ h = [i \in DOMAIN h |-> h[i]]
      OBVIOUS
    <3> HIDE DEF h
    <3>4. f = h
      BY <3>1, <3>2, <3>3
    <3> QED
      BY <3>4 DEF h
  <2>6. IsAbove(f, ds, b, m + 1, top)
    BY <2>5, Zenon DEF IsAbove
  <2> HIDE DEF f
  <2> QED
    BY <2>3, <2>6
<1>3. n \in S
  <2> HIDE DEF S
  <2> QED
    BY <1>1, <1>2, SetInduction
<1>4. n <= n
  OBVIOUS
<1> QED
  BY <1>3, <1>4, Zenon

(* The first n of these are numbers.                                       *)
Digits(ds, n) == \A i \in 1 .. n : ds[i] \in Int

(* A function that satisfies the equation, over the digits and the top.    *)
Solves(f, ds, b, n, top) ==
  /\ f \in [1 .. n + 1 -> Int] /\ f[n + 1] = top
  /\ \A i \in 1 .. n : f[i] = ds[i] + b * f[i + 1]

(* Above is that function.                                                 *)
LEMMA AboveSolves ==
  ASSUME NEW ds, NEW b, NEW n, NEW top, b \in Int, n \in Nat, top \in Int, Digits(ds, n)
  PROVE  Solves(Above(ds, b, n, top), ds, b, n, top)
<1>1. PICK f : f \in [1 .. n + 1 -> Int] /\ IsAbove(f, ds, b, n, top)
  BY AboveExists DEF Digits
<1> DEFINE g == Above(ds, b, n, top)
<1>2. IsAbove(g, ds, b, n, top)
  BY <1>1, Zenon DEF IsAbove, Above
<1> HIDE DEF g
<1>3. ASSUME NEW h, IsAbove(h, ds, b, n, top)
      PROVE  /\ h = [i \in 1 .. n + 1 |-> h[i]] /\ h[n + 1] = top
             /\ \A i \in 1 .. n : h[i] = ds[i] + b * h[i + 1]
  <2>1. \A i \in 1 .. n + 1 : h[i] = IF i = n + 1 THEN top ELSE ds[i] + b * h[i + 1]
    BY <1>3, Zenon DEF IsAbove
  <2>2. DOMAIN h = 1 .. n + 1
    BY <1>3, Zenon DEF IsAbove
  <2>3. h = [i \in DOMAIN h |-> h[i]]
    BY <1>3, Zenon DEF IsAbove
  <2>4. n + 1 \in 1 .. n + 1 /\ \A i \in 1 .. n : i \in 1 .. n + 1 /\ i # n + 1
    OBVIOUS
  <2> QED
    BY <2>1, <2>2, <2>3, <2>4, Zenon
<1>4. AgreeOn(f, g, 1, n + 1)
  <2>1. n + 1 - 1 = n /\ 1 \in Int /\ n + 1 \in Int
    OBVIOUS
  <2>2. f[n + 1] = g[n + 1]
    BY <1>1, <1>2, <1>3, Zenon
  <2>3. /\ \A i \in 1 .. n : f[i] = ds[i] + b * f[i + 1]
        /\ \A i \in 1 .. n : g[i] = ds[i] + b * g[i + 1]
    BY <1>1, <1>2, <1>3, Zenon
  <2>4. \A i \in 1 .. n + 1 - 1 : f[i + 1] = g[i + 1] => f[i] = g[i]
    BY <2>1, <2>3
  <2> QED
    BY <2>1, <2>2, <2>4, Agree
<1>5. g = f
  <2>1. f = [i \in 1 .. n + 1 |-> f[i]] /\ g = [i \in 1 .. n + 1 |-> g[i]]
    BY <1>1, <1>2, <1>3, Zenon
  <2> QED
    BY <1>4, <2>1, Zenon DEF AgreeOn
<1>6. Solves(g, ds, b, n, top)
  BY <1>1, <1>2, <1>3, <1>5, Zenon DEF Solves
<1> QED
  BY <1>6 DEF g

(* m digits with top above them are n digits with the number under above.  *)
UnderTop(ds, b, n, m, top, under) ==
  under \in Int /\ Above(ds, b, m, top)[1] = Above(ds, b, n, under)[1]

(* A numeral with a digit more is one under the number that digit makes    *)
(* with what is above it.                                                  *)
LEMMA TopDigit ==
  ASSUME NEW ds, NEW b, NEW n, NEW m, NEW top, NEW under,
         b \in Int, n \in Nat, top \in Int, m = n + 1,
         Digits(ds, m), under = ds[m] + b * top
  PROVE  UnderTop(ds, b, n, m, top, under)
<1> DEFINE f == Above(ds, b, m, top)  g == Above(ds, b, n, under)
<1>1. /\ under \in Int /\ m \in Nat /\ 1 \in Int /\ n + 1 \in Int
      /\ 1 \in 1 .. n + 1 /\ n + 1 - 1 = n
      /\ Digits(ds, n)
      /\ \A i \in 1 .. n : i \in 1 .. m
      /\ m \in 1 .. m
  BY DEF Digits
<1>2. Solves(f, ds, b, m, top) /\ Solves(g, ds, b, n, under)
  BY <1>1, AboveSolves, Zenon
<1> HIDE DEF f, g
<1>3. f[n + 1] = g[n + 1]
  BY <1>1, <1>2, Zenon DEF Solves
<1>4. \A i \in 1 .. n : f[i + 1] = g[i + 1] => f[i] = g[i]
  BY <1>1, <1>2, Zenon DEF Solves
<1>5. \A i \in 1 .. n + 1 - 1 : f[i + 1] = g[i + 1] => f[i] = g[i]
  BY <1>1, <1>4, Zenon
<1>6. AgreeOn(f, g, 1, n + 1)
  BY <1>1, <1>3, <1>5, Agree
<1> QED
  BY <1>1, <1>6 DEF f, g, AgreeOn, UnderTop

(* Two numerals that have the same value from a place on.                  *)
SameFrom(ds, es, b, n, top, lo) == Above(ds, b, n, top)[lo] = Above(es, b, n, top)[lo]

(* What is above some digits does not depend on them.                      *)
LEMMA SameAbove ==
  ASSUME NEW b, NEW n, NEW top, NEW lo, NEW ds, NEW es,
         b \in Int, n \in Nat, top \in Int, lo \in 1 .. n + 1,
         Digits(ds, n), Digits(es, n), AgreeOn(ds, es, lo, n)
  PROVE  SameFrom(ds, es, b, n, top, lo)
<1> DEFINE f == Above(ds, b, n, top)  g == Above(es, b, n, top)
<1>1. lo \in Int /\ n + 1 \in Int /\ lo \in lo .. n + 1 /\ n + 1 - 1 = n
      /\ \A i \in lo .. n : i \in 1 .. n
  OBVIOUS
<1>2. Solves(f, ds, b, n, top) /\ Solves(g, es, b, n, top)
  BY AboveSolves, Zenon
<1> HIDE DEF f, g
<1>3. \A i \in lo .. n : f[i + 1] = g[i + 1] => f[i] = g[i]
  BY <1>1, <1>2, Zenon DEF Solves, AgreeOn
<1>4. \A i \in lo .. n + 1 - 1 : f[i + 1] = g[i + 1] => f[i] = g[i]
  BY <1>1, <1>3, Zenon
<1>5. f[n + 1] = g[n + 1]
  BY <1>2, Zenon DEF Solves
<1>6. AgreeOn(f, g, lo, n + 1)
  BY <1>1, <1>4, <1>5, Agree
<1> QED
  BY <1>1, <1>6 DEF f, g, AgreeOn, SameFrom

(* A numeral is zero when its digits are.                                  *)
ZeroMeans(ds, b, n) == Above(ds, b, n, 0)[1] = 0 <=> \A i \in 1 .. n : ds[i] = 0

(* A numeral is zero when all its digits are, and only then.               *)
LEMMA ZeroNumeral ==
  ASSUME NEW b, NEW n, NEW ds, b \in Nat \ {0}, n \in Nat, \A i \in 1 .. n : ds[i] \in Nat
  PROVE  ZeroMeans(ds, b, n)
<1> DEFINE f == Above(ds, b, n, 0)
           Zero(j) == f[j] \in Nat /\ (f[j] = 0 <=> \A i \in j .. n : ds[i] = 0)
           S == {k \in Nat : k <= n => Zero(n + 1 - k)}
<1>1. f[n + 1] = 0 /\ \A i \in 1 .. n : f[i] = ds[i] + b * f[i + 1]
  <2>1. b \in Int /\ 0 \in Int /\ Digits(ds, n)
    BY DEF Digits
  <2>2. Solves(f, ds, b, n, 0)
    BY <2>1, AboveSolves, Zenon
  <2> QED
    BY <2>2, Zenon DEF Solves
<1> HIDE DEF f
<1>2. 0 \in S
  <2>1. n + 1 - 0 = n + 1 /\ (n + 1) .. n = {}
    OBVIOUS
  <2> QED
    BY <1>1, <2>1
<1>3. ASSUME NEW k \in Nat, k \in S PROVE k + 1 \in S
  <2> SUFFICES ASSUME k + 1 <= n PROVE Zero(n + 1 - (k + 1))
    OBVIOUS
  <2> DEFINE j == n + 1 - (k + 1)
  <2>1. j \in 1 .. n /\ j + 1 = n + 1 - k
    OBVIOUS
  <2> HIDE DEF j
  <2>2. Zero(j + 1)
    BY <1>3, <2>1
  <2>3. f[j] = ds[j] + b * f[j + 1] /\ ds[j] \in Nat
    BY <1>1, <2>1
  <2>4. ASSUME NEW x \in Nat, NEW d \in Nat, NEW y, y = d + b * x
        PROVE  y \in Nat /\ (y = 0 <=> d = 0 /\ x = 0)
    <3>1. b * x \in Nat /\ (b * x = 0 => x = 0) /\ (x = 0 => b * x = 0)
      OBVIOUS
    <3> QED
      BY <2>4, <3>1
  <2>5. f[j] \in Nat /\ (f[j] = 0 <=> ds[j] = 0 /\ f[j + 1] = 0)
    <3>1. f[j + 1] \in Nat
      BY <2>2
    <3> QED
      BY <2>3, <2>4, <3>1, Zenon
  <2>6. (\A i \in j .. n : ds[i] = 0) <=> ds[j] = 0 /\ \A i \in j + 1 .. n : ds[i] = 0
    BY <2>1
  <2>7. Zero(j)
    BY <2>2, <2>5, <2>6
  <2> QED
    BY <2>7 DEF j
<1>4. n \in S
  <2> HIDE DEF S
  <2> QED
    BY <1>2, <1>3, SetInduction
<1>5. n + 1 - n = 1
  OBVIOUS
<1> QED
  BY <1>4, <1>5 DEF f, ZeroMeans

(* What is above the digits counts by the power of the base.               *)
LinearIn(ds, b, n, top) ==
  /\ WeightOver(n, b) \in Int /\ Above(ds, b, n, 0)[1] \in Int
  /\ Above(ds, b, n, top)[1] = Above(ds, b, n, 0)[1] + WeightOver(n, b) * top

(* What is above a numeral counts with the weight over its digits.         *)
LEMMA Linear ==
  ASSUME NEW ds, NEW b, NEW n, NEW top, b \in Int, n \in Nat, top \in Int, Digits(ds, n)
  PROVE  LinearIn(ds, b, n, top)
<1> DEFINE zeros == [i \in 1 .. n |-> 0]
           f == Above(ds, b, n, top)
           g == Above(ds, b, n, 0)
           h == Above(zeros, b, n, 1)
           sum == [i \in 1 .. n + 1 |-> g[i] + h[i] * top]
<1>0. 0 \in Int /\ 1 \in Int /\ Digits(zeros, n) /\ \A i \in 1 .. n : zeros[i] = 0
  BY DEF Digits
<1> HIDE DEF zeros
<1>s. Solves(f, ds, b, n, top) /\ Solves(g, ds, b, n, 0) /\ Solves(h, zeros, b, n, 1)
  BY <1>0, AboveSolves, Zenon
<1> HIDE DEF f, g, h
<1>1. f[n + 1] = top /\ \A i \in 1 .. n : f[i] = ds[i] + b * f[i + 1]
  BY <1>s, Zenon DEF Solves
<1>2. /\ g \in [1 .. n + 1 -> Int] /\ g[n + 1] = 0
      /\ \A i \in 1 .. n : g[i] = ds[i] + b * g[i + 1]
  BY <1>s, Zenon DEF Solves
<1>3. /\ h \in [1 .. n + 1 -> Int] /\ h[n + 1] = 1
      /\ \A i \in 1 .. n : h[i] = 0 + b * h[i + 1]
  BY <1>0, <1>s, Zenon DEF Solves
<1>4. f[n + 1] = sum[n + 1]
  BY <1>1, <1>2, <1>3
<1>5. ASSUME NEW i \in 1 .. n + 1 - 1, f[i + 1] = sum[i + 1] PROVE f[i] = sum[i]
  <2>1. i \in 1 .. n /\ i \in 1 .. n + 1 /\ i + 1 \in 1 .. n + 1
    OBVIOUS
  <2>2. g[i + 1] \in Int /\ h[i + 1] \in Int /\ ds[i] \in Int
    BY <1>2, <1>3, <2>1 DEF Digits
  <2>3. ASSUME NEW x, NEW y, NEW z, x \in Int, y \in Int, z \in Int
        PROVE  z + b * (x + y * top) = (z + b * x) + (0 + b * y) * top
    <3>1. b * (x + y * top) = b * x + b * (y * top)
      BY <2>3
    <3>2. (0 + b * y) * top = b * (y * top)
      BY <2>3
    <3>3. b * x \in Int /\ b * (y * top) \in Int
      BY <2>3
    <3> QED
      BY <2>3, <3>1, <3>2, <3>3
  <2>4. f[i] = ds[i] + b * (g[i + 1] + h[i + 1] * top)
    BY <1>1, <1>5, <2>1
  <2>5. f[i] = (ds[i] + b * g[i + 1]) + (0 + b * h[i + 1]) * top
    BY <2>2, <2>3, <2>4
  <2>6. f[i] = g[i] + h[i] * top
    BY <1>2, <1>3, <2>1, <2>5
  <2> QED
    BY <2>1, <2>6
<1>6. AgreeOn(f, sum, 1, n + 1)
  <2>1. 1 \in Int /\ n + 1 \in Int
    OBVIOUS
  <2> HIDE DEF sum
  <2> QED
    BY <1>4, <1>5, <2>1, Agree
<1>7. f[1] = g[1] + h[1] * top /\ g[1] \in Int /\ h[1] \in Int
  BY <1>2, <1>3, <1>6 DEF AgreeOn
<1> QED
  BY <1>7 DEF f, g, h, zeros, WeightOver, LinearIn

(* The weight over no digit is one, and one digit more multiplies it by    *)
(* the base.                                                               *)
LEMMA Weights ==
  ASSUME NEW b, NEW n, b \in Nat \ {0}, n \in Nat
  PROVE  WeightOver(0, b) = 1 /\ WeightOver(n + 1, b) = WeightOver(n, b) * b
<1> DEFINE Zeros(m) == [i \in 1 .. m |-> 0]
<1>1. \A m \in Nat : \A i \in 1 .. m : Zeros(m)[i] = 0
  OBVIOUS
<1>2. \A m \in Nat : WeightOver(m, b) = Above(Zeros(m), b, m, 1)[1]
  BY DEF WeightOver
<1> HIDE DEF Zeros
<1>3. WeightOver(0, b) = 1
  <2>1. 0 \in Nat /\ 1 \in Int /\ b \in Int /\ 0 + 1 = 1 /\ Digits(Zeros(0), 0)
    BY DEF Digits
  <2>2. Solves(Above(Zeros(0), b, 0, 1), Zeros(0), b, 0, 1)
    BY <2>1, AboveSolves, Zenon
  <2> QED
    BY <1>2, <2>1, <2>2, Zenon DEF Solves
<1> DEFINE m == n + 1
<1>4. /\ m \in Nat /\ 1 \in 1 .. n + 1 /\ 1 \in Int /\ b \in Int
      /\ Digits(Zeros(m), m) /\ Digits(Zeros(m), n) /\ Digits(Zeros(n), n)
      /\ AgreeOn(Zeros(m), Zeros(n), 1, n)
      /\ \A i \in 1 .. n : Zeros(n)[i] \in Nat /\ Zeros(n)[i] = 0
      /\ b = Zeros(m)[m] + b * 1
  BY <1>1 DEF Digits, AgreeOn
<1>5. m = n + 1
  OBVIOUS
<1> HIDE DEF m
<1>6. UnderTop(Zeros(m), b, n, m, 1, b)
  BY <1>4, <1>5, TopDigit, Zenon
<1>7. SameFrom(Zeros(m), Zeros(n), b, n, b, 1)
  BY <1>4, SameAbove, Zenon
<1>8. Above(Zeros(n), b, n, 0)[1] = 0
  <2>1. ZeroMeans(Zeros(n), b, n)
    BY <1>4, ZeroNumeral, Zenon
  <2> QED
    BY <1>4, <2>1, Zenon DEF ZeroMeans
<1>9. LinearIn(Zeros(n), b, n, b)
  BY <1>4, Linear, Zenon
<1>10. WeightOver(m, b) = 0 + WeightOver(n, b) * b /\ WeightOver(n, b) \in Int
  BY <1>2, <1>4, <1>6, <1>7, <1>8, <1>9, Zenon DEF UnderTop, SameFrom, LinearIn
<1> QED
  BY <1>3, <1>4, <1>5, <1>10

(* With the digit d pushed, the digits stand for what they did with the    *)
(* number under above them.                                                *)
Pushed(ds, b, d, top, under) ==
  Above(Append(ds, d), b, Len(ds) + 1, top)[1] = Above(ds, b, Len(ds), under)[1]

(* Pushing a digit on a numeral.                                           *)
LEMMA PushDigit ==
  ASSUME NEW S, S \subseteq Int, NEW ds, NEW b, NEW d, NEW top, NEW under,
         ds \in Seq(S), b \in Int, d \in S, top \in Int, under = d + b * top
  PROVE  Pushed(ds, b, d, top, under)
<1> DEFINE n == Len(ds)  es == Append(ds, d)
<1>0. /\ n \in Nat /\ es[n + 1] = d
      /\ \A i \in 1 .. n : ds[i] \in S /\ es[i] = ds[i]
  OBVIOUS
<1> HIDE DEF n, es
<1> DEFINE m == n + 1
<1>1. /\ n \in Nat /\ 1 \in 1 .. n + 1
      /\ Digits(ds, n) /\ Digits(es, n) /\ AgreeOn(es, ds, 1, n)
      /\ Digits(es, m)
  <2>1. /\ \A i \in 1 .. n : ds[i] \in Int /\ es[i] \in Int
        /\ d \in Int /\ n \in Nat
    BY <1>0
  <2>2. \A i \in 1 .. m : es[i] \in Int
    <3>1. \A i \in 1 .. m : i \in 1 .. n \/ i = n + 1
      BY <2>1
    <3> QED
      BY <1>0, <2>1, <3>1, Zenon
  <2> QED
    BY <1>0, <2>1, <2>2 DEF Digits, AgreeOn
<1>2. m = n + 1 /\ under = es[m] + b * top
  BY <1>0
<1> HIDE DEF m
<1>3. UnderTop(es, b, n, m, top, under)
  BY <1>1, <1>2, TopDigit, Zenon
<1>4. SameFrom(es, ds, b, n, under, 1)
  BY <1>1, <1>3, SameAbove, Zenon DEF UnderTop
<1> QED
  BY <1>3, <1>4, Zenon DEF n, es, m, UnderTop, SameFrom, Pushed

(* Division leaves a remainder below the divisor.                          *)
LEMMA Division ==
  ASSUME NEW M, NEW x, M \in Nat \ {0}, x \in Int
  PROVE  x = M * (x \div M) + (x % M) /\ x % M \in 0 .. M - 1 /\ x \div M \in Int
  OBVIOUS

(* It leaves only one.                                                     *)
LEMMA OneRemainder ==
  ASSUME NEW M, NEW q, NEW k, NEW r, NEW s, M \in Nat \ {0}, q \in Int, k \in Int,
         r \in 0 .. M - 1, s \in 0 .. M - 1, M * q + r = M * k + s
  PROVE  r = s
<1>1. M * (q - k) = s - r
  OBVIOUS
<1>2. CASE q - k >= 1
  <2>1. M * (q - k) >= M
    BY <1>2
  <2> QED
    BY <1>1, <2>1
<1>3. CASE q - k <= -1
  <2>1. M * (q - k) <= -M
    BY <1>3
  <2> QED
    BY <1>1, <2>1
<1>4. CASE q = k
  BY <1>4
<1> QED
  BY <1>2, <1>3, <1>4

(* A sum keeps its remainder when a term is replaced by its own: a         *)
(* wrapping addition may wrap at each step.                                *)
LEMMA RemainderOfSum ==
  ASSUME NEW M, NEW x, NEW y, M \in Nat \ {0}, x \in Int, y \in Int
  PROVE  ((x % M) + y) % M = (x + y) % M
<1> DEFINE r == x % M        q == x \div M
           a == (r + y) % M  c == (r + y) \div M
           b == (x + y) % M  d == (x + y) \div M
<1>1. x = M * q + r /\ r \in Int /\ q \in Int
  BY Division
<1> HIDE DEF r, q
<1>2. r + y = M * c + a /\ a \in 0 .. M - 1 /\ c \in Int
  <2>1. r + y \in Int
    BY <1>1
  <2> QED
    BY <2>1, Division
<1>3. x + y = M * d + b /\ b \in 0 .. M - 1 /\ d \in Int
  <2>1. x + y \in Int
    OBVIOUS
  <2> QED
    BY <2>1, Division
<1> HIDE DEF a, b, c, d
<1>4. M * (q + c) + a = M * d + b
  <2>1. M * (q + c) = M * q + M * c
    BY <1>1, <1>2
  <2> QED
    BY <1>1, <1>2, <1>3, <2>1
<1>5. a = b
  <2>1. q + c \in Int
    BY <1>1, <1>2
  <2> QED
    BY <1>2, <1>3, <1>4, <2>1, OneRemainder
<1> QED
  BY <1>5 DEF a, b, r

-----------------------------------------------------------------------------
(* The shape of the numbers: types and top digits. *)

(* The state a varint read leaves is typed, whatever the byte read is. *)
LEMMA GroupTyped ==
  ASSUME result \in Nat, weight \in Int, NEW p \in Nat
  PROVE  WithGroup(p) \in Nat
<1>1. result + p * weight \in Int
  OBVIOUS
<1>2. Modulus \in Nat \ {0}
  BY WireAssumption
<1>3. QED
  BY <1>1, <1>2 DEF WithGroup

(* The inner loop: the digit stays decimal, the carry stays below a byte,  *)
(* and a digit that was not zero leaves a carry if it becomes zero.        *)
LEMMA DigitStep ==
  ASSUME NEW d \in 0 .. 9, NEW c \in 0 .. 255
  PROVE  /\ (d * 256 + c) % 10 \in 0 .. 9
         /\ (d * 256 + c) \div 10 \in 0 .. 255
         /\ d # 0 => (d * 256 + c) \div 10 > 0
  OBVIOUS

(* The carry loop: the digit pushed is decimal, and the last one pushed is *)
(* not zero.                                                               *)
LEMMA CarryStep ==
  ASSUME NEW c \in 1 .. 255
  PROVE  /\ c % 10 \in 0 .. 9
         /\ c \div 10 \in 0 .. 255
         /\ c \div 10 > 0 \/ c % 10 # 0
  OBVIOUS

(* The bytes that were taken are the magnitude. *)
LEMMA MagnitudeTyped ==
  ASSUME NEW n \in Nat, NEW d \in [1 .. n -> Bytes]
  PROVE  d \in Seq(0 .. 255) /\ Len(d) = n
<1>1. \A S : Bytes \subseteq S => d \in Seq(S) /\ Len(d) = n
  OBVIOUS
<1>2. QED
  BY <1>1, WireAssumption

(* A decimal has a top digit. *)
LEMMA DecimalNotEmpty ==
  ASSUME NEW s \in Seq(0 .. 9), s # <<>>
  PROVE  Len(s) \in Nat /\ Len(s) >= 1
  OBVIOUS

(* The initial states satisfy the invariant. *)
LEMMA InitShape == Init => ShapeInv
  BY DEF Init, ShapeInv, TypeOK, LoopInv, TopInv, LeadingZero, Phases

(* Every action of the reading of the varint and of the magnitude keeps    *)
(* the invariant.                                                          *)
LEMMA ReadingShape ==
  ASSUME ShapeInv, BadVarint \/ Truncated \/ ReadGroup \/ LengthCapped \/ Take
  PROVE  ShapeInv'
<1> USE DEF ShapeInv, TypeOK, LoopInv, TopInv, LeadingZero, Phases, varint, rendering
<1>1. CASE BadVarint \/ Truncated \/ LengthCapped
  BY <1>1 DEF BadVarint, Truncated, LengthCapped
<1>2. CASE ReadGroup
  <2>1. PICK p \in 0 .. GroupSize - 1, more \in BOOLEAN :
          /\ groups' = Append(groups, p) /\ result' = WithGroup(p)
          /\ IF more THEN weight' = weight * GroupSize /\ UNCHANGED phase
             ELSE phase' = "length" /\ UNCHANGED weight
    BY <1>2 DEF ReadGroup
  <2>2. GroupSize \in Nat /\ p \in Nat
    BY WireAssumption
  <2>3. result' \in Nat /\ groups' \in Seq(Nat)
    BY <2>1, <2>2, GroupTyped
  <2>4. weight' \in Int /\ phase = "varint" /\ phase' \in {"varint", "length"}
    BY <1>2, <2>1, <2>2 DEF ReadGroup
  <2>5. UNCHANGED rendering
    BY <1>2 DEF ReadGroup
  <2>6. QED
    BY <2>3, <2>4, <2>5
<1>3. CASE Take
  <2>1. CASE UNCHANGED <<varint, rendering>> /\ phase' = "Truncated"
    BY <2>1
  <2>2. CASE /\ \E d \in [1 .. ByteLen -> Bytes] : digits' = d
             /\ byte' = ByteLen /\ phase' = "byte"
             /\ UNCHANGED <<varint, decimal, place, carry>>
    <3>1. ByteLen \in Nat /\ phase = "length"
      BY <1>3 DEF ByteLen, Take
    <3>2. digits' \in Seq(0 .. 255) /\ Len(digits') = ByteLen
      BY <2>2, <3>1, MagnitudeTyped
    <3>3. decimal' = <<0>>
      BY <1>3, <2>2 DEF Take
    <3>4. Len(decimal') = 1
      BY <3>3
    <3>5. QED
      BY <2>2, <3>1, <3>2, <3>4
  <2>3. QED
    BY <1>3, <2>1, <2>2 DEF Take
<1>4. QED
  BY <1>1, <1>2, <1>3

(* Every action of the rendering keeps the invariant. *)
LEMMA RenderingShape ==
  ASSUME ShapeInv, NextByte \/ MulDigit \/ EndDigits \/ PushCarry \/ EndByte \/ Strip
  PROVE  ShapeInv'
<1> USE DEF ShapeInv, TypeOK, LoopInv, TopInv, LeadingZero, Phases, varint, rendering
<1>1. CASE NextByte
  <2>1. byte > 0 => digits[byte] \in 0 .. 255
    <3>1. digits \in Seq(0 .. 255) /\ byte \in 0 .. Len(digits)
      OBVIOUS
    <3> HIDE DEF ShapeInv
    <3>2. QED
      BY <3>1, ElementOfSeq
  <2>2. Len(decimal) \in Nat /\ Len(decimal) >= 1
    BY DecimalNotEmpty
  <2>3. CASE byte > 0
    <3>1. /\ phase = "byte" /\ phase' = "digit" /\ place' = 1 /\ carry' \in 0 .. 255
          /\ UNCHANGED <<varint, digits, byte, decimal>>
      BY <1>1, <2>1, <2>3 DEF NextByte
    <3>2. QED
      BY <2>2, <2>3, <3>1
  <2>4. CASE byte = 0
    BY <1>1, <2>4 DEF NextByte
  <2>5. QED
    BY <2>3, <2>4
<1>2. CASE MulDigit
  <2> DEFINE d == decimal[place]
  <2>1. d \in 0 .. 9 /\ place \in 1 .. Len(decimal)
    BY <1>2 DEF MulDigit
  <2>2. /\ decimal' = [decimal EXCEPT ![place] = (d * 256 + carry) % 10]
        /\ carry' = (d * 256 + carry) \div 10
        /\ place' = place + 1 /\ UNCHANGED <<phase, varint, digits, byte>>
    BY <1>2 DEF MulDigit
  <2>3. /\ (d * 256 + carry) % 10 \in 0 .. 9
        /\ carry' \in 0 .. 255
        /\ d # 0 => carry' > 0
    <3>1. carry \in 0 .. 255
      BY DEF ShapeInv, TypeOK
    <3> HIDE DEF d, ShapeInv
    <3>2. QED
      BY <2>1, <2>2, <3>1, DigitStep
  <2> HIDE DEF d
  <2>4. decimal' \in Seq(0 .. 9) /\ Len(decimal') = Len(decimal)
    <3>s. decimal \in Seq(0 .. 9)
      BY DEF ShapeInv, TypeOK
    <3> HIDE DEF ShapeInv
    <3>1. ASSUME NEW x \in 0 .. 9, decimal' = [decimal EXCEPT ![place] = x]
          PROVE  decimal' \in Seq(0 .. 9) /\ Len(decimal') = Len(decimal)
      BY <2>1, <3>s, <3>1
    <3>2. QED
      BY <2>2, <2>3, <3>1
  <2>5. TypeOK' /\ LoopInv'
    BY <1>2, <2>1, <2>2, <2>3, <2>4 DEF MulDigit
  <2>6. place < Len(decimal) => decimal'[Len(decimal)] = decimal[Len(decimal)]
    BY <2>1, <2>2
  <2>7. place = Len(decimal) /\ Len(decimal) > 1 => carry' > 0
    BY <1>2, <2>1, <2>3 DEF MulDigit, d
  <2>8. TopInv'
    <3>1. phase = "digit" /\ phase' = "digit" /\ place' = place + 1
      BY <1>2, <2>2 DEF MulDigit
    <3>2. ~LeadingZero
      BY <1>2, <2>1 DEF MulDigit
    <3>3. CASE place < Len(decimal)
      <4>1. ~LeadingZero'
        BY <2>1, <2>4, <2>6, <3>2, <3>3
      <4>2. QED
        BY <3>1, <4>1
    <3>4. CASE place = Len(decimal)
      <4>1. carry' > 0 \/ Len(decimal') = 1
        BY <2>1, <2>4, <2>7, <3>4
      <4>2. QED
        BY <2>1, <2>4, <3>1, <3>4, <4>1
    <3>5. QED
      BY <2>1, <3>3, <3>4
  <2>9. QED
    BY <2>5, <2>8
<1>3. CASE EndDigits
  BY <1>3 DEF EndDigits
<1>4. CASE PushCarry
  <2>1. /\ carry \in 1 .. 255 /\ decimal' = Append(decimal, carry % 10)
        /\ carry' = carry \div 10
        /\ UNCHANGED <<phase, varint, digits, byte, place>>
    BY <1>4 DEF PushCarry
  <2>2. /\ carry % 10 \in 0 .. 9
        /\ carry' \in 0 .. 255
        /\ carry' > 0 \/ carry % 10 # 0
    BY <2>1, CarryStep
  <2>3. /\ decimal' \in Seq(0 .. 9) /\ Len(decimal') = Len(decimal) + 1
        /\ decimal'[Len(decimal')] = carry % 10
    BY <2>1, <2>2
  <2>4. QED
    BY <1>4, <2>1, <2>2, <2>3 DEF PushCarry
<1>5. CASE EndByte
  BY <1>5 DEF EndByte
<1>6. CASE Strip
  BY <1>6 DEF Strip
<1>7. QED
  BY <1>1, <1>2, <1>3, <1>4, <1>5, <1>6

-----------------------------------------------------------------------------
(* The values of the numbers. *)

(* The reading of the varint: the bits past the width are all that is      *)
(* lost, however many groups there are.                                    *)
LEMMA GroupValue ==
  ASSUME ShapeInv, VarintInv, ReadGroup
  PROVE  VarintInv'
<1> DEFINE n == Len(groups)  N == NumberOf(groups, GroupSize)  W == WeightOver(n, GroupSize)
<1>1. PICK p \in 0 .. GroupSize - 1, more \in BOOLEAN :
        /\ groups' = Append(groups, p) /\ result' = WithGroup(p)
        /\ IF more THEN weight' = weight * GroupSize /\ UNCHANGED phase
           ELSE phase' = "length" /\ UNCHANGED weight
  BY DEF ReadGroup
<1>2. /\ GroupSize \in Nat \ {0} /\ GroupSize \in Int /\ Modulus \in Nat \ {0}
      /\ p \in Nat /\ p \in Int /\ p = p + GroupSize * 0 /\ 0 \in Int
  BY WireAssumption
<1>3. groups \in Seq(Nat) /\ n \in Nat /\ Nat \subseteq Int
  BY DEF ShapeInv, TypeOK
<1>4. phase = "varint" /\ weight < Modulus /\ weight = W /\ result = N % Modulus
  BY DEF ReadGroup, VarintInv
<1>5. Len(groups') = n + 1 /\ groups' # <<>> /\ Len(groups') - 1 = n
  BY <1>1, <1>2, <1>3
<1>6. Digits(groups, n)
  BY <1>3 DEF Digits
<1>7. LinearIn(groups, GroupSize, n, p)
  BY <1>2, <1>3, <1>6, Linear, Zenon
<1>8. N \in Int /\ W \in Int /\ Above(groups, GroupSize, n, p)[1] = N + W * p
  BY <1>7, Zenon DEF LinearIn, NumberOf
<1>9. NumberOf(groups', GroupSize) = N + W * p
  <2>1. Pushed(groups, GroupSize, p, 0, p)
    BY <1>2, <1>3, PushDigit, Zenon
  <2> QED
    BY <1>1, <1>5, <1>8, <2>1 DEF NumberOf, Pushed
<1> HIDE DEF n, N, W
<1>10. result' = NumberOf(groups', GroupSize) % Modulus
  <2>1. result' = ((N % Modulus) + p * W) % Modulus
    BY <1>1, <1>4 DEF WithGroup
  <2>2. p * W \in Int /\ p * W = W * p
    BY <1>2, <1>8
  <2>3. ((N % Modulus) + p * W) % Modulus = (N + p * W) % Modulus
    BY <1>2, <1>8, <2>2, RemainderOfSum
  <2> QED
    BY <1>9, <2>1, <2>2, <2>3
<1>11. phase' = "varint" => weight' = WeightOver(Len(groups'), GroupSize)
  <2>1. WeightOver(n + 1, GroupSize) = W * GroupSize
    BY <1>2, <1>3, Weights DEF W
  <2> QED
    BY <1>1, <1>4, <1>5, <2>1
<1>12. WeightOver(Len(groups') - 1, GroupSize) < Modulus
  BY <1>4, <1>5 DEF W
<1> QED
  BY <1>10, <1>11, <1>12 DEF VarintInv

(* The digits of a sequence are numbers, and Above satisfies its equation. *)
Numeral(ds, b) ==
  /\ Len(ds) \in Nat /\ Digits(ds, Len(ds))
  /\ Solves(Above(ds, b, Len(ds), 0), ds, b, Len(ds), 0)

(* A sequence of digits is a numeral. *)
LEMMA SeqNumeral ==
  ASSUME NEW S, S \subseteq Int, NEW ds, ds \in Seq(S), NEW b, b \in Int
  PROVE  Numeral(ds, b)
<1>1. Len(ds) \in Nat /\ 0 \in Int /\ \A i \in 1 .. Len(ds) : ds[i] \in S
  OBVIOUS
<1>2. Digits(ds, Len(ds))
  BY <1>1 DEF Digits
<1>3. Solves(Above(ds, b, Len(ds), 0), ds, b, Len(ds), 0)
  BY <1>1, <1>2, AboveSolves, Zenon
<1> QED
  BY <1>1, <1>2, <1>3 DEF Numeral

(* The numbers of the rendering are numerals. *)
LEMMA RenderedDigits ==
  ASSUME NEW dec, dec \in Seq(0 .. 9), NEW mag, mag \in Seq(0 .. 255)
  PROVE  Numeral(dec, 10) /\ Numeral(mag, 256)
<1>1. 0 .. 9 \subseteq Int /\ 0 .. 255 \subseteq Int /\ 10 \in Int /\ 256 \in Int
  OBVIOUS
<1> QED
  BY <1>1, SeqNumeral, Zenon

(* The inner loop: a digit is replaced by the low digit of its 256-fold    *)
(* with the carry, and the rest goes on to the digits above it.            *)
LEMMA MulValue ==
  ASSUME ShapeInv, ShapeInv', ValueInv, MulDigit
  PROVE  ValueInv'
<1> DEFINE n == Len(decimal)  d == decimal[place]  v == d * 256 + carry
           old == Above(decimal, 10, n, 0)  new == Above(decimal', 10, n, 0)
           low == place - 1
<1>1. /\ phase = "digit" /\ phase' = "digit" /\ place \in 1 .. n /\ place' = place + 1
      /\ decimal' = [decimal EXCEPT ![place] = v % 10] /\ carry' = v \div 10
      /\ UNCHANGED <<digits, byte>>
  BY DEF MulDigit, ShapeInv, TypeOK
<1>2. decimal \in Seq(0 .. 9) /\ decimal' \in Seq(0 .. 9) /\ carry \in 0 .. 255 /\ n \in Nat
  BY DEF ShapeInv, TypeOK
<1>3. d \in 0 .. 9 /\ v \in Int /\ v % 10 \in Int /\ v \div 10 \in Int
      /\ v = 10 * (v \div 10) + (v % 10)
  <2>1. d \in 0 .. 9
    BY <1>1, <1>2
  <2> HIDE DEF d
  <2>2. v \in Int
    BY <1>2, <2>1
  <2> HIDE DEF v
  <2> QED
    BY <2>1, <2>2
<1> HIDE DEF v
<1>4. /\ Len(decimal') = n /\ decimal'[place] = v % 10
      /\ \A i \in 1 .. n : i # place => decimal'[i] = decimal[i]
      /\ Digits(decimal, n) /\ Digits(decimal', n)
  <2>1. /\ Len(decimal') = n /\ decimal'[place] = v % 10
        /\ \A i \in 1 .. n : i # place => decimal'[i] = decimal[i]
    BY <1>1, <1>2
  <2>2. Digits(decimal, n)
    BY <1>2 DEF Digits
  <2>3. \A i \in 1 .. n : decimal'[i] \in Int
    BY <1>2, <2>1
  <2> QED
    BY <2>1, <2>2, <2>3 DEF Digits
<1> HIDE DEF n, d
<1>5. /\ low \in Nat /\ place \in Nat /\ place = low + 1 /\ place + 1 \in 1 .. n + 1
      /\ 1 \in 1 .. low + 1 /\ 10 \in Int /\ 0 \in Int
      /\ place' - 1 = place
  BY <1>1, <1>2
<1> HIDE DEF low
<1>6. /\ Digits(decimal, low) /\ Digits(decimal', low) /\ Digits(decimal', place)
      /\ AgreeOn(decimal', decimal, 1, low) /\ AgreeOn(decimal', decimal, place + 1, n)
  BY <1>1, <1>2, <1>4, <1>5 DEF Digits, AgreeOn
<1>7. Solves(old, decimal, 10, n, 0)
  BY <1>2, <1>4, <1>5, AboveSolves, Zenon
<1>8. SameFrom(decimal', decimal, 10, n, 0, place + 1)
  BY <1>2, <1>4, <1>5, <1>6, SameAbove, Zenon
<1>9. old[place] = d + 10 * old[place + 1] /\ old[place + 1] \in Int
  BY <1>1, <1>5, <1>7 DEF Solves, d
<1> DEFINE rest == old[place + 1]  top == carry' + 256 * rest  under == (v % 10) + 10 * top
<1>10. top \in Int /\ under = carry + 256 * old[place]
  <2>1. ASSUME NEW x \in Int, NEW c \in Int, NEW e \in Int, NEW q \in Int, NEW r \in Int,
               e * 256 + c = 10 * q + r
        PROVE  r + 10 * (q + 256 * x) = c + 256 * (e + 10 * x)
    BY <2>1
  <2>2. rest \in Int /\ d \in Int /\ carry \in Int /\ top = (v \div 10) + 256 * rest
    BY <1>1, <1>2, <1>3, <1>9
  <2>3. d * 256 + carry = 10 * (v \div 10) + (v % 10)
    BY <1>3 DEF v
  <2> HIDE DEF rest, top, old
  <2>4. (v % 10) + 10 * top = carry + 256 * (d + 10 * rest)
    BY <1>3, <2>1, <2>2, <2>3
  <2>5. top \in Int
    BY <1>3, <2>2
  <2> QED
    BY <1>9, <2>4, <2>5 DEF rest
<1>11. new[place'] = rest
  BY <1>1, <1>8 DEF SameFrom
<1> HIDE DEF rest, top, old, new
<1>12. UnderTop(decimal', 10, low, place, top, under)
  <2>1. under = decimal'[place] + 10 * top
    BY <1>4
  <2> HIDE DEF under
  <2> QED
    BY <1>5, <1>6, <1>10, <2>1, TopDigit, Zenon
<1>13. SameFrom(decimal', decimal, 10, low, under, 1)
  <2>1. under \in Int
    BY <1>12 DEF UnderTop
  <2> HIDE DEF under
  <2> QED
    BY <1>5, <1>6, <2>1, SameAbove, Zenon
<1>14. Above(decimal', 10, place' - 1, carry' + 256 * new[place'])[1]
        = Above(decimal, 10, place - 1, carry + 256 * old[place])[1]
  <2>1. Above(decimal', 10, place, top)[1] = Above(decimal, 10, low, under)[1]
    BY <1>12, <1>13, Zenon DEF UnderTop, SameFrom
  <2>2. top = carry' + 256 * new[place']
    BY <1>11 DEF top
  <2> HIDE DEF under
  <2> QED
    BY <1>5, <1>10, <2>1, <2>2, Zenon DEF low
<1>15. Above(decimal, 10, place - 1, carry + 256 * old[place])[1] = HighBytes(byte - 1)
  BY <1>1 DEF ValueInv, old, n
<1>16. HighBytes(byte - 1)' = HighBytes(byte - 1)
  BY <1>1 DEF HighBytes
<1>17. Above(decimal', 10, place' - 1, carry' + 256 * Above(decimal', 10, Len(decimal'), 0)[place'])[1]
         = HighBytes(byte - 1)'
  BY <1>4, <1>14, <1>15, <1>16 DEF new
<1> QED
  BY <1>1, <1>17 DEF ValueInv

(* The other steps of the rendering: a byte joins as the carry, the carry  *)
(* goes into new digits, and what is left is the value.                    *)
LEMMA RenderingValue ==
  ASSUME ShapeInv, ShapeInv', ValueInv, NextByte \/ EndDigits \/ PushCarry \/ EndByte \/ Strip
  PROVE  ValueInv'
<1> DEFINE n == Len(decimal)  dec == Above(decimal, 10, n, 0)
           high == Above(digits, 256, Len(digits), 0)
<1>1. /\ n \in Nat /\ Digits(decimal, n) /\ Len(digits) \in Nat
      /\ Solves(dec, decimal, 10, n, 0) /\ Solves(high, digits, 256, Len(digits), 0)
  <2>1. decimal \in Seq(0 .. 9) /\ digits \in Seq(0 .. 255)
    BY DEF ShapeInv, TypeOK
  <2>2. Numeral(decimal, 10) /\ Numeral(digits, 256)
    BY <2>1, RenderedDigits, Zenon
  <2> QED
    BY <2>2, Zenon DEF Numeral
<1>2. /\ decimal \in Seq(0 .. 9) /\ carry \in 0 .. 255 /\ byte \in 0 .. Len(digits)
      /\ place \in 1 .. n + 1
  BY DEF ShapeInv, TypeOK
<1>3. dec \in [1 .. n + 1 -> Int] /\ dec[n + 1] = 0
      /\ dec[1] = NumberOf(decimal, 10)
  BY <1>1, Zenon DEF Solves, NumberOf
<1>4. \A k : high[k + 1] = HighBytes(k)
  BY DEF HighBytes
<1>5. ASSUME NEW k \in 1 .. Len(digits)
      PROVE  HighBytes(k - 1) = digits[k] + 256 * HighBytes(k)
  <2>1. high[k] = digits[k] + 256 * high[k + 1]
    BY <1>1 DEF Solves
  <2>2. k = (k - 1) + 1
    OBVIOUS
  <2> QED
    BY <1>4, <2>1, <2>2
<1>6. UNCHANGED digits => \A k : HighBytes(k)' = HighBytes(k)
  BY DEF HighBytes
<1> HIDE DEF n, dec, high
<1>7. CASE NextByte
  <2>1. CASE byte > 0
    <3>1. /\ phase' = "digit" /\ carry' = digits[byte] /\ place' = 1
          /\ UNCHANGED <<digits, byte, decimal>>
      BY <1>7, <2>1 DEF NextByte
    <3>2. Above(decimal, 10, 0, carry' + 256 * dec[1])[1] = carry' + 256 * dec[1]
      <4> DEFINE top == carry' + 256 * dec[1]
      <4>1. /\ Digits(decimal, 0) /\ 0 \in Nat /\ 10 \in Int /\ 0 + 1 = 1
        BY DEF Digits
      <4>2. top \in Int
        <5>1. dec[1] \in Int
          BY <1>1, <1>3
        <5>2. carry' \in Int
          BY DEF ShapeInv, TypeOK
        <5> QED
          BY <5>1, <5>2
      <4> HIDE DEF top
      <4>3. Solves(Above(decimal, 10, 0, top), decimal, 10, 0, top)
        BY <4>1, <4>2, AboveSolves, Zenon
      <4>4. Above(decimal, 10, 0, top)[1] = top
        BY <4>1, <4>3, Zenon DEF Solves
      <4> QED
        BY <4>4 DEF top
    <3>3. dec[1] = HighBytes(byte)
      BY <1>3, <1>7 DEF NextByte, ValueInv
    <3>4. HighBytes(byte - 1) = carry' + 256 * dec[1]
      BY <1>2, <1>5, <2>1, <3>1, <3>3
    <3>5. place' - 1 = 0
      BY <3>1
    <3>6. Above(decimal', 10, place' - 1,
                carry' + 256 * Above(decimal', 10, Len(decimal'), 0)[place'])[1]
            = HighBytes(byte - 1)'
      <4>1. Above(decimal', 10, Len(decimal'), 0) = dec
        BY <3>1 DEF dec, n
      <4>2. HighBytes(byte - 1)' = HighBytes(byte - 1)
        BY <1>6, <3>1 DEF HighBytes
      <4>3. dec[place'] = dec[1]
        BY <3>1
      <4> QED
        BY <3>1, <3>2, <3>4, <3>5, <4>1, <4>2, <4>3
    <3> QED
      BY <3>1, <3>6 DEF ValueInv
  <2>2. CASE byte = 0
    <3>1. phase = "byte" /\ phase' = "strip" /\ UNCHANGED <<digits, decimal>>
      BY <1>7, <2>2 DEF NextByte
    <3>2. NumberOf(decimal, 10) = HighBytes(0)
      BY <2>2, <3>1 DEF ValueInv
    <3>3. HighBytes(0) = NumberOf(digits, 256)
      <4>1. 0 + 1 = 1
        OBVIOUS
      <4> QED
        BY <4>1, Zenon DEF HighBytes, NumberOf
    <3> QED
      BY <3>1, <3>2, <3>3 DEF ValueInv
  <2> QED
    BY <1>2, <2>1, <2>2
<1>8. CASE EndDigits
  <2>1. /\ phase = "digit" /\ phase' = "carry" /\ place = n + 1 /\ place - 1 = n
        /\ UNCHANGED <<digits, byte, decimal, carry>>
    BY <1>1, <1>2, <1>8 DEF EndDigits, rendering, n
  <2>2. Above(decimal, 10, place - 1, carry + 256 * dec[place])[1] = HighBytes(byte - 1)
    BY <2>1 DEF ValueInv, dec, n
  <2>3. carry + 256 * dec[place] = carry
    BY <1>2, <1>3, <2>1
  <2>4. Above(decimal, 10, Len(decimal), carry)[1] = HighBytes(byte - 1)
    BY <2>1, <2>2, <2>3 DEF n
  <2>5. HighBytes(byte - 1)' = HighBytes(byte - 1)
    BY <1>6, <2>1
  <2> QED
    BY <2>1, <2>4, <2>5 DEF ValueInv
<1>9. CASE PushCarry
  <2>1. /\ phase = "carry" /\ phase' = "carry" /\ UNCHANGED <<digits, byte>>
        /\ decimal' = Append(decimal, carry % 10) /\ carry' = carry \div 10
    BY <1>9 DEF PushCarry
  <2>2. /\ carry % 10 \in 0 .. 9 /\ carry \div 10 \in Int
        /\ carry = (carry % 10) + 10 * (carry \div 10)
    BY <1>2
  <2>3. 0 .. 9 \subseteq Int /\ 10 \in Int
    OBVIOUS
  <2>4. Pushed(decimal, 10, carry % 10, carry \div 10, carry)
    BY <1>2, <2>2, <2>3, PushDigit, Zenon
  <2>5. Len(decimal') = Len(decimal) + 1
    BY <1>2, <2>1, <2>2
  <2>6. Above(decimal', 10, Len(decimal'), carry')[1] = Above(decimal, 10, Len(decimal), carry)[1]
    BY <2>1, <2>4, <2>5 DEF Pushed
  <2>7. HighBytes(byte - 1)' = HighBytes(byte - 1)
    BY <1>6, <2>1
  <2> QED
    BY <2>1, <2>6, <2>7 DEF ValueInv
<1>10. CASE EndByte
  <2>1. /\ phase = "carry" /\ phase' = "byte" /\ carry = 0 /\ byte' = byte - 1
        /\ UNCHANGED <<digits, decimal>>
    BY <1>10 DEF EndByte
  <2>2. NumberOf(decimal, 10) = HighBytes(byte - 1)
    BY <2>1 DEF ValueInv, NumberOf
  <2>3. HighBytes(byte)' = HighBytes(byte - 1)
    BY <2>1 DEF HighBytes
  <2> QED
    BY <2>1, <2>2, <2>3 DEF ValueInv
<1>11. CASE Strip
  BY <1>11 DEF Strip, ShapeInv, TopInv, ValueInv
<1> QED
  BY <1>7, <1>8, <1>9, <1>10, <1>11

(* The initial states satisfy the invariant. *)
LEMMA InitIInv == Init => IInv
<1> SUFFICES ASSUME Init PROVE IInv
  OBVIOUS
<1>1. ShapeInv
  BY InitShape
<1>2. VarintInv
  <2>1. /\ groups = <<>> /\ Len(groups) = 0 /\ result = 0 /\ weight = 1
        /\ Digits(groups, 0)
    BY DEF Init, Digits
  <2>2. GroupSize \in Nat \ {0} /\ GroupSize \in Int /\ Modulus \in Nat \ {0}
        /\ 0 \in Nat /\ 0 \in Int /\ 0 + 1 = 1
    BY WireAssumption
  <2>3. Solves(Above(groups, GroupSize, 0, 0), groups, GroupSize, 0, 0)
    BY <2>1, <2>2, AboveSolves, Zenon
  <2>4. Above(groups, GroupSize, 0, 0)[1] = 0
    BY <2>2, <2>3, Zenon DEF Solves
  <2>5. NumberOf(groups, GroupSize) = 0
    BY <2>1, <2>4 DEF NumberOf
  <2>6. 0 % Modulus = 0
    BY <2>2
  <2>7. WeightOver(0, GroupSize) = 1
    BY <2>2, Weights
  <2> QED
    BY <2>1, <2>5, <2>6, <2>7 DEF VarintInv
<1>3. ValueInv
  BY DEF Init, ValueInv
<1> QED
  BY <1>1, <1>2, <1>3 DEF IInv

(* The magnitude that was taken: nothing of it is folded in.               *)
LEMMA TakeValue ==
  ASSUME ShapeInv, ShapeInv', Take
  PROVE  ValueInv'
<1>1. CASE phase' = "Truncated"
  BY <1>1 DEF ValueInv
<1>2. CASE phase' = "byte"
  <2>1. decimal' = <<0>> /\ byte' = Len(digits')
    <3>1. UNCHANGED decimal /\ decimal = <<0>>
      BY <1>2 DEF Take, ShapeInv, LoopInv
    <3>2. ByteLen \in Nat
      BY DEF ShapeInv, TypeOK, ByteLen
    <3>3. PICK d \in [1 .. ByteLen -> Bytes] : digits' = d /\ byte' = ByteLen
      BY <1>2 DEF Take
    <3> QED
      BY <3>1, <3>2, <3>3, MagnitudeTyped
  <2>2. /\ Solves(Above(decimal', 10, Len(decimal'), 0), decimal', 10, Len(decimal'), 0)
        /\ Solves(Above(digits', 256, Len(digits'), 0), digits', 256, Len(digits'), 0)
    <3>1. decimal' \in Seq(0 .. 9) /\ digits' \in Seq(0 .. 255)
      BY DEF ShapeInv, TypeOK
    <3>2. Numeral(decimal', 10) /\ Numeral(digits', 256)
      BY <3>1, RenderedDigits, Zenon
    <3> QED
      BY <3>2, Zenon DEF Numeral
  <2>3. HighBytes(byte)' = 0
    BY <2>1, <2>2, Zenon DEF Solves, HighBytes
  <2>4. NumberOf(decimal', 10) = 0
    <3> DEFINE f == Above(decimal', 10, 1, 0)
    <3>1. Len(decimal') = 1 /\ decimal'[1] = 0
      BY <2>1
    <3>2. f[1] = decimal'[1] + 10 * f[1 + 1] /\ f[1 + 1] = 0
      BY <2>2, <3>1 DEF Solves
    <3> HIDE DEF f
    <3>3. f[1] = 0
      BY <3>1, <3>2
    <3> QED
      BY <3>1, <3>3 DEF f, NumberOf
  <2> QED
    BY <1>2, <2>3, <2>4 DEF ValueInv
<1> QED
  BY <1>1, <1>2 DEF Take

(* The invariant holds throughout. *)
THEOREM Invariance == Spec => []IInv
<1>1. Init => IInv
  BY InitIInv
<1>2. IInv /\ [Next]_vars => IInv'
  <2> SUFFICES ASSUME IInv, [Next]_vars PROVE IInv'
    OBVIOUS
  <2>1. ShapeInv /\ VarintInv /\ ValueInv
    BY DEF IInv
  <2>2. CASE ReadGroup
    <3>1. ShapeInv' /\ VarintInv'
      BY <2>1, <2>2, ReadingShape, GroupValue
    <3>2. ValueInv'
      BY <2>2 DEF ReadGroup, ValueInv
    <3> QED
      BY <3>1, <3>2 DEF IInv
  <2>3. CASE Take
    <3>1. ShapeInv' /\ ValueInv'
      BY <2>1, <2>3, ReadingShape, TakeValue
    <3>2. VarintInv'
      BY <2>1, <2>3 DEF Take, VarintInv, varint
    <3> QED
      BY <3>1, <3>2 DEF IInv
  <2>4. CASE BadVarint \/ Truncated \/ LengthCapped
    <3>1. ShapeInv'
      BY <2>1, <2>4, ReadingShape
    <3>2. /\ phase' \notin {"varint", "byte", "digit", "carry", "strip", "done"}
          /\ UNCHANGED varint
      BY <2>4 DEF BadVarint, Truncated, LengthCapped
    <3>3. VarintInv' /\ ValueInv'
      BY <2>1, <3>2 DEF VarintInv, ValueInv, varint
    <3> QED
      BY <3>1, <3>3 DEF IInv
  <2>5. CASE NextByte \/ MulDigit \/ EndDigits \/ PushCarry \/ EndByte \/ Strip
    <3>1. ShapeInv'
      BY <2>1, <2>5, RenderingShape
    <3>2. ValueInv'
      BY <2>1, <2>5, <3>1, MulValue, RenderingValue
    <3>3. phase' # "varint" /\ UNCHANGED varint
      BY <2>5 DEF NextByte, MulDigit, EndDigits, PushCarry, EndByte, Strip
    <3>4. VarintInv'
      BY <2>1, <3>3 DEF VarintInv, varint
    <3> QED
      BY <3>1, <3>2, <3>4 DEF IInv
  <2>6. CASE Returned \/ UNCHANGED vars
    <3>1. UNCHANGED vars
      BY <2>6 DEF Returned
    <3>2. ShapeInv'
      <4>1. TypeOK'
        BY <2>1, <3>1 DEF ShapeInv, TypeOK, vars
      <4>2. LoopInv' /\ TopInv'
        BY <2>1, <3>1 DEF ShapeInv, LoopInv, TopInv, LeadingZero, vars
      <4> QED
        BY <4>1, <4>2 DEF ShapeInv
    <3>3. VarintInv'
      BY <2>1, <3>1 DEF VarintInv, vars
    <3>4. ValueInv'
      BY <2>1, <3>1 DEF ValueInv, HighBytes, vars
    <3> QED
      BY <3>2, <3>3, <3>4 DEF IInv
  <2> QED
    BY <2>2, <2>3, <2>4, <2>5, <2>6 DEF Next
<1>3. QED
  BY <1>1, <1>2, PTL DEF Spec

(* Every variable stays in its type: the carry of le_bytes_to_decimal is   *)
(* less than a byte, for every magnitude.                                  *)
THEOREM TypeCorrect == Spec => []TypeOK
<1>1. IInv => TypeOK
  BY DEF IInv, ShapeInv
<1>2. QED
  BY <1>1, Invariance, PTL

(* The comment's induction, for every magnitude: no leading zero is ever   *)
(* left when a byte has been folded in, and the loop that would strip it   *)
(* never fires.                                                            *)
THEOREM NoLeadingZeroCorrect == Spec => []NoLeadingZero
<1>1. IInv => NoLeadingZero
  BY DEF IInv, ShapeInv, TopInv, NoLeadingZero
<1>2. QED
  BY <1>1, Invariance, PTL

(* The varint is what its groups spell, modulo the width, for every width  *)
(* and every number of groups; and no more of them are read than the       *)
(* width needs.                                                            *)
THEOREM VarintCorrect == Spec => []VarintSpelled
<1>1. IInv => VarintSpelled
  BY DEF IInv, VarintInv, VarintSpelled
<1>2. QED
  BY <1>1, Invariance, PTL

(* The minus sign: the text is a single zero for a magnitude of zeros, and *)
(* only then.                                                              *)
LEMMA ZeroText ==
  ASSUME ShapeInv, phase = "done", NumberOf(decimal, 10) = NumberOf(digits, 256)
  PROVE  decimal = <<0>> <=> \A i \in DOMAIN digits : digits[i] = 0
<1>1. decimal \in Seq(0 .. 9) /\ decimal # <<>> /\ digits \in Seq(0 .. 255)
      /\ ~(Len(decimal) > 1 /\ decimal[Len(decimal)] = 0)
  BY DEF ShapeInv, TypeOK, TopInv, LeadingZero
<1>2. /\ Len(decimal) \in Nat /\ DOMAIN decimal = 1 .. Len(decimal)
      /\ \A i \in 1 .. Len(decimal) : decimal[i] \in Nat
  BY <1>1
<1>3. /\ Len(digits) \in Nat /\ DOMAIN digits = 1 .. Len(digits)
      /\ \A i \in 1 .. Len(digits) : digits[i] \in Nat
  <2>1. digits \in Seq(0 .. 255)
    BY <1>1
  <2>2. \A i \in 1 .. Len(digits) : digits[i] \in 0 .. 255
    BY <2>1, ElementOfSeq
  <2>3. Len(digits) \in Nat /\ DOMAIN digits = 1 .. Len(digits)
    BY <2>1
  <2>4. \A x \in 0 .. 255 : x \in Nat
    OBVIOUS
  <2> QED
    BY <2>2, <2>3, <2>4, Zenon
<1>4. ZeroMeans(decimal, 10, Len(decimal))
  <2>1. 10 \in Nat \ {0}
    OBVIOUS
  <2> QED
    BY <1>2, <2>1, ZeroNumeral, Zenon
<1>5. ZeroMeans(digits, 256, Len(digits))
  <2>1. 256 \in Nat \ {0}
    OBVIOUS
  <2> QED
    BY <1>3, <2>1, ZeroNumeral, Zenon
<1>6. decimal = <<0>> <=> \A i \in DOMAIN decimal : decimal[i] = 0
  <2>1. CASE decimal = <<0>>
    BY <2>1
  <2>2. CASE \A i \in DOMAIN decimal : decimal[i] = 0
    <3>1. Len(decimal) \in Nat /\ Len(decimal) >= 1 /\ DOMAIN decimal = 1 .. Len(decimal)
      BY <1>1
    <3>2. Len(decimal) = 1
      BY <1>1, <2>2, <3>1
    <3>3. decimal[1] = 0
      BY <2>2, <3>1
    <3> QED
      BY <1>1, <3>2, <3>3
  <2> QED
    BY <2>1, <2>2
<1> QED
  BY <1>2, <1>3, <1>4, <1>5, <1>6, Zenon DEF ZeroMeans, NumberOf

(* le_bytes_to_decimal, for every magnitude of every length: the decimal   *)
(* digits stand for the number its bytes stand for, and a minus sign is    *)
(* written for a negative one that is not zero.                            *)
THEOREM RenderingCorrect == Spec => []RendersMagnitude
<1>1. IInv => RendersMagnitude
  <2> SUFFICES ASSUME IInv, phase = "done"
               PROVE  /\ NumberOf(decimal, 10) = NumberOf(digits, 256)
                      /\ Minus <=> Negative /\ \E i \in DOMAIN digits : digits[i] # 0
    BY DEF RendersMagnitude
  <2>1. ShapeInv /\ NumberOf(decimal, 10) = NumberOf(digits, 256)
    BY DEF IInv, ValueInv
  <2>2. decimal = <<0>> <=> \A i \in DOMAIN digits : digits[i] = 0
    BY <2>1, ZeroText
  <2> QED
    BY <2>1, <2>2, Zenon DEF Minus
<1>2. QED
  BY <1>1, Invariance, PTL

-----------------------------------------------------------------------------
(* Steps: every one of them comes nearer the end. *)

(* A weight is positive, so that one more group makes it larger. *)
LEMMA WeightPositive ==
  ASSUME NEW b, b \in Nat \ {0}, NEW n, n \in Nat
  PROVE  WeightOver(n, b) \in Nat \ {0}
<1> DEFINE S == {k \in Nat : WeightOver(k, b) \in Nat \ {0}}
<1>1. 0 \in S
  <2>1. WeightOver(0, b) = 1
    BY Weights
  <2> QED
    BY <2>1
<1>2. ASSUME NEW k \in Nat, k \in S PROVE k + 1 \in S
  <2>1. PICK w \in Nat \ {0} : w = WeightOver(k, b)
    BY <1>2
  <2>2. WeightOver(k + 1, b) = w * b
    BY <2>1, Weights
  <2>3. w * b \in Nat \ {0}
    BY <2>1
  <2> QED
    BY <2>2, <2>3
<1> HIDE DEF S
<1>3. n \in S
  BY <1>1, <1>2, SetInduction
<1> QED
  BY <1>3 DEF S

(* One byte that is folded in pays for a visit of every digit, and for     *)
(* three digits more.                                                      *)
LEMMA FoldingStep ==
  ASSUME NEW n \in Nat \ {0}, NEW len \in Nat
  PROVE  /\ Folding(n, len) = Folding(n - 1, len + 3) + len + 3 * n + 6
         /\ Folding(n - 1, len + 3) \in Nat
BY DEF Folding

(* More bytes and more digits take longer. *)
LEMMA FoldingGrows ==
  ASSUME NEW n \in Nat, NEW m \in Nat, NEW len \in Nat, NEW more \in Nat
  PROVE  /\ Folding(n, len) \in Nat
         /\ Folding(n, len) <= Folding(n, len + more)
         /\ Folding(n, len) <= Folding(n + m, len)
<1>1. n * (len + 3 * n + 6) = n * len + 3 * (n * n) + 6 * n
  OBVIOUS
<1>2. n * (len + more + 3 * n + 6) = n * len + n * more + 3 * (n * n) + 6 * n
  OBVIOUS
<1>3. (n + m) * (len + 3 * (n + m) + 6)
        = n * len + m * len + 3 * (n * n) + 6 * (n * m) + 3 * (m * m) + 6 * n + 6 * m
  OBVIOUS
<1>4. PICK nl, nn, nr, nm, mm, ml \in Nat :
        /\ nl = n * len /\ nn = n * n /\ nr = n * more /\ nm = n * m /\ mm = m * m
        /\ ml = m * len
  OBVIOUS
<1> QED
  BY <1>1, <1>2, <1>3, <1>4 DEF Folding

(* A carry that is divided by ten pushes one digit less. *)
LEMMA PushesOneLess ==
  ASSUME NEW c \in 0 .. 255
  PROVE  /\ Pushes(c) \in 0 .. 3
         /\ c = 0 => Pushes(c) = 0
         /\ c > 0 => Pushes(c \div 10) = Pushes(c) - 1 /\ Pushes(c) > 0
BY DEF Pushes

(* The varint and the length: a group more makes the weight larger, and    *)
(* max_nodes bounds the bytes that are taken.                              *)
LEMMA ReadingPays ==
  ASSUME IInv, BadVarint \/ Truncated \/ ReadGroup \/ LengthCapped \/ Take
  PROVE  StepsLeft' < StepsLeft
<1>1. MaxNodes \in Nat /\ Modulus \in Nat /\ GroupSize \in Nat \ {0, 1}
  BY WireAssumption
<1>2. PICK all \in Nat : all = Folding(MaxNodes, 1)
  BY <1>1, FoldingGrows
<1>3. CASE phase = "varint"
  <2>1. weight = WeightOver(Len(groups), GroupSize) /\ groups \in Seq(Nat)
    BY <1>3 DEF IInv, ShapeInv, TypeOK, VarintInv
  <2>2. weight \in Nat \ {0}
    <3>1. Len(groups) \in Nat /\ GroupSize \in Nat \ {0}
      BY <1>1, <2>1
    <3> QED
      BY <2>1, <3>1, WeightPositive, Zenon
  <2>3. StepsLeft = all + 2 + (IF weight < Modulus THEN Modulus - weight ELSE 0)
    BY <1>2, <1>3 DEF StepsLeft
  <2>4. CASE BadVarint \/ Truncated
    <3>1. StepsLeft' = 0
      BY <2>4 DEF BadVarint, Truncated, StepsLeft
    <3> QED
      BY <1>1, <1>2, <2>2, <2>3, <3>1
  <2>5. CASE ReadGroup
    <3>1. /\ weight < Modulus
          /\ \/ phase' = "varint" /\ weight' = weight * GroupSize
             \/ phase' = "length"
      BY <1>3, <2>5 DEF ReadGroup
    <3>2. CASE phase' = "length"
      <4>1. StepsLeft' = all + 1
        BY <1>2, <3>2 DEF StepsLeft
      <4> QED
        BY <1>1, <1>2, <2>2, <2>3, <3>1, <4>1
    <3>3. CASE phase' = "varint" /\ weight' = weight * GroupSize
      <4>1. StepsLeft' = all + 2 + (IF weight' < Modulus THEN Modulus - weight' ELSE 0)
        BY <1>2, <3>3 DEF StepsLeft
      <4>2. weight' \in Nat /\ weight' > weight
        BY <1>1, <2>2, <3>3
      <4> QED
        BY <1>1, <1>2, <2>2, <2>3, <3>1, <4>1, <4>2
    <3> QED
      BY <3>1, <3>2, <3>3
  <2> QED
    BY <1>3, <2>4, <2>5 DEF LengthCapped, Take
<1>4. CASE phase = "length"
  <2>1. StepsLeft = all + 1 /\ decimal = <<0>> /\ result \in Nat
    BY <1>2, <1>4 DEF StepsLeft, IInv, ShapeInv, TypeOK, LoopInv
  <2>2. CASE phase' \in {"LengthCap", "Truncated"}
    <3>1. StepsLeft' = 0
      BY <2>2 DEF StepsLeft
    <3> QED
      BY <1>2, <2>1, <3>1
  <2>3. CASE ByteLen <= MaxNodes /\ byte' = ByteLen /\ phase' = "byte" /\ decimal' = decimal
    <3>1. ByteLen \in Nat /\ Len(decimal') = 1
      BY <2>1, <2>3 DEF ByteLen
    <3>2. StepsLeft' = Folding(ByteLen, 1)
      BY <2>3, <3>1 DEF StepsLeft
    <3>3. PICK m \in Nat : MaxNodes = ByteLen + m
      BY <1>1, <2>3, <3>1
    <3>4. Folding(ByteLen, 1) \in Nat /\ Folding(ByteLen, 1) <= all
      BY <1>2, <3>1, <3>3, FoldingGrows
    <3> QED
      BY <1>2, <2>1, <3>2, <3>4
  <2> QED
    BY <1>4, <2>2, <2>3 DEF BadVarint, Truncated, ReadGroup, LengthCapped, Take
<1> QED
  BY <1>3, <1>4 DEF BadVarint, Truncated, ReadGroup, LengthCapped, Take

(* The three nested loops of le_bytes_to_decimal and the strip loop.       *)
LEMMA RenderingPays ==
  ASSUME IInv, NextByte \/ MulDigit \/ EndDigits \/ PushCarry \/ EndByte \/ Strip
  PROVE  StepsLeft' < StepsLeft
<1>1. /\ decimal \in Seq(0 .. 9) /\ decimal # <<>> /\ Len(decimal) \in Nat \ {0}
      /\ byte \in Nat /\ place \in 1 .. Len(decimal) + 1 /\ carry \in 0 .. 255
      /\ phase \in {"digit", "carry"} => byte > 0
  BY DEF IInv, ShapeInv, TypeOK, LoopInv
<1>2. PICK len \in Nat \ {0} : len = Len(decimal)
  BY <1>1
<1>p. byte > 0 => byte \in Nat \ {0} /\ byte - 1 \in Nat /\ len \in Nat /\ len + 3 \in Nat
  BY <1>1, <1>2
<1>c. PICK k \in 0 .. 3 : /\ k = Pushes(carry)
                          /\ carry = 0 => k = 0
                          /\ carry > 0 => Pushes(carry \div 10) = k - 1 /\ k > 0
  BY <1>1, PushesOneLess
<1>3. CASE NextByte
  <2>1. StepsLeft = Folding(byte, len)
    BY <1>2, <1>3 DEF NextByte, StepsLeft
  <2>2. CASE byte > 0
    <3>1. StepsLeft' = Folding(byte - 1, len + 3) + (len - 1) + 6
      BY <1>2, <1>3, <2>2 DEF NextByte, StepsLeft
    <3>2. PICK rest \in Nat : /\ rest = Folding(byte - 1, len + 3)
                              /\ Folding(byte, len) = rest + len + 3 * byte + 6
      BY <1>p, <2>2, FoldingStep
    <3> QED
      BY <1>1, <1>2, <2>1, <2>2, <3>1, <3>2
  <2>3. CASE ~(byte > 0)
    <3>1. StepsLeft' = len + 1
      BY <1>2, <1>3, <2>3 DEF NextByte, StepsLeft
    <3>2. Folding(byte, len) = len + 2
      BY <1>1, <2>3 DEF Folding
    <3> QED
      BY <2>1, <3>1, <3>2
  <2> QED
    BY <2>2, <2>3
<1>4. CASE MulDigit
  <2>1. /\ StepsLeft = Folding(byte - 1, len + 3) + (len - place) + 6
        /\ Len(decimal') = len /\ byte' = byte /\ place' = place + 1 /\ phase' = "digit"
    BY <1>1, <1>2, <1>4 DEF MulDigit, StepsLeft
  <2>2. StepsLeft' = Folding(byte - 1, len + 3) + (len - (place + 1)) + 6
    BY <2>1 DEF StepsLeft
  <2>3. byte > 0 /\ place \in Nat
    BY <1>1, <1>4 DEF MulDigit
  <2>4. PICK rest \in Nat : rest = Folding(byte - 1, len + 3)
    BY <1>p, <2>3, FoldingStep
  <2> QED
    BY <1>2, <2>1, <2>2, <2>3, <2>4
<1>5. CASE EndDigits
  <2>1. /\ StepsLeft = Folding(byte - 1, len + 3) + (len - place) + 6
        /\ place = len + 1 /\ byte > 0
    BY <1>1, <1>2, <1>5 DEF EndDigits, StepsLeft
  <2>2. StepsLeft' = Folding(byte - 1, len + k) + k + 1
    BY <1>2, <1>5, <1>c DEF EndDigits, StepsLeft, rendering
  <2>3. 0 \in Nat /\ len + k \in Nat /\ 3 - k \in Nat /\ len + k + (3 - k) = len + 3
    BY <1>2
  <2>4. /\ Folding(byte - 1, len + k) <= Folding(byte - 1, len + k + (3 - k))
        /\ Folding(byte - 1, len + k) \in Nat
    BY <1>p, <2>1, <2>3, FoldingGrows
  <2>5. Folding(byte - 1, len + 3) \in Nat
    BY <1>p, <2>1, FoldingStep
  <2>6. PICK low, high \in Nat : /\ low = Folding(byte - 1, len + k)
                                 /\ high = Folding(byte - 1, len + 3) /\ low <= high
    BY <2>3, <2>4, <2>5
  <2> QED
    BY <1>2, <2>1, <2>2, <2>6
<1>6. CASE PushCarry
  <2>1. StepsLeft = Folding(byte - 1, len + k) + k + 1
    BY <1>2, <1>6, <1>c DEF PushCarry, StepsLeft
  <2>2. /\ Len(decimal') = len + 1 /\ byte' = byte /\ carry' = carry \div 10
        /\ phase' = "carry" /\ carry > 0 /\ byte > 0
    BY <1>1, <1>2, <1>6 DEF PushCarry
  <2>3. Pushes(carry') = k - 1
    BY <1>c, <2>2
  <2>4. StepsLeft' = Folding(byte - 1, len + 1 + (k - 1)) + (k - 1) + 1
    BY <2>2, <2>3 DEF StepsLeft
  <2>5. len + 1 + (k - 1) = len + k /\ len + k \in Nat /\ 0 \in Nat
    BY <1>2
  <2>6. PICK rest \in Nat : rest = Folding(byte - 1, len + k)
    BY <1>p, <2>2, <2>5, FoldingGrows
  <2> QED
    BY <2>1, <2>4, <2>5, <2>6
<1>7. CASE EndByte
  <2>1. /\ StepsLeft = Folding(byte - 1, len + k) + k + 1
        /\ carry = 0 /\ byte > 0
    BY <1>1, <1>2, <1>7, <1>c DEF EndByte, StepsLeft
  <2>2. StepsLeft' = Folding(byte - 1, len)
    BY <1>2, <1>7 DEF EndByte, StepsLeft
  <2>3. k = 0 /\ len + 0 = len /\ 0 \in Nat
    BY <1>2, <1>c, <2>1
  <2>4. PICK rest \in Nat : rest = Folding(byte - 1, len)
    BY <1>p, <2>1, <2>3, FoldingGrows
  <2> QED
    BY <2>1, <2>2, <2>3, <2>4
<1>8. CASE Strip
  <2>1. StepsLeft = len + 1
    BY <1>2, <1>8 DEF Strip, StepsLeft
  <2>2. CASE LeadingZero
    <3>1. Len(decimal') = len - 1 /\ phase' = "strip"
      BY <1>1, <1>2, <1>8, <2>2 DEF Strip, LeadingZero
    <3> QED
      BY <2>1, <3>1 DEF StepsLeft
  <2>3. CASE ~LeadingZero
    <3>1. StepsLeft' = 0
      BY <1>8, <2>3 DEF Strip, StepsLeft
    <3> QED
      BY <2>1, <3>1
  <2> QED
    BY <2>2, <2>3
<1> QED
  BY <1>3, <1>4, <1>5, <1>6, <1>7, <1>8

(* read_bigint, for every width, every cap and every magnitude: the work   *)
(* is at most quadratic in the bytes that are taken, since every step of   *)
(* its loops comes nearer the end.                                         *)
THEOREM StepsPaidCorrect == Spec => StepsPaid
<1>1. ASSUME IInv, Next PROVE StepsLeft' < StepsLeft \/ UNCHANGED vars
  BY <1>1, ReadingPays, RenderingPays DEF Next, Returned
<1>2. IInv /\ [Next]_vars => [StepsLeft' < StepsLeft]_vars
  BY <1>1
<1> QED
  BY <1>2, Invariance, PTL DEF Spec, StepsPaid
=============================================================================
