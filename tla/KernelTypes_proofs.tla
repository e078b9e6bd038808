------------------------- MODULE KernelTypes_proofs -------------------------
(* Proofs about KernelTypes: a launch that is proven is right.             *)
EXTENDS KernelTypes, FiniteSetTheorems, SequenceTheorems, TLAPS
-----------------------------------------------------------------------------
(* Induction over the naturals, with the property as a set: a nonempty set of  *)
(* naturals has a least element.                                               *)
LEMMA LeastNat ==
    ASSUME NEW S \in SUBSET Nat, S # {}
    PROVE  \E m \in S : \A n \in S : m <= n
<1> DEFINE R0 == {ss \in Nat \X Nat : ss[1] < ss[2]}
<1>1. IsWellFoundedOn(R0, Nat)
  BY NatLessThanWellFounded DEF OpToRel
<1>2. \A x, y \in Nat : x < y => <<x, y>> \in R0
  OBVIOUS
<1> HIDE DEF R0
<1>3. PICK m \in S : \A n \in S : ~(<<n, m>> \in R0)
  BY <1>1, WFMin
<1>4. ASSUME NEW n \in S PROVE m <= n
  <2>1. m \in Nat /\ n \in Nat /\ ~(<<n, m>> \in R0)
    BY <1>3, <1>4
  <2>2. ~(n < m)
    BY <1>2, <2>1
  <2> QED BY <2>1, <2>2
<1> QED BY <1>4

(* What holds of zero and passes from every number to the next holds of all.   *)
LEMMA Induct ==
    ASSUME NEW S, 0 \in S, \A n \in Nat : n \in S => n + 1 \in S
    PROVE  \A n \in Nat : n \in S
<1> DEFINE U == Nat \ S
<1>1. SUFFICES U = {}
  OBVIOUS
<1>2. SUFFICES ASSUME U # {} PROVE FALSE
  OBVIOUS
<1>3. PICK m \in U : \A n \in U : m <= n
  BY <1>2, LeastNat
<1>4. m \in Nat /\ m # 0 /\ m \notin S
  BY <1>3
<1>5. m - 1 \in Nat /\ m - 1 \in S
  BY <1>3, <1>4
<1> QED BY <1>4, <1>5

(* A function defined by recursion over the naturals exists.                   *)
Follows(g, h, n) == \A i \in 0..n - 1 : g[i + 1] = h[<<g[i], i>>]

LEMMA FollowsAgree ==
    ASSUME NEW h, NEW f, NEW g, NEW n \in Nat, f[0] = g[0], Follows(f, h, n), Follows(g, h, n)
    PROVE  \A i \in 0..n : f[i] = g[i]
<1> DEFINE S == {i \in Nat : i <= n => f[i] = g[i]}
<1>1. 0 \in S
  OBVIOUS
<1>2. ASSUME NEW i \in Nat, i \in S PROVE i + 1 \in S
  <2>1. CASE i + 1 <= n
    <3>1. i \in 0..n - 1 /\ f[i] = g[i]
      BY <1>2, <2>1
    <3>2. f[i + 1] = g[i + 1]
      BY <3>1 DEF Follows
    <3> QED BY <3>2
  <2>2. CASE ~(i + 1 <= n)
    BY <2>2
  <2> QED BY <2>1, <2>2
<1> HIDE DEF S
<1>3. \A i \in Nat : i \in S
  BY <1>1, <1>2, Induct
<1> QED BY <1>3 DEF S

LEMMA RecursionExists ==
    ASSUME NEW c \in Int, NEW h \in [Int \X Nat -> Int]
    PROVE  \E g \in [Nat -> Int] : g[0] = c /\ \A i \in Nat : g[i + 1] = h[<<g[i], i>>]
<1> DEFINE Ok(f, n) == f[0] = c /\ Follows(f, h, n)
           S == {n \in Nat : \E f \in [0..n -> Int] : Ok(f, n)}
<1>1. 0 \in S
  <2>1. [i \in 0..0 |-> c] \in [0..0 -> Int] /\ Ok([i \in 0..0 |-> c], 0)
    BY DEF Follows
  <2> QED BY <2>1
<1>2. ASSUME NEW n \in Nat, n \in S PROVE n + 1 \in S
  <2>1. PICK f \in [0..n -> Int] : Ok(f, n)
    BY <1>2
  <2> DEFINE g == [i \in 0..n + 1 |-> IF i = n + 1 THEN h[<<f[n], n>>] ELSE f[i]]
  <2>2. f[n] \in Int /\ h[<<f[n], n>>] \in Int
    BY <2>1
  <2>3. g \in [0..n + 1 -> Int]
    BY <2>2
  <2>4. ASSUME NEW i \in 0..n PROVE g[i + 1] = h[<<g[i], i>>]
    <3>1. g[i] = f[i]
      OBVIOUS
    <3>2. CASE i = n
      <4>1. g[n + 1] = h[<<f[n], n>>]
        OBVIOUS
      <4> QED BY <3>1, <3>2, <4>1
    <3>3. CASE i # n
      <4>1. i \in 0..n - 1 /\ g[i + 1] = f[i + 1]
        BY <3>3
      <4> QED BY <2>1, <3>1, <4>1 DEF Follows
    <3> QED BY <3>2, <3>3
  <2>5. g[0] = c
    BY <2>1
  <2> HIDE DEF g
  <2>6. Ok(g, n + 1)
    BY <2>4, <2>5 DEF Follows
  <2> QED BY <2>3, <2>6
<1> HIDE DEF S
<1>3. \A n \in Nat : n \in S
  BY <1>1, <1>2, Induct
<1> DEFINE F(n) == CHOOSE f \in [0..n -> Int] : Ok(f, n)
           g == [n \in Nat |-> F(n)[n]]
<1>4. ASSUME NEW n \in Nat PROVE F(n) \in [0..n -> Int] /\ F(n)[0] = c /\ Follows(F(n), h, n)
  <2>1. \E f \in [0..n -> Int] : Ok(f, n)
    BY <1>3 DEF S
  <2> QED BY <2>1
<1> HIDE DEF F
<1>5. g \in [Nat -> Int]
  <2>1. ASSUME NEW n \in Nat PROVE F(n)[n] \in Int
    BY <1>4
  <2> QED BY <2>1
<1>6. g[0] = c
  BY <1>4
<1>7. ASSUME NEW i \in Nat PROVE g[i + 1] = h[<<g[i], i>>]
  <2>1. PICK f \in [0..i + 1 -> Int] : f = F(i + 1) /\ f[0] = c /\ Follows(f, h, i + 1)
    BY <1>4
  <2>2. \A j \in 0..i : f[j + 1] = h[<<f[j], j>>]
    BY <2>1 DEF Follows
  <2>3. Follows(f, h, i)
    BY <2>2 DEF Follows
  <2>4. PICK e \in [0..i -> Int] : e = F(i) /\ e[0] = c /\ Follows(e, h, i)
    BY <1>4
  <2>5. f[i] = e[i]
    BY <2>1, <2>3, <2>4, FollowsAgree
  <2>6. g[i] = e[i] /\ g[i + 1] = f[i + 1]
    BY <2>1, <2>4
  <2> QED BY <2>2, <2>5, <2>6
<1> QED BY <1>5, <1>6, <1>7

-----------------------------------------------------------------------------
(* Sums: SumTo(f, n) adds the first n elements, one after another.             *)
Ints(f, n) == \A i \in 0..n - 1 : f[i] \in Int

LEMMA SumSteps ==
    ASSUME NEW n \in Nat, NEW f, Ints(f, n)
    PROVE  /\ SumTo(f, 0) = 0
           /\ \A i \in 0..n : SumTo(f, i) \in Int
           /\ \A i \in 0..n - 1 : SumTo(f, i + 1) = SumTo(f, i) + f[i]
<1> DEFINE h == [x \in Int \X Nat |-> x[1] + (IF x[2] < n THEN f[x[2]] ELSE 0)]
<1>1. h \in [Int \X Nat -> Int]
  <2>1. ASSUME NEW x \in Int \X Nat PROVE x[1] + (IF x[2] < n THEN f[x[2]] ELSE 0) \in Int
    <3>1. CASE x[2] < n
      <4>1. x[2] \in 0..n - 1
        BY <3>1
      <4> QED BY <3>1, <4>1 DEF Ints
    <3>2. CASE ~(x[2] < n)
      BY <3>2
    <3> QED BY <3>1, <3>2
  <2> QED BY <2>1
<1> HIDE DEF h
<1>2. PICK g \in [Nat -> Int] : g[0] = 0 /\ \A i \in Nat : g[i + 1] = h[<<g[i], i>>]
  <2>1. PICK c \in Int : c = 0
    OBVIOUS
  <2>2. \E g \in [Nat -> Int] : g[0] = c /\ \A i \in Nat : g[i + 1] = h[<<g[i], i>>]
    BY <1>1, RecursionExists
  <2> QED BY <2>1, <2>2
<1>3. ASSUME NEW i \in 0..n - 1 PROVE g[i + 1] = g[i] + f[i]
  <2>1. <<g[i], i>> \in Int \X Nat
    BY <1>2
  <2>2. h[<<g[i], i>>] = g[i] + f[i]
    BY <2>1 DEF h
  <2> QED BY <1>2, <2>2
<1>4. ASSUME NEW m \in 0..n PROVE SumTo(f, m) = g[m]
  <2> DEFINE Sums(s) == s = [i \in 0..m |-> IF i = 0 THEN 0 ELSE s[i - 1] + f[i - 1]]
             q == [i \in 0..m |-> g[i]]
             c == CHOOSE s : Sums(s)
             S == {i \in Nat : i <= m => c[i] = g[i]}
  <2>1. Sums(q)
    <3>1. ASSUME NEW i \in 0..m PROVE g[i] = IF i = 0 THEN 0 ELSE q[i - 1] + f[i - 1]
      <4>1. CASE i = 0
        BY <1>2, <4>1
      <4>2. CASE i # 0
        <5>1. i - 1 \in 0..n - 1 /\ i - 1 \in 0..m
          BY <4>2
        <5>2. g[(i - 1) + 1] = g[i - 1] + f[i - 1]
          BY <1>3, <5>1
        <5> QED BY <4>2, <5>1, <5>2
      <4> QED BY <4>1, <4>2
    <3> QED BY <3>1
  <2>2. Sums(c)
    <3> HIDE DEF Sums, q
    <3> QED BY <2>1
  <2>3. c[m] = SumTo(f, m)
    BY DEF SumTo
  <2> HIDE DEF c, q
  <2>4. c[0] = 0 /\ \A i \in 1..m : c[i] = c[i - 1] + f[i - 1]
    BY <2>2
  <2>5. 0 \in S
    BY <2>4, <1>2
  <2>6. ASSUME NEW i \in Nat, i \in S PROVE i + 1 \in S
    <3>1. CASE i + 1 <= m
      <4>1. i + 1 \in 1..m /\ (i + 1) - 1 = i /\ i \in 0..n - 1 /\ c[i] = g[i]
        BY <2>6, <3>1
      <4>2. c[i + 1] = c[i] + f[i]
        BY <2>4, <4>1
      <4> QED BY <1>3, <4>1, <4>2
    <3>2. CASE ~(i + 1 <= m)
      BY <3>2
    <3> QED BY <3>1, <3>2
  <2> HIDE DEF S
  <2>7. m \in S
    BY <2>5, <2>6, Induct
  <2> QED BY <2>3, <2>7 DEF S
<1> QED BY <1>2, <1>3, <1>4

(* Elements that are all zero add nothing.                                     *)
LEMMA SumTail ==
    ASSUME NEW n \in Nat, NEW f, Ints(f, n), NEW a \in 0..n, \A i \in a..n - 1 : f[i] = 0
    PROVE  SumTo(f, n) = SumTo(f, a)
<1> DEFINE S == {i \in Nat : a + i <= n => SumTo(f, a + i) = SumTo(f, a)}
<1>1. 0 \in S
  OBVIOUS
<1>2. ASSUME NEW i \in Nat, i \in S PROVE i + 1 \in S
  <2>1. CASE a + i + 1 <= n
    <3>1. a + i \in 0..n - 1 /\ a + i \in a..n - 1 /\ SumTo(f, a + i) = SumTo(f, a) /\ SumTo(f, a) \in Int
      BY <1>2, <2>1, SumSteps
    <3>2. SumTo(f, (a + i) + 1) = SumTo(f, a + i) + f[a + i]
      BY <3>1, SumSteps
    <3>3. a + (i + 1) = (a + i) + 1
      OBVIOUS
    <3> QED BY <3>1, <3>2, <3>3
  <2>2. CASE ~(a + i + 1 <= n)
    BY <2>2
  <2> QED BY <2>1, <2>2
<1> HIDE DEF S
<1>3. n - a \in S
  BY <1>1, <1>2, Induct
<1>4. a + (n - a) = n
  OBVIOUS
<1> QED BY <1>3, <1>4 DEF S

(* Two sums step together when their elements do.                              *)
LEMMA SumEqual ==
    ASSUME NEW n \in Nat, NEW f, NEW g, Ints(f, n), \A i \in 0..n - 1 : f[i] = g[i]
    PROVE  SumTo(f, n) = SumTo(g, n)
<1> DEFINE S == {i \in Nat : i <= n => SumTo(f, i) = SumTo(g, i)}
<1>0. Ints(g, n)
  BY DEF Ints
<1>1. 0 \in S
  BY <1>0, SumSteps
<1>2. ASSUME NEW i \in Nat, i \in S PROVE i + 1 \in S
  <2>1. CASE i + 1 <= n
    <3>1. i \in 0..n - 1 /\ SumTo(f, i) = SumTo(g, i)
      BY <1>2, <2>1
    <3>2. SumTo(f, i + 1) = SumTo(f, i) + f[i] /\ SumTo(g, i + 1) = SumTo(g, i) + g[i]
      BY <1>0, <3>1, SumSteps
    <3> QED BY <3>1, <3>2
  <2>2. CASE ~(i + 1 <= n)
    BY <2>2
  <2> QED BY <2>1, <2>2
<1> HIDE DEF S
<1>3. n \in S
  BY <1>1, <1>2, Induct
<1> QED BY <1>3 DEF S

LEMMA SumAdd ==
    ASSUME NEW n \in Nat, NEW f, NEW g, NEW h, Ints(f, n), Ints(g, n), \A i \in 0..n - 1 : h[i] = f[i] + g[i]
    PROVE  SumTo(h, n) = SumTo(f, n) + SumTo(g, n)
<1> DEFINE S == {i \in Nat : i <= n => SumTo(h, i) = SumTo(f, i) + SumTo(g, i)}
<1>0. Ints(h, n)
  BY DEF Ints
<1>1. 0 \in S
  BY <1>0, SumSteps
<1>2. ASSUME NEW i \in Nat, i \in S PROVE i + 1 \in S
  <2>1. CASE i + 1 <= n
    <3>1. i \in 0..n - 1 /\ i \in 0..n /\ SumTo(h, i) = SumTo(f, i) + SumTo(g, i)
      BY <1>2, <2>1
    <3>2. SumTo(f, i) \in Int /\ SumTo(g, i) \in Int /\ f[i] \in Int /\ g[i] \in Int
      BY <3>1, SumSteps DEF Ints
    <3>3. /\ SumTo(f, i + 1) = SumTo(f, i) + f[i] /\ SumTo(g, i + 1) = SumTo(g, i) + g[i]
          /\ SumTo(h, i + 1) = SumTo(h, i) + h[i]
      BY <1>0, <3>1, SumSteps
    <3> QED BY <3>1, <3>2, <3>3
  <2>2. CASE ~(i + 1 <= n)
    BY <2>2
  <2> QED BY <2>1, <2>2
<1> HIDE DEF S
<1>3. n \in S
  BY <1>1, <1>2, Induct
<1> QED BY <1>3 DEF S

(* A factor of the sum is a factor of each element.                            *)
LEMMA SumTimes ==
    ASSUME NEW n \in Nat, NEW f, NEW g, NEW c \in Int, Ints(f, n), \A i \in 0..n - 1 : g[i] = f[i] * c
    PROVE  SumTo(g, n) = SumTo(f, n) * c
<1> DEFINE S == {i \in Nat : i <= n => SumTo(g, i) = SumTo(f, i) * c}
<1>0. Ints(g, n)
  BY DEF Ints
<1>1. 0 \in S
  BY <1>0, SumSteps
<1>2. ASSUME NEW i \in Nat, i \in S PROVE i + 1 \in S
  <2>1. CASE i + 1 <= n
    <3>1. i \in 0..n - 1 /\ i \in 0..n /\ SumTo(g, i) = SumTo(f, i) * c
      BY <1>2, <2>1
    <3>2. SumTo(f, i) \in Int /\ f[i] \in Int
      BY <3>1, SumSteps DEF Ints
    <3>3. SumTo(f, i + 1) = SumTo(f, i) + f[i] /\ SumTo(g, i + 1) = SumTo(g, i) + g[i]
      BY <1>0, <3>1, SumSteps
    <3>4. (SumTo(f, i) + f[i]) * c = SumTo(f, i) * c + f[i] * c
      BY <3>2
    <3> QED BY <3>1, <3>3, <3>4
  <2>2. CASE ~(i + 1 <= n)
    BY <2>2
  <2> QED BY <2>1, <2>2
<1> HIDE DEF S
<1>3. n \in S
  BY <1>1, <1>2, Induct
<1> QED BY <1>3 DEF S

(* A sum over the lanes is a sum over the k they stand at, d further on: what  *)
(* no lane stands at is zero there, and a lane that stands at no k is zero.    *)
Shifted(f, n, g, m, d) ==
    /\ \A i \in 0..n - 1 : i + d > m - 1 => f[i] = 0
    /\ \A i \in 0..n - 1 : i + d <= m - 1 => g[i + d] = f[i]
    /\ \A k \in 0..m - 1 : k < d \/ k > d + n - 1 => g[k] = 0

LEMMA SumShift ==
    ASSUME NEW n \in Nat, NEW m \in Nat, NEW d \in 0..m, NEW f, NEW g, Ints(f, n), Ints(g, m),
           Shifted(f, n, g, m, d)
    PROVE  SumTo(f, n) = SumTo(g, m)
<1>0. /\ \A i \in 0..n - 1 : i + d > m - 1 => f[i] = 0
      /\ \A i \in 0..n - 1 : i + d <= m - 1 => g[i + d] = f[i]
      /\ \A k \in 0..m - 1 : k < d \/ k > d + n - 1 => g[k] = 0
  BY DEF Shifted
<1> USE <1>0
<1> DEFINE upto(i) == IF d + i <= m THEN d + i ELSE m
           S == {i \in Nat : i <= n => SumTo(f, i) = SumTo(g, upto(i))}
<1>1. 0 \in S
  <2>1. SumTo(g, d) = SumTo(g, 0)
    <3>1. Ints(g, d) /\ \A i \in 0..d - 1 : g[i] = 0
      BY DEF Ints
    <3> QED BY <3>1, SumTail
  <2>2. SumTo(g, 0) = 0 /\ SumTo(f, 0) = 0 /\ upto(0) = d
    BY SumSteps
  <2> QED BY <2>1, <2>2
<1>2. ASSUME NEW i \in Nat, i \in S PROVE i + 1 \in S
  <2>1. CASE i + 1 <= n
    <3>1. i \in 0..n - 1 /\ i \in 0..n /\ SumTo(f, i) = SumTo(g, upto(i))
      BY <1>2, <2>1
    <3>2. SumTo(f, i) \in Int /\ SumTo(f, i + 1) = SumTo(f, i) + f[i]
      BY <3>1, SumSteps
    <3>3. CASE i + d <= m - 1
      <4>1. upto(i) = i + d /\ upto(i + 1) = (i + d) + 1 /\ i + d \in 0..m - 1
        BY <3>3
      <4>2. SumTo(g, (i + d) + 1) = SumTo(g, i + d) + g[i + d]
        BY <4>1, SumSteps
      <4> HIDE DEF upto
      <4>3. SumTo(f, i + 1) = SumTo(g, upto(i + 1))
        BY <3>1, <3>2, <3>3, <4>1, <4>2
      <4> QED BY <4>3
    <3>4. CASE ~(i + d <= m - 1)
      <4>1. upto(i) = m /\ upto(i + 1) = m /\ f[i] = 0
        BY <3>1, <3>4
      <4> HIDE DEF upto
      <4>2. SumTo(f, i + 1) = SumTo(g, upto(i + 1))
        BY <3>1, <3>2, <4>1
      <4> QED BY <4>2
    <3> QED BY <3>3, <3>4
  <2>2. CASE ~(i + 1 <= n)
    BY <2>2
  <2> QED BY <2>1, <2>2
<1> HIDE DEF S, upto
<1>3. n \in S
  BY <1>1, <1>2, Induct
<1>4. SumTo(f, n) = SumTo(g, upto(n))
  BY <1>3 DEF S
<1>5. SumTo(g, m) = SumTo(g, upto(n))
  <2>1. upto(n) \in 0..m /\ \A i \in upto(n)..m - 1 : g[i] = 0
    BY DEF upto
  <2> QED BY <2>1, SumTail
<1> QED BY <1>4, <1>5

(* Powers, by the same recursion.                                              *)
LEMMA PowerSteps ==
    ASSUME NEW b \in Int
    PROVE  /\ Power(b, 0) = 1
           /\ \A n \in Nat : Power(b, n) \in Int /\ Power(b, n + 1) = b * Power(b, n)
<1> DEFINE h == [x \in Int \X Nat |-> b * x[1]]
<1>1. h \in [Int \X Nat -> Int]
  OBVIOUS
<1>2. \A y \in Int, n \in Nat : h[<<y, n>>] = b * y
  OBVIOUS
<1> HIDE DEF h
<1>3. PICK g \in [Nat -> Int] : g[0] = 1 /\ \A i \in Nat : g[i + 1] = h[<<g[i], i>>]
  <2>1. PICK c \in Int : c = 1
    OBVIOUS
  <2>2. \E g \in [Nat -> Int] : g[0] = c /\ \A i \in Nat : g[i + 1] = h[<<g[i], i>>]
    BY <1>1, RecursionExists
  <2> QED BY <2>1, <2>2
<1>4. \A i \in Nat : g[i + 1] = b * g[i]
  BY <1>2, <1>3
<1> DEFINE Powers(p) == p = [i \in Nat |-> IF i = 0 THEN 1 ELSE b * p[i - 1]]
           c == CHOOSE p : Powers(p)
           S == {i \in Nat : c[i] = g[i]}
<1>5. Powers(g)
  <2>1. ASSUME NEW i \in Nat PROVE g[i] = IF i = 0 THEN 1 ELSE b * g[i - 1]
    <3>1. CASE i = 0
      BY <1>3, <3>1
    <3>2. CASE i # 0
      <4>1. i - 1 \in Nat
        BY <3>2
      <4>2. g[(i - 1) + 1] = b * g[i - 1]
        BY <1>4, <4>1
      <4> QED BY <3>2, <4>2
    <3> QED BY <3>1, <3>2
  <2> QED BY <2>1
<1>6. Powers(c)
  <2> HIDE DEF Powers
  <2> QED BY <1>5
<1>7. \A n \in Nat : Power(b, n) = c[n]
  BY DEF Power
<1> HIDE DEF c
<1>8. c[0] = 1 /\ \A i \in Nat : i # 0 => c[i] = b * c[i - 1]
  BY <1>6
<1>9. 0 \in S
  BY <1>3, <1>8
<1>10. ASSUME NEW i \in Nat, i \in S PROVE i + 1 \in S
  <2>1. i + 1 \in Nat /\ i + 1 # 0 /\ (i + 1) - 1 = i
    OBVIOUS
  <2>2. c[i + 1] = b * c[i]
    BY <1>8, <2>1
  <2> QED BY <1>4, <1>10, <2>2
<1> HIDE DEF S
<1>11. \A n \in Nat : n \in S
  BY <1>9, <1>10, Induct
<1>12. \A n \in Nat : Power(b, n) = g[n]
  BY <1>7, <1>11 DEF S
<1> QED BY <1>3, <1>4, <1>12

-----------------------------------------------------------------------------
(* Groups: division by the size of a group.                                    *)
LEMMA Divide ==
    ASSUME NEW a \in Nat, NEW g \in Nat \ {0}
    PROVE  a \div g \in Nat /\ a % g \in 0..g - 1 /\ a = g * (a \div g) + (a % g)
OBVIOUS

LEMMA DivideUnique ==
    ASSUME NEW a \in Nat, NEW g \in Nat \ {0}, NEW q \in Nat, g * q <= a, a < g * (q + 1)
    PROVE  a \div g = q
<1>1. PICK r \in Nat : r = a \div g
  BY Divide
<1>2. PICK s \in 0..g - 1 : a = g * r + s
  BY Divide, <1>1
<1>3. ~(r < q)
  <2>1. SUFFICES ASSUME r + 1 <= q PROVE FALSE
    BY <1>1
  <2>2. g * (r + 1) <= g * q
    BY <2>1
  <2>3. g * (r + 1) = g * r + g
    OBVIOUS
  <2> QED BY <1>2, <2>2, <2>3
<1>4. ~(q < r)
  <2>1. SUFFICES ASSUME q + 1 <= r PROVE FALSE
    BY <1>1
  <2>2. g * (q + 1) <= g * r
    BY <2>1
  <2> QED BY <1>2, <2>2
<1> QED BY <1>1, <1>3, <1>4

LEMMA DivideOne == \A a \in Nat : a \div 1 = a
OBVIOUS

LEMMA DivideProduct ==
    ASSUME NEW a \in Nat, NEW g \in Nat \ {0}
    PROVE  (a * g) \div g = a
<1>1. g * a <= a * g /\ a * g < g * (a + 1) /\ a * g \in Nat
  OBVIOUS
<1> QED BY <1>1, DivideUnique

LEMMA DivideGrows ==
    ASSUME NEW a \in Nat, NEW b \in Nat, NEW g \in Nat \ {0}, a <= b
    PROVE  a \div g <= b \div g
<1>1. PICK p \in Nat, r \in 0..g - 1 : p = a \div g /\ a = g * p + r
  BY Divide
<1>2. PICK q \in Nat, s \in 0..g - 1 : q = b \div g /\ b = g * q + s
  BY Divide
<1>3. SUFFICES ASSUME q + 1 <= p PROVE FALSE
  BY <1>1, <1>2
<1>4. g * (q + 1) <= g * p /\ g * (q + 1) = g * q + g
  BY <1>3
<1> QED BY <1>1, <1>2, <1>4

-----------------------------------------------------------------------------
(* What a value of the kernel is while no rule has failed. Its parts:          *)
AtRow(x) == x.coords["token"].at
Places(form, axes) == [axes -> [at : [Lanes(form) -> Int], group : {1}]]
Ranges == [Programs -> [lo : Nat, count : Nat]]
Values(form, axes) ==
    [form : {form}, coords : Places(form, axes), valid : SUBSET Lanes(form), sums : Seq(Ranges),
     factors : 0..MaxFactors, applied : Nat, extras : BOOLEAN, zeroed : BOOLEAN, got : [Lanes(form) -> Int]]

(* A mask is a condition on the row and one on the lane along k.               *)
ByRowAndLane(x) ==
    \E V \in SUBSET (Programs \X (0..R - 1)), X \in SUBSET (0..T - 1) :
        \A n \in TileLanes : n \in x.valid <=> <<n[1], n[2]>> \in V /\ n[3] \in X
ZeroOutside(x) == \A n \in TileLanes \ x.valid : x.got[n] = 0

(* A tile stands at consecutive k; past the end of a row it goes on in the next. *)
Consecutive(x, from, w) ==
    \A n \in TileLanes :
        /\ AtK(x)[n] = from + n[3] - K * w[n[3]] /\ AtK(x)[n] >= 0
        /\ AtRow(x)[n] = AtRow(x)[InRow(n)] + w[n[3]]

Scaled(t, k, times) == IF times = 0 THEN 1 ELSE As[<<t, k \div G>>]

(* An element of a tile is A's at its place, with A's scale and B there.       *)
TileRight(x) ==
    /\ x \in Values("tile", {"token", "hidden"}) /\ x.sums = <<>> /\ x.extras = FALSE
    /\ \E from \in Hidden, w \in [0..T - 1 -> Nat] : Consecutive(x, from, w)
    /\ ByRowAndLane(x) /\ (x.zeroed => ZeroOutside(x))
    /\ \A n \in x.valid : AtRow(x)[n] \in Tokens /\ AtK(x)[n] \in Hidden
    /\ x.applied <= 1 => /\ x.applied <= x.factors
                         /\ \A n \in x.valid :
                                x.got[n] = A[<<AtRow(x)[n], AtK(x)[n]>>] * Scaled(AtRow(x)[n], AtK(x)[n], x.applied)
                                           * Power(B[AtK(x)[n]], x.factors - x.applied)

(* The summands of a row whose range, in one program, has k.                   *)
Summing(x, p, k) == {i \in DOMAIN x.sums : x.sums[i][p].lo <= k /\ k < x.sums[i][p].lo + x.sums[i][p].count}

(* An element of a row is a sum over all of hidden of A with its scale, each   *)
(* term with a weight that is the same for every row: zero where the row sums  *)
(* over nothing, and a power of B where one summand has it.                    *)
Weighed(x, W) ==
    /\ \A n \in x.valid :
          /\ AtRow(x)[n] \in Tokens
          /\ x.got[n] = SumTo([k \in Hidden |-> A[<<AtRow(x)[n], k>>] * Scaled(AtRow(x)[n], k, x.applied) * W[k]], K)
    /\ \A n \in x.valid, k \in Hidden :
          /\ Summing(x, n[1], k) = {} => W[k] = 0
          /\ (\E i : Summing(x, n[1], k) = {i})
                => \E e \in Nat : e + x.applied <= x.factors + 1 /\ W[k] = Power(B[k], e)

RowRight(x) ==
    /\ x \in Values("row", {"token"})
    /\ x.extras = FALSE /\ x.applied <= 1 => \E W \in [Hidden -> Int] : Weighed(x, W)

(* A factor is loaded at its own places: an element of B, or a scale of A.     *)
Factor(y, arg, form) ==
    /\ y.form = form /\ y.coords \in [AxesOf(arg) -> [at : [Lanes(form) -> Int], group : Nat]]
    /\ y.coords["hidden"].group = Grain(arg) /\ (arg = "As" => y.coords["token"].group = 1)
    /\ y.valid \in SUBSET Lanes(form) /\ y.zeroed \in BOOLEAN /\ y.got \in [Lanes(form) -> Int]
    /\ form = "tile" => ByRowAndLane(y) /\ (y.zeroed => ZeroOutside(y))
    /\ \A n \in y.valid : /\ AtK(y)[n] \in Nat
                          /\ arg = "B" => y.got[n] = B[AtK(y)[n]]
                          /\ arg = "As" => AtRow(y)[n] \in Nat /\ y.got[n] = As[<<AtRow(y)[n], AtK(y)[n]>>]

LEMMA Sizes ==
    /\ P \in Nat \ {0} /\ R \in Nat \ {0} /\ T \in Nat \ {0} /\ K \in Nat \ {0} /\ G \in Nat \ {0}
    /\ M \in Nat \ {0} /\ 0 \in Hidden /\ Hidden \subseteq Nat /\ Tokens \subseteq Nat
    /\ <<1, 0, 0>> \in TileLanes /\ RowLanes \subseteq TileLanes
    /\ Lanes("tile") = TileLanes /\ Lanes("row") = RowLanes
<1>1. P \in Nat \ {0} /\ R \in Nat \ {0} /\ T \in Nat \ {0} /\ K \in Nat \ {0} /\ G \in Nat \ {0}
  BY SizeAssumption
<1>2. M \in Nat \ {0}
  BY <1>1 DEF M
<1>3. Programs = 1..P /\ 1 \in Programs /\ 0 \in 0..R - 1 /\ 0 \in 0..T - 1
  BY <1>1 DEF Programs
<1> QED BY <1>1, <1>2, <1>3 DEF Hidden, Tokens, TileLanes, RowLanes, Lanes

LEMMA Elements ==
    /\ \A t \in Tokens, k \in Hidden : A[<<t, k>>] \in Int
    /\ \A t \in Tokens, g \in Groups : As[<<t, g>>] \in Int
    /\ \A k \in Hidden : B[k] \in Int
    /\ \A k \in Hidden : k \div G \in Groups
<1>1. \A k \in Hidden : k \div G \in Groups
  <2>1. SUFFICES ASSUME NEW k \in Hidden PROVE k \div G \in Groups
    OBVIOUS
  <2>2. k \in Nat /\ k <= K - 1 /\ K - 1 \in Nat /\ G \in Nat \ {0}
    BY Sizes DEF Hidden
  <2>3. k \div G \in Nat /\ (K - 1) \div G \in Nat /\ k \div G <= (K - 1) \div G
    BY <2>2, Divide, DivideGrows
  <2> QED BY <2>3 DEF Groups
<1> QED BY <1>1, DataAssumption

-----------------------------------------------------------------------------
(* Pairing. What the checker lets pass is at one place.                        *)
LEMMA Agree ==
    ASSUME NEW c, NEW d, NEW n, c.at[n] \in Nat, d.at[n] \in Nat, c.group = 1, d.group \in Nat \ {0},
           ~Disagree(c, d, n)
    PROVE  c.at[n] \div d.group = d.at[n] /\ (d.group = 1 => c.at[n] = d.at[n])
<1>1. PICK g \in Nat \ {0} : g = d.group
  OBVIOUS
<1>2. (IF c.group > d.group THEN c.group ELSE d.group) = g
  BY <1>1
<1>3. c.at[n] * c.group = c.at[n]
  OBVIOUS
<1>4. c.at[n] \div g = (d.at[n] * g) \div g
  BY <1>1, <1>2, <1>3 DEF Disagree
<1>5. (d.at[n] * g) \div g = d.at[n]
  BY DivideProduct
<1> QED BY <1>1, <1>4, <1>5, DivideOne

LEMMA Axes ==
    /\ AxesOf("A") = {"token", "hidden"} /\ AxesOf("As") = {"token", "hidden"} /\ AxesOf("B") = {"hidden"}
    /\ Grain("A") = 1 /\ Grain("B") = 1 /\ Grain("As") = G /\ G \in Nat \ {0}
BY Sizes DEF AxesOf, Grain

(* A factor leaves a value its places.                                         *)
LEMMA PairedTile ==
    ASSUME NEW x, NEW y, NEW arg \in {"B", "As"}, x \in Values("tile", {"token", "hidden"}), Factor(y, arg, "tile")
    PROVE  Paired(x, y) = x.coords
<1>1. x.form = "tile" /\ y.form = "tile"
  BY DEF Values, Factor
<1>2. x.coords \in [{"token", "hidden"} -> [at : [Lanes("tile") -> Int], group : {1}]]
  BY DEF Values, Places
<1>3. DOMAIN y.coords \subseteq {"token", "hidden"} /\ DOMAIN y.coords = AxesOf(arg)
      /\ \A a \in DOMAIN y.coords : y.coords[a].group \in Nat \ {0}
  BY Axes DEF Factor
<1>4. ~MeetsSum(x, y) /\ ~MeetsSum(y, x)
  BY <1>1 DEF MeetsSum, IsSum
<1>5. (DOMAIN x.coords \cup DOMAIN y.coords) \ {} = {"token", "hidden"} /\ DOMAIN x.coords = {"token", "hidden"}
  BY <1>2, <1>3
<1>6. ASSUME NEW a \in {"token", "hidden"}, a \in DOMAIN y.coords
      PROVE  x.coords[a].group <= y.coords[a].group
  <2>1. x.coords[a].group = 1 /\ y.coords[a].group \in Nat \ {0}
    BY <1>2, <1>3, <1>6
  <2> QED BY <2>1
<1>7. Paired(x, y) = [a \in {"token", "hidden"} |-> x.coords[a]]
  BY <1>4, <1>5, <1>6 DEF Paired
<1> QED BY <1>2, <1>7

LEMMA TimesTile ==
    ASSUME NEW x, NEW y, NEW arg \in {"B", "As"}, TileRight(x), Factor(y, arg, "tile"), ~Mispaired(x, y),
           x.factors < MaxFactors
    PROVE  TileRight(Times(x, y, arg))
<1> DEFINE z == Times(x, y, arg)
           d == IF arg = "As" THEN 1 ELSE 0
           both == x.valid \cap y.valid
<1>1. x \in Values("tile", {"token", "hidden"}) /\ x.sums = <<>> /\ x.extras = FALSE
  BY DEF TileRight
<1>2. /\ x.coords \in Places("tile", {"token", "hidden"}) /\ x.valid \in SUBSET TileLanes
      /\ x.factors \in 0..MaxFactors /\ x.applied \in Nat /\ x.zeroed \in BOOLEAN /\ x.got \in [TileLanes -> Int]
  BY <1>1, Sizes DEF Values
<1>3. /\ y.valid \in SUBSET TileLanes /\ y.zeroed \in BOOLEAN /\ y.got \in [TileLanes -> Int]
      /\ ByRowAndLane(y) /\ (y.zeroed => ZeroOutside(y))
  BY Sizes DEF Factor
<1>4. Paired(x, y) = x.coords
  BY <1>1, PairedTile
<1>5. /\ z.form = "tile" /\ z.coords = x.coords /\ z.valid = both /\ z.sums = <<>> /\ z.extras = FALSE
      /\ z.factors = x.factors + 1 /\ z.applied = x.applied + d /\ z.zeroed = (x.zeroed /\ y.zeroed)
      /\ z.got = [n \in TileLanes |-> x.got[n] * y.got[n]]
  BY <1>1, <1>2, <1>4 DEF Times, Values
<1>6. z \in Values("tile", {"token", "hidden"})
  <2>1. [n \in TileLanes |-> x.got[n] * y.got[n]] \in [TileLanes -> Int]
    BY <1>2, <1>3
  <2>2. x.factors + 1 \in 0..MaxFactors /\ x.applied + d \in Nat /\ both \in SUBSET TileLanes
    BY <1>2, <1>3, BoundAssumption
  <2> QED BY <1>1, <1>2, <1>4, <2>1, <2>2, Sizes DEF Times, Values
<1> HIDE DEF z
<1>7. \E from \in Hidden, w \in [0..T - 1 -> Nat] : Consecutive(z, from, w)
  <2>1. PICK from \in Hidden, w \in [0..T - 1 -> Nat] : Consecutive(x, from, w)
    BY DEF TileRight
  <2>2. AtRow(z) = AtRow(x) /\ AtK(z) = AtK(x)
    BY <1>5 DEF AtRow, AtK
  <2>3. Consecutive(z, from, w)
    BY <2>1, <2>2 DEF Consecutive
  <2> QED BY <2>3
<1>8. ByRowAndLane(z)
  <2>1. PICK V \in SUBSET (Programs \X (0..R - 1)), X \in SUBSET (0..T - 1) :
            \A n \in TileLanes : n \in x.valid <=> <<n[1], n[2]>> \in V /\ n[3] \in X
    BY DEF TileRight, ByRowAndLane
  <2>2. PICK U \in SUBSET (Programs \X (0..R - 1)), Y \in SUBSET (0..T - 1) :
            \A n \in TileLanes : n \in y.valid <=> <<n[1], n[2]>> \in U /\ n[3] \in Y
    BY <1>3 DEF ByRowAndLane
  <2>3. \A n \in TileLanes : n \in z.valid <=> <<n[1], n[2]>> \in V \cap U /\ n[3] \in X \cap Y
    BY <1>5, <2>1, <2>2
  <2>4. V \cap U \in SUBSET (Programs \X (0..R - 1)) /\ X \cap Y \in SUBSET (0..T - 1)
    OBVIOUS
  <2> QED BY <2>3, <2>4 DEF ByRowAndLane
<1>9. ASSUME z.zeroed PROVE ZeroOutside(z)
  <2>1. x.zeroed /\ y.zeroed
    BY <1>5, <1>9
  <2>2. ZeroOutside(x) /\ ZeroOutside(y)
    BY <1>3, <2>1 DEF TileRight
  <2>3. SUFFICES ASSUME NEW n \in TileLanes, n \notin both PROVE z.got[n] = 0
    BY <1>5 DEF ZeroOutside
  <2>4. x.got[n] \in Int /\ y.got[n] \in Int /\ (x.got[n] = 0 \/ y.got[n] = 0) /\ z.got[n] = x.got[n] * y.got[n]
    BY <1>2, <1>3, <1>5, <2>2, <2>3 DEF ZeroOutside
  <2> QED BY <2>4
<1>10. \A n \in z.valid : AtRow(z)[n] \in Tokens /\ AtK(z)[n] \in Hidden
  BY <1>5 DEF TileRight, AtRow, AtK
<1>11. ASSUME z.applied <= 1
       PROVE  /\ z.applied <= z.factors
              /\ \A n \in z.valid :
                     z.got[n] = A[<<AtRow(z)[n], AtK(z)[n]>>] * Scaled(AtRow(z)[n], AtK(z)[n], z.applied)
                                * Power(B[AtK(z)[n]], z.factors - z.applied)
  <2>1. x.applied <= 1 /\ x.applied <= x.factors
    BY <1>2, <1>5, <1>11 DEF TileRight
  <2>2. z.applied <= z.factors
    BY <1>2, <1>5, <2>1
  <2>3. SUFFICES ASSUME NEW n \in both, NEW t \in Tokens, NEW k \in Hidden, t = AtRow(x)[n], k = AtK(x)[n]
                 PROVE  z.got[n] = A[<<t, k>>] * Scaled(t, k, z.applied) * Power(B[k], z.factors - z.applied)
    <3>1. \A n \in both : AtRow(x)[n] \in Tokens /\ AtK(x)[n] \in Hidden
      BY DEF TileRight
    <3>2. AtRow(z) = AtRow(x) /\ AtK(z) = AtK(x)
      BY <1>5 DEF AtRow, AtK
    <3> QED BY <1>5, <2>2, <3>1, <3>2
  <2>4. n \in TileLanes /\ z.got[n] = x.got[n] * y.got[n]
    BY <1>2, <1>5
  <2>5. x.got[n] = A[<<t, k>>] * Scaled(t, k, x.applied) * Power(B[k], x.factors - x.applied)
    BY <2>1, <2>3 DEF TileRight
  <2>6. A[<<t, k>>] \in Int /\ Scaled(t, k, x.applied) \in Int /\ Power(B[k], x.factors - x.applied) \in Int
        /\ B[k] \in Int /\ x.factors - x.applied \in Nat /\ As[<<t, k \div G>>] \in Int
    <3>1. x.factors - x.applied \in Nat /\ B[k] \in Int
      BY <1>2, <2>1, Elements
    <3>2. Power(B[k], x.factors - x.applied) \in Int
      BY <3>1, PowerSteps
    <3>3. A[<<t, k>>] \in Int /\ As[<<t, k \div G>>] \in Int
      BY Elements
    <3>4. Scaled(t, k, x.applied) \in Int
      BY <3>3 DEF Scaled
    <3> QED BY <3>1, <3>2, <3>3, <3>4
  <2>7. CASE arg = "B"
    <3>1. "hidden" \in DOMAIN x.coords \cap DOMAIN y.coords
      BY <1>2, <2>7, Axes DEF Places, Factor
    <3>2. ~Disagree(x.coords["hidden"], y.coords["hidden"], n)
      BY <3>1, <2>3 DEF Mispaired
    <3>3. /\ x.coords["hidden"].at[n] \in Nat /\ y.coords["hidden"].at[n] \in Nat
          /\ x.coords["hidden"].group = 1 /\ y.coords["hidden"].group = 1
      BY <1>2, <2>3, <2>7, Axes, Sizes DEF Places, Factor, AtK
    <3>4. y.coords["hidden"].at[n] = k
      BY <2>3, <3>2, <3>3, Agree DEF AtK
    <3>5. y.got[n] = B[k]
      BY <2>3, <2>7, <3>4 DEF Factor, AtK
    <3>6. z.applied = x.applied /\ z.factors - z.applied = (x.factors - x.applied) + 1
      BY <1>2, <1>5, <2>7
    <3>7. Power(B[k], z.factors - z.applied) = B[k] * Power(B[k], x.factors - x.applied)
      BY <2>6, <3>6, PowerSteps
    <3> DEFINE a == A[<<t, k>>]  s == Scaled(t, k, x.applied)  p == Power(B[k], x.factors - x.applied)  b == B[k]
    <3>8. a \in Int /\ s \in Int /\ p \in Int /\ b \in Int
      BY <2>6
    <3>9. z.got[n] = (a * s * p) * b
      BY <2>4, <2>5, <3>5
    <3>10. z.got[n] = a * s * (b * p)
      <4> HIDE DEF a, s, p, b
      <4> QED BY <3>8, <3>9
    <3> QED BY <3>6, <3>7, <3>10
  <2>8. CASE arg = "As"
    <3>1. "hidden" \in DOMAIN x.coords \cap DOMAIN y.coords /\ "token" \in DOMAIN x.coords \cap DOMAIN y.coords
      BY <1>2, <2>8, Axes DEF Places, Factor
    <3>2. ~Disagree(x.coords["hidden"], y.coords["hidden"], n) /\ ~Disagree(x.coords["token"], y.coords["token"], n)
      BY <3>1, <2>3 DEF Mispaired
    <3>3. /\ x.coords["hidden"].at[n] \in Nat /\ y.coords["hidden"].at[n] \in Nat
          /\ x.coords["hidden"].group = 1 /\ y.coords["hidden"].group = G /\ G \in Nat \ {0}
      BY <1>2, <2>3, <2>8, Axes, Sizes DEF Places, Factor, AtK
    <3>4. y.coords["hidden"].at[n] = k \div G
      BY <2>3, <3>2, <3>3, Agree DEF AtK
    <3>5. /\ x.coords["token"].at[n] \in Nat /\ y.coords["token"].at[n] \in Nat
          /\ x.coords["token"].group = 1 /\ y.coords["token"].group = 1
      BY <1>2, <2>3, <2>8, Axes, Sizes DEF Places, Factor, AtRow
    <3>6. y.coords["token"].at[n] = t
      BY <2>3, <3>2, <3>5, Agree DEF AtRow
    <3>7. y.got[n] = As[<<t, k \div G>>]
      BY <2>3, <2>8, <3>4, <3>6 DEF Factor, AtK, AtRow
    <3>8. x.applied = 0 /\ z.applied = 1 /\ z.factors - z.applied = x.factors - x.applied
      BY <1>2, <1>5, <1>11, <2>8
    <3> DEFINE a == A[<<t, k>>]  s == As[<<t, k \div G>>]  p == Power(B[k], x.factors - x.applied)
    <3>9. a \in Int /\ s \in Int /\ p \in Int
      BY <2>6
    <3>10. z.got[n] = (a * 1 * p) * s
      BY <2>4, <2>5, <3>7, <3>8 DEF Scaled
    <3>11. z.got[n] = a * s * p
      <4> HIDE DEF a, s, p
      <4> QED BY <3>9, <3>10
    <3> QED BY <3>8, <3>11 DEF Scaled
  <2> QED BY <2>7, <2>8
<1>12. z.sums = <<>> /\ z.extras = FALSE
  BY <1>5
<1>13. TileRight(z)
  BY <1>6, <1>7, <1>8, <1>9, <1>10, <1>11, <1>12 DEF TileRight
<1> QED BY <1>13 DEF z

LEMMA PairedRow ==
    ASSUME NEW x, NEW y, x \in Values("row", {"token"}), Factor(y, "As", "row")
    PROVE  Paired(x, y) = x.coords
<1>1. x.form = "row"
  BY DEF Values
<1>2. x.coords \in [{"token"} -> [at : [Lanes("row") -> Int], group : {1}]]
  BY DEF Values, Places
<1>3. DOMAIN y.coords = {"token", "hidden"} /\ y.coords["token"].group = 1
  BY Axes DEF Factor
<1>4. MeetsSum(y, x)
  BY <1>1, <1>2, <1>3 DEF MeetsSum, IsSum
<1>5. (DOMAIN x.coords \cup DOMAIN y.coords) \ {"hidden"} = {"token"} /\ DOMAIN x.coords = {"token"}
  BY <1>2, <1>3
<1>6. x.coords["token"].group <= y.coords["token"].group
  <2>1. x.coords["token"].group = 1
    BY <1>2
  <2> QED BY <1>3, <2>1
<1>7. Paired(x, y) = [a \in {"token"} |-> x.coords[a]]
  BY <1>3, <1>4, <1>5, <1>6 DEF Paired
<1> QED BY <1>2, <1>7

(* A scale beside a sum is the scale of every term of it.                      *)
LEMMA OneGroup ==
    ASSUME NEW x, NEW y, x \in Values("row", {"token"}), Factor(y, "As", "row"), ~Mispaired(x, y),
           NEW n \in x.valid \cap y.valid, NEW k \in Hidden, Summing(x, n[1], k) # {}
    PROVE  k \div G = AtK(y)[n]
<1>1. x.form = "row" /\ "hidden" \in DOMAIN y.coords /\ y.coords["hidden"].group = G /\ "hidden" \notin DOMAIN x.coords
  BY Axes DEF Values, Places, Factor
<1>2. n \in RowLanes /\ n[1] \in Programs /\ x.sums \in Seq(Ranges)
  BY Sizes DEF Values, RowLanes
<1>3. PICK i \in DOMAIN x.sums : x.sums[i][n[1]].lo <= k /\ k < x.sums[i][n[1]].lo + x.sums[i][n[1]].count
  BY DEF Summing
<1> DEFINE r == x.sums[i]
<1>4. r \in Ranges
  BY <1>2, <1>3
<1>5. PICK lo \in Nat, count \in Nat : lo = r[n[1]].lo /\ count = r[n[1]].count
  BY <1>2, <1>4 DEF Ranges
<1>6. ~BesideSum(y, x, x.valid \cap y.valid)
  BY <1>1 DEF Mispaired, MeetsSum, IsSum
<1>7. lo <= k /\ k < lo + count /\ count > 0 /\ k \in Nat /\ lo + count - 1 \in Nat
  BY <1>3, <1>5, Sizes
<1>8. ~Spans(y.coords["hidden"], r, n[1]) /\ y.coords["hidden"].at[n] = lo \div G
  BY <1>1, <1>2, <1>5, <1>6, <1>7 DEF BesideSum
<1>9. lo \div G = (lo + count - 1) \div G
  BY <1>1, <1>5, <1>8 DEF Spans
<1>10. lo \div G <= k \div G /\ k \div G <= (lo + count - 1) \div G
  BY <1>7, DivideGrows, Axes
<1>11. lo \div G \in Nat /\ k \div G \in Nat
  BY <1>7, Divide, Axes
<1> QED BY <1>8, <1>9, <1>10, <1>11 DEF AtK

LEMMA TimesRow ==
    ASSUME NEW x, NEW y, RowRight(x), Factor(y, "As", "row"), ~Mispaired(x, y), x.factors < MaxFactors
    PROVE  RowRight(Times(x, y, "As"))
<1> DEFINE z == Times(x, y, "As")
           both == x.valid \cap y.valid
<1>1. x \in Values("row", {"token"})
  BY DEF RowRight
<1>2. /\ x.coords \in Places("row", {"token"}) /\ x.valid \in SUBSET RowLanes
      /\ x.factors \in 0..MaxFactors /\ x.applied \in Nat /\ x.zeroed \in BOOLEAN /\ x.got \in [RowLanes -> Int]
  BY <1>1, Sizes DEF Values
<1>3. y.valid \in SUBSET RowLanes /\ y.zeroed \in BOOLEAN /\ y.got \in [RowLanes -> Int]
  BY Sizes DEF Factor
<1>4. Paired(x, y) = x.coords
  BY <1>1, PairedRow
<1>5. /\ z.form = "row" /\ z.coords = x.coords /\ z.valid = both /\ z.sums = x.sums /\ z.extras = x.extras
      /\ z.factors = x.factors + 1 /\ z.applied = x.applied + 1
      /\ z.got = [n \in RowLanes |-> x.got[n] * y.got[n]]
  BY <1>1, <1>2, <1>4 DEF Times, Values
<1>6. z \in Values("row", {"token"})
  <2>1. [n \in RowLanes |-> x.got[n] * y.got[n]] \in [RowLanes -> Int]
    BY <1>2, <1>3
  <2>2. x.factors + 1 \in 0..MaxFactors /\ x.applied + 1 \in Nat /\ both \in SUBSET RowLanes
    BY <1>2, <1>3, BoundAssumption
  <2> QED BY <1>1, <1>2, <1>4, <2>1, <2>2, Sizes DEF Times, Values
<1> HIDE DEF z
<1>7. ASSUME z.extras = FALSE, z.applied <= 1
      PROVE  \E W \in [Hidden -> Int] : Weighed(z, W)
  <2>1. x.extras = FALSE /\ x.applied = 0 /\ z.applied = 1
    BY <1>2, <1>5, <1>7
  <2>2. PICK W \in [Hidden -> Int] : Weighed(x, W)
    BY <2>1 DEF RowRight
  <2>3. ASSUME NEW n \in both
        PROVE  /\ AtRow(z)[n] \in Tokens
               /\ z.got[n] = SumTo([k \in Hidden |-> A[<<AtRow(z)[n], k>>] * Scaled(AtRow(z)[n], k, z.applied) * W[k]], K)
    <3>1. PICK t \in Tokens : t = AtRow(x)[n]
      BY <2>2 DEF Weighed
    <3> DEFINE f == [k \in Hidden |-> A[<<t, k>>] * Scaled(t, k, 0) * W[k]]
               g == [k \in Hidden |-> A[<<t, k>>] * Scaled(t, k, 1) * W[k]]
               s == As[<<t, AtK(y)[n]>>]
    <3>2. x.got[n] = SumTo(f, K)
      BY <2>1, <2>2, <3>1 DEF Weighed
    <3>3. "token" \in DOMAIN x.coords \cap DOMAIN y.coords
      BY <1>2, Axes DEF Places, Factor
    <3>4. ~Disagree(x.coords["token"], y.coords["token"], n)
      BY <3>3 DEF Mispaired
    <3>5. /\ x.coords["token"].at[n] \in Nat /\ y.coords["token"].at[n] \in Nat
          /\ x.coords["token"].group = 1 /\ y.coords["token"].group = 1
      BY <1>2, <3>1, Axes, Sizes DEF Places, Factor, AtRow
    <3>6. y.coords["token"].at[n] = t
      BY <3>1, <3>4, <3>5, Agree DEF AtRow
    <3>7. y.got[n] = s /\ s \in Int
      BY <1>3, <3>6 DEF Factor, AtRow
    <3>8. \A k \in Hidden : A[<<t, k>>] \in Int /\ W[k] \in Int /\ As[<<t, k \div G>>] \in Int
      BY Elements
    <3>9. ASSUME NEW k \in Hidden PROVE f[k] \in Int /\ g[k] = f[k] * s
      <4>1. PICK a \in Int, v \in Int, q \in Int : a = A[<<t, k>>] /\ v = W[k] /\ q = As[<<t, k \div G>>]
        BY <3>8
      <4>2. f[k] = a * 1 * v /\ g[k] = a * q * v
        BY <4>1 DEF Scaled
      <4>3. v = 0 \/ q = s
        <5>1. CASE Summing(x, n[1], k) = {}
          BY <2>2, <4>1, <5>1 DEF Weighed
        <5>2. CASE Summing(x, n[1], k) # {}
          <6>1. k \div G = AtK(y)[n]
            BY <1>1, <5>2, OneGroup
          <6> QED BY <4>1, <6>1
        <5> QED BY <5>1, <5>2
      <4> HIDE DEF f, g, s
      <4>4. CASE v = 0
        <5>1. f[k] = 0 /\ g[k] = 0
          BY <4>1, <4>2, <4>4
        <5> QED BY <3>7, <5>1
      <4>5. CASE q = s
        BY <4>1, <4>2, <4>5
      <4> QED BY <4>3, <4>4, <4>5
    <3> HIDE DEF f, s
    <3>10. SumTo(g, K) = SumTo(f, K) * s
      <4>1. Ints(f, K) /\ \A k \in 0..K - 1 : g[k] = f[k] * s
        BY <3>9 DEF Ints, Hidden
      <4> HIDE DEF g
      <4> QED BY <3>7, <4>1, SumTimes, Sizes
    <3>11. z.got[n] = SumTo(g, K)
      BY <1>2, <1>5, <3>2, <3>7, <3>10
    <3>12. AtRow(z)[n] = t
      BY <1>5, <3>1 DEF AtRow
    <3> QED BY <2>1, <3>11, <3>12
  <2>4. ASSUME NEW n \in both, NEW k \in Hidden
        PROVE  /\ Summing(z, n[1], k) = {} => W[k] = 0
               /\ (\E i : Summing(z, n[1], k) = {i})
                     => \E e \in Nat : e + z.applied <= z.factors + 1 /\ W[k] = Power(B[k], e)
    <3>1. Summing(z, n[1], k) = Summing(x, n[1], k)
      BY <1>5 DEF Summing
    <3>2. ASSUME \E i : Summing(x, n[1], k) = {i}
          PROVE  \E e \in Nat : e + z.applied <= z.factors + 1 /\ W[k] = Power(B[k], e)
      <4>1. PICK e \in Nat : e + x.applied <= x.factors + 1 /\ W[k] = Power(B[k], e)
        BY <2>2, <3>2 DEF Weighed
      <4>2. e + z.applied <= z.factors + 1
        BY <1>2, <1>5, <4>1
      <4> QED BY <4>1, <4>2
    <3>3. Summing(x, n[1], k) = {} => W[k] = 0
      BY <2>2 DEF Weighed
    <3> QED BY <3>1, <3>2, <3>3
  <2>5. Weighed(z, W)
    BY <1>5, <2>3, <2>4 DEF Weighed
  <2> QED BY <2>5
<1>8. RowRight(z)
  BY <1>6, <1>7 DEF RowRight
<1> QED BY <1>8 DEF z

(* Adding: with the same rows on both sides, the weights add up.               *)
LEMMA SummingBoth ==
    ASSUME NEW x, NEW y, NEW z, x.sums \in Seq(Ranges), y.sums \in Seq(Ranges), z.sums = x.sums \o y.sums,
           NEW p, NEW k
    PROVE  \A i : i \in Summing(z, p, k) <=> \/ i \in Summing(x, p, k)
                                             \/ i - Len(x.sums) \in Summing(y, p, k) /\ i \in Nat
<1> DEFINE a == x.sums  b == y.sums
<1>1. Len(a) \in Nat /\ Len(b) \in Nat /\ DOMAIN a = 1..Len(a) /\ DOMAIN b = 1..Len(b)
  OBVIOUS
<1>2. DOMAIN (a \o b) = 1..Len(a) + Len(b)
  <2>1. a \o b \in Seq(Ranges) /\ Len(a \o b) = Len(a) + Len(b)
    BY ConcatProperties
  <2> QED BY <2>1
<1>3. \A i \in 1..Len(a) : (a \o b)[i] = a[i]
  <2>1. PICK m \in Nat, n \in Nat : m = Len(a) /\ n = Len(b)
    BY <1>1
  <2>2. \A i \in 1..m : i \in 1..m + n /\ i <= m
    OBVIOUS
  <2> QED BY <2>1, <2>2, ConcatProperties
<1>4. \A i \in Len(a) + 1..Len(a) + Len(b) : (a \o b)[i] = b[i - Len(a)]
  BY <1>1, ConcatProperties
<1>5. SUFFICES ASSUME NEW i
      PROVE i \in Summing(z, p, k) <=> i \in Summing(x, p, k) \/ (i - Len(a) \in Summing(y, p, k) /\ i \in Nat)
  OBVIOUS
<1> DEFINE has(r) == r[p].lo <= k /\ k < r[p].lo + r[p].count
           c == a \o b
<1>6. /\ i \in Summing(z, p, k) <=> i \in DOMAIN c /\ has(c[i])
      /\ i \in Summing(x, p, k) <=> i \in DOMAIN a /\ has(a[i])
      /\ i - Len(a) \in Summing(y, p, k) <=> i - Len(a) \in DOMAIN b /\ has(b[i - Len(a)])
  BY DEF Summing
<1> HIDE DEF has, a, b, c
<1>7. c = a \o b
  BY DEF c
<1>8. CASE i \in 1..Len(a)
  <2>1. i - Len(a) \notin 1..Len(b)
    BY <1>1, <1>8
  <2> QED BY <1>1, <1>2, <1>3, <1>6, <1>7, <1>8, <2>1
<1>9. CASE i \in Nat /\ i \notin 1..Len(a)
  <2>1. i \in 1..Len(a) + Len(b) <=> i - Len(a) \in 1..Len(b)
    BY <1>1, <1>9
  <2>2. i \in 1..Len(a) + Len(b) => c[i] = b[i - Len(a)]
    BY <1>1, <1>4, <1>7, <1>9
  <2> QED BY <1>1, <1>2, <1>6, <1>7, <1>9, <2>1, <2>2
<1>10. CASE i \notin Nat
  BY <1>1, <1>2, <1>6, <1>7, <1>10
<1> QED BY <1>8, <1>9, <1>10 DEF a

LEMMA PlusRow ==
    ASSUME NEW x, NEW y, RowRight(x), RowRight(y), ~Mispaired(x, y), x.applied = y.applied, x.valid = y.valid
    PROVE  RowRight(Plus(x, y))
<1> DEFINE z == Plus(x, y)
<1>1. x \in Values("row", {"token"}) /\ y \in Values("row", {"token"})
  BY DEF RowRight
<1>2. /\ x.coords \in Places("row", {"token"}) /\ x.valid \in SUBSET RowLanes /\ x.sums \in Seq(Ranges)
      /\ x.factors \in 0..MaxFactors /\ x.applied \in Nat /\ x.zeroed \in BOOLEAN /\ x.got \in [RowLanes -> Int]
      /\ x.extras \in BOOLEAN
  BY <1>1, Sizes DEF Values
<1>3. /\ y.coords \in Places("row", {"token"}) /\ y.valid \in SUBSET RowLanes /\ y.sums \in Seq(Ranges)
      /\ y.factors \in 0..MaxFactors /\ y.applied \in Nat /\ y.zeroed \in BOOLEAN /\ y.got \in [RowLanes -> Int]
      /\ y.extras \in BOOLEAN
  BY <1>1, Sizes DEF Values
<1>4. Paired(x, y) = x.coords
  <2>1. x.coords \in [{"token"} -> [at : [Lanes("row") -> Int], group : {1}]]
        /\ y.coords \in [{"token"} -> [at : [Lanes("row") -> Int], group : {1}]]
    BY <1>2, <1>3 DEF Places
  <2>2. ~MeetsSum(x, y) /\ ~MeetsSum(y, x)
    BY <2>1 DEF MeetsSum, IsSum
  <2>3. (DOMAIN x.coords \cup DOMAIN y.coords) \ {} = {"token"} /\ DOMAIN x.coords = {"token"}
        /\ DOMAIN y.coords = {"token"}
    BY <2>1
  <2>4. x.coords["token"].group = 1 /\ y.coords["token"].group = 1
    BY <2>1
  <2>5. Paired(x, y) = [a \in {"token"} |-> x.coords[a]]
    BY <2>2, <2>3, <2>4 DEF Paired
  <2> QED BY <2>1, <2>5
<1> DEFINE most == IF y.factors > x.factors THEN y.factors ELSE x.factors
<1>5. /\ z.form = "row" /\ z.coords = x.coords /\ z.valid = x.valid /\ z.sums = x.sums \o y.sums
      /\ z.extras = (x.extras \/ y.extras) /\ z.factors = most /\ z.applied = x.applied
      /\ z.got = [n \in RowLanes |-> x.got[n] + y.got[n]]
  BY <1>1, <1>2, <1>4 DEF Plus, Values
<1>6. most \in 0..MaxFactors /\ x.factors <= most /\ y.factors <= most
  BY <1>2, <1>3
<1>7. z \in Values("row", {"token"})
  <2>1. [n \in RowLanes |-> x.got[n] + y.got[n]] \in [RowLanes -> Int]
    BY <1>2, <1>3
  <2>2. x.sums \o y.sums \in Seq(Ranges)
    BY <1>2, <1>3
  <2> HIDE DEF most
  <2>3. most \in 0..MaxFactors
    BY <1>6
  <2> QED BY <1>1, <1>2, <1>3, <1>4, <2>1, <2>2, <2>3, Sizes DEF Plus, Values, most
<1> HIDE DEF z, most
<1>8. ASSUME z.extras = FALSE, z.applied <= 1
      PROVE  \E W \in [Hidden -> Int] : Weighed(z, W)
  <2>1. x.extras = FALSE /\ y.extras = FALSE /\ x.applied <= 1 /\ y.applied <= 1
    BY <1>2, <1>3, <1>5, <1>8
  <2>2. PICK U \in [Hidden -> Int] : Weighed(x, U)
    BY <2>1 DEF RowRight
  <2>3. PICK V \in [Hidden -> Int] : Weighed(y, V)
    BY <2>1 DEF RowRight
  <2> DEFINE W == [k \in Hidden |-> U[k] + V[k]]
  <2>4. W \in [Hidden -> Int]
    OBVIOUS
  <2>5. ASSUME NEW n \in x.valid
        PROVE  /\ AtRow(z)[n] \in Tokens
               /\ z.got[n] = SumTo([k \in Hidden |-> A[<<AtRow(z)[n], k>>] * Scaled(AtRow(z)[n], k, z.applied) * W[k]], K)
    <3>1. PICK t \in Tokens : t = AtRow(x)[n]
      BY <2>2 DEF Weighed
    <3>2. n \in RowLanes /\ n \in x.valid \cap y.valid
      BY <1>2
    <3>3. "token" \in DOMAIN x.coords \cap DOMAIN y.coords
      BY <1>2, <1>3 DEF Places
    <3>4. ~Disagree(x.coords["token"], y.coords["token"], n)
      BY <3>2, <3>3 DEF Mispaired
    <3>5. AtRow(y)[n] \in Tokens
      BY <2>3, <3>2 DEF Weighed
    <3>6. /\ x.coords["token"].at[n] \in Nat /\ y.coords["token"].at[n] \in Nat
          /\ x.coords["token"].group = 1 /\ y.coords["token"].group = 1
      BY <1>2, <1>3, <3>1, <3>5, Sizes DEF Places, AtRow
    <3>7. AtRow(y)[n] = t
      BY <3>1, <3>4, <3>6, Agree DEF AtRow
    <3> DEFINE m == x.applied
               f == [k \in Hidden |-> A[<<t, k>>] * Scaled(t, k, m) * U[k]]
               g == [k \in Hidden |-> A[<<t, k>>] * Scaled(t, k, m) * V[k]]
               h == [k \in Hidden |-> A[<<t, k>>] * Scaled(t, k, m) * W[k]]
    <3>8. x.got[n] = SumTo(f, K) /\ y.got[n] = SumTo(g, K)
      BY <2>2, <2>3, <3>1, <3>2, <3>7 DEF Weighed
    <3>9. ASSUME NEW k \in Hidden PROVE f[k] \in Int /\ g[k] \in Int /\ h[k] = f[k] + g[k]
      <4>1. A[<<t, k>>] \in Int /\ Scaled(t, k, m) \in Int /\ U[k] \in Int /\ V[k] \in Int
        BY Elements DEF Scaled
      <4>2. PICK a \in Int, s \in Int, u \in Int, v \in Int :
                a = A[<<t, k>>] /\ s = Scaled(t, k, m) /\ u = U[k] /\ v = V[k]
        BY <4>1
      <4>3. f[k] = a * s * u /\ g[k] = a * s * v /\ h[k] = a * s * (u + v)
        BY <4>2
      <4>4. a * s * (u + v) = a * s * u + a * s * v
        OBVIOUS
      <4> HIDE DEF f, g, h
      <4> QED BY <4>3, <4>4
    <3> HIDE DEF f, g, h
    <3>10. SumTo(h, K) = SumTo(f, K) + SumTo(g, K)
      <4>1. Ints(f, K) /\ Ints(g, K) /\ \A k \in 0..K - 1 : h[k] = f[k] + g[k]
        BY <3>9 DEF Ints, Hidden
      <4> QED BY <4>1, SumAdd, Sizes
    <3>11. z.got[n] = SumTo(h, K)
      BY <1>2, <1>5, <3>2, <3>8, <3>10
    <3>12. AtRow(z)[n] = t
      BY <1>5, <3>1 DEF AtRow
    <3> QED BY <1>5, <3>11, <3>12 DEF h
  <2>6. ASSUME NEW n \in x.valid, NEW k \in Hidden
        PROVE  /\ Summing(z, n[1], k) = {} => W[k] = 0
               /\ (\E i : Summing(z, n[1], k) = {i})
                     => \E e \in Nat : e + z.applied <= z.factors + 1 /\ W[k] = Power(B[k], e)
    <3> DEFINE X == Summing(x, n[1], k)  Y == Summing(y, n[1], k)  Z == Summing(z, n[1], k)
    <3>1. \A i : i \in Z <=> i \in X \/ (i - Len(x.sums) \in Y /\ i \in Nat)
      BY <1>2, <1>3, <1>5, SummingBoth
    <3>2. X \subseteq Nat /\ Y \subseteq Nat /\ (\A i \in Y : i + Len(x.sums) \in Nat)
          /\ (\A i \in X : i <= Len(x.sums)) /\ (\A i \in Y : i > 0) /\ Len(x.sums) \in Nat
      BY <1>2, <1>3 DEF Summing
    <3> HIDE DEF X, Y, Z
    <3>3. \A j \in Y : (j + Len(x.sums)) - Len(x.sums) = j /\ j + Len(x.sums) \in Z
      <4>1. SUFFICES ASSUME NEW j \in Y
                     PROVE  (j + Len(x.sums)) - Len(x.sums) = j /\ j + Len(x.sums) \in Z
        OBVIOUS
      <4>2. PICK q \in Nat : q = j + Len(x.sums)
        BY <3>2
      <4>3. q - Len(x.sums) = j
        BY <3>2, <4>2
      <4> QED BY <3>1, <4>2, <4>3
    <3>4. Z = {} => X = {} /\ Y = {}
      BY <3>1, <3>3
    <3>5. /\ X = {} => U[k] = 0
          /\ Y = {} => V[k] = 0
          /\ (\E i : X = {i}) => \E e \in Nat : e + x.applied <= x.factors + 1 /\ U[k] = Power(B[k], e)
          /\ (\E i : Y = {i}) => \E e \in Nat : e + y.applied <= y.factors + 1 /\ V[k] = Power(B[k], e)
      BY <2>2, <2>3 DEF Weighed, X, Y
    <3>6. W[k] = U[k] + V[k] /\ U[k] \in Int /\ V[k] \in Int
      OBVIOUS
    <3> HIDE DEF W
    <3>7. ASSUME NEW i, Z = {i}
          PROVE  \E e \in Nat : e + z.applied <= z.factors + 1 /\ W[k] = Power(B[k], e)
      <4>1. CASE X # {}
        <5>1. PICK j : j \in X
          BY <4>1
        <5>2. j = i /\ X = {i}
          BY <3>1, <3>7, <5>1
        <5>3. Y = {}
          <6>1. SUFFICES ASSUME NEW q \in Y PROVE FALSE
            OBVIOUS
          <6>2. q + Len(x.sums) = i
            BY <3>3, <3>7
          <6> QED BY <3>2, <5>1, <5>2, <6>2
        <5>4. PICK e \in Nat : e + x.applied <= x.factors + 1 /\ U[k] = Power(B[k], e)
          BY <3>5, <5>2
        <5>5. W[k] = Power(B[k], e)
          BY <3>5, <3>6, <5>3, <5>4
        <5>6. e + z.applied <= z.factors + 1
          BY <1>2, <1>5, <1>6, <5>4
        <5> QED BY <5>5, <5>6
      <4>2. CASE X = {}
        <5>1. i \in Z /\ i - Len(x.sums) \in Y
          BY <3>1, <3>7, <4>2
        <5>2. Y = {i - Len(x.sums)}
          <6>1. SUFFICES ASSUME NEW q \in Y PROVE q = i - Len(x.sums)
            BY <5>1
          <6>2. q + Len(x.sums) = i
            BY <3>3, <3>7
          <6> QED BY <3>2, <6>2
        <5>3. PICK e \in Nat : e + y.applied <= y.factors + 1 /\ V[k] = Power(B[k], e)
          BY <3>5, <5>2
        <5>4. W[k] = Power(B[k], e)
          BY <3>5, <3>6, <4>2, <5>3
        <5>5. e + z.applied <= z.factors + 1
          BY <1>2, <1>3, <1>5, <1>6, <5>3
        <5> QED BY <5>4, <5>5
      <4> QED BY <4>1, <4>2
    <3>8. Z = {} => W[k] = 0
      BY <3>4, <3>5, <3>6
    <3> QED BY <3>7, <3>8 DEF Z
  <2> HIDE DEF W
  <2>7. Weighed(z, W)
    BY <1>5, <2>5, <2>6 DEF Weighed
  <2> QED BY <2>4, <2>7
<1>9. RowRight(z)
  BY <1>7, <1>8 DEF RowRight
<1> QED BY <1>9 DEF z

-----------------------------------------------------------------------------
(* Summing over the lanes of a tile.                                           *)
Ahead(p, X) == {<<p, 0, j>> : j \in X}
Weight(from, X, e) == [k \in Hidden |-> IF k - from \in X THEN Power(B[k], e) ELSE 0]

LEMMA AheadFinite ==
    ASSUME NEW p \in Programs, NEW X \in SUBSET (0..T - 1)
    PROVE  IsFiniteSet(Ahead(p, X)) /\ Ahead(p, X) \in SUBSET TileLanes
<1>1. IsFiniteSet(X)
  <2>1. 0 \in Int /\ T - 1 \in Int
    BY Sizes
  <2>2. IsFiniteSet(0..T - 1)
    BY <2>1, FS_Interval
  <2> QED BY <2>2, FS_Subset
<1> DEFINE f == [j \in X |-> <<p, 0, j>>]
<1>2. f \in Surjection(X, Ahead(p, X))
  BY DEF Surjection, Ahead
<1>3. IsFiniteSet(Ahead(p, X))
  <2> HIDE DEF f
  <2> QED BY <1>1, <1>2, FS_Surjection
<1> QED BY <1>3, Sizes DEF Ahead, TileLanes

LEMMA RangeIs ==
    ASSUME NEW at, NEW lanes, IsFiniteSet(lanes), \A n \in lanes : at[n] \in Nat
    PROVE  RangeOf(at, lanes) \in [lo : Nat, count : Nat]
<1>1. CASE lanes = {}
  BY <1>1 DEF RangeOf
<1>2. CASE lanes # {}
  <2> DEFINE S == {at[n] : n \in lanes}
  <2>1. S \in SUBSET Nat /\ S # {}
    BY <1>2
  <2>2. \E m \in S : \A n \in S : m <= n
    <3> HIDE DEF S
    <3> QED BY <2>1, LeastNat
  <2>3. Min(S) \in S
    <3> HIDE DEF S
    <3> QED BY <2>2 DEF Min
  <2>4. Cardinality(lanes) \in Nat
    BY FS_CardinalityType
  <2>5. RangeOf(at, lanes) = [lo |-> Min(S), count |-> Cardinality(lanes)]
    BY <1>2 DEF RangeOf
  <2> HIDE DEF S
  <2>6. Min(S) \in Nat
    BY <2>1, <2>3
  <2> QED BY <2>4, <2>5, <2>6
<1> QED BY <1>1, <1>2

LEMMA RangeHas ==
    ASSUME NEW at, NEW p \in Programs, NEW from \in Hidden, NEW X \in SUBSET (0..T - 1), X # {},
           \A j \in X : at[<<p, 0, j>>] = from + j, ~Gaps(at, Ahead(p, X)), NEW k \in Hidden
    PROVE  LET r == RangeOf(at, Ahead(p, X)) IN (r.lo <= k /\ k < r.lo + r.count) <=> k - from \in X
<1> DEFINE r == RangeOf(at, Ahead(p, X))
           S == {at[n] : n \in Ahead(p, X)}
<1>1. \A n \in Ahead(p, X) : at[n] \in Nat
  BY Sizes DEF Ahead
<1>2. IsFiniteSet(Ahead(p, X))
  BY AheadFinite
<1>3. r \in [lo : Nat, count : Nat]
  BY <1>1, <1>2, RangeIs
<1>4. S = r.lo..r.lo + r.count - 1
  BY DEF Gaps
<1>5. k \in S <=> k - from \in X
  <2>1. k \in Nat /\ from \in Nat
    BY Sizes
  <2>2. k \in S <=> \E j \in X : k = from + j
    BY DEF Ahead
  <2>3. \A j \in X : j \in Int /\ (k = from + j <=> j = k - from)
    BY <2>1
  <2> QED BY <2>2, <2>3
<1> HIDE DEF S, r
<1>6. k \in S <=> r.lo <= k /\ k < r.lo + r.count
  <2>1. k \in Nat
    BY Sizes
  <2> QED BY <1>3, <1>4, <2>1
<1> QED BY <1>5, <1>6 DEF r

LEMMA WeightIs ==
    ASSUME NEW from \in Hidden, NEW X \in SUBSET (0..T - 1), NEW e \in Nat
    PROVE  Weight(from, X, e) \in [Hidden -> Int]
<1>1. \A k \in Hidden : Power(B[k], e) \in Int
  BY Elements, PowerSteps
<1> QED BY <1>1 DEF Weight

Terms(f, t, times, from, X, e) ==
    /\ \A j \in 0..T - 1 : j \notin X => f[j] = 0
    /\ \A j \in X : /\ from + j \in Hidden
                    /\ f[j] = A[<<t, from + j>>] * Scaled(t, from + j, times) * Power(B[from + j], e)

LEMMA LanesSum ==
    ASSUME NEW t \in Tokens, NEW times, NEW e \in Nat, NEW from \in Hidden, NEW X \in SUBSET (0..T - 1), NEW f,
           Terms(f, t, times, from, X, e)
    PROVE  SumTo(f, T) = SumTo([k \in Hidden |-> A[<<t, k>>] * Scaled(t, k, times) * Weight(from, X, e)[k]], K)
<1>0. /\ \A j \in 0..T - 1 : j \notin X => f[j] = 0
      /\ \A j \in X : /\ from + j \in Hidden
                      /\ f[j] = A[<<t, from + j>>] * Scaled(t, from + j, times) * Power(B[from + j], e)
  BY DEF Terms
<1> DEFINE g == [k \in Hidden |-> A[<<t, k>>] * Scaled(t, k, times) * Weight(from, X, e)[k]]
<1>1. \A k \in Hidden : A[<<t, k>>] \in Int /\ Scaled(t, k, times) \in Int /\ Power(B[k], e) \in Int
  <2>1. SUFFICES ASSUME NEW k \in Hidden
                 PROVE  A[<<t, k>>] \in Int /\ Scaled(t, k, times) \in Int /\ Power(B[k], e) \in Int
    OBVIOUS
  <2>2. A[<<t, k>>] \in Int /\ As[<<t, k \div G>>] \in Int /\ B[k] \in Int
    BY Elements
  <2>3. Power(B[k], e) \in Int
    BY <2>2, PowerSteps
  <2>4. Scaled(t, k, times) \in Int
    BY <2>2 DEF Scaled
  <2> QED BY <2>2, <2>3, <2>4
<1>2. ASSUME NEW k \in Hidden
      PROVE  /\ g[k] \in Int
             /\ k - from \in X => g[k] = A[<<t, k>>] * Scaled(t, k, times) * Power(B[k], e)
             /\ k - from \notin X => g[k] = 0
  <2>1. PICK a \in Int, s \in Int, w \in Int : a = A[<<t, k>>] /\ s = Scaled(t, k, times) /\ w = Weight(from, X, e)[k]
    BY <1>1, WeightIs
  <2>2. g[k] = a * s * w
    BY <2>1
  <2>3. k - from \notin X => w = 0
    BY <2>1 DEF Weight
  <2>4. k - from \in X => w = Power(B[k], e)
    BY <2>1 DEF Weight
  <2>5. a * s * w \in Int /\ (w = 0 => a * s * w = 0)
    OBVIOUS
  <2> HIDE DEF g
  <2> QED BY <2>1, <2>2, <2>3, <2>4, <2>5
<1> HIDE DEF g
<1>3. T \in Nat /\ K \in Nat /\ from \in 0..K /\ Hidden = 0..K - 1 /\ from \in Nat
  BY Sizes DEF Hidden
<1>4. Ints(g, K)
  BY <1>2, <1>3 DEF Ints
<1> USE <1>0
<1>5. ASSUME NEW j \in X PROVE f[j] \in Int
  <2>1. PICK k \in Hidden : k = from + j
    BY <1>5
  <2>2. PICK a \in Int, s \in Int, w \in Int : a = A[<<t, k>>] /\ s = Scaled(t, k, times) /\ w = Power(B[k], e)
    BY <1>1
  <2>3. f[j] = a * s * w
    BY <2>1, <2>2
  <2> QED BY <2>3
<1>6. Ints(f, T)
  <2>1. SUFFICES ASSUME NEW j \in 0..T - 1 PROVE f[j] \in Int
    BY DEF Ints
  <2>2. CASE j \in X
    BY <1>5, <2>2
  <2>3. CASE j \notin X
    BY <2>3
  <2> QED BY <2>2, <2>3
<1>7. ASSUME NEW i \in 0..T - 1, i + from > K - 1 PROVE f[i] = 0
  <2>1. i \notin X
    <3>1. SUFFICES ASSUME i \in X PROVE FALSE
      OBVIOUS
    <3>2. from + i \in 0..K - 1
      BY <1>3, <3>1
    <3> QED BY <1>3, <1>7, <3>2
  <2> QED BY <2>1
<1>8. ASSUME NEW i \in 0..T - 1, i + from <= K - 1 PROVE g[i + from] = f[i]
  <2>1. PICK k \in Hidden : k = i + from /\ k = from + i /\ k - from = i
    BY <1>3, <1>8
  <2>2. CASE i \in X
    BY <1>2, <2>1, <2>2
  <2>3. CASE i \notin X
    BY <1>2, <2>1, <2>3
  <2> QED BY <2>2, <2>3
<1>9. ASSUME NEW k \in 0..K - 1, k < from \/ k > from + T - 1 PROVE g[k] = 0
  <2>1. k - from \notin 0..T - 1 /\ k \in Hidden
    BY <1>3, <1>9
  <2> QED BY <1>2, <2>1
<1>10. SumTo(f, T) = SumTo(g, K)
  <2>1. \A i \in 0..T - 1 : i + from > K - 1 => f[i] = 0
    BY <1>7
  <2>2. \A i \in 0..T - 1 : i + from <= K - 1 => g[i + from] = f[i]
    BY <1>8
  <2>3. \A k \in 0..K - 1 : k < from \/ k > from + T - 1 => g[k] = 0
    BY <1>9
  <2>4. Shifted(f, T, g, K, from)
    BY <2>1, <2>2, <2>3 DEF Shifted
  <2> QED BY <1>3, <1>4, <1>6, <2>4, SumShift
<1> QED BY <1>10 DEF g

(* The parts of a row made of a tile.                                          *)
LEMMA RowPlaces ==
    ASSUME ~OneLane, NEW x, x \in Values("tile", {"token", "hidden"})
    PROVE  /\ RowCoords(x) \in Places("row", {"token"})
           /\ \A n \in RowLanes : RowCoords(x)["token"].at[n] = AtRow(x)[n]
<1>1. x.coords \in [{"token", "hidden"} -> [at : [TileLanes -> Int], group : {1}]]
  BY Sizes DEF Values, Places
<1> DEFINE c == x.coords["token"]
           d == [c EXCEPT !.at = [n \in RowLanes |-> @[n]]]
<1>2. c \in [at : [TileLanes -> Int], group : {1}]
  BY <1>1
<1>3. d.at = [n \in RowLanes |-> c.at[n]] /\ d \in [at : [RowLanes -> Int], group : {1}]
  <2>1. RowLanes \subseteq TileLanes
    BY Sizes
  <2>2. [n \in RowLanes |-> c.at[n]] \in [RowLanes -> Int]
    BY <1>2, <2>1
  <2> HIDE DEF c
  <2> QED BY <1>2, <2>2
<1>4. RowCoords(x) = [axis \in {"token"} |-> d]
  BY Sizes DEF RowCoords, Carried
<1> HIDE DEF c, d
<1>5. RowCoords(x) \in Places("row", {"token"})
  BY <1>3, <1>4, Sizes DEF Places
<1>6. \A n \in RowLanes : RowCoords(x)["token"].at[n] = c.at[n]
  BY <1>3, <1>4
<1> QED BY <1>5, <1>6 DEF c, AtRow

(* Both sums over lanes make a row, once their lanes hold the terms of one     *)
(* range of k for every row there is.                                          *)
LanesOf(x, z, from, X, lanes) ==
    /\ \A n \in RowLanes : AtRow(z)[n] = AtRow(x)[n]
    /\ z.sums = <<[p \in Programs |-> RangeOf(AtK(x), lanes[p])]>>
    /\ \A n \in z.valid : /\ AtRow(x)[n] \in Tokens /\ X # {} /\ lanes[n[1]] = Ahead(n[1], X)
                         /\ ~Gaps(AtK(x), lanes[n[1]])
                         /\ \A j \in X : AtK(x)[<<n[1], 0, j>>] = from + j
Summed(x, z, from, X, e) ==
    \A n \in z.valid : \E f : z.got[n] = SumTo(f, T) /\ Terms(f, AtRow(x)[n], x.applied, from, X, e)

LEMMA RowOfLanes ==
    ASSUME NEW x, TileRight(x), NEW z, NEW from \in Hidden, NEW X \in SUBSET (0..T - 1), NEW e \in Nat, NEW lanes,
           z \in Values("row", {"token"}), z.applied = x.applied, e + z.applied <= z.factors + 1,
           LanesOf(x, z, from, X, lanes), Summed(x, z, from, X, e)
    PROVE  RowRight(z)
<1> USE DEF LanesOf
<1> DEFINE W == Weight(from, X, e)
<1>1. SUFFICES Weighed(z, W)
  <2>1. W \in [Hidden -> Int]
    BY WeightIs
  <2> HIDE DEF W
  <2> QED BY <2>1 DEF RowRight
<1>2. z.valid \in SUBSET RowLanes
  BY Sizes DEF Values
<1>3. ASSUME NEW n \in z.valid
      PROVE  /\ AtRow(z)[n] \in Tokens
             /\ z.got[n] = SumTo([k \in Hidden |-> A[<<AtRow(z)[n], k>>] * Scaled(AtRow(z)[n], k, z.applied) * W[k]], K)
  <2>1. PICK t \in Tokens : t = AtRow(x)[n] /\ t = AtRow(z)[n]
    BY <1>2
  <2>2. PICK f : z.got[n] = SumTo(f, T) /\ Terms(f, t, z.applied, from, X, e)
    BY <2>1 DEF Summed
  <2>3. SumTo(f, T) = SumTo([k \in Hidden |-> A[<<t, k>>] * Scaled(t, k, z.applied) * Weight(from, X, e)[k]], K)
    BY <2>2, LanesSum
  <2> QED BY <2>1, <2>2, <2>3
<1>4. ASSUME NEW n \in z.valid, NEW k \in Hidden
      PROVE  /\ Summing(z, n[1], k) = {} => W[k] = 0
             /\ (\E i : Summing(z, n[1], k) = {i})
                   => \E d \in Nat : d + z.applied <= z.factors + 1 /\ W[k] = Power(B[k], d)
  <2>1. n[1] \in Programs
    BY <1>2 DEF RowLanes
  <2>2. PICK p \in Programs : p = n[1]
    BY <2>1
  <2> DEFINE r == RangeOf(AtK(x), Ahead(p, X))
  <2>3. (r.lo <= k /\ k < r.lo + r.count) <=> k - from \in X
    BY <2>2, RangeHas
  <2>4. DOMAIN z.sums = {1} /\ z.sums[1][p] = r
    <3>1. lanes[p] = Ahead(p, X)
      BY <2>2
    <3>2. z.sums[1] = [q \in Programs |-> RangeOf(AtK(x), lanes[q])] /\ DOMAIN z.sums = {1}
      OBVIOUS
    <3> QED BY <3>1, <3>2
  <2> HIDE DEF r
  <2>5. Summing(z, p, k) = IF k - from \in X THEN {1} ELSE {}
    BY <2>3, <2>4 DEF Summing
  <2>6. k - from \in X => W[k] = Power(B[k], e)
    BY DEF Weight
  <2>7. k - from \notin X => W[k] = 0
    BY DEF Weight
  <2> HIDE DEF W
  <2> QED BY <2>2, <2>5, <2>6, <2>7
<1> HIDE DEF W
<1> QED BY <1>3, <1>4 DEF Weighed

LEMMA ReducedRow ==
    ASSUME ~OneLane, NEW x, TileRight(x), ~RowChanges(x), ~RaggedMask(x), ~SumsMasked(x),
           \A p \in Programs : ~Gaps(AtK(x), Read(x, p))
    PROVE  RowRight(Reduced(x))
<1> DEFINE z == Reduced(x)
           lanes == [p \in Programs |-> Read(x, p)]
<1>1. x \in Values("tile", {"token", "hidden"}) /\ x.sums = <<>> /\ x.extras = FALSE
  BY DEF TileRight
<1>2. /\ x.coords \in [{"token", "hidden"} -> [at : [TileLanes -> Int], group : {1}]]
      /\ x.valid \in SUBSET TileLanes /\ x.factors \in 0..MaxFactors /\ x.applied \in Nat
      /\ x.got \in [TileLanes -> Int]
  BY <1>1, Sizes DEF Values, Places
<1>3. PICK from \in Hidden, w \in [0..T - 1 -> Nat] : Consecutive(x, from, w)
  BY DEF TileRight
<1>4. PICK V \in SUBSET (Programs \X (0..R - 1)), X \in SUBSET (0..T - 1) :
          \A n \in TileLanes : n \in x.valid <=> <<n[1], n[2]>> \in V /\ n[3] \in X
  BY DEF TileRight, ByRowAndLane
<1>5. ASSUME NEW n \in TileLanes PROVE AtK(x)[n] = from + n[3] /\ AtRow(x)[n] = AtRow(x)[InRow(n)]
  <2>1. AtRow(x)[n] = AtRow(x)[InRow(n)]
    BY <1>2 DEF RowChanges, AtRow
  <2>2. InRow(n) \in TileLanes /\ n[3] \in 0..T - 1
    BY Sizes DEF InRow, TileLanes
  <2>3. AtRow(x)[n] \in Int /\ AtRow(x)[InRow(n)] \in Int /\ w[n[3]] \in Nat
    BY <1>2, <2>2 DEF AtRow
  <2>4. AtRow(x)[n] = AtRow(x)[InRow(n)] + w[n[3]] /\ AtK(x)[n] = from + n[3] - K * w[n[3]]
    BY <1>3 DEF Consecutive
  <2>5. w[n[3]] = 0
    BY <2>1, <2>3, <2>4
  <2> QED BY <2>1, <2>2, <2>4, <2>5, Sizes
<1>6. ASSUME NEW p \in Programs PROVE Read(x, p) = Ahead(p, KOf(x, p, 0)) /\ KOf(x, p, 0) \in SUBSET (0..T - 1)
  BY DEF Read, Ahead, KOf
<1>7. ASSUME NEW p \in Programs PROVE RangeOf(AtK(x), Read(x, p)) \in [lo : Nat, count : Nat]
  <2>1. IsFiniteSet(Read(x, p)) /\ Read(x, p) \subseteq TileLanes
    BY <1>6, AheadFinite
  <2>2. \A n \in Read(x, p) : AtK(x)[n] \in Nat
    <3>1. SUFFICES ASSUME NEW n \in TileLanes PROVE AtK(x)[n] \in Nat
      BY <2>1
    <3>2. n[3] \in Nat /\ from \in Nat
      BY Sizes DEF TileLanes
    <3> QED BY <1>5, <3>2
  <2> QED BY <2>1, <2>2, RangeIs
<1>8. /\ z.form = "row" /\ z.coords = RowCoords(x) /\ z.valid = {InRow(n) : n \in x.valid}
      /\ z.sums = <<[p \in Programs |-> RangeOf(AtK(x), Read(x, p))]>> /\ z.extras = FALSE
      /\ z.factors = x.factors /\ z.applied = x.applied
      /\ z.got = [n \in RowLanes |-> SumTo([j \in 0..T - 1 |-> x.got[<<n[1], n[2], j>>]], T)]
  BY <1>1, Sizes DEF Reduced, Values
<1>9. z \in Values("row", {"token"})
  <2>1. {InRow(n) : n \in x.valid} \in SUBSET RowLanes
    BY <1>2 DEF InRow, RowLanes, TileLanes
  <2>2. <<[p \in Programs |-> RangeOf(AtK(x), Read(x, p))]>> \in Seq(Ranges)
    <3>1. [p \in Programs |-> RangeOf(AtK(x), Read(x, p))] \in Ranges
      BY <1>7 DEF Ranges
    <3> QED BY <3>1
  <2>3. [n \in RowLanes |-> SumTo([j \in 0..T - 1 |-> x.got[<<n[1], n[2], j>>]], T)] \in [RowLanes -> Int]
    <3>1. SUFFICES ASSUME NEW n \in RowLanes PROVE SumTo([j \in 0..T - 1 |-> x.got[<<n[1], n[2], j>>]], T) \in Int
      OBVIOUS
    <3> DEFINE f == [j \in 0..T - 1 |-> x.got[<<n[1], n[2], j>>]]
    <3>2. \A j \in 0..T - 1 : <<n[1], n[2], j>> \in TileLanes
      BY DEF RowLanes, TileLanes
    <3>3. Ints(f, T)
      BY <1>2, <3>2 DEF Ints
    <3> HIDE DEF f
    <3>4. SumTo(f, T) \in Int
      BY <3>3, Sizes, SumSteps
    <3> QED BY <3>4 DEF f
  <2>4. RowCoords(x) \in Places("row", {"token"})
    BY <1>1, RowPlaces
  <2> QED BY <1>1, <1>2, <2>1, <2>2, <2>3, <2>4, Sizes DEF Reduced, Values
<1> HIDE DEF z
<1>10. \A n \in RowLanes : AtRow(z)[n] = AtRow(x)[n]
  BY <1>1, <1>8, RowPlaces DEF AtRow
<1>11. z.sums = <<[p \in Programs |-> RangeOf(AtK(x), lanes[p])]>>
  BY <1>8
<1>12. ASSUME NEW n \in z.valid
       PROVE  /\ AtRow(x)[n] \in Tokens /\ X # {} /\ lanes[n[1]] = Ahead(n[1], X)
              /\ ~Gaps(AtK(x), lanes[n[1]])
              /\ \A j \in X : AtK(x)[<<n[1], 0, j>>] = from + j
              /\ n \in RowLanes /\ <<n[1], n[2]>> \in V /\ n = <<n[1], n[2], 0>>
  <2>1. PICK m \in x.valid : n = InRow(m)
    BY <1>8, <1>12
  <2>2. m \in TileLanes /\ n \in RowLanes /\ n[1] = m[1] /\ n[2] = m[2] /\ n = <<n[1], n[2], 0>>
    BY <1>2, <2>1 DEF InRow, TileLanes, RowLanes
  <2>3. <<n[1], n[2]>> \in V /\ m[3] \in X
    BY <1>4, <2>2
  <2>4. AtRow(x)[n] \in Tokens
    <3>1. AtRow(x)[m] \in Tokens
      BY DEF TileRight
    <3> QED BY <1>5, <2>1, <2>2, <3>1
  <2>5. PICK p \in Programs, i \in 0..R - 1 : p = n[1] /\ i = n[2]
    BY <2>2 DEF RowLanes
  <2>6. KOf(x, p, i) = X
    <3>1. \A j \in 0..T - 1 : <<p, i, j>> \in TileLanes
      BY DEF TileLanes
    <3>2. \A j \in 0..T - 1 : <<p, i, j>> \in x.valid <=> j \in X
      BY <1>4, <2>3, <2>5, <3>1
    <3> QED BY <3>2 DEF KOf
  <2>7. KOf(x, p, 0) = X
    BY <2>5, <2>6, Sizes DEF RaggedMask
  <2>8. \A j \in X : AtK(x)[<<p, 0, j>>] = from + j
    <3>1. SUFFICES ASSUME NEW j \in X PROVE AtK(x)[<<p, 0, j>>] = from + j
      OBVIOUS
    <3>2. <<p, 0, j>> \in TileLanes
      BY Sizes DEF TileLanes
    <3> QED BY <1>5, <3>2
  <2> QED BY <1>6, <2>2, <2>3, <2>4, <2>5, <2>7, <2>8
<1>13. ASSUME z.applied <= 1, NEW n \in z.valid
       PROVE  \E f : /\ z.got[n] = SumTo(f, T)
                     /\ Terms(f, AtRow(x)[n], x.applied, from, X, x.factors - x.applied)
  <2> DEFINE f == [j \in 0..T - 1 |-> x.got[<<n[1], n[2], j>>]]
  <2>1. z.got[n] = SumTo(f, T)
    BY <1>8, <1>12
  <2>2. ASSUME NEW j \in 0..T - 1 PROVE <<n[1], n[2], j>> \in TileLanes
    BY <1>12 DEF RowLanes, TileLanes
  <2>3. ASSUME NEW j \in 0..T - 1, j \notin X PROVE f[j] = 0
    <3>1. <<n[1], n[2], j>> \notin x.valid
      BY <1>4, <2>2, <2>3
    <3>2. x.got[<<n[1], n[2], j>>] = 0
      BY <1>2, <2>2, <3>1 DEF SumsMasked
    <3> QED BY <3>2
  <2>4. ASSUME NEW j \in X
        PROVE  /\ from + j \in Hidden
               /\ f[j] = A[<<AtRow(x)[n], from + j>>] * Scaled(AtRow(x)[n], from + j, x.applied)
                         * Power(B[from + j], x.factors - x.applied)
    <3>1. PICK m \in TileLanes : m = <<n[1], n[2], j>>
      BY <2>2
    <3>2. m \in x.valid /\ InRow(m) = n
      BY <1>4, <1>12, <3>1 DEF InRow
    <3>3. AtK(x)[m] = from + j /\ AtRow(x)[m] = AtRow(x)[n]
      BY <1>5, <3>1, <3>2
    <3>4. AtK(x)[m] \in Hidden /\ x.got[m] = A[<<AtRow(x)[m], AtK(x)[m]>>] * Scaled(AtRow(x)[m], AtK(x)[m], x.applied)
                                             * Power(B[AtK(x)[m]], x.factors - x.applied)
      BY <1>8, <1>13, <3>2 DEF TileRight
    <3>5. f[j] = x.got[m]
      BY <3>1
    <3> QED BY <3>3, <3>4, <3>5
  <2> HIDE DEF f
  <2>5. Terms(f, AtRow(x)[n], x.applied, from, X, x.factors - x.applied)
    BY <2>3, <2>4 DEF Terms
  <2> QED BY <2>1, <2>5
<1> HIDE DEF lanes
<1>14. ASSUME z.applied <= 1 PROVE RowRight(z)
  <2>1. x.factors - x.applied \in Nat /\ (x.factors - x.applied) + z.applied <= z.factors + 1
    BY <1>2, <1>8, <1>14 DEF TileRight
  <2>2. PICK e \in Nat : e = x.factors - x.applied /\ e + z.applied <= z.factors + 1
    BY <2>1
  <2>3. LanesOf(x, z, from, X, lanes)
    BY <1>10, <1>11, <1>12 DEF LanesOf
  <2>4. Summed(x, z, from, X, e)
    BY <1>13, <1>14, <2>2 DEF Summed
  <2> QED BY <1>8, <1>9, <2>2, <2>3, <2>4, RowOfLanes
<1>15. ASSUME ~(z.applied <= 1) PROVE RowRight(z)
  BY <1>9, <1>15 DEF RowRight
<1> QED BY <1>14, <1>15 DEF z

(* B is read at consecutive k, whatever the row.                               *)
AheadInB(y, from, Y) ==
    /\ \A n \in TileLanes : AtK(y)[n] = from + n[3]
    /\ \A n \in TileLanes : n \in y.valid <=> n[3] \in Y

LEMMA NoWrap ==
    ASSUME NEW a \in Nat, NEW b \in Nat, NEW i \in Nat, NEW v \in Nat, a < K, a + i - K * v = b + i
    PROVE  a = b /\ v = 0
<1>1. PICK q \in Nat : q = K * v
  BY Sizes
<1>2. a = b + q
  BY <1>1
<1>3. v = 0
  <2>1. SUFFICES ASSUME v >= 1 PROVE FALSE
    OBVIOUS
  <2>2. K * v >= K
    BY <2>1, Sizes
  <2> QED BY <1>1, <1>2, <2>2, Sizes
<1>4. q = 0
  BY <1>1, <1>3, Sizes
<1> QED BY <1>2, <1>3, <1>4

LEMMA DottedRow ==
    ASSUME NEW x, NEW y, TileRight(x), Factor(y, "B", "tile"), ~DotUnproven(x, y), ~DotDisagrees(x, y),
           NEW start \in Hidden, NEW Y \in SUBSET (0..T - 1), AheadInB(y, start, Y),
           \A p \in Programs : ~Gaps(AtK(x), Live(x, y, p))
    PROVE  RowRight(Dotted(x, y))
<1> DEFINE z == Dotted(x, y)
           lanes == [p \in Programs |-> Live(x, y, p)]
<1>0. ~OneLane
  BY DEF DotUnproven, NothingContracted
<1>1. x \in Values("tile", {"token", "hidden"}) /\ x.sums = <<>> /\ x.extras = FALSE
  BY DEF TileRight
<1>2. /\ x.coords \in [{"token", "hidden"} -> [at : [TileLanes -> Int], group : {1}]]
      /\ x.valid \in SUBSET TileLanes /\ x.factors \in 0..MaxFactors /\ x.applied \in Nat
      /\ x.got \in [TileLanes -> Int] /\ y.got \in [TileLanes -> Int]
  BY <1>1, Sizes DEF Values, Places, Factor
<1>3. PICK from \in Hidden, w \in [0..T - 1 -> Nat] : Consecutive(x, from, w)
  BY DEF TileRight
<1>4. PICK V \in SUBSET (Programs \X (0..R - 1)), X \in SUBSET (0..T - 1) :
          \A n \in TileLanes : n \in x.valid <=> <<n[1], n[2]>> \in V /\ n[3] \in X
  BY DEF TileRight, ByRowAndLane
<1>5. x.zeroed /\ ~MasksDiffer(x, y) /\ ~NotATile(x) /\ ZeroOutside(x)
  BY DEF DotUnproven, TileRight
<1>6. ASSUME NEW p \in Programs PROVE KRead(x, p) \in SUBSET (0..T - 1) /\ KRead(y, p) = Y
  <2>1. \A i \in 0..R - 1, j \in 0..T - 1 : <<p, i, j>> \in TileLanes
    BY DEF TileLanes
  <2>2. \A i \in 0..R - 1 : KOf(y, p, i) = Y
    BY <2>1 DEF AheadInB, KOf
  <2>3. 0 \in 0..R - 1
    BY Sizes
  <2>4. KRead(y, p) = Y
    BY <2>2, <2>3 DEF KRead
  <2>5. KRead(x, p) \in SUBSET (0..T - 1)
    BY DEF KRead, KOf
  <2> QED BY <2>4, <2>5
<1>7. ASSUME NEW p \in Programs PROVE RangeOf(AtK(x), Live(x, y, p)) \in [lo : Nat, count : Nat]
  <2>1. Live(x, y, p) = {} \/ Live(x, y, p) = Ahead(p, KRead(x, p) \cap KRead(y, p))
    BY DEF Live, Ahead
  <2>2. KRead(x, p) \cap KRead(y, p) \in SUBSET (0..T - 1)
    BY <1>6
  <2>3. IsFiniteSet(Live(x, y, p)) /\ Live(x, y, p) \subseteq TileLanes
    <3>1. CASE Live(x, y, p) = {}
      BY <3>1, FS_EmptySet
    <3>2. CASE Live(x, y, p) = Ahead(p, KRead(x, p) \cap KRead(y, p))
      <4>1. PICK S \in SUBSET (0..T - 1) : S = KRead(x, p) \cap KRead(y, p)
        BY <2>2
      <4> QED BY <3>2, <4>1, AheadFinite
    <3> QED BY <2>1, <3>1, <3>2
  <2>4. \A n \in Live(x, y, p) : AtK(x)[n] \in Nat
    <3>1. SUFFICES ASSUME NEW n \in TileLanes PROVE AtK(x)[n] \in Nat
      BY <2>3
    <3>2. AtK(x)[n] \in Int /\ AtK(x)[n] >= 0
      BY <1>2, <1>3 DEF Consecutive, AtK
    <3> QED BY <3>2
  <2> QED BY <2>3, <2>4, RangeIs
<1>8. /\ z.form = "row" /\ z.coords = RowCoords(x)
      /\ z.valid = {n \in RowLanes : n[2] \in RowsOf(x, n[1]) /\ KRead(y, n[1]) # {}}
      /\ z.sums = <<[p \in Programs |-> RangeOf(AtK(x), Live(x, y, p))]>> /\ z.extras = FALSE
      /\ z.factors = x.factors /\ z.applied = x.applied
      /\ z.got = [n \in RowLanes |-> SumTo([j \in 0..T - 1 |-> x.got[<<n[1], n[2], j>>] * y.got[<<n[1], n[2], j>>]], T)]
  BY <1>1, Sizes DEF Dotted, Values
<1>9. z \in Values("row", {"token"})
  <2>1. {n \in RowLanes : n[2] \in RowsOf(x, n[1]) /\ KRead(y, n[1]) # {}} \in SUBSET RowLanes
    OBVIOUS
  <2>2. <<[p \in Programs |-> RangeOf(AtK(x), Live(x, y, p))]>> \in Seq(Ranges)
    <3>1. [p \in Programs |-> RangeOf(AtK(x), Live(x, y, p))] \in Ranges
      BY <1>7 DEF Ranges
    <3> QED BY <3>1
  <2>3. [n \in RowLanes |-> SumTo([j \in 0..T - 1 |-> x.got[<<n[1], n[2], j>>] * y.got[<<n[1], n[2], j>>]], T)]
            \in [RowLanes -> Int]
    <3>1. SUFFICES ASSUME NEW n \in RowLanes
                   PROVE SumTo([j \in 0..T - 1 |-> x.got[<<n[1], n[2], j>>] * y.got[<<n[1], n[2], j>>]], T) \in Int
      OBVIOUS
    <3> DEFINE f == [j \in 0..T - 1 |-> x.got[<<n[1], n[2], j>>] * y.got[<<n[1], n[2], j>>]]
    <3>2. \A j \in 0..T - 1 : <<n[1], n[2], j>> \in TileLanes
      BY DEF RowLanes, TileLanes
    <3>3. Ints(f, T)
      <4>1. \A j \in 0..T - 1 : x.got[<<n[1], n[2], j>>] \in Int /\ y.got[<<n[1], n[2], j>>] \in Int
        BY <1>2, <3>2
      <4> QED BY <4>1 DEF Ints
    <3> HIDE DEF f
    <3>4. SumTo(f, T) \in Int
      BY <3>3, Sizes, SumSteps
    <3> QED BY <3>4 DEF f
  <2>4. RowCoords(x) \in Places("row", {"token"})
    BY <1>0, <1>1, RowPlaces
  <2> QED BY <1>1, <1>2, <2>1, <2>2, <2>3, <2>4, Sizes DEF Dotted, Values
<1> HIDE DEF z
<1>10. \A n \in RowLanes : AtRow(z)[n] = AtRow(x)[n]
  BY <1>0, <1>1, <1>8, RowPlaces DEF AtRow
<1>11. z.sums = <<[p \in Programs |-> RangeOf(AtK(x), lanes[p])]>>
  BY <1>8
(* Where a row is live both operands are read at the same k, before any row ends. *)
<1>12. ASSUME NEW n \in z.valid
       PROVE  /\ n \in RowLanes /\ n = <<n[1], n[2], 0>> /\ <<n[1], n[2]>> \in V /\ X # {} /\ X = Y /\ n[1] \in Programs
              /\ lanes[n[1]] = Ahead(n[1], X)
              /\ \A j \in X : from = start /\ w[j] = 0
  <2>1. n \in RowLanes /\ n[2] \in RowsOf(x, n[1]) /\ KRead(y, n[1]) # {}
    BY <1>8
  <2>2. PICK p \in Programs, i \in 0..R - 1 : n = <<p, i, 0>> /\ p = n[1] /\ i = n[2]
    BY <2>1 DEF RowLanes
  <2>3. KOf(x, p, i) # {} /\ i \in RowsOf(x, p)
    BY <2>1, <2>2 DEF RowsOf
  <2>4. \A j \in 0..T - 1 : <<p, i, j>> \in TileLanes
    BY DEF TileLanes
  <2>5. <<p, i>> \in V
    BY <1>4, <2>3, <2>4 DEF KOf
  <2>6. KOf(x, p, i) = X
    <3>1. \A j \in 0..T - 1 : <<p, i, j>> \in x.valid <=> j \in X
      BY <1>4, <2>4, <2>5
    <3> QED BY <3>1 DEF KOf
  <2>7. KRead(x, p) = X
    BY <1>5, <2>3, <2>6 DEF NotATile
  <2>8. X = Y
    BY <1>5, <1>6, <2>1, <2>2, <2>3, <2>7 DEF MasksDiffer
  <2>9. Live(x, y, p) = Ahead(p, X)
    BY <1>6, <2>3, <2>7, <2>8 DEF Live, Ahead
  <2>10. ASSUME NEW j \in X PROVE from = start /\ w[j] = 0
    <3>0. <<p, 0, j>> \in Ahead(p, X)
      BY DEF Ahead
    <3>1. PICK m \in TileLanes : m = <<p, 0, j>> /\ m[3] = j
      BY <3>0, AheadFinite
    <3>2. ~Disagree(x.coords["hidden"], y.coords["hidden"], m)
      BY <1>6, <2>7, <2>8, <3>1 DEF DotDisagrees
    <3>3. AtK(x)[m] = from + j - K * w[j] /\ AtK(x)[m] >= 0 /\ AtK(y)[m] = start + j
      BY <1>3, <3>1 DEF Consecutive, AheadInB
    <3>4. AtK(x)[m] \in Nat /\ AtK(y)[m] \in Nat /\ j \in Nat /\ start \in Nat /\ from \in 0..K - 1 /\ w[j] \in Nat
      <4>1. AtK(x)[m] \in Int
        BY <1>2 DEF AtK
      <4>2. j \in Nat /\ start \in Nat /\ from \in 0..K - 1 /\ w[j] \in Nat
        BY Sizes DEF Hidden
      <4> QED BY <3>3, <4>1, <4>2
    <3>5. /\ x.coords["hidden"].group = 1 /\ y.coords["hidden"].group = 1
          /\ x.coords["hidden"].at[m] \in Nat /\ y.coords["hidden"].at[m] \in Nat
      BY <1>2, <3>4, Axes DEF Factor, AtK
    <3>6. AtK(x)[m] = AtK(y)[m]
      <4>1. x.coords["hidden"].at[m] = y.coords["hidden"].at[m]
        BY <3>2, <3>5, Agree
      <4> QED BY <4>1 DEF AtK
    <3>7. from \in Nat /\ from < K
      BY <3>4, Sizes
    <3>8. from + j - K * w[j] = start + j
      BY <3>3, <3>6
    <3> QED BY <3>4, <3>7, <3>8, NoWrap
  <2> QED BY <2>1, <2>2, <2>3, <2>5, <2>6, <2>8, <2>9, <2>10
<1>13. ASSUME NEW n \in z.valid, NEW m \in TileLanes, m[3] \in X
       PROVE  AtK(x)[m] = from + m[3] /\ AtK(y)[m] = from + m[3] /\ AtRow(x)[m] = AtRow(x)[InRow(m)]
  <2>1. w[m[3]] = 0 /\ from = start
    BY <1>12, <1>13
  <2>2. AtRow(x)[InRow(m)] \in Int
    <3>1. InRow(m) \in TileLanes
      BY Sizes DEF InRow, TileLanes
    <3> QED BY <1>2, <3>1 DEF AtRow
  <2>3. m[3] \in Nat /\ from \in Nat
    BY Sizes DEF TileLanes
  <2> QED BY <1>3, <2>1, <2>2, <2>3, Sizes DEF Consecutive, AheadInB
<1>14. LanesOf(x, z, from, X, lanes)
  <2>1. ASSUME NEW n \in z.valid
        PROVE  /\ AtRow(x)[n] \in Tokens /\ X # {} /\ lanes[n[1]] = Ahead(n[1], X)
               /\ ~Gaps(AtK(x), lanes[n[1]])
               /\ \A j \in X : AtK(x)[<<n[1], 0, j>>] = from + j
    <3>1. PICK j \in X : TRUE
      BY <1>12
    <3>2. PICK m \in TileLanes : m = <<n[1], n[2], j>>
      BY <1>12 DEF RowLanes, TileLanes
    <3>3. m \in x.valid /\ InRow(m) = n
      BY <1>4, <1>12, <3>2 DEF InRow
    <3>4. AtRow(x)[n] \in Tokens
      BY <1>13, <3>2, <3>3 DEF TileRight
    <3>5. \A i \in X : <<n[1], 0, i>> \in TileLanes
      BY <1>12, Sizes DEF TileLanes
    <3>6. \A i \in X : AtK(x)[<<n[1], 0, i>>] = from + i
      BY <1>13, <3>5
    <3>7. ~Gaps(AtK(x), lanes[n[1]])
      BY <1>12
    <3> QED BY <1>12, <3>4, <3>6, <3>7
  <2> HIDE DEF lanes
  <2> QED BY <1>10, <1>11, <2>1 DEF LanesOf
<1>15. ASSUME z.applied <= 1 PROVE RowRight(z)
  <2>1. x.factors - x.applied \in Nat
    BY <1>2, <1>8, <1>15 DEF TileRight
  <2>2. PICK e \in Nat : e = x.factors - x.applied
    BY <2>1
  <2>3. e + 1 \in Nat /\ e + 1 + z.applied <= z.factors + 1
    BY <1>2, <1>8, <2>2
  <2>4. Summed(x, z, from, X, e + 1)
    <3>1. SUFFICES ASSUME NEW n \in z.valid
                   PROVE  \E f : z.got[n] = SumTo(f, T) /\ Terms(f, AtRow(x)[n], x.applied, from, X, e + 1)
      BY DEF Summed
    <3> DEFINE f == [j \in 0..T - 1 |-> x.got[<<n[1], n[2], j>>] * y.got[<<n[1], n[2], j>>]]
    <3>2. z.got[n] = SumTo(f, T)
      BY <1>8, <1>12
    <3>3. \A j \in 0..T - 1 : <<n[1], n[2], j>> \in TileLanes
      BY <1>12 DEF RowLanes, TileLanes
    <3>4. ASSUME NEW j \in 0..T - 1, j \notin X PROVE f[j] = 0
      <4>1. PICK m \in TileLanes : m = <<n[1], n[2], j>> /\ m \notin x.valid
        BY <1>4, <3>3, <3>4
      <4>2. x.got[m] = 0 /\ y.got[m] \in Int /\ f[j] = x.got[m] * y.got[m]
        BY <1>2, <1>5, <4>1 DEF ZeroOutside
      <4> HIDE DEF f
      <4> QED BY <4>2
    <3>5. ASSUME NEW j \in X
          PROVE  /\ from + j \in Hidden
                 /\ f[j] = A[<<AtRow(x)[n], from + j>>] * Scaled(AtRow(x)[n], from + j, x.applied)
                           * Power(B[from + j], e + 1)
      <4>1. PICK m \in TileLanes : m = <<n[1], n[2], j>> /\ m[3] = j
        BY <3>3
      <4>2. m \in x.valid /\ InRow(m) = n /\ m \in y.valid
        BY <1>4, <1>12, <4>1 DEF InRow, AheadInB
      <4>3. AtK(x)[m] = from + j /\ AtK(y)[m] = from + j /\ AtRow(x)[m] = AtRow(x)[n]
        BY <1>13, <4>1, <4>2
      <4>4. PICK t \in Tokens, k \in Hidden : t = AtRow(x)[n] /\ k = from + j /\ t = AtRow(x)[m] /\ k = AtK(x)[m]
        BY <4>2, <4>3 DEF TileRight
      <4>5. x.got[m] = A[<<t, k>>] * Scaled(t, k, x.applied) * Power(B[k], e)
        BY <1>8, <1>15, <2>2, <4>2, <4>4 DEF TileRight
      <4>6. y.got[m] = B[k]
        BY <4>2, <4>3, <4>4 DEF Factor
      <4>7. f[j] = x.got[m] * y.got[m]
        BY <4>1
      <4>8. Power(B[k], e + 1) = B[k] * Power(B[k], e) /\ Power(B[k], e) \in Int /\ B[k] \in Int
        BY Elements, PowerSteps
      <4>9. A[<<t, k>>] \in Int /\ Scaled(t, k, x.applied) \in Int
        BY Elements DEF Scaled
      <4>10. PICK a \in Int, s \in Int, b \in Int, q \in Int :
                 a = A[<<t, k>>] /\ s = Scaled(t, k, x.applied) /\ b = B[k] /\ q = Power(B[k], e)
        BY <4>8, <4>9
      <4> HIDE DEF f
      <4>11. f[j] = (a * s * q) * b /\ Power(B[k], e + 1) = b * q
        BY <4>5, <4>6, <4>7, <4>8, <4>10
      <4>12. (a * s * q) * b = a * s * (b * q)
        OBVIOUS
      <4> QED BY <4>4, <4>10, <4>11, <4>12
    <3> HIDE DEF f
    <3>6. Terms(f, AtRow(x)[n], x.applied, from, X, e + 1)
      BY <3>4, <3>5 DEF Terms
    <3> QED BY <3>2, <3>6
  <2> HIDE DEF lanes
  <2> QED BY <1>8, <1>9, <1>14, <2>3, <2>4, RowOfLanes
<1>16. ASSUME ~(z.applied <= 1) PROVE RowRight(z)
  BY <1>9, <1>16 DEF RowRight
<1> QED BY <1>15, <1>16 DEF z

-----------------------------------------------------------------------------
(* Loads: what is read in bounds is what stands there.                         *)
AllLoads ==
    [arg : {"A", "B", "As"}, rows : {"own", "next"}, from : Nat, along : BOOLEAN,
     mask : {"none", "inside", "rest", "one row"}, fill : Int]

LEMMA LoadsAre ==
    /\ Windows("A") \subseteq AllLoads /\ Windows("B") \subseteq AllLoads
    /\ \A along \in BOOLEAN : \A l \in ScaleReads(along) : l.arg # "Xs" => l \in AllLoads /\ l.arg = "As"
<1>1. Hidden \subseteq Nat /\ Fills \subseteq Int /\ TileMasks \subseteq {"none", "inside", "rest", "one row"}
  BY Sizes, MaskAssumption
<1>2. {G * g : g \in Groups} \subseteq Nat
  <2>1. \A g \in Groups : g \in Nat
    BY DEF Groups
  <2> QED BY <2>1, Sizes
<1>3. Windows("A") \subseteq AllLoads /\ Windows("B") \subseteq AllLoads
  BY <1>1 DEF Windows, AllLoads
<1>4. ASSUME NEW along \in BOOLEAN, NEW l \in ScaleReads(along), l.arg # "Xs"
      PROVE  l \in AllLoads /\ l.arg = "As"
  <2> DEFINE from == IF along THEN Hidden ELSE {G * g : g \in Groups}
  <2>1. from \subseteq Nat
    BY <1>1, <1>2
  <2> HIDE DEF from
  <2>2. l \in [arg : {"As", "Xs"}, rows : {"own", "next"}, from : from, along : {along}, mask : {"inside"}, fill : {0}]
    BY DEF ScaleReads, from
  <2>3. l.arg = "As" /\ l.rows \in {"own", "next"} /\ l.from \in Nat /\ l.along \in BOOLEAN
        /\ l.mask \in {"none", "inside", "rest", "one row"} /\ l.fill \in Int
    <3>1. l.arg \in {"As", "Xs"} /\ l.rows \in {"own", "next"} /\ l.from \in from /\ l.along \in {along}
          /\ l.mask \in {"inside"} /\ l.fill \in {0}
      BY <2>2
    <3>2. l.along = along /\ l.mask = "inside" /\ l.fill = 0 /\ 0 \in Int
      BY <3>1
    <3> QED BY <1>4, <2>1, <3>1, <3>2
  <2>4. l = [arg |-> l.arg, rows |-> l.rows, from |-> l.from, along |-> l.along, mask |-> l.mask, fill |-> l.fill]
    BY <2>2
  <2> QED BY <2>3, <2>4 DEF AllLoads
<1> QED BY <1>3, <1>4

LEMMA Places1 ==
    ASSUME rowAt \in [Programs -> Nat], NEW l \in AllLoads, NEW n \in TileLanes
    PROVE  /\ RowOf(l, n) \in Nat /\ KAt(l, n) \in Nat
           /\ At(l, "token", n) \in Nat /\ At(l, "hidden", n) \in Nat
<1>1. n[1] \in Programs /\ n[2] \in Nat /\ n[3] \in Nat
  BY Sizes DEF TileLanes
<1>2. RowOf(l, n) \in Nat
  BY <1>1 DEF RowOf
<1>3. KAt(l, n) \in Nat
  <2>1. Grain(l.arg) \in Nat \ {0}
    BY Sizes DEF Grain
  <2>2. PICK a \in Nat : a = l.from + (IF l.along THEN n[3] ELSE 0)
    <3>1. l.from \in Nat /\ n[3] \in Nat
      BY <1>1 DEF AllLoads
    <3>2. l.from + n[3] \in Nat /\ l.from + 0 \in Nat
      BY <3>1
    <3> QED BY <3>2
  <2>3. PICK g \in Nat \ {0} : g = Grain(l.arg)
    BY <2>1
  <2>4. KAt(l, n) = a \div g
    BY <2>2, <2>3 DEF KAt
  <2> QED BY <2>4, Divide
<1>4. PICK k \in Nat : k = KAt(l, n)
  BY <1>3
<1>5. k \div K \in Nat /\ k % K \in Nat
  <2>1. PICK c \in Nat \ {0} : c = K
    BY Sizes
  <2>2. k \div c \in Nat /\ k % c \in 0..c - 1
    BY Divide
  <2> QED BY <2>1, <2>2
<1> QED BY <1>2, <1>3, <1>4, <1>5 DEF At

LEMMA GroupsSize == Cardinality(Groups) = (K - 1) \div G + 1 /\ \A g \in Nat : g < Cardinality(Groups) => g \in Groups
<1>1. PICK m \in Nat : m = (K - 1) \div G
  <2>1. K - 1 \in Nat
    BY Sizes
  <2> QED BY <2>1, Divide, Sizes
<1>2. Groups = 0..m
  BY <1>1 DEF Groups
<1>3. Cardinality(0..m) = m + 1
  BY FS_Interval
<1> QED BY <1>1, <1>2, <1>3

Loaded(y, l, form) ==
    /\ y.form = form /\ y.sums = <<>> /\ y.factors = 0 /\ y.applied = 0 /\ y.extras = FALSE
    /\ y.coords \in [AxesOf(l.arg) -> [at : [Lanes(form) -> Int], group : Nat]]
    /\ \A axis \in AxesOf(l.arg), n \in Lanes(form) : y.coords[axis].at[n] = At(l, axis, n)
    /\ \A axis \in AxesOf(l.arg) : y.coords[axis].group = IF axis = "hidden" THEN Grain(l.arg) ELSE 1
    /\ y.valid = {n \in Lanes(form) : Kept(l, n)} /\ y.zeroed = (l.mask = "none" \/ l.fill = 0)
    /\ y.got \in [Lanes(form) -> Int]
    /\ \A n \in y.valid :
          /\ At(l, "hidden", n) < Size(l.arg, "hidden") /\ y.got[n] = Element(l, n)
          /\ l.arg \in {"A", "As"} => At(l, "token", n) \in Tokens
          /\ l.arg \in {"A", "B"} => At(l, "hidden", n) \in Hidden
    /\ \A n \in Lanes(form) \ y.valid : y.got[n] = l.fill

LEMMA LoadParts ==
    ASSUME rowAt \in [Programs -> Nat], NEW l \in AllLoads, NEW form \in {"tile", "row"}, ~OutOfBounds(l, form),
           NEW y, y = Load(l, form)
    PROVE  Loaded(y, l, form)
<1> DEFINE valid == {n \in Lanes(form) : Kept(l, n)}
           got == [n \in Lanes(form) |-> IF n \notin valid THEN l.fill ELSE IF Inside(l, n) THEN Element(l, n) ELSE 0]
<1>1. /\ y.form = form /\ y.sums = <<>> /\ y.factors = 0 /\ y.applied = 0 /\ y.extras = FALSE
      /\ y.coords = [axis \in AxesOf(l.arg) |->
                        [at |-> [n \in Lanes(form) |-> At(l, axis, n)],
                         group |-> IF axis = "hidden" THEN Grain(l.arg) ELSE 1]]
      /\ y.valid = valid /\ y.zeroed = (l.mask = "none" \/ l.fill = 0) /\ y.got = got
  BY DEF Load
<1>2. Lanes(form) \subseteq TileLanes
  BY Sizes
<1>3. AxesOf(l.arg) \subseteq {"token", "hidden"} /\ "hidden" \in AxesOf(l.arg)
      /\ (l.arg \in {"A", "As"} => "token" \in AxesOf(l.arg)) /\ l.arg \in {"A", "B", "As"} /\ l.fill \in Int
  BY DEF AxesOf, AllLoads
<1>4. ASSUME NEW n \in Lanes(form) PROVE At(l, "token", n) \in Nat /\ At(l, "hidden", n) \in Nat
  BY <1>2, Places1
<1>5. y.coords \in [AxesOf(l.arg) -> [at : [Lanes(form) -> Int], group : Nat]]
  <2>1. \A axis \in AxesOf(l.arg), n \in Lanes(form) : At(l, axis, n) \in Int
    BY <1>3, <1>4
  <2>2. Grain(l.arg) \in Nat
    BY Sizes DEF Grain
  <2>3. \A axis \in AxesOf(l.arg) : [n \in Lanes(form) |-> At(l, axis, n)] \in [Lanes(form) -> Int]
    BY <2>1
  <2> QED BY <1>1, <2>2, <2>3
<1> HIDE DEF got
<1>6. ASSUME NEW n \in valid
      PROVE  /\ At(l, "hidden", n) < Size(l.arg, "hidden") /\ got[n] = Element(l, n) /\ got[n] \in Int
             /\ l.arg \in {"A", "As"} => At(l, "token", n) \in Tokens
             /\ l.arg \in {"A", "B"} => At(l, "hidden", n) \in Hidden
  <2>1. Inside(l, n)
    BY DEF OutOfBounds
  <2>2. got[n] = Element(l, n)
    BY <2>1 DEF got
  <2>3. PICK t \in Nat, k \in Nat : t = At(l, "token", n) /\ k = At(l, "hidden", n)
    BY <1>4
  <2>4. k < Size(l.arg, "hidden")
    BY <1>3, <2>1, <2>3 DEF Inside
  <2>5. l.arg \in {"A", "As"} => t \in Tokens
    <3>1. SUFFICES ASSUME l.arg \in {"A", "As"} PROVE t \in Tokens
      OBVIOUS
    <3>2. t < M
      BY <1>3, <2>1, <2>3, <3>1 DEF Inside, Size
    <3> QED BY <3>2, Sizes DEF Tokens
  <2>6. l.arg \in {"A", "B"} => k \in Hidden
    BY <2>4, Sizes DEF Size, Hidden
  <2>7. CASE l.arg = "A"
    BY <2>2, <2>3, <2>4, <2>5, <2>6, <2>7, Elements DEF Element
  <2>8. CASE l.arg = "B"
    BY <2>2, <2>3, <2>4, <2>5, <2>6, <2>8, Elements DEF Element
  <2>9. CASE l.arg = "As"
    <3>1. k \in Groups
      BY <2>4, <2>9, GroupsSize DEF Size
    <3> QED BY <2>2, <2>3, <2>4, <2>5, <2>9, <3>1, Elements DEF Element
  <2> QED BY <1>3, <2>7, <2>8, <2>9
<1>7. ASSUME NEW n \in Lanes(form) \ valid PROVE got[n] = l.fill
  BY DEF got
<1>8. got \in [Lanes(form) -> Int]
  <2>1. ASSUME NEW n \in Lanes(form) PROVE got[n] \in Int
    BY <1>3, <1>6, <1>7
  <2>2. got = [n \in Lanes(form) |-> got[n]]
    BY DEF got
  <2> QED BY <2>1, <2>2
<1> HIDE DEF valid
<1>9. \A axis \in AxesOf(l.arg) : /\ y.coords[axis].group = IF axis = "hidden" THEN Grain(l.arg) ELSE 1
                                  /\ \A n \in Lanes(form) : y.coords[axis].at[n] = At(l, axis, n)
  BY <1>1
<1> QED BY <1>1, <1>5, <1>6, <1>7, <1>8, <1>9 DEF valid, Loaded

(* A mask asks one thing of the row and one of the lane along k.               *)
LEMMA KeptByRowAndLane ==
    ASSUME rowAt \in [Programs -> Nat], NEW l \in AllLoads
    PROVE  \E V \in SUBSET (Programs \X (0..R - 1)), X \in SUBSET (0..T - 1) :
               /\ \A n \in TileLanes : Kept(l, n) <=> <<n[1], n[2]>> \in V /\ n[3] \in X
               /\ l.arg = "B" /\ l.mask # "one row" => V = Programs \X (0..R - 1)
<1> DEFINE OfRow(n) == (l.mask = "none"
                          \/ (("token" \in AxesOf(l.arg) => RowOf(l, n) < M) /\ (l.mask = "one row" => n[2] = 0)))
           OfLane(n) == (l.mask = "none"
                          \/ (KAt(l, n) < Size(l.arg, "hidden")
                               /\ (l.mask = "rest" => KAt(l, n) >= T * ((K - 1) \div T))))
           V == {v \in Programs \X (0..R - 1) : OfRow(<<v[1], v[2], 0>>)}
           X == {j \in 0..T - 1 : OfLane(<<1, 0, j>>)}
<1>1. ASSUME NEW n \in TileLanes PROVE Kept(l, n) <=> <<n[1], n[2]>> \in V /\ n[3] \in X
  <2>1. <<n[1], n[2]>> \in Programs \X (0..R - 1) /\ n[3] \in 0..T - 1
    BY DEF TileLanes
  <2>2. Kept(l, n) <=> OfRow(n) /\ OfLane(n)
    BY DEF Kept, Fits
  <2>3. PICK v \in Programs \X (0..R - 1) : v = <<n[1], n[2]>> /\ v[1] = n[1] /\ v[2] = n[2]
    BY <2>1
  <2>4. RowOf(l, n) = RowOf(l, <<v[1], v[2], 0>>)
    BY <2>3 DEF RowOf
  <2>5. OfRow(n) <=> OfRow(<<v[1], v[2], 0>>)
    BY <2>3, <2>4
  <2>6. PICK j \in 0..T - 1 : j = n[3]
    BY <2>1
  <2>7. KAt(l, n) = KAt(l, <<1, 0, j>>)
    BY <2>6 DEF KAt
  <2>8. OfLane(n) <=> OfLane(<<1, 0, j>>)
    BY <2>7
  <2> HIDE DEF OfRow, OfLane
  <2> QED BY <2>2, <2>3, <2>5, <2>6, <2>8
<1>2. l.arg = "B" /\ l.mask # "one row" => V = Programs \X (0..R - 1)
  BY DEF AxesOf
<1> HIDE DEF V, X
<1>3. V \in SUBSET (Programs \X (0..R - 1)) /\ X \in SUBSET (0..T - 1)
  BY DEF V, X
<1> QED BY <1>1, <1>2, <1>3

LEMMA LoadMask ==
    ASSUME rowAt \in [Programs -> Nat], NEW l \in AllLoads, ~OutOfBounds(l, "tile"), NEW y, y = Load(l, "tile")
    PROVE  ByRowAndLane(y) /\ (y.zeroed => ZeroOutside(y))
<1>1. /\ y.valid = {n \in TileLanes : Kept(l, n)} /\ y.zeroed = (l.mask = "none" \/ l.fill = 0)
      /\ \A n \in TileLanes \ y.valid : y.got[n] = l.fill
  <2>1. PICK form \in {"tile", "row"} : form = "tile"
    OBVIOUS
  <2>2. Loaded(y, l, form)
    BY <2>1, LoadParts
  <2> QED BY <2>1, <2>2, Sizes DEF Loaded
<1>2. ByRowAndLane(y)
  <2>1. PICK V \in SUBSET (Programs \X (0..R - 1)), X \in SUBSET (0..T - 1) :
            \A n \in TileLanes : Kept(l, n) <=> <<n[1], n[2]>> \in V /\ n[3] \in X
    BY KeptByRowAndLane
  <2>2. \A n \in TileLanes : n \in y.valid <=> <<n[1], n[2]>> \in V /\ n[3] \in X
    BY <1>1, <2>1
  <2> QED BY <2>2 DEF ByRowAndLane
<1>3. ASSUME y.zeroed, NEW n \in TileLanes \ y.valid PROVE y.got[n] = 0
  <2>1. CASE l.mask = "none"
    BY <1>1, <2>1 DEF Kept
  <2>2. CASE l.fill = 0
    BY <1>1, <2>2
  <2> QED BY <1>1, <1>3, <2>1, <2>2
<1> QED BY <1>2, <1>3 DEF ZeroOutside

(* A tile of A is A's, at consecutive places.                                  *)
LEMMA LoadA ==
    ASSUME rowAt \in [Programs -> Nat], NEW l \in Windows("A"), ~OutOfBounds(l, "tile")
    PROVE  TileRight(Load(l, "tile"))
<1> DEFINE y == Load(l, "tile")
<1>1. l \in AllLoads /\ l.arg = "A" /\ l.from \in Hidden /\ l.along = TRUE
  BY LoadsAre DEF Windows
<1>2. y = Load(l, "tile")
  OBVIOUS
<1> HIDE DEF y
<1>3. /\ y.form = "tile" /\ y.sums = <<>> /\ y.factors = 0 /\ y.applied = 0 /\ y.extras = FALSE
      /\ y.coords \in [{"token", "hidden"} -> [at : [TileLanes -> Int], group : Nat]]
      /\ \A axis \in {"token", "hidden"}, n \in TileLanes : y.coords[axis].at[n] = At(l, axis, n)
      /\ \A axis \in {"token", "hidden"} : y.coords[axis].group = 1
      /\ y.valid = {n \in TileLanes : Kept(l, n)} /\ y.zeroed = (l.mask = "none" \/ l.fill = 0)
      /\ y.got \in [TileLanes -> Int]
      /\ \A n \in y.valid :
            /\ y.got[n] = Element(l, n)
            /\ At(l, "token", n) \in Tokens /\ At(l, "hidden", n) \in Hidden
  <2>1. AxesOf(l.arg) = {"token", "hidden"} /\ Grain(l.arg) = 1
    BY <1>1, Axes
  <2>2. PICK form \in {"tile", "row"} : form = "tile"
    OBVIOUS
  <2>3. Loaded(y, l, form)
    BY <1>1, <1>2, <2>2, LoadParts
  <2>4. Lanes(form) = TileLanes /\ form = "tile"
    BY <2>2, Sizes
  <2> QED BY <1>1, <2>1, <2>3, <2>4 DEF Loaded
<1>4. ByRowAndLane(y) /\ (y.zeroed => ZeroOutside(y))
  BY <1>1, <1>2, LoadMask
<1>5. y \in Values("tile", {"token", "hidden"}) /\ y.sums = <<>> /\ y.extras = FALSE
  <2>1. y.coords \in Places("tile", {"token", "hidden"})
    <3>1. \A axis \in {"token", "hidden"} : y.coords[axis] \in [at : [TileLanes -> Int], group : {1}]
      BY <1>3
    <3> QED BY <1>3, <3>1, Sizes DEF Places
  <2>2. y.factors \in 0..MaxFactors /\ y.applied \in Nat
    BY <1>3, BoundAssumption
  <2>3. y.valid \in SUBSET Lanes("tile") /\ y.got \in [Lanes("tile") -> Int] /\ y.zeroed \in BOOLEAN
        /\ y.extras \in BOOLEAN /\ y.form \in {"tile"}
    BY <1>3, Sizes
  <2>4. y.sums \in Seq(Ranges)
    BY <1>3
  <2>5. y = [form |-> y.form, coords |-> y.coords, valid |-> y.valid, sums |-> y.sums, factors |-> y.factors,
             applied |-> y.applied, extras |-> y.extras, zeroed |-> y.zeroed, got |-> y.got]
    BY <1>2 DEF Load
  <2> QED BY <1>3, <2>1, <2>2, <2>3, <2>4, <2>5 DEF Values
<1>6. PICK from \in Hidden : from = l.from
  BY <1>1
<1> DEFINE w == [j \in 0..T - 1 |-> IF T > K THEN (from + j) \div K ELSE 0]
<1>7. \A j \in 0..T - 1 : w[j] \in Nat
  <2>1. SUFFICES ASSUME NEW j \in 0..T - 1 PROVE w[j] \in Nat
    OBVIOUS
  <2>2. from + j \in Nat /\ K \in Nat \ {0}
    BY Sizes
  <2> QED BY <2>2, Divide
<1>8. w[0] = 0
  <2>1. from \in Nat /\ K \in Nat \ {0} /\ from < K
    BY Sizes DEF Hidden
  <2>2. K * 0 <= from /\ from < K * (0 + 1) /\ 0 \in Nat
    BY <2>1
  <2>3. from \div K = 0
    BY <2>1, <2>2, DivideUnique
  <2>4. 0 \in 0..T - 1 /\ from + 0 = from
    BY <2>1, Sizes
  <2> QED BY <2>3, <2>4
<1>9. ASSUME NEW n \in TileLanes
      PROVE  /\ AtK(y)[n] = from + n[3] - K * w[n[3]] /\ AtK(y)[n] >= 0
             /\ AtRow(y)[n] = AtRow(y)[InRow(n)] + w[n[3]]
  <2>1. PICK j \in 0..T - 1 : j = n[3]
    BY DEF TileLanes
  <2>2. KAt(l, n) = from + j /\ from + j \in Nat
    <3>1. KAt(l, n) = (from + j) \div 1 /\ from + j \in Nat
      BY <1>1, <1>6, <2>1, Axes, Sizes DEF KAt
    <3> QED BY <3>1, DivideOne
  <2>3. AtK(y)[n] = At(l, "hidden", n) /\ AtRow(y)[n] = At(l, "token", n)
    BY <1>3 DEF AtK, AtRow
  <2>4. InRow(n) \in TileLanes /\ InRow(n)[3] = 0 /\ RowOf(l, InRow(n)) = RowOf(l, n)
    BY Sizes DEF TileLanes, InRow, RowOf
  <2>5. AtRow(y)[InRow(n)] = At(l, "token", InRow(n))
    BY <1>3, <2>4 DEF AtRow
  <2>6. KAt(l, InRow(n)) = from
    <3>1. KAt(l, InRow(n)) = (from + 0) \div 1 /\ from + 0 = from /\ from \in Nat
      BY <1>1, <1>6, <2>4, Axes, Sizes DEF KAt
    <3> QED BY <3>1, DivideOne
  <2>7. RowOf(l, n) \in Nat
    BY <1>1, Places1
  <2>8. CASE T > K
    <3>1. w[j] = (from + j) \div K /\ from \div K = 0
      <4>1. 0 \in 0..T - 1 /\ from + 0 = from
        BY Sizes
      <4>2. w[0] = (from + 0) \div K
        BY <2>8, <4>1
      <4> QED BY <1>8, <2>8, <4>1, <4>2
    <3>2. At(l, "hidden", n) = (from + j) % K /\ At(l, "token", n) = RowOf(l, n) + w[j]
          /\ At(l, "token", InRow(n)) = RowOf(l, n) + 0
      BY <1>1, <2>2, <2>4, <2>6, <2>8, <3>1 DEF At, Wide
    <3>3. PICK m \in Nat, r \in Nat : m = K * ((from + j) \div K) /\ r = (from + j) % K /\ from + j = m + r
      <4>1. PICK c \in Nat \ {0} : c = K
        BY Sizes
      <4>2. PICK a \in Nat : a = from + j
        BY <2>2
      <4>3. a \div c \in Nat /\ a % c \in 0..c - 1 /\ a = c * (a \div c) + (a % c)
        BY Divide
      <4>4. PICK q \in Nat, r \in Nat : q = a \div c /\ r = a % c
        BY <4>3
      <4>5. c * q \in Nat /\ a = c * q + r
        BY <4>3, <4>4
      <4> QED BY <4>1, <4>2, <4>4, <4>5
    <3>4. m = K * w[j]
      BY <3>1, <3>3
    <3>5. from \in Nat
      BY Sizes
    <3> HIDE DEF w
    <3> QED BY <2>1, <2>3, <2>5, <2>7, <3>1, <3>2, <3>3, <3>4, <3>5
  <2>9. CASE ~(T > K)
    <3>1. w[j] = 0
      BY <2>9
    <3>2. At(l, "hidden", n) = from + j /\ At(l, "token", n) = RowOf(l, n) + 0
          /\ At(l, "token", InRow(n)) = RowOf(l, n) + 0
      BY <1>1, <2>2, <2>4, <2>6, <2>9 DEF At, Wide
    <3> HIDE DEF w
    <3>3. K * w[j] = 0
      BY <3>1, Sizes
    <3> QED BY <2>1, <2>2, <2>3, <2>5, <2>7, <3>1, <3>2, <3>3
  <2> QED BY <2>8, <2>9
<1>10. \E f \in Hidden, v \in [0..T - 1 -> Nat] : Consecutive(y, f, v)
  <2>1. w \in [0..T - 1 -> Nat]
    BY <1>7
  <2> HIDE DEF w
  <2> QED BY <1>9, <2>1 DEF Consecutive
<1>11. \A n \in y.valid : AtRow(y)[n] \in Tokens /\ AtK(y)[n] \in Hidden
  BY <1>3 DEF AtRow, AtK
<1>12. ASSUME NEW n \in y.valid
       PROVE  y.got[n] = A[<<AtRow(y)[n], AtK(y)[n]>>] * Scaled(AtRow(y)[n], AtK(y)[n], y.applied)
                         * Power(B[AtK(y)[n]], y.factors - y.applied)
  <2>1. PICK t \in Tokens, k \in Hidden : t = At(l, "token", n) /\ k = At(l, "hidden", n)
    BY <1>3
  <2>2. AtRow(y)[n] = t /\ AtK(y)[n] = k
    BY <1>3, <2>1 DEF AtRow, AtK
  <2>3. y.got[n] = A[<<t, k>>]
    BY <1>1, <1>3, <2>1 DEF Element
  <2>4. Scaled(t, k, y.applied) = 1
    BY <1>3 DEF Scaled
  <2>5. A[<<t, k>>] \in Int /\ B[k] \in Int
    BY Elements
  <2>6. Power(B[k], 0) = 1 /\ y.factors - y.applied = 0
    <3>1. \A b \in Int : Power(b, 0) = 1
      BY PowerSteps
    <3>2. y.factors - y.applied = 0
      BY <1>3
    <3> QED BY <2>5, <3>1, <3>2
  <2> QED BY <2>2, <2>3, <2>4, <2>5, <2>6
<1>13. y.applied <= y.factors
  BY <1>3
<1> QED BY <1>2, <1>4, <1>5, <1>10, <1>11, <1>12, <1>13 DEF TileRight

(* A factor is loaded at its own places.                                       *)
LEMMA LoadFactor ==
    ASSUME rowAt \in [Programs -> Nat], NEW l \in AllLoads, NEW form \in {"tile", "row"}, l.arg \in {"B", "As"},
           ~OutOfBounds(l, form)
    PROVE  Factor(Load(l, form), l.arg, form)
<1> DEFINE y == Load(l, form)
<1>1. y = Load(l, form)
  OBVIOUS
<1> HIDE DEF y
<1>2. /\ y.form = form
      /\ y.coords \in [AxesOf(l.arg) -> [at : [Lanes(form) -> Int], group : Nat]]
      /\ \A axis \in AxesOf(l.arg), n \in Lanes(form) : y.coords[axis].at[n] = At(l, axis, n)
      /\ \A axis \in AxesOf(l.arg) : y.coords[axis].group = IF axis = "hidden" THEN Grain(l.arg) ELSE 1
      /\ y.valid = {n \in Lanes(form) : Kept(l, n)} /\ y.zeroed = (l.mask = "none" \/ l.fill = 0)
      /\ y.got \in [Lanes(form) -> Int]
      /\ \A n \in y.valid : y.got[n] = Element(l, n)
  <2>1. Loaded(y, l, form)
    BY <1>1, LoadParts
  <2> QED BY <2>1 DEF Loaded
<1>3. "hidden" \in AxesOf(l.arg) /\ (l.arg = "As" => "token" \in AxesOf(l.arg))
  BY DEF AxesOf
<1>4. y.coords["hidden"].group = Grain(l.arg) /\ (l.arg = "As" => y.coords["token"].group = 1)
  BY <1>2, <1>3
<1>5. form = "tile" => ByRowAndLane(y) /\ (y.zeroed => ZeroOutside(y))
  BY <1>1, LoadMask
<1>6. y.valid \in SUBSET Lanes(form) /\ y.zeroed \in BOOLEAN
  BY <1>2
<1>7. ASSUME NEW n \in y.valid
      PROVE  /\ AtK(y)[n] \in Nat
             /\ l.arg = "B" => y.got[n] = B[AtK(y)[n]]
             /\ l.arg = "As" => AtRow(y)[n] \in Nat /\ y.got[n] = As[<<AtRow(y)[n], AtK(y)[n]>>]
  <2>1. n \in Lanes(form) /\ n \in TileLanes
    BY <1>6, Sizes
  <2>2. AtK(y)[n] = At(l, "hidden", n) /\ (l.arg = "As" => AtRow(y)[n] = At(l, "token", n))
    BY <1>2, <1>3, <2>1 DEF AtK, AtRow
  <2>3. At(l, "hidden", n) \in Nat /\ At(l, "token", n) \in Nat
    BY <2>1, Places1
  <2>4. y.got[n] = Element(l, n)
    BY <1>2
  <2>5. CASE l.arg = "B"
    BY <2>2, <2>3, <2>4, <2>5 DEF Element
  <2>6. CASE l.arg = "As"
    BY <2>2, <2>3, <2>4, <2>6 DEF Element
  <2> QED BY <2>5, <2>6
<1> QED BY <1>1, <1>2, <1>4, <1>5, <1>6, <1>7 DEF Factor

(* B moves along k, by one a lane, for every row alike.                        *)
LEMMA LoadB ==
    ASSUME rowAt \in [Programs -> Nat], NEW l \in Windows("B"), ~OutOfBounds(l, "tile")
    PROVE  /\ Factor(Load(l, "tile"), "B", "tile")
           /\ \E start \in Hidden, Y \in SUBSET (0..T - 1) : AheadInB(Load(l, "tile"), start, Y)
<1> DEFINE y == Load(l, "tile")
<1>1. l \in AllLoads /\ l.arg = "B" /\ l.from \in Hidden /\ l.along = TRUE /\ l.mask # "one row"
  BY LoadsAre DEF Windows
<1>2. y = Load(l, "tile")
  OBVIOUS
<1> HIDE DEF y
<1>3. Factor(y, "B", "tile")
  BY <1>1, <1>2, LoadFactor
<1>4. /\ \A n \in TileLanes : y.coords["hidden"].at[n] = At(l, "hidden", n)
      /\ y.valid = {n \in TileLanes : Kept(l, n)}
  <2>1. AxesOf(l.arg) = {"hidden"}
    BY <1>1, Axes
  <2>2. PICK form \in {"tile", "row"} : form = "tile"
    OBVIOUS
  <2>3. Loaded(y, l, form)
    BY <1>1, <1>2, <2>2, LoadParts
  <2>4. Lanes(form) = TileLanes
    BY <2>2, Sizes
  <2> QED BY <2>1, <2>3, <2>4 DEF Loaded
<1>5. PICK from \in Hidden : from = l.from
  BY <1>1
<1>6. ASSUME NEW n \in TileLanes PROVE AtK(y)[n] = from + n[3]
  <2>1. KAt(l, n) = (from + n[3]) \div 1
    BY <1>1, <1>5, Axes DEF KAt
  <2>2. from + n[3] \in Nat
    BY Sizes DEF TileLanes
  <2>3. KAt(l, n) = from + n[3]
    BY <2>1, <2>2, DivideOne
  <2>4. At(l, "hidden", n) = KAt(l, n)
    BY <1>1 DEF At, Wide
  <2> QED BY <1>4, <2>3, <2>4 DEF AtK
<1>7. PICK V \in SUBSET (Programs \X (0..R - 1)), Y \in SUBSET (0..T - 1) :
          /\ \A n \in TileLanes : Kept(l, n) <=> <<n[1], n[2]>> \in V /\ n[3] \in Y
          /\ l.arg = "B" /\ l.mask # "one row" => V = Programs \X (0..R - 1)
  BY <1>1, KeptByRowAndLane
<1>8. ASSUME NEW n \in TileLanes PROVE n \in y.valid <=> n[3] \in Y
  <2>1. <<n[1], n[2]>> \in Programs \X (0..R - 1)
    BY DEF TileLanes
  <2> QED BY <1>1, <1>4, <1>7, <2>1
<1> QED BY <1>2, <1>3, <1>6, <1>8 DEF AheadInB

LEMMA LoadAs ==
    ASSUME rowAt \in [Programs -> Nat], NEW along \in BOOLEAN, NEW l \in ScaleReads(along), NEW form \in {"tile", "row"},
           ~OutOfBounds(l, form), ~NotItsScale(l.arg)
    PROVE  l.arg = "As" /\ Factor(Load(l, form), "As", form)
<1>1. l.arg # "Xs"
  BY DEF NotItsScale
<1>2. l \in AllLoads /\ l.arg = "As"
  BY <1>1, LoadsAre
<1> QED BY <1>2, LoadFactor

(* A doubled row has an extra, and nothing is said of it.                      *)
LEMMA DoubledRow ==
    ASSUME NEW x, RowRight(x)
    PROVE  RowRight([x EXCEPT !.extras = TRUE, !.got = [n \in DOMAIN @ |-> 2 * @[n]]])
<1> DEFINE z == [x EXCEPT !.extras = TRUE, !.got = [n \in DOMAIN @ |-> 2 * @[n]]]
<1>1. x \in Values("row", {"token"})
  BY DEF RowRight
<1>2. x.got \in [RowLanes -> Int]
  BY <1>1, Sizes DEF Values
<1>3. [n \in DOMAIN x.got |-> 2 * x.got[n]] \in [Lanes("row") -> Int]
  BY <1>2, Sizes
<1>4. z \in Values("row", {"token"}) /\ z.extras = TRUE
  BY <1>1, <1>3 DEF Values
<1> HIDE DEF z
<1>5. RowRight(z)
  BY <1>4 DEF RowRight
<1> QED BY <1>5 DEF z

-----------------------------------------------------------------------------
(* The verdict stays open only where no check fails.                           *)
LEMMA FirstBroken ==
    ASSUME NEW checks, NEW n \in Nat, DOMAIN checks = 1..n, Decide(checks),
           \A i \in 1..n : checks[i].says \in {"violation", "unproven"}
    PROVE  /\ verdict' \in {verdict, "violation", "unproven"}
           /\ verdict' = "open" => verdict = "open" /\ \A i \in 1..n : ~checks[i].breaks
<1> DEFINE broken == {i \in DOMAIN checks : checks[i].breaks}
<1>1. verdict' = IF verdict # "open" \/ broken = {} THEN verdict ELSE checks[Min(broken)].says
  BY DEF Decide
<1>2. CASE broken = {}
  <2>1. \A i \in 1..n : ~checks[i].breaks
    BY <1>2
  <2> HIDE DEF broken
  <2> QED BY <1>1, <1>2, <2>1
<1>3. CASE broken # {}
  <2>1. broken \in SUBSET Nat /\ broken \subseteq 1..n
    OBVIOUS
  <2> HIDE DEF broken
  <2>2. \E m \in broken : \A i \in broken : m <= i
    BY <1>3, <2>1, LeastNat
  <2>3. Min(broken) \in broken
    BY <2>2 DEF Min
  <2> QED BY <1>1, <1>3, <2>1, <2>3
<1> QED BY <1>2, <1>3

(* A row whose ranges cover hidden once holds the meaning of its elements.     *)
LEMMA RowMeant ==
    ASSUME NEW x, RowRight(x), x.extras = FALSE, x.applied = 1, <<1, 0, 0>> \in x.valid, Covers(x.sums, 1)
    PROVE  \E times \in [Hidden -> 0..MaxFactors] :
              \A n \in x.valid : x.got[n] = SumTo([k \in Hidden |-> Term(AtRow(x)[n], k, times[k])], K)
<1>1. x \in Values("row", {"token"})
  BY DEF RowRight
<1>2. x.factors \in 0..MaxFactors /\ x.sums \in Seq(Ranges) /\ MaxFactors \in Nat
  BY <1>1, BoundAssumption DEF Values
<1>3. PICK W \in [Hidden -> Int] : Weighed(x, W)
  BY DEF RowRight
<1>4. ASSUME NEW k \in Hidden PROVE \E e \in 0..MaxFactors : W[k] = Power(B[k], e)
  <2>1. Summing(x, 1, k) = {i \in DOMAIN x.sums : x.sums[i][1].lo <= k /\ k < x.sums[i][1].lo + x.sums[i][1].count}
    BY DEF Summing
  <2>2. Cardinality(Summing(x, 1, k)) = 1
    BY <2>1 DEF Covers
  <2>3. IsFiniteSet(Summing(x, 1, k))
    <3>1. DOMAIN x.sums = 1..Len(x.sums) /\ Len(x.sums) \in Nat
      BY <1>2
    <3>2. PICK m \in Nat : m = Len(x.sums)
      BY <3>1
    <3>3. IsFiniteSet(1..m)
      <4>1. m \in Int /\ 1 \in Int
        OBVIOUS
      <4> QED BY <4>1, FS_Interval
    <3>4. Summing(x, 1, k) \in SUBSET (1..m)
      BY <2>1, <3>1, <3>2
    <3> QED BY <3>3, <3>4, FS_Subset
  <2>4. \E i : Summing(x, 1, k) = {i}
    BY <2>2, <2>3, FS_Singleton
  <2>5. PICK n \in x.valid : n[1] = 1
    OBVIOUS
  <2>6. \E i : Summing(x, n[1], k) = {i}
    BY <2>4, <2>5
  <2>7. PICK e \in Nat : e + x.applied <= x.factors + 1 /\ W[k] = Power(B[k], e)
    BY <1>3, <2>6 DEF Weighed
  <2>8. e \in 0..MaxFactors
    BY <1>2, <2>7
  <2> QED BY <2>7, <2>8
<1> DEFINE times == [k \in Hidden |-> CHOOSE e \in 0..MaxFactors : W[k] = Power(B[k], e)]
<1>5. \A k \in Hidden : times[k] \in 0..MaxFactors /\ W[k] = Power(B[k], times[k])
  BY <1>4
<1>6. times \in [Hidden -> 0..MaxFactors]
  BY <1>5
<1> HIDE DEF times
<1>7. ASSUME NEW n \in x.valid
      PROVE  x.got[n] = SumTo([k \in Hidden |-> Term(AtRow(x)[n], k, times[k])], K)
  <2>1. x.got[n] = SumTo([k \in Hidden |-> A[<<AtRow(x)[n], k>>] * Scaled(AtRow(x)[n], k, x.applied) * W[k]], K)
    BY <1>3 DEF Weighed
  <2>2. ASSUME NEW k \in Hidden
        PROVE  A[<<AtRow(x)[n], k>>] * Scaled(AtRow(x)[n], k, x.applied) * W[k] = Term(AtRow(x)[n], k, times[k])
    <3>1. Scaled(AtRow(x)[n], k, x.applied) = As[<<AtRow(x)[n], k \div G>>]
      BY DEF Scaled
    <3>2. W[k] = Power(B[k], times[k])
      BY <1>5
    <3> QED BY <3>1, <3>2 DEF Term
  <2>3. [k \in Hidden |-> A[<<AtRow(x)[n], k>>] * Scaled(AtRow(x)[n], k, x.applied) * W[k]]
        = [k \in Hidden |-> Term(AtRow(x)[n], k, times[k])]
    BY <2>2
  <2> QED BY <2>1, <2>3
<1> QED BY <1>6, <1>7

-----------------------------------------------------------------------------
(* Stores: how often an element is written is how many stores and programs     *)
(* have it in their footprint.                                                 *)
AllStores == [rows : {"own", "next"}, mask : {"all", "one row"}]
Written(s, t) == {n \in StoreLanes(s) : TargetOf(s, n) = t}
Footprint(s) == [p \in Programs |-> {TargetOf(s, n) : n \in {m \in StoreLanes(s) : m[1] = p}}]

LEMMA Targets ==
    ASSUME rowAt \in [Programs -> Nat], NEW s \in AllStores
    PROVE  /\ \A n \in StoreLanes(s) : /\ n[1] \in Programs /\ n[2] \in 0..R - 1 /\ n = <<n[1], n[2], 0>>
                                        /\ n \in RowLanes
           /\ \A n \in StoreLanes(s) : TargetOf(s, n) = rowAt[n[1]] + n[2] + (IF s.rows = "next" THEN 1 ELSE 0)
           /\ Footprint(s) \in [Programs -> SUBSET Int]
           /\ \A p \in Programs : <<p, 0, 0>> \in StoreLanes(s)
<1>1. \A n \in StoreLanes(s) : n \in RowLanes
  BY Sizes DEF StoreLanes
<1>2. \A n \in RowLanes : n[1] \in Programs /\ n[2] \in 0..R - 1 /\ n = <<n[1], n[2], 0>>
  BY DEF RowLanes
<1>3. ASSUME NEW n \in StoreLanes(s) PROVE TargetOf(s, n) \in Int
  <2>1. n[1] \in Programs /\ n[2] \in 0..R - 1
    BY <1>1, <1>2
  <2>2. PICK r \in Nat : r = rowAt[n[1]]
    BY <2>1
  <2>3. PICK i \in Nat : i = n[2]
    BY <2>1, Sizes
  <2>4. r + i + 1 \in Int /\ r + i + 0 \in Int
    OBVIOUS
  <2> QED BY <2>2, <2>3, <2>4 DEF TargetOf
<1>4. Footprint(s) \in [Programs -> SUBSET Int]
  <2>1. \A p \in Programs : {TargetOf(s, n) : n \in {m \in StoreLanes(s) : m[1] = p}} \in SUBSET Int
    BY <1>3
  <2> QED BY <2>1 DEF Footprint
<1>5. ASSUME NEW p \in Programs PROVE <<p, 0, 0>> \in StoreLanes(s)
  <2>1. 0 \in 0..R - 1
    BY Sizes
  <2>2. <<p, 0, 0>> \in RowLanes /\ <<p, 0, 0>>[2] = 0
    BY <2>1 DEF RowLanes
  <2> QED BY <2>2, Sizes DEF StoreLanes
<1> QED BY <1>1, <1>2, <1>4, <1>5 DEF TargetOf

LEMMA StoreCounts ==
    ASSUME rowAt \in [Programs -> Nat], stores \in Seq([Programs -> SUBSET Int]),
           NEW s \in AllStores, stores' = Append(stores, Footprint(s)),
           NEW t \in Tokens, IsFiniteSet(StoresOf(t))
    PROVE  /\ IsFiniteSet(StoresOf(t)')
           /\ Cardinality(StoresOf(t)') = Cardinality(StoresOf(t)) + Cardinality(Written(s, t))
           /\ Cardinality(Written(s, t)) \in Nat
           /\ StoresOf(t)' # {} => StoresOf(t) # {} \/ Written(s, t) # {}
<1> DEFINE m == Len(stores) + 1
           New == {<<m, n[1]>> : n \in Written(s, t)}
<1> HIDE DEF New
<1>1. /\ Len(stores) \in Nat /\ DOMAIN stores = 1..Len(stores)
      /\ 1..m = (1..Len(stores)) \cup {m} /\ m \notin 1..Len(stores)
  <2>1. Len(stores) \in Nat /\ DOMAIN stores = 1..Len(stores)
    BY LenProperties
  <2>2. PICK c \in Nat : c = Len(stores)
    BY <2>1
  <2>3. 1..c + 1 = (1..c) \cup {c + 1} /\ c + 1 \notin 1..c
    OBVIOUS
  <2> QED BY <2>1, <2>2, <2>3
<1>2. /\ DOMAIN (stores') = 1..m /\ (stores')[m] = Footprint(s)
      /\ \A i \in 1..Len(stores) : (stores')[i] = stores[i]
  <2>1. Footprint(s) \in [Programs -> SUBSET Int]
    BY Targets
  <2> HIDE DEF m
  <2>2. /\ Len(Append(stores, Footprint(s))) = Len(stores) + 1
        /\ \A i \in 1..Len(stores) : Append(stores, Footprint(s))[i] = stores[i]
        /\ Append(stores, Footprint(s))[Len(stores) + 1] = Footprint(s)
        /\ Append(stores, Footprint(s)) \in Seq([Programs -> SUBSET Int])
    BY <2>1, AppendProperties
  <2>3. DOMAIN Append(stores, Footprint(s)) = 1..Len(Append(stores, Footprint(s)))
    BY <2>2, LenProperties
  <2> QED BY <2>2, <2>3 DEF m
<1> HIDE DEF m
<1>3. ASSUME NEW p \in Programs PROVE t \in Footprint(s)[p] <=> \E n \in Written(s, t) : n[1] = p
  BY DEF Footprint, Written
<1>4. StoresOf(t)' = StoresOf(t) \cup New
  <2>1. StoresOf(t)' = {x \in (1..m) \X Programs : t \in (stores')[x[1]][x[2]]}
    BY <1>2 DEF StoresOf
  <2>2. StoresOf(t) = {x \in (1..Len(stores)) \X Programs : t \in stores[x[1]][x[2]]}
    BY <1>1 DEF StoresOf
  <2>3. ASSUME NEW x \in StoresOf(t)' PROVE x \in StoresOf(t) \cup New
    <3>1. x \in (1..m) \X Programs /\ t \in (stores')[x[1]][x[2]]
      BY <2>1, <2>3
    <3>2. PICK i \in 1..m, p \in Programs : x = <<i, p>> /\ x[1] = i /\ x[2] = p
      BY <3>1
    <3>3. t \in (stores')[i][p]
      BY <3>1, <3>2
    <3>4. CASE i \in 1..Len(stores)
      <4>1. x \in (1..Len(stores)) \X Programs /\ t \in stores[x[1]][x[2]]
        BY <1>2, <3>2, <3>3, <3>4
      <4> QED BY <2>2, <4>1
    <3>5. CASE i = m
      <4>1. t \in Footprint(s)[p]
        BY <1>2, <3>3, <3>5
      <4>2. PICK n \in Written(s, t) : n[1] = p
        BY <1>3, <4>1
      <4> QED BY <3>2, <3>5, <4>2 DEF New
    <3> QED BY <1>1, <3>4, <3>5
  <2>4. ASSUME NEW x \in StoresOf(t) PROVE x \in StoresOf(t)'
    <3>1. x \in (1..Len(stores)) \X Programs /\ t \in stores[x[1]][x[2]]
      BY <2>2, <2>4
    <3>2. x \in (1..m) \X Programs /\ (stores')[x[1]] = stores[x[1]]
      BY <1>1, <1>2, <3>1
    <3> QED BY <2>1, <3>1, <3>2
  <2>5. ASSUME NEW n \in Written(s, t) PROVE <<m, n[1]>> \in StoresOf(t)'
    <3>1. n[1] \in Programs
      BY Targets DEF Written
    <3>2. t \in Footprint(s)[n[1]]
      BY <1>3, <3>1
    <3>3. m \in 1..m
      BY <1>1
    <3> QED BY <1>2, <2>1, <3>1, <3>2, <3>3
  <2> QED BY <2>3, <2>4, <2>5 DEF New
<1>5. StoresOf(t) \cap New = {}
  <2>1. \A x \in StoresOf(t) : x[1] \in 1..Len(stores)
    BY <1>1 DEF StoresOf
  <2>2. \A x \in New : x[1] = m
    BY DEF New
  <2> QED BY <1>1, <2>1, <2>2
<1>6. IsFiniteSet(Written(s, t))
  <2>1. IsFiniteSet(Programs) /\ IsFiniteSet(0..R - 1)
    <3>1. PICK a \in Int, b \in Int, z \in Int, c \in Int : a = P /\ b = R - 1 /\ z = 0 /\ c = 1
      BY Sizes
    <3>2. IsFiniteSet(c..a) /\ IsFiniteSet(z..b)
      BY FS_Interval
    <3> QED BY <3>1, <3>2 DEF Programs
  <2>2. IsFiniteSet(Programs \X (0..R - 1))
    BY <2>1, FS_Product
  <2> DEFINE f == [v \in Programs \X (0..R - 1) |-> <<v[1], v[2], 0>>]
  <2>3. f \in Surjection(Programs \X (0..R - 1), RowLanes)
    <3>1. \A v \in Programs \X (0..R - 1) : <<v[1], v[2], 0>> \in RowLanes
      BY DEF RowLanes
    <3>2. ASSUME NEW n \in RowLanes PROVE \E v \in Programs \X (0..R - 1) : f[v] = n
      <4>1. n[1] \in Programs /\ n[2] \in 0..R - 1 /\ n = <<n[1], n[2], 0>>
        BY DEF RowLanes
      <4>2. <<n[1], n[2]>> \in Programs \X (0..R - 1)
        BY <4>1
      <4>3. f[<<n[1], n[2]>>] = <<n[1], n[2], 0>>
        BY <4>2
      <4> QED BY <4>1, <4>2, <4>3
    <3>3. f \in [Programs \X (0..R - 1) -> RowLanes]
      BY <3>1
    <3> HIDE DEF f
    <3> QED BY <3>2, <3>3 DEF Surjection
  <2>4. IsFiniteSet(RowLanes)
    <3> HIDE DEF f
    <3> QED BY <2>2, <2>3, FS_Surjection
  <2>5. Written(s, t) \in SUBSET RowLanes
    BY Targets DEF Written
  <2> QED BY <2>4, <2>5, FS_Subset
<1>7. ExistsBijection(Written(s, t), New)
  <2> DEFINE f == [n \in Written(s, t) |-> <<m, n[1]>>]
  <2>1. ASSUME NEW a \in Written(s, t), NEW b \in Written(s, t), f[a] = f[b] PROVE a = b
    <3>1. /\ a[1] \in Programs /\ a[2] \in 0..R - 1 /\ a = <<a[1], a[2], 0>>
          /\ b[2] \in 0..R - 1 /\ b = <<b[1], b[2], 0>>
      BY Targets DEF Written
    <3>2. a[1] = b[1]
      BY <2>1
    <3>3. /\ rowAt[a[1]] + a[2] + (IF s.rows = "next" THEN 1 ELSE 0) = t
          /\ rowAt[b[1]] + b[2] + (IF s.rows = "next" THEN 1 ELSE 0) = t
      BY Targets DEF Written
    <3> HIDE DEF f
    <3>4. PICK r \in Nat, c \in Nat : r = rowAt[a[1]] /\ c = IF s.rows = "next" THEN 1 ELSE 0
      BY <3>1
    <3>5. PICK i \in Nat, j \in Nat : i = a[2] /\ j = b[2]
      BY <3>1, Sizes
    <3>6. r + i + c = r + j + c
      BY <3>2, <3>3, <3>4, <3>5
    <3>7. i = j
      BY <3>6
    <3> QED BY <3>1, <3>2, <3>5, <3>7
  <2>2. f \in [Written(s, t) -> New] /\ \A y \in New : \E n \in Written(s, t) : f[n] = y
    BY DEF New
  <2> HIDE DEF f
  <2> QED BY <2>1, <2>2 DEF ExistsBijection, Bijection, Injection, Surjection, IsInjective
<1>8. IsFiniteSet(New) /\ Cardinality(New) = Cardinality(Written(s, t))
  BY <1>6, <1>7, FS_Bijection
<1>9. Cardinality(StoresOf(t) \cup New) = Cardinality(StoresOf(t)) + Cardinality(New) - 0
  <2>1. Cardinality(StoresOf(t) \cap New) = 0
    BY <1>5, FS_EmptySet
  <2> QED BY <1>8, <2>1, FS_Union
<1>10. IsFiniteSet(StoresOf(t) \cup New)
  BY <1>8, FS_Union
<1>11. Cardinality(StoresOf(t)) \in Nat /\ Cardinality(New) \in Nat
  BY <1>8, FS_CardinalityType
<1>12. New # {} => Written(s, t) # {}
  BY DEF New
<1>13. Cardinality(StoresOf(t) \cup New) = Cardinality(StoresOf(t)) + Cardinality(New)
  BY <1>9, <1>11
<1>14. StoresOf(t) \cup New # {} => StoresOf(t) # {} \/ Written(s, t) # {}
  BY <1>12
<1> QED BY <1>4, <1>8, <1>10, <1>11, <1>13, <1>14

-----------------------------------------------------------------------------
(* The inductive invariant. While no check has failed nothing outside a tensor  *)
(* was touched, and every value is right if nothing was overlooked; once        *)
(* something is stored, the accumulator is complete and what is stored is its   *)
(* row; at any time an element is written as often as stores have it.           *)
Typed ==
    /\ rowAt \in [Programs -> Nat] /\ stores \in Seq([Programs -> SUBSET Int])
    /\ DOMAIN out = Tokens /\ written \in [Tokens -> Nat]
    /\ verdict \in {"open", "violation", "unproven", "proven"} /\ launched \in BOOLEAN

(* Tiles of one lane have an invariant of their own, OneLaneFails.              *)
Standing == ~OneLane /\ verdict \in {"open", "proven"}

Formed(x, form) == "form" \in DOMAIN x /\ x.form = form
Forms ==
    /\ tile = Nothing \/ Formed(tile, "tile")
    /\ row = Nothing \/ Formed(row, "row")
    /\ acc = Zero \/ Formed(acc, "row")
Tame == Standing => ~wild
Right ==
    Standing /\ ~overlooked => /\ tile = Nothing \/ TileRight(tile)
                               /\ row = Nothing \/ RowRight(row)
                               /\ acc = Zero \/ RowRight(acc)
Emptied == stores # <<>> => tile = Nothing /\ row = Nothing /\ acc # Zero
Complete ==
    Standing /\ ~overlooked /\ stores # <<>>
       => /\ \A p \in Programs : <<p, 0, 0>> \in acc.valid /\ Covers(acc.sums, p)
          /\ acc.extras = FALSE /\ acc.applied = 1
          /\ \A t \in Tokens : StoresOf(t) # {} => \E n \in acc.valid : AtRow(acc)[n] = t /\ out[t] = acc.got[n]
CountedOnce == \A t \in Tokens : IsFiniteSet(StoresOf(t)) /\ written[t] = Cardinality(StoresOf(t))
Tiled == verdict = "proven" => launched /\ stores # <<>> /\ \A t \in Tokens : Cardinality(StoresOf(t)) = 1

IInv == Typed /\ Forms /\ Tame /\ Right /\ Emptied /\ Complete /\ CountedOnce /\ Tiled

(* A step that computes is taken before the first store, by a kernel not yet    *)
(* complete, and leaves the verdict or lowers it.                              *)
Computes ==
    /\ stores = <<>> /\ ~launched /\ verdict' \in {verdict, "violation", "unproven"}
    /\ UNCHANGED <<rowAt, stores, out, written, launched>>

LEMMA ComputesKeeps ==
    ASSUME IInv, Computes, Forms', Tame', Right'
    PROVE  IInv'
<1> USE DEF Computes
<1>1. verdict # "proven"
  BY DEF IInv, Tiled
<1>2. Typed'
  BY DEF IInv, Typed
<1>3. Emptied' /\ Complete'
  BY DEF Emptied, Complete
<1>4. CountedOnce'
  <2>1. \A t \in Tokens : StoresOf(t)' = StoresOf(t)
    BY DEF StoresOf
  <2> QED BY <2>1 DEF IInv, CountedOnce
<1>5. Tiled'
  BY <1>1 DEF IInv, Typed, Tiled
<1> QED BY <1>2, <1>3, <1>4, <1>5 DEF IInv

(* Every operation yields a value of its form.                                 *)
LEMMA FormsKept ==
    ASSUME NEW x, NEW form, Formed(x, form), NEW y, NEW arg, NEW l
    PROVE  /\ Formed(Times(x, y, arg), form) /\ Formed(Plus(x, y), form)
           /\ Formed([x EXCEPT !.extras = TRUE, !.got = [n \in DOMAIN @ |-> 2 * @[n]]], form)
           /\ Formed(Reduced(x), "row") /\ Formed(Dotted(x, y), "row") /\ Formed(Load(l, form), form)
<1>1. Formed(Times(x, y, arg), form)
  BY DEF Formed, Times
<1>2. Formed(Plus(x, y), form)
  BY DEF Formed, Plus
<1>3. Formed([x EXCEPT !.extras = TRUE, !.got = [n \in DOMAIN @ |-> 2 * @[n]]], form)
  BY DEF Formed
<1>4. Formed(Reduced(x), "row")
  BY DEF Formed, Reduced
<1>5. Formed(Dotted(x, y), "row")
  BY DEF Formed, Dotted
<1>6. Formed(Load(l, form), form)
  BY DEF Formed, Load
<1> QED BY <1>1, <1>2, <1>3, <1>4, <1>5, <1>6

LEMMA InitRight == Init => IInv
<1> SUFFICES ASSUME Init PROVE IInv
  OBVIOUS
<1>1. Typed
  <2>1. rowAt \in [Programs -> Nat]
    <3>1. \A p \in Programs : R * (p - 1) \in Nat
      BY Sizes DEF Programs
    <3> QED BY <3>1 DEF Init
  <2>2. <<>> \in Seq([Programs -> SUBSET Int])
    OBVIOUS
  <2>3. stores \in Seq([Programs -> SUBSET Int])
    BY <2>2 DEF Init
  <2>4. DOMAIN out = Tokens /\ written \in [Tokens -> Nat] /\ verdict = "open" /\ launched = FALSE
    BY DEF Init
  <2> QED BY <2>1, <2>3, <2>4 DEF Typed
<1>2. Forms /\ Tame /\ Right /\ Emptied /\ Complete /\ Tiled
  BY DEF Init, Forms, Tame, Right, Emptied, Complete, Tiled
<1>3. ASSUME NEW t \in Tokens PROVE IsFiniteSet(StoresOf(t)) /\ written[t] = Cardinality(StoresOf(t))
  <2>1. StoresOf(t) = {}
    BY DEF Init, StoresOf
  <2> QED BY <2>1, FS_EmptySet DEF Init
<1> QED BY <1>1, <1>2, <1>3 DEF IInv, CountedOnce

LEMMA LoadTileKeeps ==
    ASSUME IInv, NEW l \in Windows("A"), LoadTile(l)
    PROVE  IInv'
<1>1. stores = <<>> /\ ~launched /\ UNCHANGED <<rowAt, stores, out, written, launched>>
  BY DEF LoadTile, Step
<1> DEFINE checks == <<InBounds(l, "tile")>>
<1>2. /\ verdict' \in {verdict, "violation", "unproven"}
      /\ verdict' = "open" => verdict = "open" /\ ~OutOfBounds(l, "tile")
  <2>1. Decide(checks)
    BY DEF LoadTile
  <2>2. DOMAIN checks = 1..1 /\ 1 \in Nat
    OBVIOUS
  <2>3. \A i \in 1..1 : checks[i].says \in {"violation", "unproven"} /\ (checks[i].breaks <=> OutOfBounds(l, "tile"))
    BY DEF InBounds, Check
  <2> HIDE DEF checks
  <2>4. /\ verdict' \in {verdict, "violation", "unproven"}
        /\ verdict' = "open" => verdict = "open" /\ \A i \in 1..1 : ~checks[i].breaks
    BY <2>1, <2>2, <2>3, FirstBroken
  <2> QED BY <2>3, <2>4
<1>3. verdict # "proven"
  BY <1>1 DEF IInv, Tiled
<1>4. Standing' => Standing /\ ~OutOfBounds(l, "tile")
  BY <1>2, <1>3 DEF Standing
<1>5. Tame' /\ Forms'
  <2>1. Formed(Load(l, "tile"), "tile")
    BY DEF Formed, Load
  <2> QED BY <1>4, <2>1 DEF LoadTile, Reads, IInv, Tame, Forms
<1>6. Right'
  <2>1. SUFFICES ASSUME Standing', ~overlooked'
                 PROVE  TileRight(tile') /\ (row' = Nothing \/ RowRight(row')) /\ (acc' = Zero \/ RowRight(acc'))
    BY DEF Right
  <2>2. tile' = Load(l, "tile") /\ row' = row /\ acc' = acc /\ ~overlooked
    BY <2>1 DEF LoadTile
  <2>3. TileRight(Load(l, "tile"))
    BY <1>4, <2>1, LoadA DEF IInv, Typed
  <2> QED BY <1>4, <2>1, <2>2, <2>3 DEF IInv, Right
<1> QED BY <1>1, <1>2, <1>5, <1>6, ComputesKeeps DEF Computes

LEMMA FactorPasses ==
    ASSUME NEW x, NEW l, Decide(FactorChecks(x, l))
    PROVE  /\ verdict' \in {verdict, "violation", "unproven"}
           /\ verdict' = "open" => /\ verdict = "open" /\ ~OutOfBounds(l, x.form)
                                   /\ ~Mispaired(x, Load(l, x.form)) /\ ~NotItsScale(l.arg)
<1> DEFINE checks == FactorChecks(x, l)
<1>1. DOMAIN checks = 1..3 /\ 3 \in Nat
  BY DEF FactorChecks
<1>2. /\ checks[1].says = "violation" /\ checks[2].says = "violation" /\ checks[3].says = "violation"
      /\ checks[1].breaks = OutOfBounds(l, x.form)
      /\ checks[2].breaks = Mispaired(x, Load(l, x.form))
      /\ checks[3].breaks = NotItsScale(l.arg)
  BY DEF FactorChecks, InBounds, Check
<1> HIDE DEF checks
<1>3. \A i \in 1..3 : checks[i].says \in {"violation", "unproven"}
  BY <1>2
<1>4. Decide(checks)
  BY DEF checks
<1>5. /\ verdict' \in {verdict, "violation", "unproven"}
      /\ verdict' = "open" => verdict = "open" /\ \A i \in 1..3 : ~checks[i].breaks
  BY <1>1, <1>3, <1>4, FirstBroken
<1>6. 1 \in 1..3 /\ 2 \in 1..3 /\ 3 \in 1..3
  OBVIOUS
<1> QED BY <1>2, <1>5, <1>6

LEMMA MulTileKeeps ==
    ASSUME IInv, NEW l \in Windows("B") \cup ScaleReads(TRUE) \cup ScaleReads(FALSE), MulTile(l)
    PROVE  IInv'
<1>1. ~launched /\ tile # Nothing /\ UNCHANGED <<rowAt, stores, out, written, launched>>
  BY DEF MulTile, Step
<1>2. stores = <<>>
  BY <1>1 DEF IInv, Emptied
<1>3. /\ verdict' \in {verdict, "violation", "unproven"}
      /\ verdict' = "open" => /\ verdict = "open" /\ ~OutOfBounds(l, tile.form)
                              /\ ~Mispaired(tile, Load(l, tile.form)) /\ ~NotItsScale(l.arg)
  <2>1. Decide(FactorChecks(tile, l))
    BY DEF MulTile
  <2> QED BY <2>1, FactorPasses
<1>4. verdict # "proven"
  BY <1>1 DEF IInv, Tiled
<1>5. ASSUME Standing', ~overlooked'
      PROVE  /\ Standing /\ ~overlooked /\ TileRight(tile) /\ ~OutOfBounds(l, "tile")
             /\ ~Mispaired(tile, Load(l, "tile")) /\ ~NotItsScale(l.arg)
  <2>1. verdict = "open" /\ verdict' = "open" /\ ~overlooked
    BY <1>3, <1>4, <1>5 DEF Standing, MulTile
  <2>2. Standing /\ TileRight(tile)
    BY <1>1, <1>5, <2>1 DEF IInv, Right, Standing
  <2>3. tile.form = "tile"
    BY <2>2 DEF TileRight, Values
  <2> QED BY <1>3, <2>1, <2>2, <2>3
<1>6. Tame' /\ Forms'
  <2>1. Formed(tile, "tile")
    BY <1>1 DEF IInv, Forms
  <2>2. tile.form = "tile"
    BY <2>1 DEF Formed
  <2>3. Standing' => Standing /\ ~OutOfBounds(l, "tile")
    BY <1>3, <1>4, <2>2 DEF Standing
  <2>4. Formed(Times(tile, Load(l, "tile"), l.arg), "tile")
    BY <2>1, FormsKept
  <2> QED BY <2>3, <2>4 DEF MulTile, Reads, IInv, Tame, Forms
<1>7. Right'
  <2>1. SUFFICES ASSUME Standing', ~overlooked'
                 PROVE  TileRight(tile') /\ (row' = Nothing \/ RowRight(row')) /\ (acc' = Zero \/ RowRight(acc'))
    BY DEF Right
  <2>2. /\ tile' = Times(tile, Load(l, "tile"), l.arg) /\ row' = row /\ acc' = acc
        /\ tile.factors < MaxFactors /\ rowAt \in [Programs -> Nat]
    BY DEF MulTile, IInv, Typed
  <2>3. l.arg \in {"B", "As"} /\ Factor(Load(l, "tile"), l.arg, "tile")
    <3>1. CASE l \in Windows("B")
      <4>1. l.arg = "B"
        BY <3>1 DEF Windows
      <4> QED BY <1>5, <2>1, <2>2, <3>1, <4>1, LoadB
    <3>2. CASE l \in ScaleReads(TRUE)
      <4>1. TRUE \in BOOLEAN /\ "tile" \in {"tile", "row"}
        OBVIOUS
      <4> QED BY <1>5, <2>1, <2>2, <3>2, <4>1, LoadAs
    <3>3. CASE l \in ScaleReads(FALSE)
      <4>1. FALSE \in BOOLEAN /\ "tile" \in {"tile", "row"}
        OBVIOUS
      <4> QED BY <1>5, <2>1, <2>2, <3>3, <4>1, LoadAs
    <3> QED BY <3>1, <3>2, <3>3
  <2>4. TileRight(Times(tile, Load(l, "tile"), l.arg))
    BY <1>5, <2>1, <2>2, <2>3, TimesTile
  <2> QED BY <1>5, <2>1, <2>2, <2>4 DEF IInv, Right
<1> QED BY <1>1, <1>2, <1>3, <1>6, <1>7, ComputesKeeps DEF Computes

LEMMA MulRowKeeps ==
    ASSUME IInv, NEW l \in ScaleReads(FALSE), MulRow(l)
    PROVE  IInv'
<1>1. ~launched /\ row # Nothing /\ UNCHANGED <<rowAt, stores, out, written, launched>>
  BY DEF MulRow, Step
<1>2. stores = <<>>
  BY <1>1 DEF IInv, Emptied
<1>3. /\ verdict' \in {verdict, "violation", "unproven"}
      /\ verdict' = "open" => /\ verdict = "open" /\ ~OutOfBounds(l, row.form)
                              /\ ~Mispaired(row, Load(l, row.form)) /\ ~NotItsScale(l.arg)
  <2>1. Decide(FactorChecks(row, l))
    BY DEF MulRow
  <2> QED BY <2>1, FactorPasses
<1>4. verdict # "proven"
  BY <1>1 DEF IInv, Tiled
<1>5. ASSUME Standing', ~overlooked'
      PROVE  /\ Standing /\ ~overlooked /\ RowRight(row) /\ ~OutOfBounds(l, "row")
             /\ ~Mispaired(row, Load(l, "row")) /\ ~NotItsScale(l.arg)
  <2>1. verdict = "open" /\ verdict' = "open" /\ ~overlooked
    BY <1>3, <1>4, <1>5 DEF Standing, MulRow
  <2>2. Standing /\ RowRight(row)
    BY <1>1, <1>5, <2>1 DEF IInv, Right, Standing
  <2>3. row.form = "row"
    BY <2>2 DEF RowRight, Values
  <2> QED BY <1>3, <2>1, <2>2, <2>3
<1>6. Tame' /\ Forms'
  <2>1. Formed(row, "row")
    BY <1>1 DEF IInv, Forms
  <2>2. row.form = "row"
    BY <2>1 DEF Formed
  <2>3. Standing' => Standing /\ ~OutOfBounds(l, "row")
    BY <1>3, <1>4, <2>2 DEF Standing
  <2>4. Formed(Times(row, Load(l, "row"), l.arg), "row")
    BY <2>1, FormsKept
  <2> QED BY <2>3, <2>4 DEF MulRow, Reads, IInv, Tame, Forms
<1>7. Right'
  <2>1. SUFFICES ASSUME Standing', ~overlooked'
                 PROVE  (tile' = Nothing \/ TileRight(tile')) /\ RowRight(row') /\ (acc' = Zero \/ RowRight(acc'))
    BY DEF Right
  <2>2. /\ row' = Times(row, Load(l, "row"), l.arg) /\ tile' = tile /\ acc' = acc
        /\ row.factors < MaxFactors /\ rowAt \in [Programs -> Nat]
    BY DEF MulRow, IInv, Typed
  <2>3. l.arg = "As" /\ Factor(Load(l, "row"), "As", "row")
    <3>1. FALSE \in BOOLEAN /\ "row" \in {"tile", "row"}
      OBVIOUS
    <3> QED BY <1>5, <2>1, <2>2, <3>1, LoadAs
  <2>4. RowRight(Times(row, Load(l, "row"), "As"))
    BY <1>5, <2>1, <2>2, <2>3, TimesRow
  <2> QED BY <1>5, <2>1, <2>2, <2>3, <2>4 DEF IInv, Right
<1> QED BY <1>1, <1>2, <1>3, <1>6, <1>7, ComputesKeeps DEF Computes

LEMMA MulAccKeeps ==
    ASSUME IInv, NEW l \in ScaleReads(FALSE), MulAcc(l)
    PROVE  IInv'
<1>1. ~launched /\ acc # Zero /\ stores = <<>> /\ UNCHANGED <<rowAt, stores, out, written, launched>>
  BY DEF MulAcc, Step
<1>2. /\ verdict' \in {verdict, "violation", "unproven"}
      /\ verdict' = "open" => /\ verdict = "open" /\ ~OutOfBounds(l, acc.form)
                              /\ ~Mispaired(acc, Load(l, acc.form)) /\ ~NotItsScale(l.arg)
  <2>1. Decide(FactorChecks(acc, l))
    BY DEF MulAcc
  <2> QED BY <2>1, FactorPasses
<1>3. verdict # "proven"
  BY <1>1 DEF IInv, Tiled
<1>4. ASSUME Standing', ~overlooked'
      PROVE  /\ Standing /\ ~overlooked /\ RowRight(acc) /\ ~OutOfBounds(l, "row")
             /\ ~Mispaired(acc, Load(l, "row")) /\ ~NotItsScale(l.arg)
  <2>1. verdict = "open" /\ verdict' = "open" /\ ~overlooked
    BY <1>2, <1>3, <1>4 DEF Standing, MulAcc
  <2>2. Standing /\ RowRight(acc)
    BY <1>1, <1>4, <2>1 DEF IInv, Right, Standing
  <2>3. acc.form = "row"
    BY <2>2 DEF RowRight, Values
  <2> QED BY <1>2, <2>1, <2>2, <2>3
<1>5. Tame' /\ Forms'
  <2>1. Formed(acc, "row")
    BY <1>1 DEF IInv, Forms
  <2>2. acc.form = "row"
    BY <2>1 DEF Formed
  <2>3. Standing' => Standing /\ ~OutOfBounds(l, "row")
    BY <1>2, <1>3, <2>2 DEF Standing
  <2>4. Formed(Times(acc, Load(l, "row"), l.arg), "row")
    BY <2>1, FormsKept
  <2> QED BY <2>3, <2>4 DEF MulAcc, Reads, IInv, Tame, Forms
<1>6. Right'
  <2>1. SUFFICES ASSUME Standing', ~overlooked'
                 PROVE  (tile' = Nothing \/ TileRight(tile')) /\ (row' = Nothing \/ RowRight(row')) /\ RowRight(acc')
    BY DEF Right
  <2>2. /\ acc' = Times(acc, Load(l, "row"), l.arg) /\ tile' = tile /\ row' = row
        /\ acc.factors < MaxFactors /\ rowAt \in [Programs -> Nat]
    BY DEF MulAcc, IInv, Typed
  <2>3. l.arg = "As" /\ Factor(Load(l, "row"), "As", "row")
    <3>1. FALSE \in BOOLEAN /\ "row" \in {"tile", "row"}
      OBVIOUS
    <3> QED BY <1>4, <2>1, <2>2, <3>1, LoadAs
  <2>4. RowRight(Times(acc, Load(l, "row"), "As"))
    BY <1>4, <2>1, <2>2, <2>3, TimesRow
  <2> QED BY <1>4, <2>1, <2>2, <2>3, <2>4 DEF IInv, Right
<1> QED BY <1>1, <1>2, <1>5, <1>6, ComputesKeeps DEF Computes

LEMMA DoubleKeeps ==
    ASSUME IInv, Double
    PROVE  IInv'
<1>1. ~launched /\ row # Nothing /\ verdict' = verdict /\ UNCHANGED <<rowAt, stores, out, written, launched>>
  BY DEF Double, Step
<1>2. stores = <<>>
  BY <1>1 DEF IInv, Emptied
<1>3. Tame' /\ Forms'
  <2>1. Formed(row, "row")
    BY <1>1 DEF IInv, Forms
  <2>2. Formed([row EXCEPT !.extras = TRUE, !.got = [n \in DOMAIN @ |-> 2 * @[n]]], "row")
    BY <2>1, FormsKept
  <2> QED BY <1>1, <2>2 DEF Double, IInv, Tame, Standing, Forms
<1>4. Right'
  <2>1. SUFFICES ASSUME Standing', ~overlooked'
                 PROVE  (tile' = Nothing \/ TileRight(tile')) /\ RowRight(row') /\ (acc' = Zero \/ RowRight(acc'))
    BY DEF Right
  <2>2. Standing /\ ~overlooked
    BY <1>1, <2>1 DEF Double, Standing
  <2>3. RowRight(row)
    BY <1>1, <2>2 DEF IInv, Right
  <2>4. row' = [row EXCEPT !.extras = TRUE, !.got = [n \in DOMAIN @ |-> 2 * @[n]]] /\ tile' = tile /\ acc' = acc
    BY DEF Double
  <2>5. RowRight([row EXCEPT !.extras = TRUE, !.got = [n \in DOMAIN @ |-> 2 * @[n]]])
    BY <2>3, DoubledRow
  <2> QED BY <2>2, <2>4, <2>5 DEF IInv, Right
<1> QED BY <1>1, <1>2, <1>3, <1>4, ComputesKeeps DEF Computes

LEMMA ReduceKeeps ==
    ASSUME IInv, Reduce
    PROVE  IInv'
<1>1. ~launched /\ tile # Nothing /\ UNCHANGED <<rowAt, stores, out, written, launched>>
  BY DEF Reduce, Step
<1>2. stores = <<>>
  BY <1>1 DEF IInv, Emptied
<1> DEFINE checks == <<Check(CountsRowTwice(tile), "violation"), Check(RowChanges(tile) \/ RaggedMask(tile), "unproven"),
                       Check(\E p \in Programs : ReadsTwice(AtK(tile), Read(tile, p)), "violation"),
                       Check(\E p \in Programs : Gaps(AtK(tile), Read(tile, p)), "unproven")>>
<1>3. /\ verdict' \in {verdict, "violation", "unproven"}
      /\ verdict' = "open" => /\ verdict = "open" /\ ~RowChanges(tile) /\ ~RaggedMask(tile)
                              /\ \A p \in Programs : ~Gaps(AtK(tile), Read(tile, p))
  <2>1. Decide(checks)
    BY DEF Reduce
  <2>2. DOMAIN checks = 1..4 /\ 4 \in Nat
    OBVIOUS
  <2>3. /\ checks[1].says = "violation" /\ checks[2].says = "unproven"
        /\ checks[3].says = "violation" /\ checks[4].says = "unproven"
        /\ checks[2].breaks = (RowChanges(tile) \/ RaggedMask(tile))
        /\ checks[4].breaks = (\E p \in Programs : Gaps(AtK(tile), Read(tile, p)))
    BY DEF Check
  <2> HIDE DEF checks
  <2>4. \A i \in 1..4 : checks[i].says \in {"violation", "unproven"}
    BY <2>3
  <2>5. /\ verdict' \in {verdict, "violation", "unproven"}
        /\ verdict' = "open" => verdict = "open" /\ \A i \in 1..4 : ~checks[i].breaks
    BY <2>1, <2>2, <2>4, FirstBroken
  <2>6. 2 \in 1..4 /\ 4 \in 1..4
    OBVIOUS
  <2> QED BY <2>3, <2>5, <2>6
<1>4. verdict # "proven"
  BY <1>1 DEF IInv, Tiled
<1>5. ASSUME Standing', ~overlooked'
      PROVE  /\ Standing /\ ~overlooked /\ TileRight(tile) /\ ~SumsMasked(tile)
             /\ ~RowChanges(tile) /\ ~RaggedMask(tile) /\ \A p \in Programs : ~Gaps(AtK(tile), Read(tile, p))
  <2>1. verdict = "open" /\ verdict' = "open" /\ ~overlooked /\ ~SumsMasked(tile)
    BY <1>3, <1>4, <1>5 DEF Standing, Reduce
  <2>2. Standing /\ TileRight(tile)
    BY <1>1, <1>5, <2>1 DEF IInv, Right, Standing
  <2> QED BY <1>3, <2>1, <2>2
<1>6. Tame' /\ Forms'
  <2>1. Formed(tile, "tile")
    BY <1>1 DEF IInv, Forms
  <2>2. Standing' => Standing
    BY <1>3, <1>4 DEF Standing
  <2>3. Formed(Reduced(tile), "row")
    BY <2>1, FormsKept
  <2> QED BY <2>2, <2>3 DEF Reduce, IInv, Tame, Forms
<1>7. Right'
  <2>1. SUFFICES ASSUME Standing', ~overlooked'
                 PROVE  tile' = Nothing /\ RowRight(row') /\ (acc' = Zero \/ RowRight(acc'))
    BY DEF Right
  <2>2. row' = Reduced(tile) /\ tile' = Nothing /\ acc' = acc
    BY DEF Reduce
  <2>3. RowRight(Reduced(tile))
    BY <1>5, <2>1, ReducedRow DEF Standing
  <2> QED BY <1>5, <2>1, <2>2, <2>3 DEF IInv, Right
<1> HIDE DEF checks
<1> QED BY <1>1, <1>2, <1>3, <1>6, <1>7, ComputesKeeps DEF Computes

LEMMA DotPasses ==
    ASSUME NEW l, Dot(l)
    PROVE  /\ verdict' \in {verdict, "violation", "unproven"}
           /\ verdict' = "open" => /\ verdict = "open" /\ ~OutOfBounds(l, "tile")
                                  /\ ~DotUnproven(tile, Load(l, "tile")) /\ ~DotDisagrees(tile, Load(l, "tile"))
                                  /\ \A p \in Programs : ~Gaps(AtK(tile), Live(tile, Load(l, "tile"), p))
<1> DEFINE y == Load(l, "tile")
           checks == <<InBounds(l, "tile"), Check(DotUnproven(tile, y), "unproven"),
                       Check(DotDisagrees(tile, y), "violation"),
                       Check(\E p \in Programs : ReadsTwice(AtK(tile), Live(tile, y, p)), "violation"),
                       Check(RowContracted \/ \E p \in Programs : Gaps(AtK(tile), Live(tile, y, p)), "unproven")>>
<1>1. Decide(checks)
  BY DEF Dot
<1> HIDE DEF y
<1>2. DOMAIN checks = 1..5 /\ 5 \in Nat
  OBVIOUS
<1>3. /\ checks[1].says = "violation" /\ checks[2].says = "unproven" /\ checks[3].says = "violation"
      /\ checks[4].says = "violation" /\ checks[5].says = "unproven"
      /\ checks[1].breaks = OutOfBounds(l, "tile") /\ checks[2].breaks = DotUnproven(tile, y)
      /\ checks[3].breaks = DotDisagrees(tile, y)
      /\ checks[5].breaks = (RowContracted \/ \E p \in Programs : Gaps(AtK(tile), Live(tile, y, p)))
  BY DEF InBounds, Check
<1> HIDE DEF checks
<1>4. \A i \in 1..5 : checks[i].says \in {"violation", "unproven"}
  BY <1>3
<1>5. /\ verdict' \in {verdict, "violation", "unproven"}
      /\ verdict' = "open" => verdict = "open" /\ \A i \in 1..5 : ~checks[i].breaks
  BY <1>1, <1>2, <1>4, FirstBroken
<1>6. 1 \in 1..5 /\ 2 \in 1..5 /\ 3 \in 1..5 /\ 5 \in 1..5
  OBVIOUS
<1> QED BY <1>3, <1>5, <1>6 DEF y

LEMMA DotKeeps ==
    ASSUME IInv, NEW l \in Windows("B"), Dot(l)
    PROVE  IInv'
<1> DEFINE y == Load(l, "tile")
<1>1. ~launched /\ tile # Nothing /\ UNCHANGED <<rowAt, stores, out, written, launched>>
  BY DEF Dot, Step
<1>2. stores = <<>>
  BY <1>1 DEF IInv, Emptied
<1>3. /\ verdict' \in {verdict, "violation", "unproven"}
      /\ verdict' = "open" => /\ verdict = "open" /\ ~OutOfBounds(l, "tile")
                              /\ ~DotUnproven(tile, y) /\ ~DotDisagrees(tile, y)
                              /\ \A p \in Programs : ~Gaps(AtK(tile), Live(tile, y, p))
  BY DotPasses
<1>4. verdict # "proven"
  BY <1>1 DEF IInv, Tiled
<1>5. ASSUME Standing', ~overlooked'
      PROVE  /\ Standing /\ ~overlooked /\ TileRight(tile) /\ ~OutOfBounds(l, "tile")
             /\ ~DotUnproven(tile, y) /\ ~DotDisagrees(tile, y)
             /\ \A p \in Programs : ~Gaps(AtK(tile), Live(tile, y, p))
  <2>1. verdict = "open" /\ verdict' = "open" /\ ~overlooked
    BY <1>3, <1>4, <1>5 DEF Standing, Dot
  <2>2. Standing /\ TileRight(tile)
    BY <1>1, <1>5, <2>1 DEF IInv, Right, Standing
  <2> QED BY <1>3, <2>1, <2>2
<1>6. Tame' /\ Forms'
  <2>1. Formed(tile, "tile")
    BY <1>1 DEF IInv, Forms
  <2>2. Standing' => Standing /\ ~OutOfBounds(l, "tile")
    BY <1>3, <1>4 DEF Standing
  <2>3. Formed(Dotted(tile, y), "row")
    BY <2>1, FormsKept
  <2> QED BY <2>2, <2>3 DEF Dot, Reads, IInv, Tame, Forms
<1>7. Right'
  <2>1. SUFFICES ASSUME Standing', ~overlooked'
                 PROVE  tile' = Nothing /\ RowRight(row') /\ (acc' = Zero \/ RowRight(acc'))
    BY DEF Right
  <2>2. row' = Dotted(tile, y) /\ tile' = Nothing /\ acc' = acc
    BY DEF Dot
  <2>3. RowRight(Dotted(tile, y))
    <3>1. /\ TileRight(tile) /\ ~OutOfBounds(l, "tile") /\ ~DotUnproven(tile, y) /\ ~DotDisagrees(tile, y)
          /\ \A p \in Programs : ~Gaps(AtK(tile), Live(tile, y, p))
      BY <1>5, <2>1
    <3>2. Factor(y, "B", "tile") /\ \E start \in Hidden, Y \in SUBSET (0..T - 1) : AheadInB(y, start, Y)
      BY <3>1, LoadB DEF IInv, Typed
    <3> HIDE DEF y
    <3>3. PICK start \in Hidden, Y \in SUBSET (0..T - 1) : AheadInB(y, start, Y)
      BY <3>2
    <3> QED BY <3>1, <3>2, <3>3, DottedRow
  <2> HIDE DEF y
  <2> QED BY <1>5, <2>1, <2>2, <2>3 DEF IInv, Right
<1> QED BY <1>1, <1>2, <1>3, <1>6, <1>7, ComputesKeeps DEF Computes

LEMMA AccumulateKeeps ==
    ASSUME IInv, Accumulate
    PROVE  IInv'
<1>1. ~launched /\ row # Nothing /\ UNCHANGED <<rowAt, stores, out, written, launched>>
  BY DEF Accumulate, Step
<1>2. stores = <<>>
  BY <1>1 DEF IInv, Emptied
<1> DEFINE sums == <<Check(Mispaired(acc, row), "violation"), Check(acc.applied # row.applied, "unproven")>>
<1>3. /\ verdict' \in {verdict, "violation", "unproven"}
      /\ verdict' = "open" => /\ verdict = "open"
                              /\ acc = Zero \/ (~Mispaired(acc, row) /\ acc.applied = row.applied)
  <2>1. CASE acc = Zero
    <3>1. Decide(<<>>)
      BY <2>1 DEF Accumulate
    <3>2. verdict' = verdict
      BY <3>1 DEF Decide
    <3> QED BY <2>1, <3>2
  <2>2. CASE acc # Zero
    <3>1. Decide(sums)
      BY <2>2 DEF Accumulate
    <3>2. DOMAIN sums = 1..2 /\ 2 \in Nat
      OBVIOUS
    <3>3. /\ sums[1].says = "violation" /\ sums[2].says = "unproven"
          /\ sums[1].breaks = Mispaired(acc, row) /\ sums[2].breaks = (acc.applied # row.applied)
      BY DEF Check
    <3> HIDE DEF sums
    <3>4. \A i \in 1..2 : sums[i].says \in {"violation", "unproven"}
      BY <3>3
    <3>5. /\ verdict' \in {verdict, "violation", "unproven"}
          /\ verdict' = "open" => verdict = "open" /\ \A i \in 1..2 : ~sums[i].breaks
      BY <3>1, <3>2, <3>4, FirstBroken
    <3>6. 1 \in 1..2 /\ 2 \in 1..2
      OBVIOUS
    <3> QED BY <3>3, <3>5, <3>6
  <2> QED BY <2>1, <2>2
<1>4. verdict # "proven"
  BY <1>1 DEF IInv, Tiled
<1> HIDE DEF sums
<1>5. ASSUME Standing', ~overlooked'
      PROVE  /\ Standing /\ ~overlooked /\ RowRight(row)
             /\ acc = Zero \/ (RowRight(acc) /\ ~Mispaired(acc, row) /\ acc.applied = row.applied /\ acc.valid = row.valid)
  <2>1. /\ verdict = "open" /\ verdict' = "open" /\ ~overlooked
        /\ acc = Zero \/ acc.valid = row.valid
    BY <1>3, <1>4, <1>5 DEF Standing, Accumulate
  <2>2. Standing /\ RowRight(row) /\ (acc = Zero \/ RowRight(acc))
    BY <1>1, <1>5, <2>1 DEF IInv, Right, Standing
  <2> QED BY <1>3, <2>1, <2>2
<1>6. Tame' /\ Forms'
  <2>1. Formed(row, "row") /\ (acc = Zero \/ Formed(acc, "row"))
    BY <1>1 DEF IInv, Forms
  <2>2. Standing' => Standing
    BY <1>3, <1>4 DEF Standing
  <2>3. acc = Zero \/ Formed(Plus(acc, row), "row")
    BY <2>1, FormsKept
  <2> QED BY <2>1, <2>2, <2>3 DEF Accumulate, IInv, Tame, Forms
<1>7. Right'
  <2>1. SUFFICES ASSUME Standing', ~overlooked'
                 PROVE  (tile' = Nothing \/ TileRight(tile')) /\ row' = Nothing /\ RowRight(acc')
    BY DEF Right
  <2>2. acc' = (IF acc = Zero THEN row ELSE Plus(acc, row)) /\ row' = Nothing /\ tile' = tile
    BY DEF Accumulate
  <2>3. CASE acc = Zero
    BY <1>5, <2>1, <2>2, <2>3 DEF IInv, Right
  <2>4. CASE acc # Zero
    <3>1. RowRight(Plus(acc, row))
      BY <1>5, <2>1, <2>4, PlusRow
    <3> QED BY <1>5, <2>1, <2>2, <2>4, <3>1 DEF IInv, Right
  <2> QED BY <2>3, <2>4
<1> QED BY <1>1, <1>2, <1>3, <1>6, <1>7, ComputesKeeps DEF Computes

LEMMA StorePasses ==
    ASSUME NEW s \in AllStores, Store(s)
    PROVE  /\ verdict' \in {verdict, "violation", "unproven"}
           /\ verdict' = "open" => /\ verdict = "open" /\ \A n \in StoreLanes(s) : TargetOf(s, n) \in Tokens
                                   /\ StoreLanes(s) \subseteq acc.valid
                                   /\ \A n \in StoreLanes(s) : TargetOf(s, n) = acc.coords["token"].at[n]
                                   /\ \A p \in Programs : Covers(acc.sums, p)
                                   /\ ~acc.extras /\ acc.applied = 1
<1> DEFINE checks == StoreChecks(s)
<1>1. DOMAIN checks = 1..6 /\ 6 \in Nat
  <2>1. \A a, b, c, d, e, f : DOMAIN <<a, b, c, d, e, f>> = 1..6
    OBVIOUS
  <2>2. \E a, b, c, d, e, f : checks = <<a, b, c, d, e, f>>
    BY Zenon DEF StoreChecks
  <2> HIDE DEF checks
  <2> QED BY <2>1, <2>2
<1>2. /\ checks[1].says = "violation" /\ checks[2].says = "violation" /\ checks[3].says = "violation"
      /\ checks[4].says = "violation" /\ checks[5].says = "violation" /\ checks[6].says = "violation"
      /\ checks[1].breaks = (\E n \in StoreLanes(s) : TargetOf(s, n) \notin Tokens)
      /\ checks[2].breaks = ~(StoreLanes(s) \subseteq acc.valid)
      /\ checks[3].breaks = (\E n \in StoreLanes(s) : TargetOf(s, n) # acc.coords["token"].at[n])
      /\ checks[4].breaks = (\E p \in Programs : ~Covers(acc.sums, p))
      /\ checks[5].breaks = acc.extras /\ checks[6].breaks = (acc.applied # 1)
  BY DEF StoreChecks, Check
<1>3. Decide(checks)
  BY DEF Store
<1> HIDE DEF checks
<1>4. \A i \in 1..6 : checks[i].says \in {"violation", "unproven"}
  BY <1>2
<1>5. /\ verdict' \in {verdict, "violation", "unproven"}
      /\ verdict' = "open" => verdict = "open" /\ \A i \in 1..6 : ~checks[i].breaks
  BY <1>1, <1>3, <1>4, FirstBroken
<1>6. 1 \in 1..6 /\ 2 \in 1..6 /\ 3 \in 1..6 /\ 4 \in 1..6 /\ 5 \in 1..6 /\ 6 \in 1..6
  OBVIOUS
<1>7. verdict' = "open" => ~checks[1].breaks /\ ~checks[2].breaks /\ ~checks[3].breaks
                           /\ ~checks[4].breaks /\ ~checks[5].breaks /\ ~checks[6].breaks
  BY <1>5, <1>6
<1> QED BY <1>2, <1>5, <1>7

LEMMA StoreKeeps ==
    ASSUME IInv, NEW s \in AllStores, Store(s)
    PROVE  IInv'
<1>1. /\ ~launched /\ acc # Zero /\ tile = Nothing /\ row = Nothing
      /\ UNCHANGED <<rowAt, tile, row, acc, launched, overlooked>>
  BY DEF Store, Step
<1>2. /\ stores' = Append(stores, Footprint(s))
      /\ out' = [t \in Tokens |-> IF Written(s, t) = {} THEN out[t] ELSE acc.got[CHOOSE n \in Written(s, t) : TRUE]]
      /\ written' = [t \in Tokens |-> written[t] + Cardinality(Written(s, t))]
      /\ wild' = (wild \/ \E n \in StoreLanes(s) : TargetOf(s, n) \notin Tokens)
  BY DEF Store, Footprint, Written
<1>3. /\ verdict' \in {verdict, "violation", "unproven"}
      /\ verdict' = "open" => /\ verdict = "open" /\ \A n \in StoreLanes(s) : TargetOf(s, n) \in Tokens
                              /\ StoreLanes(s) \subseteq acc.valid
                              /\ \A n \in StoreLanes(s) : TargetOf(s, n) = acc.coords["token"].at[n]
                              /\ \A p \in Programs : Covers(acc.sums, p)
                              /\ ~acc.extras /\ acc.applied = 1
  BY StorePasses
<1>4. verdict # "proven"
  BY <1>1 DEF IInv, Tiled
<1>5. rowAt \in [Programs -> Nat] /\ stores \in Seq([Programs -> SUBSET Int]) /\ written \in [Tokens -> Nat]
  BY DEF IInv, Typed
<1>6. ASSUME NEW t \in Tokens
      PROVE  /\ IsFiniteSet(StoresOf(t)') /\ written'[t] = Cardinality(StoresOf(t)') /\ written'[t] \in Nat
             /\ StoresOf(t)' # {} => StoresOf(t) # {} \/ Written(s, t) # {}
  <2>1. IsFiniteSet(StoresOf(t)) /\ written[t] = Cardinality(StoresOf(t)) /\ written[t] \in Nat
    BY <1>5 DEF IInv, CountedOnce
  <2>2. /\ IsFiniteSet(StoresOf(t)')
        /\ Cardinality(StoresOf(t)') = Cardinality(StoresOf(t)) + Cardinality(Written(s, t))
        /\ Cardinality(Written(s, t)) \in Nat
        /\ StoresOf(t)' # {} => StoresOf(t) # {} \/ Written(s, t) # {}
    BY <1>2, <1>5, <2>1, StoreCounts
  <2>3. written'[t] = written[t] + Cardinality(Written(s, t))
    BY <1>2
  <2>4. PICK a \in Nat, b \in Nat : a = written[t] /\ b = Cardinality(Written(s, t)) /\ a + b \in Nat
    BY <2>1, <2>2
  <2> QED BY <2>1, <2>2, <2>3, <2>4
<1>7. CountedOnce'
  BY <1>6 DEF CountedOnce
<1>8. Typed'
  <2>1. Footprint(s) \in [Programs -> SUBSET Int]
    BY <1>5, Targets
  <2>2. stores' \in Seq([Programs -> SUBSET Int])
    <3>1. Append(stores, Footprint(s)) \in Seq([Programs -> SUBSET Int])
      BY <1>5, <2>1, AppendProperties
    <3> QED BY <1>2, <3>1
  <2>3. written' \in [Tokens -> Nat]
    <3>1. DOMAIN written' = Tokens /\ written' = [t \in Tokens |-> written'[t]]
      BY <1>2
    <3> QED BY <1>6, <3>1
  <2>4. DOMAIN out' = Tokens
    BY <1>2
  <2>5. verdict' \in {"open", "violation", "unproven", "proven"} /\ launched' \in BOOLEAN /\ rowAt' \in [Programs -> Nat]
    BY <1>1, <1>3 DEF IInv, Typed
  <2> QED BY <2>2, <2>3, <2>4, <2>5 DEF Typed
<1>9. ASSUME Standing', ~overlooked'
      PROVE  /\ Standing /\ ~overlooked /\ RowRight(acc) /\ \A n \in StoreLanes(s) : TargetOf(s, n) \in Tokens
             /\ StoreLanes(s) \subseteq acc.valid
             /\ \A n \in StoreLanes(s) : TargetOf(s, n) = acc.coords["token"].at[n]
             /\ \A p \in Programs : Covers(acc.sums, p)
             /\ ~acc.extras /\ acc.applied = 1
  <2>1. verdict = "open" /\ verdict' = "open" /\ ~overlooked
    BY <1>1, <1>3, <1>4, <1>9 DEF Standing
  <2>2. Standing /\ RowRight(acc)
    BY <1>1, <1>9, <2>1 DEF IInv, Right, Standing
  <2> QED BY <1>3, <2>1, <2>2
<1>10. Tame' /\ Forms'
  <2>1. Standing' => Standing /\ \A n \in StoreLanes(s) : TargetOf(s, n) \in Tokens
    BY <1>3, <1>4 DEF Standing
  <2> QED BY <1>1, <1>2, <2>1 DEF IInv, Tame, Forms
<1>11. Right'
  BY <1>1, <1>9 DEF Right
<1>12. Emptied'
  BY <1>1 DEF Emptied
<1>13. Complete'
  <2>1. SUFFICES ASSUME Standing', ~overlooked'
                 PROVE  /\ \A p \in Programs : <<p, 0, 0>> \in acc.valid /\ Covers(acc.sums, p)
                        /\ acc.extras = FALSE /\ acc.applied = 1
                        /\ \A t \in Tokens : StoresOf(t)' # {} => \E n \in acc.valid : AtRow(acc)[n] = t /\ out'[t] = acc.got[n]
    BY <1>1 DEF Complete
  <2>2. ASSUME NEW p \in Programs PROVE <<p, 0, 0>> \in acc.valid
    <3>1. <<p, 0, 0>> \in StoreLanes(s)
      BY <1>5, Targets
    <3> QED BY <1>9, <2>1, <3>1
  <2>3. acc.extras = FALSE
    <3>1. acc.extras \in BOOLEAN
      BY <1>9, <2>1 DEF RowRight, Values
    <3> QED BY <1>9, <2>1, <3>1
  <2>4. ASSUME NEW t \in Tokens, StoresOf(t)' # {}
        PROVE  \E n \in acc.valid : AtRow(acc)[n] = t /\ out'[t] = acc.got[n]
    <3>1. CASE Written(s, t) = {}
      <4>1. StoresOf(t) # {} /\ out'[t] = out[t]
        BY <1>2, <1>6, <2>4, <3>1
      <4>2. stores # <<>>
        <5>1. PICK x \in StoresOf(t) : x[1] \in DOMAIN stores
          BY <4>1 DEF StoresOf
        <5> QED BY <5>1
      <4>3. Standing /\ ~overlooked
        BY <1>9, <2>1
      <4>4. \E n \in acc.valid : AtRow(acc)[n] = t /\ out[t] = acc.got[n]
        BY <4>1, <4>2, <4>3 DEF IInv, Complete
      <4> QED BY <4>1, <4>4
    <3>2. CASE Written(s, t) # {}
      <4>1. PICK n \in Written(s, t) : n = CHOOSE m \in Written(s, t) : TRUE
        BY <3>2
      <4>2. out'[t] = acc.got[n]
        BY <1>2, <3>2, <4>1
      <4>3. n \in StoreLanes(s) /\ TargetOf(s, n) = t
        BY DEF Written
      <4> QED BY <1>9, <2>1, <4>2, <4>3 DEF AtRow
    <3> QED BY <3>1, <3>2
  <2> QED BY <1>9, <2>1, <2>2, <2>3, <2>4
<1>14. Tiled'
  BY <1>3, <1>4 DEF Tiled
<1> QED BY <1>7, <1>8, <1>10, <1>11, <1>12, <1>13, <1>14 DEF IInv

LEMMA LaunchKeeps ==
    ASSUME IInv, Launch
    PROVE  IInv'
<1>1. /\ ~launched /\ stores # <<>> /\ launched' = TRUE
      /\ UNCHANGED <<rowAt, tile, row, acc, stores, out, written, wild, ops, odd, overlooked>>
      /\ verdict' = IF verdict # "open" THEN verdict
                    ELSE IF \E t \in Tokens : StoresOf(t) = {} THEN "violation"
                    ELSE IF \E t \in Tokens : Cardinality(StoresOf(t)) > 1 THEN "unproven"
                    ELSE "proven"
  BY DEF Launch
<1>2. verdict # "proven"
  BY <1>1 DEF IInv, Tiled
<1>3. \A t \in Tokens : StoresOf(t)' = StoresOf(t)
  BY <1>1 DEF StoresOf
<1>4. Standing' => verdict = "open"
  BY <1>1, <1>2 DEF Standing, IInv, Typed
<1>5. Standing' => Standing
  BY <1>4 DEF Standing
<1>6. Typed'
  BY <1>1 DEF IInv, Typed
<1>7. Forms' /\ Tame' /\ Right' /\ Emptied'
  BY <1>1, <1>5 DEF IInv, Forms, Tame, Right, Emptied
<1>8. Complete'
  BY <1>1, <1>3, <1>5 DEF IInv, Complete
<1>9. CountedOnce'
  BY <1>1, <1>3 DEF IInv, CountedOnce
<1>10. Tiled'
  <2>1. SUFFICES ASSUME verdict' = "proven" PROVE \A t \in Tokens : Cardinality(StoresOf(t)') = 1
    BY <1>1 DEF Tiled
  <2>2. SUFFICES ASSUME NEW t \in Tokens PROVE Cardinality(StoresOf(t)) = 1
    BY <1>3
  <2>3. StoresOf(t) # {} /\ ~(Cardinality(StoresOf(t)) > 1)
    BY <1>1, <1>2, <2>1
  <2>4. IsFiniteSet(StoresOf(t))
    BY DEF IInv, CountedOnce
  <2>5. Cardinality(StoresOf(t)) \in Nat /\ Cardinality(StoresOf(t)) # 0
    BY <2>3, <2>4, FS_CardinalityType, FS_EmptySet
  <2> QED BY <2>3, <2>5
<1> QED BY <1>6, <1>7, <1>8, <1>9, <1>10 DEF IInv

LEMMA StutterKeeps ==
    ASSUME IInv, UNCHANGED vars
    PROVE  IInv'
<1>1. \A t \in Tokens : StoresOf(t)' = StoresOf(t)
  BY DEF vars, StoresOf
<1>2. Typed' /\ Forms' /\ Tame' /\ Right' /\ Emptied'
  BY DEF vars, IInv, Typed, Forms, Tame, Right, Emptied, Standing
<1>3. Complete' /\ CountedOnce' /\ Tiled'
  BY <1>1 DEF vars, IInv, Complete, CountedOnce, Tiled, Standing
<1> QED BY <1>2, <1>3 DEF IInv

(* A launch that is proven is right, unless something was overlooked.          *)
LEMMA InvariantIsRight == IInv /\ ~OneLane => ProvenIsRight
<1> SUFFICES ASSUME IInv, ~OneLane, verdict = "proven"
             PROVE  ~wild /\ (\A t \in Tokens : written[t] = 1) /\ (Meant \/ overlooked)
  BY DEF ProvenIsRight
<1>1. stores # <<>> /\ \A t \in Tokens : Cardinality(StoresOf(t)) = 1
  BY DEF IInv, Tiled
<1>2. \A t \in Tokens : written[t] = 1 /\ StoresOf(t) # {}
  BY <1>1, FS_EmptySet DEF IInv, CountedOnce
<1>3. ~wild
  BY DEF IInv, Tame, Standing
<1>4. ASSUME ~overlooked PROVE Meant
  <2>1. RowRight(acc)
    BY <1>1, <1>4 DEF IInv, Right, Emptied, Standing
  <2>2. /\ <<1, 0, 0>> \in acc.valid /\ Covers(acc.sums, 1) /\ acc.extras = FALSE /\ acc.applied = 1
        /\ \A t \in Tokens : \E n \in acc.valid : AtRow(acc)[n] = t /\ out[t] = acc.got[n]
    <3>1. 1 \in Programs
      BY Sizes DEF Programs
    <3> QED BY <1>1, <1>2, <1>4, <3>1 DEF IInv, Complete, Standing
  <2>3. PICK times \in [Hidden -> 0..MaxFactors] :
            \A n \in acc.valid : acc.got[n] = SumTo([k \in Hidden |-> Term(AtRow(acc)[n], k, times[k])], K)
    BY <2>1, <2>2, RowMeant
  <2>4. \A t \in Tokens : out[t] = SumTo([k \in Hidden |-> Term(t, k, times[k])], K)
    BY <2>2, <2>3
  <2> QED BY <2>4 DEF Meant
<1> QED BY <1>2, <1>3, <1>4

LEMMA NextKeeps == ASSUME IInv, [Next]_vars PROVE IInv'
<1>1. ASSUME NEW l \in Windows("A"), LoadTile(l) PROVE IInv'
  BY <1>1, LoadTileKeeps
<1>2. ASSUME NEW l \in Windows("B") \cup ScaleReads(TRUE) \cup ScaleReads(FALSE), MulTile(l) PROVE IInv'
  BY <1>2, MulTileKeeps
<1>3. ASSUME NEW l \in ScaleReads(FALSE), MulRow(l) PROVE IInv'
  BY <1>3, MulRowKeeps
<1>4. ASSUME NEW l \in ScaleReads(FALSE), MulAcc(l) PROVE IInv'
  BY <1>4, MulAccKeeps
<1>5. CASE Double
  BY <1>5, DoubleKeeps
<1>6. CASE Reduce
  BY <1>6, ReduceKeeps
<1>7. ASSUME NEW l \in Windows("B"), Dot(l) PROVE IInv'
  BY <1>7, DotKeeps
<1>8. CASE Accumulate
  BY <1>8, AccumulateKeeps
<1>9. ASSUME NEW s \in AllStores, Store(s) PROVE IInv'
  BY <1>9, StoreKeeps
<1>10. CASE Launch
  BY <1>10, LaunchKeeps
<1>11. CASE UNCHANGED vars
  BY <1>11, StutterKeeps
<1> QED BY <1>1, <1>2, <1>3, <1>4, <1>5, <1>6, <1>7, <1>8, <1>9, <1>10, <1>11 DEF Next, AllStores

(* A tile of one lane gives rows of no sum, and no dot that passes: a kernel     *)
(* built of them is never proven, for its store finds no sum over hidden.        *)
Unsummed(x) == "sums" \in DOMAIN x /\ x.sums = <<>>
OneLaneFails ==
    OneLane => /\ verdict # "proven"
               /\ verdict = "open" => /\ stores = <<>>
                                      /\ tile = Nothing \/ Unsummed(tile)
                                      /\ row = Nothing \/ Unsummed(row)
                                      /\ acc = Zero \/ Unsummed(acc)

LEMMA UnsummedKept ==
    ASSUME NEW x, Unsummed(x), NEW y, NEW arg
    PROVE  /\ Unsummed(Times(x, y, arg)) /\ (Unsummed(y) => Unsummed(Plus(x, y)))
           /\ Unsummed([x EXCEPT !.extras = TRUE, !.got = [n \in DOMAIN @ |-> 2 * @[n]]])
           /\ (OneLane => Unsummed(Reduced(x)))
<1>1. Unsummed(Times(x, y, arg))
  BY DEF Unsummed, Times
<1>2. Unsummed(y) => Unsummed(Plus(x, y))
  <2>1. Plus(x, y).sums = x.sums \o y.sums /\ "sums" \in DOMAIN Plus(x, y)
    BY DEF Unsummed, Plus
  <2>2. <<>> \o <<>> = <<>>
    OBVIOUS
  <2> QED BY <2>1, <2>2 DEF Unsummed
<1>3. Unsummed([x EXCEPT !.extras = TRUE, !.got = [n \in DOMAIN @ |-> 2 * @[n]]])
  BY DEF Unsummed
<1>4. OneLane => Unsummed(Reduced(x))
  BY DEF Unsummed, Reduced
<1> QED BY <1>1, <1>2, <1>3, <1>4

LEMMA OneLaneStays == ASSUME IInv, IInv', OneLaneFails, [Next]_vars PROVE OneLaneFails'
<1> SUFFICES ASSUME OneLane PROVE OneLaneFails'
  BY DEF OneLaneFails
<1>1. verdict # "proven"
  BY DEF OneLaneFails
<1>2. ASSUME NEW checks, Decide(checks), verdict' = "open" PROVE verdict = "open"
  BY <1>2 DEF Decide
<1>3. ASSUME ~launched, launched' = launched PROVE verdict' # "proven"
  <2>1. SUFFICES ASSUME verdict' = "proven" PROVE FALSE
    OBVIOUS
  <2>2. launched
    BY <1>3, <2>1 DEF IInv, Tiled
  <2> QED BY <1>1, <1>3, <2>1, <2>2
<1>4. ASSUME NEW l \in Windows("A"), LoadTile(l) PROVE OneLaneFails'
  <2>1. Unsummed(Load(l, "tile"))
    BY DEF Unsummed, Load
  <2>2. /\ tile' = Load(l, "tile") /\ ~launched /\ UNCHANGED <<row, acc, stores, launched>>
        /\ Decide(<<InBounds(l, "tile")>>)
    BY <1>4 DEF LoadTile, Step
  <2> QED BY <1>2, <1>3, <2>1, <2>2 DEF OneLaneFails
<1>5. ASSUME NEW l, MulTile(l) PROVE OneLaneFails'
  <2>1. /\ tile' = Times(tile, Load(l, "tile"), l.arg) /\ tile # Nothing /\ ~launched /\ UNCHANGED <<row, acc, stores, launched>>
        /\ Decide(FactorChecks(tile, l))
    BY <1>5 DEF MulTile, Step
  <2> QED BY <1>2, <1>3, <2>1, UnsummedKept DEF OneLaneFails
<1>6. ASSUME NEW l, MulRow(l) PROVE OneLaneFails'
  <2>1. /\ row' = Times(row, Load(l, "row"), l.arg) /\ row # Nothing /\ ~launched /\ UNCHANGED <<tile, acc, stores, launched>>
        /\ Decide(FactorChecks(row, l))
    BY <1>6 DEF MulRow, Step
  <2> QED BY <1>2, <1>3, <2>1, UnsummedKept DEF OneLaneFails
<1>7. ASSUME NEW l, MulAcc(l) PROVE OneLaneFails'
  <2>1. /\ acc' = Times(acc, Load(l, "row"), l.arg) /\ acc # Zero /\ ~launched /\ UNCHANGED <<tile, row, stores, launched>>
        /\ Decide(FactorChecks(acc, l))
    BY <1>7 DEF MulAcc, Step
  <2> QED BY <1>2, <1>3, <2>1, UnsummedKept DEF OneLaneFails
<1>8. CASE Double
  <2>1. /\ row' = [row EXCEPT !.extras = TRUE, !.got = [n \in DOMAIN @ |-> 2 * @[n]]] /\ row # Nothing
        /\ UNCHANGED <<tile, acc, stores, launched, verdict>>
    BY <1>8 DEF Double
  <2> QED BY <1>1, <2>1, UnsummedKept DEF OneLaneFails
<1>9. CASE Reduce
  <2>1. /\ row' = Reduced(tile) /\ tile' = Nothing /\ tile # Nothing /\ ~launched /\ UNCHANGED <<acc, stores, launched>>
        /\ verdict' = "open" => verdict = "open"
    BY <1>9 DEF Reduce, Decide, Step
  <2> QED BY <1>3, <2>1, UnsummedKept DEF OneLaneFails
<1>10. ASSUME NEW l, Dot(l) PROVE OneLaneFails'
  <2>1. verdict' # "open"
    BY <1>10, DotPasses DEF DotUnproven, NothingContracted
  <2>2. ~launched /\ launched' = launched
    BY <1>10 DEF Dot, Step
  <2> QED BY <1>3, <2>1, <2>2 DEF OneLaneFails
<1>11. CASE Accumulate
  <2>1. /\ acc' = (IF acc = Zero THEN row ELSE Plus(acc, row)) /\ row' = Nothing /\ row # Nothing
        /\ ~launched /\ UNCHANGED <<tile, stores, launched>>
        /\ verdict' = "open" => verdict = "open"
    BY <1>11 DEF Accumulate, Decide, Step
  <2>2. CASE acc = Zero
    BY <1>3, <2>1, <2>2 DEF OneLaneFails
  <2>3. CASE acc # Zero
    BY <1>3, <2>1, <2>3, UnsummedKept DEF OneLaneFails
  <2> QED BY <2>2, <2>3
<1>12. ASSUME NEW s \in AllStores, Store(s) PROVE OneLaneFails'
  <2>1. ~launched /\ launched' = launched /\ acc # Zero
    BY <1>12 DEF Store, Step
  <2>2. verdict' # "open"
    <3>1. SUFFICES ASSUME verdict' = "open" PROVE FALSE
      OBVIOUS
    <3>2. verdict = "open" /\ \A p \in Programs : Covers(acc.sums, p)
      BY <1>12, <3>1, StorePasses
    <3>3. acc.sums = <<>> /\ 1 \in Programs /\ 0 \in Hidden
      BY <2>1, <3>2, Sizes DEF OneLaneFails, Unsummed, Programs, Hidden
    <3>4. \A k : {i \in DOMAIN acc.sums :
                     acc.sums[i][1].lo <= k /\ k < acc.sums[i][1].lo + acc.sums[i][1].count} = {}
      <4>1. DOMAIN <<>> = {}
        OBVIOUS
      <4> QED BY <3>3, <4>1
    <3>5. Cardinality({}) = 1
      BY <3>2, <3>3, <3>4 DEF Covers
    <3> QED BY <3>5, FS_EmptySet
  <2> QED BY <1>3, <2>1, <2>2 DEF OneLaneFails
<1>13. CASE Launch
  <2>1. verdict # "open"
    BY <1>13 DEF Launch, OneLaneFails
  <2>2. verdict' = verdict
    BY <1>13, <2>1 DEF Launch
  <2> QED BY <1>1, <2>1, <2>2 DEF OneLaneFails
<1>14. CASE UNCHANGED vars
  BY <1>14 DEF vars, OneLaneFails
<1> QED BY <1>4, <1>5, <1>6, <1>7, <1>8, <1>9, <1>10, <1>11, <1>12, <1>13, <1>14 DEF Next, AllStores

(* The verdict of a launch is sound: a launch found proven touches nothing     *)
(* outside its tensors, writes every element of its output once and computes   *)
(* the output's meaning, for every number of programs, rows and lanes, every   *)
(* length of hidden and of its groups, every data, and every kernel of the     *)
(* model's operations in which nothing the checker does not look at was done   *)
(* (check_launch).                                                             *)
THEOREM ProofsAreSound == Spec => []ProvenIsRight
<1>1. Init => IInv /\ OneLaneFails
  BY InitRight DEF Init, OneLaneFails
<1>2. IInv /\ OneLaneFails /\ [Next]_vars => IInv' /\ OneLaneFails'
  BY NextKeeps, OneLaneStays
<1>3. IInv /\ OneLaneFails => ProvenIsRight
  BY InvariantIsRight DEF OneLaneFails, ProvenIsRight
<1> QED BY <1>1, <1>2, <1>3, PTL DEF Spec

-----------------------------------------------------------------------------
(* Kernels without an odd choice. Their tiles have more lanes than one, do not  *)
(* cross the groups of a scale and are not wider than the axis.                *)
Straight == MaxOdd = 0 /\ T > 1 /\ T <= K /\ G % T = 0

(* Every weight of a sum of elements can be told from the sums: those of A      *)
(* alone, with its own scale, and with any one scale; and an element of B is    *)
(* larger than the number of summands a kernel can have.                       *)
Mixed(t, g, U, V, W) ==
    SumTo([k \in Hidden |-> A[<<t, k>>] * (U[k] + As[<<t, k \div G>>] * V[k] + As[<<t, g>>] * W[k])], K)
Unlike ==
    /\ \A g \in Groups : \A U, V, W \in [Hidden -> Int] :
          (\A t \in Tokens : Mixed(t, g, U, V, W) = 0) =>
              \A k \in Hidden : U[k] = 0 /\ V[k] + (IF k \div G = g THEN W[k] ELSE 0) = 0
                                /\ (k \div G # g => W[k] = 0)
    /\ \A k \in Hidden : B[k] > MaxOps + 2

(* There are such data: four k in two groups, tiles of two lanes, and three rows *)
(* for each k, which read that k alone: under no scale, under the first group's   *)
(* and under the second's.                                                       *)
Telling ==
    /\ P = 12 /\ R = 1 /\ T = 2 /\ K = 4 /\ G = 2
    /\ \A t \in Tokens : /\ \A k \in Hidden : A[<<t, k>>] = IF t % 4 = k THEN 1 ELSE 0
                         /\ \A g \in Groups : As[<<t, g>>] = IF t \div 4 = g + 1 THEN 1 ELSE 0
    /\ \A k \in Hidden : B[k] = MaxOps + 3

LEMMA TellingIsUnlike ==
    ASSUME MaxOdd = 0, Telling
    PROVE  Straight /\ Unlike
<1>1. /\ Tokens = 0..11 /\ Hidden = 0..3 /\ Groups = {0, 1} /\ K = 4
      /\ 0 \div G = 0 /\ 1 \div G = 0 /\ 2 \div G = 1 /\ 3 \div G = 1
  <2>1. /\ 12 * 1 = 12 /\ 12 - 1 = 11 /\ 4 - 1 = 3 /\ 3 \div 2 = 1 /\ 0..1 = {0, 1}
        /\ 0 \div 2 = 0 /\ 1 \div 2 = 0 /\ 2 \div 2 = 1
    OBVIOUS
  <2> QED BY <2>1 DEF Telling, Tokens, Hidden, Groups, M
<1>2. Straight
  <2>1. 2 % 2 = 0 /\ 2 <= 4 /\ 2 > 1
    OBVIOUS
  <2> QED BY <2>1 DEF Straight, Telling
<1>3. ASSUME NEW g \in Groups, NEW U \in [Hidden -> Int], NEW V \in [Hidden -> Int], NEW W \in [Hidden -> Int],
             \A t \in Tokens : Mixed(t, g, U, V, W) = 0
      PROVE  \A k \in Hidden : U[k] = 0 /\ V[k] + (IF k \div G = g THEN W[k] ELSE 0) = 0
                               /\ (k \div G # g => W[k] = 0)
  <2>1. ASSUME NEW k \in Hidden, NEW i \in 0..2, NEW q \in {0, 1}, q = k \div G
        PROVE  U[k] + (IF i = q + 1 THEN V[k] ELSE 0) + (IF i = g + 1 THEN W[k] ELSE 0) = 0
    <3>1. PICK t \in Tokens : t = 4 * i + k /\ t % 4 = k /\ t \div 4 = i
      <4>1. 4 * i + k \in 0..11 /\ (4 * i + k) % 4 = k /\ (4 * i + k) \div 4 = i
        BY <1>1
      <4> QED BY <1>1, <4>1
    <3> DEFINE f == [j \in Hidden |-> A[<<t, j>>] * (U[j] + As[<<t, j \div G>>] * V[j] + As[<<t, g>>] * W[j])]
               u == U[k] + (IF i = q + 1 THEN V[k] ELSE 0) + (IF i = g + 1 THEN W[k] ELSE 0)
    <3>2. ASSUME NEW j \in Hidden PROVE f[j] = IF j = k THEN u ELSE 0
      <4>1. PICK a \in Int, s \in Int, c \in Int :
                /\ a = A[<<t, j>>] /\ s = As[<<t, j \div G>>] /\ c = As[<<t, g>>]
                /\ a = (IF j = k THEN 1 ELSE 0) /\ s = (IF i = j \div G + 1 THEN 1 ELSE 0)
                /\ c = (IF i = g + 1 THEN 1 ELSE 0)
        <5>1. j \div G \in Groups
          BY <1>1
        <5> QED BY <3>1, <5>1 DEF Telling
      <4>2. PICK x \in Int, y \in Int, z \in Int : x = U[j] /\ y = V[j] /\ z = W[j]
        OBVIOUS
      <4>3. f[j] = a * (x + s * y + c * z)
        BY <4>1, <4>2
      <4>4. CASE j # k
        <5>1. x + s * y + c * z \in Int /\ a = 0
          BY <4>1, <4>4
        <5>2. 0 * (x + s * y + c * z) = 0
          BY <5>1
        <5> QED BY <4>3, <4>4, <5>1, <5>2
      <4>5. CASE j = k
        <5>1. a = 1 /\ s = (IF i = q + 1 THEN 1 ELSE 0) /\ u = x + (IF i = q + 1 THEN y ELSE 0) + (IF i = g + 1 THEN z ELSE 0)
          BY <2>1, <4>1, <4>2, <4>5
        <5>2. s * y = (IF i = q + 1 THEN y ELSE 0) /\ c * z = (IF i = g + 1 THEN z ELSE 0)
          <6>1. 1 * y = y /\ 0 * y = 0 /\ 1 * z = z /\ 0 * z = 0
            OBVIOUS
          <6> QED BY <4>1, <5>1, <6>1
        <5>3. s * y \in Int /\ c * z \in Int /\ 1 * (x + s * y + c * z) = x + s * y + c * z
          OBVIOUS
        <5> HIDE DEF f, u
        <5> QED BY <4>3, <4>5, <5>1, <5>2, <5>3
      <4> QED BY <4>4, <4>5
    <3>3. u \in Int
      <4>1. U[k] \in Int /\ V[k] \in Int /\ W[k] \in Int
        OBVIOUS
      <4> QED BY <4>1
    <3>4. SumTo(f, K) = 0
      BY <1>3, <3>1 DEF Mixed
    <3> HIDE DEF f, u
    <3>5. Ints(f, 4)
      BY <1>1, <3>2, <3>3 DEF Ints
    <3>6. /\ SumTo(f, 0) = 0 /\ SumTo(f, 0 + 1) = SumTo(f, 0) + f[0] /\ SumTo(f, 1 + 1) = SumTo(f, 1) + f[1]
          /\ SumTo(f, 2 + 1) = SumTo(f, 2) + f[2] /\ SumTo(f, 3 + 1) = SumTo(f, 3) + f[3]
      <4>1. 4 \in Nat /\ 0 \in 0..4 - 1 /\ 1 \in 0..4 - 1 /\ 2 \in 0..4 - 1 /\ 3 \in 0..4 - 1
        OBVIOUS
      <4> QED BY <3>5, <4>1, SumSteps
    <3>7. PICK d \in Int, e \in Int, m \in Int, n \in Int : d = f[0] /\ e = f[1] /\ m = f[2] /\ n = f[3]
      BY <1>1, <3>2, <3>3
    <3>8. SumTo(f, 4) = d + e + m + n
      BY <3>6, <3>7
    <3>9. d + e + m + n = u
      <4>1. /\ d = (IF 0 = k THEN u ELSE 0) /\ e = (IF 1 = k THEN u ELSE 0)
            /\ m = (IF 2 = k THEN u ELSE 0) /\ n = (IF 3 = k THEN u ELSE 0) /\ k \in 0..3
        BY <1>1, <3>2, <3>7
      <4> QED BY <3>3, <4>1
    <3>10. u = 0
      BY <1>1, <3>4, <3>8, <3>9
    <3> QED BY <3>10 DEF u
  <2>2. ASSUME NEW k \in Hidden
        PROVE  U[k] = 0 /\ V[k] + (IF k \div G = g THEN W[k] ELSE 0) = 0 /\ (k \div G # g => W[k] = 0)
    <3>1. PICK q \in {0, 1} : q = k \div G
      BY <1>1
    <3>2. PICK x \in Int, y \in Int, z \in Int : x = U[k] /\ y = V[k] /\ z = W[k]
      OBVIOUS
    <3>3. \A i \in 0..2 : x + (IF i = q + 1 THEN y ELSE 0) + (IF i = g + 1 THEN z ELSE 0) = 0
      BY <2>1, <3>1, <3>2
    <3>4. 0 \in 0..2 /\ 1 \in 0..2 /\ 2 \in 0..2 /\ g \in {0, 1}
      BY <1>1
    <3>5. x = 0
      BY <3>3, <3>4
    <3>6. CASE q = g
      <4>1. x + y + z = 0
        BY <3>3, <3>4, <3>6
      <4> QED BY <3>1, <3>2, <3>5, <3>6, <4>1
    <3>7. CASE q # g
      <4>1. x + y = 0 /\ x + z = 0
        BY <3>3, <3>4, <3>7
      <4> QED BY <3>1, <3>2, <3>5, <3>7, <4>1
    <3> QED BY <3>6, <3>7
  <2> QED BY <2>2
<1>4. \A k \in Hidden : B[k] > MaxOps + 2
  BY BoundAssumption DEF Telling
<1> QED BY <1>2, <1>3, <1>4 DEF Unlike

(* Lanes of a tile that starts at a multiple of its width are of one group.     *)
LEMMA SameGroup ==
    ASSUME Straight, NEW from \in Nat, from % T = 0, NEW j \in 0..T - 1
    PROVE  (from + j) \div G = from \div G
<1>1. PICK c \in Nat \ {0} : c = T
  BY Sizes
<1>2. PICK g \in Nat \ {0} : g = G
  BY Sizes
<1>3. from % c = 0 /\ g % c = 0 /\ j \in Nat /\ j < c
  BY <1>1, <1>2 DEF Straight
<1>4. PICK a \in Nat : from = c * a
  <2>1. from \div c \in Nat /\ from = c * (from \div c) + (from % c)
    BY Divide
  <2> QED BY <1>3, <2>1
<1>5. PICK b \in Nat : g = c * b
  <2>1. PICK b \in Nat : b = g \div c /\ g = c * b + (g % c)
    BY Divide
  <2> QED BY <1>3, <2>1
<1>6. b # 0
  BY <1>5
<1>7. PICK q \in Nat, r \in 0..b - 1 : a = b * q + r
  <2>1. a \div b \in Nat /\ a % b \in 0..b - 1 /\ a = b * (a \div b) + (a % b)
    BY <1>6, Divide
  <2> QED BY <2>1
<1>8. from = g * q + c * r /\ c * r \in Nat
  <2>1. c * (b * q + r) = (c * b) * q + c * r
    OBVIOUS
  <2> QED BY <1>4, <1>5, <1>7, <2>1
<1>9. c * r + c <= g
  <2>1. c * (r + 1) <= c * b /\ c * (r + 1) = c * r + c
    BY <1>7
  <2> QED BY <1>5, <2>1
<1>10. PICK d \in Nat : d = c * r
  BY <1>8
<1>11. PICK m \in Nat : m = g * q
  OBVIOUS
<1>12. g * (q + 1) = m + g
  BY <1>11
<1>13. from \div g = q
  <2>1. g * q <= from /\ from < g * (q + 1)
    BY <1>8, <1>9, <1>10, <1>11, <1>12, <1>1
  <2> QED BY <2>1, DivideUnique
<1>14. (from + j) \div g = q
  <2>1. g * q <= from + j /\ from + j < g * (q + 1) /\ from + j \in Nat
    BY <1>3, <1>8, <1>9, <1>10, <1>11, <1>12
  <2> QED BY <2>1, DivideUnique
<1> QED BY <1>2, <1>13, <1>14

(* A power is one more than a multiple of its base less one.                    *)
LEMMA PowerRest ==
    ASSUME NEW b \in Nat, b >= 1, NEW e \in Nat
    PROVE  Power(b, e) >= 1 /\ \E q \in Nat : Power(b, e) = 1 + (b - 1) * q
<1> DEFINE Ok(n) == \E q \in Nat : Power(b, n) = 1 + (b - 1) * q
           S == {n \in Nat : Ok(n)}
<1>1. 0 \in S
  <2>1. Power(b, 0) = 1 + (b - 1) * 0
    BY PowerSteps
  <2> QED BY <2>1
<1>2. ASSUME NEW n \in Nat, n \in S PROVE n + 1 \in S
  <2>1. PICK q \in Nat : Power(b, n) = 1 + (b - 1) * q
    BY <1>2
  <2>2. Power(b, n + 1) = b * Power(b, n)
    BY PowerSteps
  <2>3. b * (1 + (b - 1) * q) = 1 + (b - 1) * (1 + b * q)
    OBVIOUS
  <2>4. 1 + b * q \in Nat
    OBVIOUS
  <2>5. Power(b, n + 1) = 1 + (b - 1) * (1 + b * q)
    BY <2>1, <2>2, <2>3
  <2>6. Ok(n + 1)
    BY <2>4, <2>5
  <2> HIDE DEF Ok
  <2> QED BY <2>6
<1> HIDE DEF S
<1>3. e \in S
  BY <1>1, <1>2, Induct
<1>4. PICK q \in Nat : Power(b, e) = 1 + (b - 1) * q
  BY <1>3 DEF S
<1>5. (b - 1) * q \in Nat
  OBVIOUS
<1> QED BY <1>4, <1>5

(* A sum of fewer powers than that is a power only if it is of one.             *)
LEMMA OnePower ==
    ASSUME NEW b \in Nat, NEW m \in Nat, m + 2 < b, NEW q \in Int, NEW r \in Int,
           m + (b - 1) * q = 1 + (b - 1) * r
    PROVE  m = 1
<1>1. PICK d \in Int : d = q - r
  OBVIOUS
<1>2. (b - 1) * d = 1 - m
  <2>1. (b - 1) * (q - r) = (b - 1) * q - (b - 1) * r
    OBVIOUS
  <2>2. (b - 1) * q \in Int /\ (b - 1) * r \in Int
    OBVIOUS
  <2> QED BY <1>1, <2>1, <2>2
<1>3. ~(d >= 1)
  <2>1. SUFFICES ASSUME d >= 1 PROVE FALSE
    OBVIOUS
  <2>2. (b - 1) * d >= b - 1
    BY <2>1
  <2> QED BY <1>2, <2>2
<1>4. ~(d <= -1)
  <2>1. SUFFICES ASSUME d <= -1 PROVE FALSE
    OBVIOUS
  <2>2. (b - 1) * d <= -(b - 1)
    BY <2>1
  <2> QED BY <1>2, <2>2
<1> QED BY <1>1, <1>2, <1>3, <1>4

-----------------------------------------------------------------------------
(* What a load without an odd choice is.                                       *)
Plain(l) ==
    /\ l.rows # "next" /\ l.mask = "inside" /\ l.fill = 0 /\ l.arg # "Xs"
    /\ l.arg \in {"A", "B"} => l.from % T = 0

LEMMA OddFree ==
    ASSUME Straight, odd = 0, NEW o \in Nat, Step(o)
    PROVE  o = 0 /\ odd' = 0 /\ ops' = ops + 1 /\ ops < MaxOps /\ ~launched /\ verdict # "unproven"
BY DEF Straight, Step, Settled

LEMMA Ones == \A p : One(p) \in {0, 1} /\ (One(p) = 0 => ~p)
BY DEF One

LEMMA NotOdd ==
    ASSUME NEW l
    PROVE  Oddities(l) \in Nat /\ (Oddities(l) = 0 => Plain(l))
<1> DEFINE a == One(l.rows = "next")
           b == One(l.mask # "inside")
           c == One(l.fill # 0)
           d == One(l.arg = "Xs")
           e == One(l.arg \in {"A", "B"} /\ IF l.mask = "rest" THEN l.from # K - T ELSE l.from % T # 0)
<1>1. a \in {0, 1} /\ b \in {0, 1} /\ c \in {0, 1} /\ d \in {0, 1} /\ e \in {0, 1}
  BY Ones
<1>2. Oddities(l) = a + b + c + d + e
  BY DEF Oddities
<1>3. a = 0 => l.rows # "next"
  BY Ones
<1>4. b = 0 /\ c = 0 /\ d = 0 => l.mask = "inside" /\ l.fill = 0 /\ l.arg # "Xs"
  BY Ones
<1>5. b = 0 /\ e = 0 => (l.arg \in {"A", "B"} => l.from % T = 0)
  BY <1>4, Ones
<1> HIDE DEF a, b, c, d, e
<1> QED BY <1>1, <1>2, <1>3, <1>4, <1>5 DEF Plain

-----------------------------------------------------------------------------
(* The rows of the programs follow each other, and every row there is belongs   *)
(* to one of them.                                                             *)
Standard == rowAt = [p \in Programs |-> R * (p - 1)]
Home(n) == R * (n[1] - 1) + n[2]

LEMMA HomeIs ==
    ASSUME NEW n \in TileLanes
    PROVE  Home(n) \in Tokens /\ Home(n) \in Nat
<1>1. PICK p \in 1..P, i \in 0..R - 1 : p = n[1] /\ i = n[2]
  BY DEF TileLanes, Programs
<1>2. P \in Nat \ {0} /\ R \in Nat \ {0}
  BY Sizes
<1>3. R * (p - 1) \in Nat
  BY <1>1, <1>2
<1>4. R * (p - 1) + R <= R * P
  <2>1. R * p <= R * P
    BY <1>1, <1>2
  <2>2. R * (p - 1) = R * p - R
    BY <1>1, <1>2
  <2>3. R * p \in Int /\ R * P \in Int
    BY <1>1, <1>2
  <2> QED BY <2>1, <2>2, <2>3, <1>2
<1>5. PICK c \in Nat : c = R * (p - 1)
  BY <1>3
<1>6. M = R * P
  BY <1>2 DEF M
<1> QED BY <1>1, <1>2, <1>4, <1>5, <1>6, Sizes DEF Home, Tokens

LEMMA HomeOf ==
    ASSUME NEW t \in Tokens
    PROVE  \E n \in RowLanes : Home(n) = t
<1>1. P \in Nat \ {0} /\ R \in Nat \ {0} /\ t \in Nat /\ t < M /\ M = P * R
  BY Sizes DEF Tokens, M
<1>2. PICK q \in Nat, i \in 0..R - 1 : t = R * q + i
  <2>1. t \div R \in Nat /\ t % R \in 0..R - 1 /\ t = R * (t \div R) + (t % R)
    BY <1>1, Divide
  <2> QED BY <2>1
<1>3. q < P
  <2>1. SUFFICES ASSUME q >= P PROVE FALSE
    BY <1>1
  <2>2. R * q >= R * P /\ R * P = P * R
    BY <1>1, <2>1
  <2> QED BY <1>1, <1>2, <2>2
<1>4. q + 1 \in Programs /\ (q + 1) - 1 = q
  BY <1>1, <1>3 DEF Programs
<1>5. <<q + 1, i, 0>> \in RowLanes
  BY <1>4 DEF RowLanes
<1>6. Home(<<q + 1, i, 0>>) = t
  BY <1>2, <1>4 DEF Home
<1> QED BY <1>5, <1>6

LEMMA HomesDiffer ==
    ASSUME NEW n \in RowLanes, NEW m \in RowLanes, Home(n) = Home(m)
    PROVE  n = m
<1>1. R \in Nat \ {0}
  BY Sizes
<1>2. PICK p \in Nat, i \in 0..R - 1 : n = <<p + 1, i, 0>> /\ p = n[1] - 1
  <2>1. n[1] \in 1..P /\ n[2] \in 0..R - 1 /\ n = <<n[1], n[2], 0>>
    BY DEF RowLanes, Programs
  <2>2. n[1] - 1 \in Nat /\ (n[1] - 1) + 1 = n[1]
    BY <2>1, Sizes
  <2> QED BY <2>1, <2>2
<1>3. PICK q \in Nat, j \in 0..R - 1 : m = <<q + 1, j, 0>> /\ q = m[1] - 1
  <2>1. m[1] \in 1..P /\ m[2] \in 0..R - 1 /\ m = <<m[1], m[2], 0>>
    BY DEF RowLanes, Programs
  <2>2. m[1] - 1 \in Nat /\ (m[1] - 1) + 1 = m[1]
    BY <2>1, Sizes
  <2> QED BY <2>1, <2>2
<1>4. R * p + i = R * q + j
  BY <1>2, <1>3 DEF Home
<1>5. p = q
  <2>1. ASSUME NEW a \in Nat, NEW b \in Nat, NEW c \in 0..R - 1, NEW d \in 0..R - 1, a < b, R * a + c = R * b + d
        PROVE  FALSE
    <3>1. R * (a + 1) <= R * b /\ R * (a + 1) = R * a + R
      BY <2>1, <1>1
    <3>2. R * a \in Nat /\ R * b \in Nat
      BY <1>1
    <3> QED BY <2>1, <3>1, <3>2, <1>1
  <2>2. ~(p < q)
    BY <1>4, <2>1
  <2>3. ~(q < p)
    BY <1>4, <2>1
  <2> QED BY <2>2, <2>3
<1>6. i = j
  <2>1. PICK c \in Nat : c = R * p
    BY <1>1
  <2> QED BY <1>4, <1>5, <2>1
<1> QED BY <1>2, <1>3, <1>5, <1>6

(* A plain load is where its program's rows are and reads what there is.        *)
LEMMA PlainPlaces ==
    ASSUME Standard, Straight, NEW l \in AllLoads, Plain(l), NEW n \in TileLanes
    PROVE  /\ RowOf(l, n) = Home(n) /\ At(l, "token", n) = Home(n) /\ At(l, "hidden", n) = KAt(l, n)
           /\ KAt(l, n) \in Nat
           /\ Kept(l, n) <=> KAt(l, n) < Size(l.arg, "hidden")
           /\ Kept(l, n) => Inside(l, n)
<1>1. n[1] \in Programs /\ n[2] \in 0..R - 1
  BY DEF TileLanes
<1>2. Home(n) \in Tokens /\ Home(n) \in Nat
  BY HomeIs
<1>3. RowOf(l, n) = Home(n)
  <2>1. rowAt[n[1]] = R * (n[1] - 1)
    BY <1>1 DEF Standard
  <2>2. l.rows # "next"
    BY DEF Plain
  <2>3. R * (n[1] - 1) + n[2] + 0 = R * (n[1] - 1) + n[2]
    BY <1>1, Sizes DEF Programs
  <2> QED BY <2>1, <2>2, <2>3 DEF RowOf, Home
<1>4. ~Wide(l.arg)
  BY Sizes DEF Wide, Straight
<1>5. rowAt \in [Programs -> Nat]
  <2>1. \A p \in Programs : R * (p - 1) \in Nat
    BY Sizes DEF Programs
  <2> QED BY <2>1 DEF Standard
<1>6. KAt(l, n) \in Nat
  BY <1>5, Places1
<1>7. At(l, "token", n) = Home(n) /\ At(l, "hidden", n) = KAt(l, n)
  <2>1. Home(n) + 0 = Home(n)
    BY <1>2
  <2> QED BY <1>3, <1>4, <2>1 DEF At
<1>8. Home(n) < M
  BY <1>2, Sizes DEF Tokens
<1>9. Fits(l, n) <=> KAt(l, n) < Size(l.arg, "hidden")
  BY <1>3, <1>8 DEF Fits
<1>10. Kept(l, n) <=> Fits(l, n)
  BY DEF Kept, Plain
<1>11. Kept(l, n) => Inside(l, n)
  <2>1. Size(l.arg, "token") = M
    BY DEF Size
  <2>2. AxesOf(l.arg) \subseteq {"token", "hidden"}
    BY DEF AxesOf
  <2> QED BY <1>7, <1>8, <1>9, <1>10, <2>1, <2>2 DEF Inside
<1> QED BY <1>3, <1>6, <1>7, <1>9, <1>10, <1>11

LEMMA PlainInside ==
    ASSUME Standard, Straight, NEW l \in AllLoads, Plain(l), NEW form \in {"tile", "row"}
    PROVE  ~OutOfBounds(l, form) /\ rowAt \in [Programs -> Nat]
<1>1. Lanes(form) \subseteq TileLanes
  BY Sizes
<1>2. \A p \in Programs : R * (p - 1) \in Nat
  BY Sizes DEF Programs
<1> QED BY <1>1, <1>2, PlainPlaces DEF OutOfBounds, Standard

LEMMA PlainLoad ==
    ASSUME Standard, Straight, NEW l \in AllLoads, Plain(l), NEW form \in {"tile", "row"}, NEW y, y = Load(l, form)
    PROVE  /\ Loaded(y, l, form) /\ y.zeroed = TRUE
           /\ y.valid = {n \in Lanes(form) : KAt(l, n) < Size(l.arg, "hidden")}
           /\ \A n \in Lanes(form) : /\ AtK(y)[n] = KAt(l, n)
                                     /\ "token" \in AxesOf(l.arg) => AtRow(y)[n] = Home(n)
<1>1. Lanes(form) \subseteq TileLanes
  BY Sizes
<1>2. Loaded(y, l, form)
  BY PlainInside, LoadParts
<1>3. y.zeroed = TRUE
  BY <1>2 DEF Loaded, Plain
<1>4. y.valid = {n \in Lanes(form) : KAt(l, n) < Size(l.arg, "hidden")}
  BY <1>1, <1>2, PlainPlaces DEF Loaded
<1>5. "hidden" \in AxesOf(l.arg)
  BY DEF AxesOf
<1>6. \A n \in Lanes(form) : /\ AtK(y)[n] = At(l, "hidden", n)
                             /\ "token" \in AxesOf(l.arg) => AtRow(y)[n] = At(l, "token", n)
  BY <1>2, <1>5 DEF Loaded, AtK, AtRow
<1> QED BY <1>1, <1>2, <1>3, <1>4, <1>6, PlainPlaces

-----------------------------------------------------------------------------
(* A tile of a kernel without an odd choice: it stands at a multiple of its     *)
(* width, was read wherever hidden goes on, and was scaled once at most.        *)
Stands(x, from) ==
    /\ from \in Hidden /\ from % T = 0
    /\ x.valid = {n \in TileLanes : from + n[3] < K}
    /\ \A n \in TileLanes : AtRow(x)[n] = Home(n) /\ AtK(x)[n] = from + n[3]
PlainTile(x) == TileRight(x) /\ x.applied <= 1 /\ x.zeroed = TRUE /\ \E from \in Hidden : Stands(x, from)

LEMMA StandsFrom ==
    ASSUME NEW x, NEW from, Stands(x, from)
    PROVE  AtK(x)[<<1, 0, 0>>] = from
BY Sizes DEF Stands

LEMMA LoadPlainTile ==
    ASSUME Standard, Straight, NEW l \in Windows("A"), Plain(l)
    PROVE  PlainTile(Load(l, "tile"))
<1> DEFINE y == Load(l, "tile")
<1>1. l \in AllLoads /\ l.arg = "A" /\ l.along = TRUE /\ l.from \in Hidden
  BY LoadsAre DEF Windows
<1>2. TileRight(y)
  BY <1>1, PlainInside, LoadA
<1>3. /\ Loaded(y, l, "tile") /\ y.zeroed = TRUE
      /\ y.valid = {n \in Lanes("tile") : KAt(l, n) < Size(l.arg, "hidden")}
      /\ \A n \in Lanes("tile") : AtK(y)[n] = KAt(l, n) /\ ("token" \in AxesOf(l.arg) => AtRow(y)[n] = Home(n))
  <2> HIDE DEF y
  <2>1. PICK z : z = y
    OBVIOUS
  <2> QED BY <1>1, PlainLoad DEF y
<1> HIDE DEF y
<1>4. y.applied = 0
  BY <1>3 DEF Loaded
<1>5. \A n \in TileLanes : KAt(l, n) = l.from + n[3]
  <2>1. \A n \in TileLanes : n[3] \in Nat
    BY Sizes DEF TileLanes
  <2>2. l.from \in Nat
    BY <1>1, Sizes
  <2> QED BY <1>1, <2>1, <2>2, DivideOne, Axes DEF KAt
<1>6. Size(l.arg, "hidden") = K
  BY <1>1 DEF Size
<1>7. Stands(y, l.from)
  BY <1>1, <1>3, <1>5, <1>6, Axes, Sizes DEF Stands, Plain
<1> QED BY <1>1, <1>2, <1>3, <1>4, <1>7 DEF PlainTile, y

(* Where a coordinate is the group of the other's, they agree.                  *)
LEMMA Agreeing ==
    ASSUME NEW c, NEW d, NEW n, c.at[n] \in Nat, c.group = 1, d.group \in Nat \ {0},
           d.at[n] = c.at[n] \div d.group
    PROVE  ~Disagree(c, d, n)
<1>1. PICK a \in Nat, g \in Nat \ {0} : a = c.at[n] /\ g = d.group
  OBVIOUS
<1>2. PICK b \in Nat : b = a \div g
  BY Divide
<1>3. (b * g) \div g = b
  BY DivideProduct
<1>4. a * 1 = a
  OBVIOUS
<1>5. CASE 1 > g
  BY <1>1, <1>5
<1>6. CASE ~(1 > g)
  BY <1>1, <1>2, <1>3, <1>4, <1>6 DEF Disagree
<1> QED BY <1>5, <1>6

(* A factor that a kernel without an odd choice loads for a value at k.         *)
Beside(l, from) ==
    /\ l \in Windows("B") \cup ScaleReads(TRUE) \cup ScaleReads(FALSE)
    /\ Plain(l) /\ Elsewhere(from, l) = 0

LEMMA BesideIs ==
    ASSUME Straight, NEW l, NEW from \in Hidden, from % T = 0, Beside(l, from)
    PROVE  /\ l \in AllLoads /\ l.arg \in {"B", "As"} /\ ~NotItsScale(l.arg)
           /\ \A n \in TileLanes : from + n[3] < K =>
                 /\ KAt(l, n) = (from + n[3]) \div Grain(l.arg)
                 /\ KAt(l, n) < Size(l.arg, "hidden")
<1>1. l \in AllLoads /\ l.arg \in {"B", "As"} /\ l.from \in Nat
  <2>1. CASE l \in Windows("B")
    <3>1. l.arg = "B" /\ l.from \in Hidden
      BY <2>1 DEF Windows
    <3> QED BY <2>1, <3>1, LoadsAre, Sizes
  <2>2. CASE l \in ScaleReads(TRUE) \cup ScaleReads(FALSE)
    <3>1. l.arg # "Xs"
      BY DEF Beside, Plain
    <3> QED BY <2>2, <3>1, LoadsAre DEF AllLoads
  <2> QED BY <2>1, <2>2 DEF Beside
<1>2. ~NotItsScale(l.arg)
  BY <1>1 DEF NotItsScale
<1>3. ASSUME NEW n \in TileLanes, from + n[3] < K
      PROVE  KAt(l, n) = (from + n[3]) \div Grain(l.arg) /\ KAt(l, n) < Size(l.arg, "hidden")
  <2>1. n[3] \in 0..T - 1 /\ n[3] \in Nat /\ from \in Nat /\ from + n[3] \in Nat /\ from + n[3] <= K - 1
    BY <1>3, Sizes DEF TileLanes
  <2>2. KAt(l, n) = (from + n[3]) \div Grain(l.arg)
    <3>1. CASE l.along
      <4>1. l.from = from
        BY <3>1, Ones DEF Beside, Elsewhere
      <4> QED BY <3>1, <4>1 DEF KAt
    <3>2. CASE ~l.along
      <4>1. l.from \div G = from \div G
        BY <3>2, Ones DEF Beside, Elsewhere
      <4>2. l.arg = "As"
        <5>1. \A m \in Windows("B") : m.along = TRUE
          BY DEF Windows
        <5>2. \A m \in ScaleReads(FALSE) \cup ScaleReads(TRUE) : m.arg \in {"As", "Xs"}
          BY DEF ScaleReads
        <5> QED BY <3>2, <5>1, <5>2, <1>1 DEF Beside
      <4>3. KAt(l, n) = l.from \div G
        BY <1>1, <3>2, <4>2, Axes DEF KAt
      <4> QED BY <2>1, <4>1, <4>2, <4>3, SameGroup, Axes
    <3> QED BY <3>1, <3>2
  <2>3. CASE l.arg = "B"
    <3>1. KAt(l, n) = from + n[3]
      <4>1. Grain(l.arg) = 1
        BY <2>3, Axes
      <4>2. (from + n[3]) \div 1 = from + n[3]
        BY <2>1, DivideOne
      <4> QED BY <2>2, <4>1, <4>2
    <3>2. Size(l.arg, "hidden") = K
      BY <2>3 DEF Size
    <3> QED BY <1>3, <2>2, <3>1, <3>2
  <2>4. CASE l.arg = "As"
    <3>1. (from + n[3]) \div G <= (K - 1) \div G
      <4>1. PICK a \in Nat, b \in Nat, g \in Nat \ {0} : a = from + n[3] /\ b = K - 1 /\ g = G
        <5>1. K - 1 \in Nat
          BY Sizes
        <5> QED BY <2>1, <5>1, Sizes
      <4>2. a <= b
        BY <2>1, <4>1
      <4>3. a \div g <= b \div g
        BY <4>2, DivideGrows
      <4> QED BY <4>1, <4>3
    <3>2. Size(l.arg, "hidden") = (K - 1) \div G + 1
      BY <2>4, GroupsSize DEF Size
    <3>3. (from + n[3]) \div G \in Nat /\ (K - 1) \div G \in Nat
      <4>1. K - 1 \in Nat
        BY Sizes
      <4> QED BY <2>1, <4>1, Sizes, Divide
    <3>4. PICK a \in Nat, b \in Nat : a = (from + n[3]) \div G /\ b = (K - 1) \div G
      BY <3>3
    <3>5. KAt(l, n) = a
      <4>1. Grain(l.arg) = G
        BY <2>4, Axes
      <4> QED BY <2>2, <3>4, <4>1
    <3> QED BY <2>2, <3>1, <3>2, <3>4, <3>5
  <2> QED BY <1>1, <2>2, <2>3, <2>4
<1> QED BY <1>1, <1>2, <1>3

-----------------------------------------------------------------------------
LEMMA BesideTile ==
    ASSUME Standard, Straight, NEW x, x \in Values("tile", {"token", "hidden"}), NEW from, Stands(x, from),
           NEW l, Beside(l, from), NEW y, y = Load(l, "tile")
    PROVE  /\ l.arg \in {"B", "As"} /\ ~NotItsScale(l.arg) /\ ~OutOfBounds(l, "tile") /\ ~Mispaired(x, y)
           /\ Factor(y, l.arg, "tile") /\ y.zeroed = TRUE /\ x.valid \subseteq y.valid
<1>1. from \in Hidden /\ from % T = 0 /\ from \in Nat
  BY Sizes DEF Stands
<1>2. /\ l \in AllLoads /\ l.arg \in {"B", "As"} /\ ~NotItsScale(l.arg)
      /\ \A n \in TileLanes : from + n[3] < K =>
            KAt(l, n) = (from + n[3]) \div Grain(l.arg) /\ KAt(l, n) < Size(l.arg, "hidden")
  BY <1>1, BesideIs
<1>3. ~OutOfBounds(l, "tile") /\ rowAt \in [Programs -> Nat]
  BY <1>2, PlainInside DEF Beside
<1>4. Factor(y, l.arg, "tile")
  BY <1>2, <1>3, LoadFactor
<1>5. /\ y.zeroed = TRUE /\ y.form = "tile"
      /\ \A n \in TileLanes : n \in y.valid <=> KAt(l, n) < Size(l.arg, "hidden")
      /\ \A n \in TileLanes : AtK(y)[n] = KAt(l, n) /\ ("token" \in AxesOf(l.arg) => AtRow(y)[n] = Home(n))
      /\ \A axis \in AxesOf(l.arg) : y.coords[axis].group = IF axis = "hidden" THEN Grain(l.arg) ELSE 1
      /\ DOMAIN y.coords = AxesOf(l.arg)
  <2>1. PICK form \in {"tile", "row"} : form = "tile"
    OBVIOUS
  <2>2. /\ Loaded(y, l, form) /\ y.zeroed = TRUE
        /\ y.valid = {n \in Lanes(form) : KAt(l, n) < Size(l.arg, "hidden")}
        /\ \A n \in Lanes(form) : /\ AtK(y)[n] = KAt(l, n)
                                  /\ "token" \in AxesOf(l.arg) => AtRow(y)[n] = Home(n)
    <3>1. Plain(l) /\ l \in AllLoads
      BY <1>2 DEF Beside
    <3>2. y = Load(l, form)
      BY <2>1
    <3> QED BY <3>1, <3>2, PlainLoad
  <2>3. /\ y.form = form /\ y.coords \in [AxesOf(l.arg) -> [at : [Lanes(form) -> Int], group : Nat]]
        /\ \A axis \in AxesOf(l.arg) : y.coords[axis].group = IF axis = "hidden" THEN Grain(l.arg) ELSE 1
    BY <2>2 DEF Loaded
  <2>4. Lanes(form) = TileLanes
    BY <2>1, Sizes
  <2> QED BY <2>1, <2>2, <2>3, <2>4
<1>6. x.valid \subseteq TileLanes /\ \A n \in x.valid : from + n[3] < K
  BY DEF Stands
<1>7. x.valid \subseteq y.valid
  BY <1>2, <1>5, <1>6
<1>8. x.form = "tile" /\ x.coords \in [{"token", "hidden"} -> [at : [TileLanes -> Int], group : {1}]]
  BY Sizes DEF Values, Places
<1>9. ASSUME NEW n \in x.valid PROVE ~Disagree(x.coords["hidden"], y.coords["hidden"], n)
  <2>1. x.coords["hidden"].at[n] = from + n[3] /\ from + n[3] \in Nat
    <3>1. n[3] \in Nat
      BY <1>6, Sizes DEF TileLanes
    <3> QED BY <1>1, <1>6, <3>1 DEF Stands, AtK
  <2>2. "hidden" \in AxesOf(l.arg) /\ Grain(l.arg) \in Nat \ {0}
    BY Sizes DEF AxesOf, Grain
  <2>3. x.coords["hidden"].group = 1 /\ y.coords["hidden"].group = Grain(l.arg)
    BY <1>5, <1>8, <2>2
  <2>4. y.coords["hidden"].at[n] = (from + n[3]) \div Grain(l.arg)
    BY <1>2, <1>5, <1>6 DEF AtK
  <2> QED BY <2>1, <2>2, <2>3, <2>4, Agreeing
<1>10. ASSUME NEW n \in x.valid, "token" \in AxesOf(l.arg)
       PROVE  ~Disagree(x.coords["token"], y.coords["token"], n)
  <2>1. PICK t \in Nat : t = Home(n)
    BY <1>6, HomeIs
  <2>2. x.coords["token"].at[n] = t /\ y.coords["token"].at[n] = t
    BY <1>5, <1>6, <1>10, <2>1 DEF Stands, AtRow
  <2>3. x.coords["token"].group = 1 /\ y.coords["token"].group = 1
    BY <1>5, <1>8, <1>10
  <2>4. t \div 1 = t
    BY DivideOne
  <2> QED BY <2>2, <2>3, <2>4, Agreeing
<1>11. ~Mispaired(x, y)
  <2>1. ~MeetsSum(x, y) /\ ~MeetsSum(y, x)
    BY <1>5, <1>8 DEF MeetsSum, IsSum
  <2>2. AxesOf(l.arg) \subseteq {"token", "hidden"}
    BY DEF AxesOf
  <2> QED BY <1>5, <1>9, <1>10, <2>1, <2>2 DEF Mispaired
<1> QED BY <1>2, <1>3, <1>4, <1>5, <1>7, <1>11

LEMMA MulPlainTile ==
    ASSUME Standard, Straight, NEW x, PlainTile(x), NEW l, Beside(l, AtK(x)[<<1, 0, 0>>]), Again(x, l) = 0,
           x.factors < MaxFactors
    PROVE  /\ ~NotItsScale(l.arg) /\ ~OutOfBounds(l, x.form) /\ ~Mispaired(x, Load(l, x.form))
           /\ PlainTile(Times(x, Load(l, "tile"), l.arg))
<1>1. PICK from \in Hidden : Stands(x, from)
  BY DEF PlainTile
<1>2. x \in Values("tile", {"token", "hidden"}) /\ TileRight(x) /\ x.zeroed = TRUE /\ x.applied \in Nat /\ x.applied <= 1
  BY DEF PlainTile, TileRight, Values
<1>3. x.form = "tile" /\ AtK(x)[<<1, 0, 0>>] = from
  BY <1>1, <1>2, StandsFrom DEF Values
<1>4. PICK y : y = Load(l, "tile")
  OBVIOUS
<1>5. /\ l.arg \in {"B", "As"} /\ ~NotItsScale(l.arg) /\ ~OutOfBounds(l, "tile") /\ ~Mispaired(x, y)
      /\ Factor(y, l.arg, "tile") /\ y.zeroed = TRUE /\ x.valid \subseteq y.valid
  BY <1>1, <1>2, <1>3, <1>4, BesideTile
<1> DEFINE z == Times(x, y, l.arg)
<1>6. TileRight(z)
  BY <1>2, <1>5, TimesTile
<1>7. z.coords = x.coords /\ z.valid = x.valid /\ z.zeroed = TRUE
      /\ z.applied = x.applied + (IF l.arg = "As" THEN 1 ELSE 0)
  <2>1. Paired(x, y) = x.coords
    BY <1>2, <1>5, PairedTile
  <2> QED BY <1>2, <1>5, <2>1 DEF Times, Values
<1> HIDE DEF z
<1>8. z.applied <= 1
  <2>1. l.arg = "As" => x.applied = 0
    BY <1>2 DEF Again, One
  <2> QED BY <1>2, <1>7, <2>1
<1>9. Stands(z, from)
  BY <1>1, <1>7 DEF Stands, AtK, AtRow
<1>10. PlainTile(z)
  BY <1>6, <1>7, <1>8, <1>9 DEF PlainTile
<1> QED BY <1>3, <1>4, <1>5, <1>10 DEF z

-----------------------------------------------------------------------------
(* A sum of a kernel without an odd choice: it has every row there is, and each *)
(* of its summands the same range of one group for every program.              *)
OneRange(r) ==
    \E lo \in Hidden, count \in Nat \ {0} :
        lo % T = 0 /\ count <= T /\ \A p \in Programs : r[p] = [lo |-> lo, count |-> count]
PlainSum(x) ==
    /\ x \in Values("row", {"token"}) /\ x.extras = FALSE /\ x.applied <= 1 /\ x.valid = RowLanes
    /\ \A n \in RowLanes : AtRow(x)[n] = Home(n)
    /\ \A i \in DOMAIN x.sums : OneRange(x.sums[i])
PlainRow(x) == RowRight(x) /\ PlainSum(x) /\ Len(x.sums) = 1

(* The scale of one group, for every row there is.                              *)
ScaleAt(y, g) ==
    /\ Factor(y, "As", "row") /\ y.valid = RowLanes
    /\ \A n \in RowLanes : AtK(y)[n] = g /\ AtRow(y)[n] = Home(n) /\ y.got[n] = As[<<Home(n), g>>]

LEMMA PlainScale ==
    ASSUME Standard, Straight, NEW l \in ScaleReads(FALSE), Plain(l), NEW y, y = Load(l, "row")
    PROVE  /\ l.arg = "As" /\ l.along = FALSE /\ ~NotItsScale(l.arg) /\ ~OutOfBounds(l, "row")
           /\ \E g \in Groups : l.from \div G = g /\ ScaleAt(y, g)
<1>1. l.arg = "As" /\ l \in AllLoads /\ l.along = FALSE /\ ~NotItsScale(l.arg)
  <2>1. l.arg # "Xs" /\ FALSE \in BOOLEAN
    BY DEF Plain
  <2>2. l.along = FALSE
    BY DEF ScaleReads
  <2> QED BY <2>1, <2>2, LoadsAre DEF NotItsScale
<1>2. PICK g \in Groups : l.from = G * g
  <2>1. l.from \in {G * g : g \in Groups}
    BY DEF ScaleReads
  <2> QED BY <2>1
<1>3. g \in Nat
  BY DEF Groups
<1>4. l.from \div G = g /\ l.from \in Nat
  <2>1. PICK c \in Nat \ {0} : c = G
    BY Sizes
  <2>2. c * g = g * c /\ (g * c) \div c = g
    BY <1>3, DivideProduct
  <2> QED BY <1>2, <1>3, <2>1, <2>2
<1>5. ~OutOfBounds(l, "row") /\ rowAt \in [Programs -> Nat]
  BY <1>1, PlainInside
<1>6. Factor(y, "As", "row")
  BY <1>1, <1>5, LoadFactor
<1>7. ASSUME NEW n \in RowLanes PROVE KAt(l, n) = g
  <2>1. Grain(l.arg) = G /\ l.from + 0 = l.from
    BY <1>1, <1>4, Axes
  <2> QED BY <1>1, <1>4, <2>1 DEF KAt
<1>8. g < Size(l.arg, "hidden")
  <2>1. Size(l.arg, "hidden") = (K - 1) \div G + 1
    BY <1>1, GroupsSize DEF Size
  <2>2. PICK m \in Nat : m = (K - 1) \div G
    <3>1. K - 1 \in Nat
      BY Sizes
    <3> QED BY <3>1, Divide, Sizes
  <2> QED BY <2>1, <2>2 DEF Groups
<1>9. /\ y.valid = RowLanes
      /\ \A n \in RowLanes : AtK(y)[n] = g /\ AtRow(y)[n] = Home(n)
  <2>1. PICK form \in {"tile", "row"} : form = "row"
    OBVIOUS
  <2>2. /\ Loaded(y, l, form) /\ y.zeroed = TRUE
        /\ y.valid = {n \in Lanes(form) : KAt(l, n) < Size(l.arg, "hidden")}
        /\ \A n \in Lanes(form) : /\ AtK(y)[n] = KAt(l, n)
                                  /\ "token" \in AxesOf(l.arg) => AtRow(y)[n] = Home(n)
    <3>1. y = Load(l, form)
      BY <2>1
    <3> QED BY <1>1, <3>1, PlainLoad
  <2>3. "token" \in AxesOf(l.arg) /\ Lanes(form) = RowLanes
    BY <1>1, <2>1, Axes, Sizes
  <2> QED BY <1>7, <1>8, <2>2, <2>3
<1>10. \A n \in RowLanes : y.got[n] = As[<<Home(n), g>>]
  BY <1>6, <1>9 DEF Factor
<1> QED BY <1>1, <1>4, <1>5, <1>6, <1>9, <1>10 DEF ScaleAt

(* A scale does not fit a sum just where a summand is of another group.         *)
LEMMA ScaleFits ==
    ASSUME Straight, NEW x, PlainSum(x), NEW g \in Groups, NEW y, ScaleAt(y, g)
    PROVE  Mispaired(x, y) <=> \E i \in DOMAIN x.sums : x.sums[i][1].lo \div G # g
<1>1. x.form = "row" /\ x.coords \in [{"token"} -> [at : [RowLanes -> Int], group : {1}]] /\ x.valid = RowLanes
  BY Sizes DEF PlainSum, Values, Places
<1>2. DOMAIN y.coords = {"token", "hidden"} /\ y.coords["hidden"].group = G /\ y.coords["token"].group = 1
  BY Axes DEF ScaleAt, Factor
<1>3. x.valid \cap y.valid = RowLanes
  BY <1>1 DEF ScaleAt
<1>4. ASSUME NEW n \in RowLanes PROVE ~Disagree(x.coords["token"], y.coords["token"], n)
  <2>1. PICK t \in Nat : t = Home(n)
    BY HomeIs, Sizes
  <2>2. x.coords["token"].at[n] = t /\ y.coords["token"].at[n] = t
    BY <2>1 DEF PlainSum, ScaleAt, AtRow
  <2>3. x.coords["token"].group = 1
    BY <1>1
  <2> QED BY <1>2, <2>2, <2>3, DivideOne, Agreeing
<1>5. Mispaired(x, y) <=> BesideSum(y, x, RowLanes)
  <2>1. ~MeetsSum(x, y) /\ MeetsSum(y, x) /\ DOMAIN x.coords \cap DOMAIN y.coords = {"token"}
    BY <1>1, <1>2 DEF MeetsSum, IsSum
  <2> QED BY <1>3, <1>4, <2>1 DEF Mispaired
<1>6. ASSUME NEW i \in DOMAIN x.sums, NEW p \in Programs
      PROVE  /\ x.sums[i][p].count > 0 /\ ~Spans(y.coords["hidden"], x.sums[i], p)
             /\ x.sums[i][p].lo = x.sums[i][1].lo
  <2>1. PICK lo \in Hidden, count \in Nat \ {0} :
            lo % T = 0 /\ count <= T /\ \A q \in Programs : x.sums[i][q] = [lo |-> lo, count |-> count]
    BY DEF PlainSum, OneRange
  <2>2. 1 \in Programs
    BY Sizes DEF Programs
  <2>3. PICK j \in 0..T - 1 : j = count - 1
    BY <2>1, Sizes
  <2>4. lo \in Nat /\ lo + count - 1 = lo + j
    BY <2>1, <2>3, Sizes
  <2>5. (lo + j) \div G = lo \div G
    BY <2>1, <2>4, SameGroup
  <2>6. x.sums[i][p].lo = lo /\ x.sums[i][p].count = count /\ x.sums[i][1].lo = lo
    BY <2>1, <2>2
  <2>7. ~Spans(y.coords["hidden"], x.sums[i], p)
    BY <1>2, <2>4, <2>5, <2>6 DEF Spans
  <2> QED BY <2>1, <2>6, <2>7
<1>7. \A n \in RowLanes : y.coords["hidden"].at[n] = g
  BY DEF ScaleAt, AtK
<1>8. \A p \in Programs : \E n \in RowLanes : n[1] = p
  <2>1. ASSUME NEW p \in Programs PROVE <<p, 0, 0>> \in RowLanes /\ <<p, 0, 0>>[1] = p
    BY Sizes DEF RowLanes
  <2> QED BY <2>1
<1>9. 1 \in Programs
  BY Sizes DEF Programs
<1>10. ASSUME NEW i \in DOMAIN x.sums, x.sums[i][1].lo \div G # g PROVE BesideSum(y, x, RowLanes)
  <2>1. PICK n \in RowLanes : n[1] = 1
    BY <1>8, <1>9
  <2>2. y.coords["hidden"].at[n] # x.sums[i][1].lo \div y.coords["hidden"].group
    BY <1>2, <1>7, <1>10
  <2> QED BY <1>6, <1>9, <2>1, <2>2 DEF BesideSum
<1>11. ASSUME BesideSum(y, x, RowLanes) PROVE \E i \in DOMAIN x.sums : x.sums[i][1].lo \div G # g
  <2>1. PICK i \in DOMAIN x.sums, p \in Programs :
            \/ Spans(y.coords["hidden"], x.sums[i], p)
            \/ \E n \in RowLanes : n[1] = p /\ y.coords["hidden"].at[n] # x.sums[i][p].lo \div y.coords["hidden"].group
    BY <1>11 DEF BesideSum
  <2>2. PICK n \in RowLanes : y.coords["hidden"].at[n] # x.sums[i][p].lo \div G
    BY <1>2, <1>6, <2>1
  <2>3. x.sums[i][1].lo \div G # g
    BY <1>6, <1>7, <2>2
  <2> QED BY <2>3
<1> QED BY <1>5, <1>10, <1>11

(* Times a scale a sum keeps its rows and its ranges.                           *)
LEMMA ScaledSum ==
    ASSUME NEW x, PlainSum(x), x.applied = 0, x.factors < MaxFactors, NEW g \in Groups, NEW y, ScaleAt(y, g),
           NEW z, z = Times(x, y, "As")
    PROVE  /\ PlainSum(z) /\ z.sums = x.sums /\ z.applied = 1
           /\ \A n \in RowLanes : z.got[n] = x.got[n] * As[<<Home(n), g>>]
<1>1. Factor(y, "As", "row") /\ y.valid = RowLanes /\ y.got \in [RowLanes -> Int] /\ y.zeroed \in BOOLEAN
  BY Sizes DEF ScaleAt, Factor
<1>2. /\ x \in Values("row", {"token"}) /\ x.valid = RowLanes /\ x.extras = FALSE
      /\ x.factors \in 0..MaxFactors /\ x.zeroed \in BOOLEAN /\ x.got \in [RowLanes -> Int]
  BY Sizes DEF PlainSum, Values
<1>3. Paired(x, y) = x.coords
  BY <1>1, <1>2, PairedRow
<1>4. /\ z.form = "row" /\ z.coords = x.coords /\ z.valid = RowLanes /\ z.sums = x.sums /\ z.extras = FALSE
      /\ z.factors = x.factors + 1 /\ z.applied = 1
      /\ z.got = [n \in RowLanes |-> x.got[n] * y.got[n]]
  <2>1. x.valid \cap y.valid = RowLanes /\ 0 + 1 = 1
    BY <1>1, <1>2
  <2> QED BY <1>2, <1>3, <2>1 DEF Times, Values
<1>5. z \in Values("row", {"token"})
  <2>1. [n \in RowLanes |-> x.got[n] * y.got[n]] \in [RowLanes -> Int]
    BY <1>1, <1>2
  <2>2. x.factors + 1 \in 0..MaxFactors /\ x.valid \cap y.valid \in SUBSET RowLanes /\ 0 + 1 \in Nat
    BY <1>1, <1>2, BoundAssumption
  <2> QED BY <1>1, <1>2, <1>3, <2>1, <2>2, Sizes DEF Times, Values
<1>6. PlainSum(z)
  BY <1>4, <1>5 DEF PlainSum, AtRow
<1>7. \A n \in RowLanes : z.got[n] = x.got[n] * As[<<Home(n), g>>]
  BY <1>4 DEF ScaleAt
<1> QED BY <1>4, <1>6, <1>7

LEMMA MulPlainRow ==
    ASSUME Standard, Straight, NEW x, PlainRow(x), NEW l \in ScaleReads(FALSE), Plain(l),
           Elsewhere(x.sums[1][1].lo, l) = 0, Again(x, l) = 0, x.factors < MaxFactors
    PROVE  /\ ~NotItsScale(l.arg) /\ ~OutOfBounds(l, x.form) /\ ~Mispaired(x, Load(l, x.form))
           /\ PlainRow(Times(x, Load(l, "row"), l.arg))
<1>1. PICK y : y = Load(l, "row")
  OBVIOUS
<1>2. l.arg = "As" /\ l.along = FALSE /\ ~NotItsScale(l.arg) /\ ~OutOfBounds(l, "row")
  BY <1>1, PlainScale
<1>3. PICK g \in Groups : l.from \div G = g /\ ScaleAt(y, g)
  BY <1>1, PlainScale
<1>4. x.form = "row" /\ x.applied \in Nat /\ x.applied <= 1 /\ PlainSum(x) /\ RowRight(x) /\ DOMAIN x.sums = {1}
      /\ Len(x.sums) = 1
  <2>1. x.sums \in Seq(Ranges) /\ Len(x.sums) = 1 /\ x.form = "row" /\ x.applied \in Nat
    BY DEF PlainRow, PlainSum, Values
  <2> QED BY <2>1 DEF PlainRow, PlainSum
<1>5. x.applied = 0
  BY <1>2, <1>4 DEF Again, One
<1>6. x.sums[1][1].lo \div G = g
  BY <1>2, <1>3 DEF Elsewhere, One
<1>7. ~Mispaired(x, y)
  BY <1>3, <1>4, <1>6, ScaleFits
<1> DEFINE z == Times(x, y, "As")
<1>8. RowRight(z)
  BY <1>3, <1>4, <1>7, TimesRow DEF ScaleAt
<1>9. PlainSum(z) /\ z.sums = x.sums
  BY <1>3, <1>4, <1>5, ScaledSum
<1> HIDE DEF z
<1>10. PlainRow(z)
  BY <1>4, <1>8, <1>9 DEF PlainRow
<1> QED BY <1>1, <1>2, <1>4, <1>7, <1>10 DEF z

-----------------------------------------------------------------------------
(* The lanes in which a tile that stands at a k reads.                          *)
Across(from) == {j \in 0..T - 1 : from + j < K}

LEMMA AcrossIs ==
    ASSUME NEW from \in Hidden
    PROVE  \E w \in 1..T : Across(from) = 0..w - 1 /\ from + w <= K
<1>1. from \in Nat /\ from < K /\ K \in Nat /\ T \in Nat /\ T >= 1
  BY Sizes DEF Hidden
<1>2. CASE K - from < T
  <2>1. PICK w \in 1..T : w = K - from
    BY <1>1, <1>2
  <2>2. Across(from) = 0..w - 1
    BY <1>1, <1>2, <2>1 DEF Across
  <2> QED BY <1>1, <2>1, <2>2
<1>3. CASE ~(K - from < T)
  <2>1. Across(from) = 0..T - 1
    BY <1>1, <1>3 DEF Across
  <2>2. T \in 1..T /\ from + T <= K
    BY <1>1, <1>3
  <2> QED BY <2>1, <2>2
<1> QED BY <1>2, <1>3

(* Reading on from a k, a program's range starts there; nothing is read twice   *)
(* and nothing left out.                                                       *)
LEMMA AheadRange ==
    ASSUME NEW at, NEW p \in Programs, NEW from \in Hidden, NEW w \in 1..T,
           \A j \in 0..w - 1 : at[<<p, 0, j>>] = from + j,
           NEW lanes, lanes = Ahead(p, 0..w - 1)
    PROVE  /\ RangeOf(at, lanes) = [lo |-> from, count |-> w]
           /\ ~ReadsTwice(at, lanes) /\ ~Gaps(at, lanes)
<1>1. from \in Nat /\ w \in Nat /\ w >= 1 /\ w - 1 \in Nat
  BY Sizes
<1>2. 0..w - 1 \subseteq 0..T - 1
  BY Sizes
<1> DEFINE X == 0..w - 1
           f == [j \in X |-> <<p, 0, j>>]
<1>3. Cardinality(lanes) = w
  <2>1. f \in Bijection(X, lanes)
    BY DEF Bijection, Injection, Surjection, IsInjective, Ahead
  <2>2. IsFiniteSet(X) /\ Cardinality(X) = w
    <3>1. 0 \in Int /\ w - 1 \in Int /\ ~(0 > w - 1) /\ (w - 1) - 0 + 1 = w
      BY <1>1
    <3> QED BY <3>1, FS_Interval
  <2> HIDE DEF f, X
  <2>3. ExistsBijection(X, lanes)
    BY <2>1 DEF ExistsBijection
  <2> QED BY <2>2, <2>3, FS_Bijection
<1> DEFINE S == {at[n] : n \in lanes}
<1>4. S = from..from + w - 1
  <2>1. S = {from + j : j \in X}
    BY DEF Ahead
  <2>2. \A a : a \in {from + j : j \in X} <=> a \in from..from + w - 1
    <3>1. ASSUME NEW a \in from..from + w - 1 PROVE a - from \in X /\ a = from + (a - from)
      BY <1>1
    <3>2. \A j \in X : from + j \in from..from + w - 1
      BY <1>1
    <3> HIDE DEF X
    <3> QED BY <3>1, <3>2
  <2> QED BY <2>1, <2>2
<1>5. lanes # {}
  <2>1. 0 \in X
    BY <1>1
  <2> QED BY <2>1 DEF Ahead
<1> HIDE DEF S
<1>6. Min(S) = from
  <2>1. from \in S /\ \A a \in S : from <= a
    BY <1>1, <1>4
  <2>2. \A m \in S : (\A a \in S : m <= a) => m = from
    BY <1>1, <1>4, <2>1
  <2> QED BY <2>1, <2>2 DEF Min
<1>7. RangeOf(at, lanes) = [lo |-> from, count |-> w]
  BY <1>3, <1>5, <1>6 DEF RangeOf, S
<1>8. ~Gaps(at, lanes)
  <2> QED BY <1>4, <1>7 DEF Gaps, S
<1>9. ~ReadsTwice(at, lanes)
  <2>1. SUFFICES ASSUME NEW i \in X, NEW j \in X, from + i = from + j PROVE i = j
    BY DEF ReadsTwice, Ahead
  <2> QED BY <1>1, <2>1
<1> QED BY <1>7, <1>8, <1>9

(* What a plain tile reads.                                                     *)
LEMMA PlainReads ==
    ASSUME NEW x, NEW from, Stands(x, from), NEW w \in 1..T, Across(from) = 0..w - 1, NEW p \in Programs
    PROVE  /\ \A i \in 0..R - 1 : KOf(x, p, i) = 0..w - 1
           /\ KRead(x, p) = 0..w - 1 /\ RowsOf(x, p) = 0..R - 1 /\ Read(x, p) = Ahead(p, 0..w - 1)
           /\ \A j \in 0..w - 1 : AtK(x)[<<p, 0, j>>] = from + j
<1>1. 0 \in 0..R - 1 /\ 0 \in 0..w - 1
  BY Sizes
<1>2. ASSUME NEW i \in 0..R - 1 PROVE KOf(x, p, i) = 0..w - 1
  <2>1. \A j \in 0..T - 1 : <<p, i, j>> \in TileLanes
    BY DEF TileLanes
  <2>2. \A j \in 0..T - 1 : <<p, i, j>> \in x.valid <=> from + j < K
    BY <2>1 DEF Stands
  <2> QED BY <2>2 DEF KOf, Across
<1>3. KRead(x, p) = 0..w - 1
  BY <1>1, <1>2 DEF KRead
<1>4. RowsOf(x, p) = 0..R - 1
  BY <1>1, <1>2 DEF RowsOf
<1>5. Read(x, p) = Ahead(p, 0..w - 1)
  BY <1>1, <1>2 DEF Read, Ahead
<1>6. ASSUME NEW j \in 0..w - 1 PROVE AtK(x)[<<p, 0, j>>] = from + j
  <2>1. <<p, 0, j>> \in TileLanes
    BY <1>1, Sizes DEF TileLanes
  <2> QED BY <2>1 DEF Stands
<1> QED BY <1>2, <1>3, <1>4, <1>5, <1>6

-----------------------------------------------------------------------------
(* What both sums over the lanes of a plain tile have in common.                *)
LEMMA PlainSummed ==
    ASSUME ~OneLane, NEW x, PlainTile(x), NEW from \in Hidden, Stands(x, from), NEW w \in 1..T, Across(from) = 0..w - 1,
           NEW z, RowRight(z), z.coords = RowCoords(x), z.valid = RowLanes, z.extras = FALSE, z.applied = x.applied,
           NEW lanes, z.sums = <<[p \in Programs |-> RangeOf(AtK(x), lanes[p])]>>,
           \A p \in Programs : lanes[p] = Ahead(p, 0..w - 1)
    PROVE  PlainRow(z)
<1>1. x \in Values("tile", {"token", "hidden"}) /\ x.applied <= 1
  BY DEF PlainTile, TileRight
<1>2. \A n \in RowLanes : AtRow(z)[n] = Home(n)
  <2>1. \A n \in RowLanes : AtRow(z)[n] = AtRow(x)[n]
    BY <1>1, RowPlaces DEF AtRow
  <2> QED BY <2>1, Sizes DEF Stands
<1>3. OneRange(z.sums[1])
  <2>1. w \in Nat \ {0} /\ w <= T /\ from % T = 0
    BY Sizes DEF Stands
  <2>2. ASSUME NEW p \in Programs PROVE z.sums[1][p] = [lo |-> from, count |-> w]
    <3>1. \A j \in 0..w - 1 : AtK(x)[<<p, 0, j>>] = from + j
      BY PlainReads
    <3>2. RangeOf(AtK(x), lanes[p]) = [lo |-> from, count |-> w]
      BY <3>1, AheadRange
    <3> QED BY <3>2
  <2> QED BY <2>1, <2>2 DEF OneRange
<1>4. Len(z.sums) = 1 /\ DOMAIN z.sums = {1}
  OBVIOUS
<1> QED BY <1>1, <1>2, <1>3, <1>4 DEF PlainRow, PlainSum, RowRight

LEMMA PlainReduced ==
    ASSUME ~OneLane, NEW x, PlainTile(x)
    PROVE  /\ ~CountsRowTwice(x) /\ ~RowChanges(x) /\ ~RaggedMask(x)
           /\ \A p \in Programs : ~ReadsTwice(AtK(x), Read(x, p)) /\ ~Gaps(AtK(x), Read(x, p))
           /\ PlainRow(Reduced(x))
<1>1. PICK from \in Hidden : Stands(x, from)
  BY DEF PlainTile
<1>2. PICK w \in 1..T : Across(from) = 0..w - 1
  BY <1>1, AcrossIs
<1>3. /\ x \in Values("tile", {"token", "hidden"}) /\ TileRight(x) /\ x.got \in [TileLanes -> Int]
      /\ x.extras = FALSE
  BY Sizes DEF PlainTile, TileRight, Values
<1>4. ~RowChanges(x)
  <2>1. SUFFICES ASSUME NEW n \in TileLanes PROVE AtRow(x)[n] = AtRow(x)[InRow(n)]
    BY <1>3 DEF RowChanges, AtRow
  <2>2. InRow(n) \in TileLanes /\ InRow(n)[1] = n[1] /\ InRow(n)[2] = n[2]
    BY Sizes DEF InRow, TileLanes
  <2>3. Home(InRow(n)) = Home(n)
    BY <2>2 DEF Home
  <2> QED BY <1>1, <2>2, <2>3 DEF Stands
<1>5. ~CountsRowTwice(x)
  BY <1>4 DEF CountsRowTwice
<1>6. ASSUME NEW p \in Programs
      PROVE  /\ \A i \in 0..R - 1 : KOf(x, p, i) = 0..w - 1
             /\ Read(x, p) = Ahead(p, 0..w - 1) /\ \A j \in 0..w - 1 : AtK(x)[<<p, 0, j>>] = from + j
  BY <1>1, <1>2, PlainReads
<1>7. ~RaggedMask(x)
  BY <1>6 DEF RaggedMask
<1>8. ASSUME NEW p \in Programs PROVE ~ReadsTwice(AtK(x), Read(x, p)) /\ ~Gaps(AtK(x), Read(x, p))
  BY <1>6, AheadRange
<1>9. ~SumsMasked(x)
  <2>1. ZeroOutside(x)
    BY <1>3 DEF PlainTile, TileRight
  <2> QED BY <1>3, <2>1 DEF SumsMasked, ZeroOutside
<1> DEFINE z == Reduced(x)
           lanes == [p \in Programs |-> Read(x, p)]
<1>10. RowRight(z)
  BY <1>3, <1>4, <1>7, <1>8, <1>9, ReducedRow
<1>11. /\ z.coords = RowCoords(x) /\ z.valid = {InRow(n) : n \in x.valid} /\ z.extras = FALSE /\ z.applied = x.applied
       /\ z.sums = <<[p \in Programs |-> RangeOf(AtK(x), lanes[p])]>>
  BY <1>3 DEF Reduced, Values
<1>12. {InRow(n) : n \in x.valid} = RowLanes
  <2>1. \A n \in x.valid : InRow(n) \in RowLanes
    BY <1>1 DEF Stands, InRow, TileLanes, RowLanes
  <2>2. ASSUME NEW n \in RowLanes PROVE n \in x.valid /\ InRow(n) = n
    <3>1. n \in TileLanes /\ n = <<n[1], n[2], 0>> /\ from + n[3] < K
      BY <1>1, Sizes DEF RowLanes, Hidden
    <3> QED BY <1>1, <3>1 DEF Stands, InRow
  <2> QED BY <2>1, <2>2
<1>13. \A p \in Programs : lanes[p] = Ahead(p, 0..w - 1)
  BY <1>6
<1> HIDE DEF z, lanes
<1>14. PlainRow(z)
  BY <1>1, <1>2, <1>10, <1>11, <1>12, <1>13, PlainSummed
<1> QED BY <1>4, <1>5, <1>7, <1>8, <1>14 DEF z

(* B beside a tile is read where the tile is.                                   *)
LEMMA BesideB ==
    ASSUME Standard, Straight, NEW from \in Hidden, from % T = 0, NEW l \in Windows("B"), Beside(l, from),
           NEW y, y = Load(l, "tile")
    PROVE  AheadInB(y, from, Across(from))
<1>1. l \in AllLoads /\ Plain(l) /\ l.arg = "B" /\ l.along = TRUE
  BY LoadsAre DEF Beside, Windows
<1>2. l.from = from /\ from \in Nat
  BY <1>1, Sizes DEF Beside, Elsewhere, One
<1>3. ASSUME NEW n \in TileLanes PROVE KAt(l, n) = from + n[3] /\ n[3] \in 0..T - 1
  <2>1. n[3] \in 0..T - 1 /\ n[3] \in Nat /\ from + n[3] \in Nat
    BY <1>2, Sizes DEF TileLanes
  <2>2. Grain(l.arg) = 1 /\ (from + n[3]) \div 1 = from + n[3]
    BY <1>1, <2>1, Axes, DivideOne
  <2> QED BY <1>1, <1>2, <2>1, <2>2 DEF KAt
<1>4. PICK form \in {"tile", "row"} : form = "tile"
  OBVIOUS
<1>5. /\ y.valid = {n \in Lanes(form) : KAt(l, n) < Size(l.arg, "hidden")}
      /\ \A n \in Lanes(form) : AtK(y)[n] = KAt(l, n)
  <2>1. y = Load(l, form)
    BY <1>4
  <2>2. /\ Loaded(y, l, form) /\ y.zeroed = TRUE
        /\ y.valid = {n \in Lanes(form) : KAt(l, n) < Size(l.arg, "hidden")}
        /\ \A n \in Lanes(form) : /\ AtK(y)[n] = KAt(l, n)
                                  /\ "token" \in AxesOf(l.arg) => AtRow(y)[n] = Home(n)
    <3>1. l \in AllLoads /\ Plain(l)
      BY <1>1
    <3> QED BY <2>1, <3>1, PlainLoad
  <2> QED BY <2>2
<1>6. Lanes(form) = TileLanes /\ Size(l.arg, "hidden") = K
  BY <1>1, <1>4, Sizes DEF Size
<1> QED BY <1>3, <1>5, <1>6 DEF AheadInB, Across

LEMMA PlainDotted ==
    ASSUME Standard, Straight, NEW x, PlainTile(x), NEW l \in Windows("B"), Beside(l, AtK(x)[<<1, 0, 0>>]),
           NEW y, y = Load(l, "tile")
    PROVE  /\ ~OutOfBounds(l, "tile") /\ ~DotUnproven(x, y) /\ ~DotDisagrees(x, y)
           /\ \A p \in Programs : ~ReadsTwice(AtK(x), Live(x, y, p)) /\ ~Gaps(AtK(x), Live(x, y, p))
           /\ PlainRow(Dotted(x, y))
<1>1. PICK from \in Hidden : Stands(x, from)
  BY DEF PlainTile
<1>2. PICK w \in 1..T : Across(from) = 0..w - 1
  BY <1>1, AcrossIs
<1>3. /\ x \in Values("tile", {"token", "hidden"}) /\ TileRight(x) /\ x.zeroed = TRUE /\ x.extras = FALSE
      /\ x.coords \in [{"token", "hidden"} -> [at : [TileLanes -> Int], group : {1}]]
  BY Sizes DEF PlainTile, TileRight, Values, Places
<1>4. Beside(l, from) /\ from % T = 0 /\ l.arg = "B"
  <2>1. AtK(x)[<<1, 0, 0>>] = from
    BY <1>1, StandsFrom
  <2> QED BY <1>1, <2>1 DEF Stands, Windows
<1>5. ~OutOfBounds(l, "tile") /\ Factor(y, "B", "tile") /\ y.zeroed = TRUE
  BY <1>1, <1>3, <1>4, BesideTile
<1>6. AheadInB(y, from, Across(from))
  BY <1>4, BesideB
<1>7. ASSUME NEW p \in Programs
      PROVE  /\ \A i \in 0..R - 1 : KOf(x, p, i) = 0..w - 1
             /\ KRead(x, p) = 0..w - 1 /\ RowsOf(x, p) = 0..R - 1
             /\ \A j \in 0..w - 1 : AtK(x)[<<p, 0, j>>] = from + j
  BY <1>1, <1>2, PlainReads
<1>8. 0 \in 0..w - 1 /\ 0..w - 1 \subseteq 0..T - 1 /\ 0 \in 0..R - 1
  BY Sizes
<1>9. ASSUME NEW p \in Programs PROVE KRead(y, p) = 0..w - 1
  <2>1. \A i \in 0..R - 1, j \in 0..T - 1 : <<p, i, j>> \in TileLanes
    BY DEF TileLanes
  <2>2. \A i \in 0..R - 1 : KOf(y, p, i) = 0..w - 1
    BY <1>2, <1>6, <1>8, <2>1 DEF AheadInB, KOf
  <2> QED BY <1>8, <2>2 DEF KRead
<1>0. ~OneLane /\ ~Wide("A")
  BY Sizes DEF Straight, OneLane, Wide
<1>10. ~DotUnproven(x, y)
  BY <1>0, <1>3, <1>5, <1>7, <1>9 DEF DotUnproven, NotATile, MasksDiffer, NothingContracted
<1>11. ~DotDisagrees(x, y)
  <2>1. SUFFICES ASSUME NEW p \in Programs, NEW j \in 0..w - 1
                 PROVE  ~Disagree(x.coords["hidden"], y.coords["hidden"], <<p, 0, j>>)
    BY <1>7, <1>9 DEF DotDisagrees
  <2>2. PICK k \in Nat : k = from + j
    BY Sizes
  <2>3. <<p, 0, j>> \in TileLanes
    BY <1>8 DEF TileLanes
  <2>4. y.coords["hidden"].at[<<p, 0, j>>] = k
    BY <1>6, <2>2, <2>3 DEF AheadInB, AtK
  <2>5. x.coords["hidden"].at[<<p, 0, j>>] = k
    BY <1>7, <2>2 DEF AtK
  <2>6. x.coords["hidden"].group = 1 /\ y.coords["hidden"].group = 1
    BY <1>3, <1>5, Axes DEF Factor
  <2> QED BY <2>4, <2>5, <2>6, DivideOne, Agreeing
<1>12. ASSUME NEW p \in Programs PROVE Live(x, y, p) = Ahead(p, 0..w - 1)
  BY <1>7, <1>8, <1>9 DEF Live, Ahead
<1>13. ASSUME NEW p \in Programs PROVE ~ReadsTwice(AtK(x), Live(x, y, p)) /\ ~Gaps(AtK(x), Live(x, y, p))
  BY <1>7, <1>12, AheadRange
<1> DEFINE z == Dotted(x, y)
           lanes == [p \in Programs |-> Live(x, y, p)]
<1>14. RowRight(z)
  <2>1. Across(from) \in SUBSET (0..T - 1)
    BY DEF Across
  <2> QED BY <1>3, <1>5, <1>6, <1>10, <1>11, <1>13, <2>1, DottedRow
<1>15. /\ z.coords = RowCoords(x) /\ z.valid = {n \in RowLanes : n[2] \in RowsOf(x, n[1]) /\ KRead(y, n[1]) # {}}
       /\ z.extras = FALSE /\ z.applied = x.applied
       /\ z.sums = <<[p \in Programs |-> RangeOf(AtK(x), lanes[p])]>>
  BY <1>3, Sizes DEF Dotted, Values
<1>16. z.valid = RowLanes
  <2> HIDE DEF z, lanes
  <2>1. \A n \in RowLanes : n[1] \in Programs /\ n[2] \in 0..R - 1
    BY DEF RowLanes
  <2>2. \A p \in Programs : RowsOf(x, p) = 0..R - 1 /\ KRead(y, p) # {}
    BY <1>7, <1>8, <1>9
  <2> QED BY <1>15, <2>1, <2>2
<1>17. \A p \in Programs : lanes[p] = Ahead(p, 0..w - 1)
  BY <1>12
<1> HIDE DEF z, lanes
<1>18. PlainRow(z)
  <2>1. /\ RowRight(z) /\ z.coords = RowCoords(x) /\ z.valid = RowLanes /\ z.extras = FALSE
        /\ z.applied = x.applied /\ z.sums = <<[p \in Programs |-> RangeOf(AtK(x), lanes[p])]>>
        /\ \A p \in Programs : lanes[p] = Ahead(p, 0..w - 1)
    BY <1>14, <1>15, <1>16, <1>17
  <2> QED BY <1>0, <1>1, <1>2, <2>1, PlainSummed
<1> QED BY <1>5, <1>10, <1>11, <1>13, <1>18 DEF z

-----------------------------------------------------------------------------
(* Sums of A with weights: one without a scale, one with the term's own, one    *)
(* with that of one group.                                                     *)
Mix(t, g, U, V, W) == [k \in Hidden |-> A[<<t, k>>] * (U[k] + As[<<t, k \div G>>] * V[k] + As[<<t, g>>] * W[k])]
Weights == [Hidden -> Int]
None == [k \in Hidden |-> 0]
Both(U, V) == [k \in Hidden |-> U[k] + V[k]]
Held(t, g, applied, W) == IF applied = 0 THEN Mixed(t, g, W, None, None) ELSE Mixed(t, g, None, W, None)

LEMMA MixIs ==
    ASSUME NEW t \in Tokens, NEW g \in Groups, NEW U \in Weights, NEW V \in Weights, NEW W \in Weights
    PROVE  Ints(Mix(t, g, U, V, W), K) /\ Mixed(t, g, U, V, W) = SumTo(Mix(t, g, U, V, W), K)
<1>1. ASSUME NEW k \in Hidden PROVE Mix(t, g, U, V, W)[k] \in Int
  <2>1. PICK a \in Int, s \in Int, c \in Int : a = A[<<t, k>>] /\ s = As[<<t, k \div G>>] /\ c = As[<<t, g>>]
    BY Elements
  <2>2. PICK u \in Int, v \in Int, w \in Int : u = U[k] /\ v = V[k] /\ w = W[k]
    BY DEF Weights
  <2>3. Mix(t, g, U, V, W)[k] = a * (u + s * v + c * w)
    BY <2>1, <2>2 DEF Mix
  <2>4. a * (u + s * v + c * w) \in Int
    OBVIOUS
  <2> QED BY <2>3, <2>4
<1>2. Mixed(t, g, U, V, W) = SumTo(Mix(t, g, U, V, W), K)
  BY DEF Mixed, Mix
<1> QED BY <1>1, <1>2 DEF Ints, Hidden

LEMMA NoneIs == None \in Weights /\ \A U, V \in Weights : Both(U, V) \in Weights /\ \A k \in Hidden : Both(U, V)[k] = U[k] + V[k]
BY DEF None, Weights, Both

LEMMA MixedAdds ==
    ASSUME NEW t \in Tokens, NEW g \in Groups, NEW U \in Weights, NEW V \in Weights, NEW W \in Weights,
           NEW X \in Weights, NEW Y \in Weights, NEW Z \in Weights
    PROVE  /\ Mixed(t, g, Both(U, X), Both(V, Y), Both(W, Z)) = Mixed(t, g, U, V, W) + Mixed(t, g, X, Y, Z)
           /\ Mixed(t, g, U, V, W) \in Int
<1> DEFINE f == Mix(t, g, U, V, W)
           h == Mix(t, g, X, Y, Z)
           b == Mix(t, g, Both(U, X), Both(V, Y), Both(W, Z))
<1>1. Both(U, X) \in Weights /\ Both(V, Y) \in Weights /\ Both(W, Z) \in Weights
  BY NoneIs
<1>2. Ints(f, K) /\ Ints(h, K) /\ Mixed(t, g, U, V, W) = SumTo(f, K) /\ Mixed(t, g, X, Y, Z) = SumTo(h, K)
      /\ Mixed(t, g, Both(U, X), Both(V, Y), Both(W, Z)) = SumTo(b, K)
  <2>1. Ints(f, K) /\ Mixed(t, g, U, V, W) = SumTo(f, K)
    BY MixIs
  <2>2. Ints(h, K) /\ Mixed(t, g, X, Y, Z) = SumTo(h, K)
    BY MixIs
  <2>3. Mixed(t, g, Both(U, X), Both(V, Y), Both(W, Z)) = SumTo(b, K)
    BY DEF Mixed, Mix
  <2> QED BY <2>1, <2>2, <2>3
<1>3. ASSUME NEW k \in Hidden PROVE b[k] = f[k] + h[k]
  <2>1. PICK a \in Int, s \in Int, c \in Int : a = A[<<t, k>>] /\ s = As[<<t, k \div G>>] /\ c = As[<<t, g>>]
    BY Elements
  <2>2. PICK u \in Int, v \in Int, w \in Int, x \in Int, y \in Int, z \in Int :
            u = U[k] /\ v = V[k] /\ w = W[k] /\ x = X[k] /\ y = Y[k] /\ z = Z[k]
    BY DEF Weights
  <2>3. f[k] = a * (u + s * v + c * w) /\ h[k] = a * (x + s * y + c * z)
    BY <2>1, <2>2 DEF Mix
  <2>4. b[k] = a * ((u + x) + s * (v + y) + c * (w + z))
    BY <2>1, <2>2, NoneIs DEF Mix
  <2>5. a * ((u + x) + s * (v + y) + c * (w + z)) = a * (u + s * v + c * w) + a * (x + s * y + c * z)
    OBVIOUS
  <2> QED BY <2>3, <2>4, <2>5
<1> HIDE DEF f, h, b
<1>4. SumTo(b, K) = SumTo(f, K) + SumTo(h, K)
  <2>1. \A k \in 0..K - 1 : b[k] = f[k] + h[k]
    BY <1>3 DEF Hidden
  <2> QED BY <1>2, <2>1, SumAdd, Sizes
<1>5. SumTo(f, K) \in Int
  BY <1>2, SumSteps, Sizes
<1> QED BY <1>2, <1>4, <1>5

LEMMA HeldIs ==
    ASSUME NEW t \in Tokens, NEW g \in Groups, NEW W \in Weights, NEW applied \in {0, 1}
    PROVE  SumTo([k \in Hidden |-> A[<<t, k>>] * Scaled(t, k, applied) * W[k]], K) = Held(t, g, applied, W)
<1> DEFINE U == IF applied = 0 THEN W ELSE None
           V == IF applied = 0 THEN None ELSE W
           f == Mix(t, g, U, V, None)
           h == [k \in Hidden |-> A[<<t, k>>] * Scaled(t, k, applied) * W[k]]
<1>1. U \in Weights /\ V \in Weights /\ None \in Weights
  BY NoneIs
<1>2. Held(t, g, applied, W) = Mixed(t, g, U, V, None)
  BY DEF Held
<1>3. Ints(f, K) /\ Mixed(t, g, U, V, None) = SumTo(f, K)
  <2> HIDE DEF U, V
  <2> QED BY <1>1, MixIs
<1>4. ASSUME NEW k \in Hidden PROVE f[k] = h[k]
  <2>1. PICK a \in Int, s \in Int, c \in Int : a = A[<<t, k>>] /\ s = As[<<t, k \div G>>] /\ c = As[<<t, g>>]
    BY Elements
  <2>2. PICK w \in Int : w = W[k]
    BY DEF Weights
  <2>3. CASE applied = 0
    <3>1. f[k] = a * (w + s * 0 + c * 0) /\ h[k] = a * 1 * w
      BY <2>1, <2>2, <2>3 DEF Mix, Scaled, None
    <3> QED BY <3>1
  <2>4. CASE applied = 1
    <3>1. f[k] = a * (0 + s * w + c * 0) /\ h[k] = a * s * w
      BY <2>1, <2>2, <2>4 DEF Mix, Scaled, None
    <3> HIDE DEF f, h
    <3>2. a * (0 + s * w + c * 0) = a * s * w
      OBVIOUS
    <3> QED BY <3>1, <3>2
  <2> QED BY <2>3, <2>4
<1> HIDE DEF f, h, U, V
<1>5. SumTo(f, K) = SumTo(h, K)
  <2>1. \A k \in 0..K - 1 : f[k] = h[k]
    BY <1>4 DEF Hidden
  <2> QED BY <1>3, <2>1, SumEqual, Sizes
<1> QED BY <1>2, <1>3, <1>5 DEF h

(* Times the scale of one group.                                               *)
LEMMA HeldTimes ==
    ASSUME NEW t \in Tokens, NEW g \in Groups, NEW W \in Weights
    PROVE  /\ Held(t, g, 0, W) * As[<<t, g>>] = Mixed(t, g, None, None, W)
           /\ (\A k \in Hidden : W[k] = 0 \/ k \div G = g)
                 => \A h \in Groups : Held(t, g, 0, W) * As[<<t, g>>] = Held(t, h, 1, W)
<1> DEFINE f == Mix(t, g, W, None, None)
<1>1. None \in Weights
  BY NoneIs
<1>2. Held(t, g, 0, W) = SumTo(f, K) /\ Ints(f, K)
  BY <1>1, MixIs DEF Held
<1>3. PICK c \in Int : c = As[<<t, g>>]
  BY Elements
<1>4. \A k \in Hidden : f[k] = A[<<t, k>>] * W[k]
  <2>1. SUFFICES ASSUME NEW k \in Hidden PROVE f[k] = A[<<t, k>>] * W[k]
    OBVIOUS
  <2>2. PICK a \in Int, s \in Int, w \in Int : a = A[<<t, k>>] /\ s = As[<<t, k \div G>>] /\ w = W[k]
    BY Elements DEF Weights
  <2>3. f[k] = a * (w + s * 0 + c * 0)
    BY <1>3, <2>2 DEF Mix, None
  <2> HIDE DEF f
  <2> QED BY <2>2, <2>3
<1> HIDE DEF f
<1>5. Mixed(t, g, None, None, W) = SumTo(f, K) * c
  <2> DEFINE h == Mix(t, g, None, None, W)
  <2>1. Mixed(t, g, None, None, W) = SumTo(h, K)
    BY <1>1, MixIs
  <2>2. ASSUME NEW k \in Hidden PROVE h[k] = f[k] * c
    <3>1. PICK a \in Int, s \in Int, w \in Int : a = A[<<t, k>>] /\ s = As[<<t, k \div G>>] /\ w = W[k]
      BY Elements DEF Weights
    <3>2. h[k] = a * (0 + s * 0 + c * w)
      BY <1>3, <3>1 DEF Mix, None
    <3>3. f[k] = a * w
      BY <1>4, <3>1
    <3> HIDE DEF h
    <3>4. a * (0 + s * 0 + c * w) = (a * w) * c
      OBVIOUS
    <3> QED BY <3>2, <3>3, <3>4
  <2> HIDE DEF h
  <2>3. \A k \in 0..K - 1 : h[k] = f[k] * c
    BY <2>2 DEF Hidden
  <2>4. SumTo(h, K) = SumTo(f, K) * c
    BY <1>2, <2>3, SumTimes, Sizes
  <2> QED BY <2>1, <2>4
<1>6. ASSUME \A k \in Hidden : W[k] = 0 \/ k \div G = g, NEW e \in Groups
      PROVE  Held(t, e, 1, W) = SumTo(f, K) * c
  <2> DEFINE h == Mix(t, e, None, W, None)
  <2>1. Held(t, e, 1, W) = SumTo(h, K)
    <3>1. Mixed(t, e, None, W, None) = SumTo(h, K)
      BY DEF Mixed, Mix
    <3> QED BY <3>1 DEF Held
  <2>2. ASSUME NEW k \in Hidden PROVE h[k] = f[k] * c
    <3>1. PICK a \in Int, s \in Int, w \in Int, d \in Int :
              a = A[<<t, k>>] /\ s = As[<<t, k \div G>>] /\ w = W[k] /\ d = As[<<t, e>>]
      BY Elements DEF Weights
    <3>2. h[k] = a * (0 + s * w + d * 0)
      BY <3>1 DEF Mix, None
    <3>3. f[k] = a * w
      BY <1>4, <3>1
    <3>4. w = 0 \/ s = c
      BY <1>3, <1>6, <3>1
    <3> HIDE DEF h
    <3>5. a * (0 + s * w + d * 0) = (a * w) * s
      OBVIOUS
    <3>6. w = 0 => (a * w) * s = (a * w) * c
      OBVIOUS
    <3> QED BY <3>2, <3>3, <3>4, <3>5, <3>6
  <2> HIDE DEF h
  <2>3. \A k \in 0..K - 1 : h[k] = f[k] * c
    BY <2>2 DEF Hidden
  <2>4. SumTo(h, K) = SumTo(f, K) * c
    BY <1>2, <2>3, SumTimes, Sizes
  <2> QED BY <2>1, <2>4
<1> QED BY <1>2, <1>3, <1>5, <1>6

-----------------------------------------------------------------------------
(* A sum that no rule has failed: a term's weight is one for every summand that *)
(* has it, and then some times B less one. Where a scale of another group was   *)
(* applied to a sum that has a term of it, that term keeps it.                  *)
Tally(x, k) == Cardinality(Summing(x, 1, k))
Counts(x, W) ==
    \A k \in Hidden : /\ W[k] \in Nat /\ (Summing(x, 1, k) = {} => W[k] = 0)
                      /\ \E q \in Nat : W[k] = Tally(x, k) + (B[k] - 1) * q
Good(x) ==
    \E W \in Weights : Counts(x, W) /\ \A g \in Groups, n \in RowLanes : x.got[n] = Held(Home(n), g, x.applied, W)
Bad(x) ==
    /\ x.applied = 1
    /\ \E g \in Groups, U, V, W \in Weights :
          /\ \A n \in RowLanes : x.got[n] = Mixed(Home(n), g, U, V, W)
          /\ \E k \in Hidden : k \div G # g /\ W[k] # 0

Larger == \A k \in Hidden : B[k] \in Nat /\ B[k] > MaxOps + 2

LEMMA LargerIs == ASSUME Unlike PROVE Larger
BY Elements, BoundAssumption DEF Unlike, Larger

LEMMA SummingIs ==
    ASSUME NEW x, x.sums \in Seq(Ranges), NEW p, NEW k
    PROVE  /\ IsFiniteSet(Summing(x, p, k)) /\ Summing(x, p, k) \subseteq DOMAIN x.sums
           /\ Cardinality(Summing(x, p, k)) \in Nat /\ Cardinality(Summing(x, p, k)) <= Len(x.sums)
           /\ (Summing(x, p, k) # {} => Cardinality(Summing(x, p, k)) > 0)
<1>1. PICK m \in Nat : m = Len(x.sums) /\ DOMAIN x.sums = 1..m
  OBVIOUS
<1>2. Summing(x, p, k) \in SUBSET (1..m)
  BY <1>1 DEF Summing
<1>3. IsFiniteSet(1..m) /\ Cardinality(1..m) = m
  <2>1. 1 \in Int /\ m \in Int /\ (1 > m => m = 0) /\ m - 1 + 1 = m
    OBVIOUS
  <2> QED BY <2>1, FS_Interval
<1>4. IsFiniteSet(Summing(x, p, k)) /\ Cardinality(Summing(x, p, k)) <= m
  BY <1>2, <1>3, FS_Subset
<1>5. Cardinality(Summing(x, p, k)) \in Nat
  BY <1>4, FS_CardinalityType
<1>6. Summing(x, p, k) # {} => Cardinality(Summing(x, p, k)) # 0
  BY <1>4, FS_EmptySet
<1> QED BY <1>1, <1>2, <1>4, <1>5, <1>6

LEMMA RowIsGood ==
    ASSUME Larger, NEW x, PlainRow(x)
    PROVE  Good(x)
<1>1. /\ x.sums \in Seq(Ranges) /\ DOMAIN x.sums = {1} /\ x.applied \in {0, 1} /\ x.extras = FALSE /\ x.valid = RowLanes
      /\ RowRight(x) /\ \A n \in RowLanes : AtRow(x)[n] = Home(n)
  <2>1. x.sums \in Seq(Ranges) /\ Len(x.sums) = 1 /\ x.applied \in Nat /\ x.applied <= 1
    BY DEF PlainRow, PlainSum, Values
  <2> QED BY <2>1 DEF PlainRow, PlainSum
<1>2. PICK W \in [Hidden -> Int] : Weighed(x, W)
  BY <1>1 DEF RowRight
<1>3. W \in Weights
  BY DEF Weights
<1>4. ASSUME NEW k \in Hidden
      PROVE  /\ W[k] \in Nat /\ (Summing(x, 1, k) = {} => W[k] = 0)
             /\ \E q \in Nat : W[k] = Tally(x, k) + (B[k] - 1) * q
  <2>1. PICK n \in RowLanes : n[1] = 1
    <3>1. <<1, 0, 0>> \in RowLanes
      BY Sizes DEF RowLanes, Programs
    <3> QED BY <3>1
  <2>2. /\ Summing(x, 1, k) = {} => W[k] = 0
        /\ (\E i : Summing(x, 1, k) = {i}) => \E e \in Nat : W[k] = Power(B[k], e)
    <3>1. /\ Summing(x, n[1], k) = {} => W[k] = 0
          /\ (\E i : Summing(x, n[1], k) = {i})
                => \E e \in Nat : e + x.applied <= x.factors + 1 /\ W[k] = Power(B[k], e)
      BY <1>1, <1>2 DEF Weighed
    <3>2. Summing(x, n[1], k) = Summing(x, 1, k)
      BY <2>1
    <3> QED BY <3>1, <3>2
  <2>3. Summing(x, 1, k) \subseteq {1}
    BY <1>1 DEF Summing
  <2>4. PICK b \in Nat : b = B[k] /\ b >= 1
    BY BoundAssumption DEF Larger
  <2>5. CASE Summing(x, 1, k) = {}
    <3>1. Tally(x, k) = 0
      BY <2>5, FS_EmptySet DEF Tally
    <3>2. W[k] = Tally(x, k) + (b - 1) * 0
      BY <2>2, <2>5, <3>1
    <3> QED BY <2>2, <2>4, <2>5, <3>2
  <2>6. CASE Summing(x, 1, k) = {1}
    <3>1. Tally(x, k) = 1
      BY <2>6, FS_Singleton DEF Tally
    <3>2. PICK e \in Nat : W[k] = Power(b, e)
      BY <2>2, <2>4, <2>6
    <3>3. PICK q \in Nat : Power(b, e) = 1 + (b - 1) * q
      BY <2>4, PowerRest
    <3>4. W[k] \in Nat
      <4>1. (b - 1) * q \in Nat
        BY <2>4
      <4> QED BY <3>2, <3>3, <4>1
    <3> QED BY <2>4, <2>6, <3>1, <3>2, <3>3, <3>4
  <2> QED BY <2>3, <2>5, <2>6
<1>5. ASSUME NEW g \in Groups, NEW n \in RowLanes PROVE x.got[n] = Held(Home(n), g, x.applied, W)
  <2>1. Home(n) \in Tokens
    BY HomeIs, Sizes
  <2>2. x.got[n] = SumTo([k \in Hidden |-> A[<<Home(n), k>>] * Scaled(Home(n), k, x.applied) * W[k]], K)
    BY <1>1, <1>2 DEF Weighed
  <2> QED BY <1>1, <1>3, <2>1, <2>2, HeldIs
<1> QED BY <1>3, <1>4, <1>5 DEF Good, Counts

LEMMA GoodScaled ==
    ASSUME Larger, Straight, NEW x, PlainSum(x), Good(x), x.applied = 0, NEW g \in Groups, NEW y, ScaleAt(y, g),
           NEW z, z.sums = x.sums, z.applied = 1, \A n \in RowLanes : z.got[n] = x.got[n] * As[<<Home(n), g>>]
    PROVE  IF Mispaired(x, y) THEN Bad(z) ELSE Good(z)
<1>1. PICK W \in Weights :
          Counts(x, W) /\ \A h \in Groups, n \in RowLanes : x.got[n] = Held(Home(n), h, x.applied, W)
  BY DEF Good
<1>2. \A n \in RowLanes : Home(n) \in Tokens
  BY HomeIs, Sizes
<1>3. x.sums \in Seq(Ranges)
  BY DEF PlainSum, Values
<1>4. \A n \in RowLanes : z.got[n] = Held(Home(n), g, 0, W) * As[<<Home(n), g>>]
  BY <1>1
(* Which terms a summand has.                                                  *)
<1>5. ASSUME NEW i \in DOMAIN x.sums
      PROVE  /\ x.sums[i][1].lo \in Hidden /\ i \in Summing(x, 1, x.sums[i][1].lo)
             /\ \A k \in Hidden : i \in Summing(x, 1, k) => k \div G = x.sums[i][1].lo \div G
  <2>1. PICK lo \in Hidden, count \in Nat \ {0} :
            lo % T = 0 /\ count <= T /\ \A q \in Programs : x.sums[i][q] = [lo |-> lo, count |-> count]
    BY DEF PlainSum, OneRange
  <2>2. x.sums[i][1].lo = lo /\ x.sums[i][1].count = count
    BY <2>1, Sizes DEF Programs
  <2>3. lo <= lo /\ lo < lo + count /\ lo \in Nat
    BY Sizes
  <2>4. i \in Summing(x, 1, lo)
    BY <2>2, <2>3 DEF Summing
  <2>5. ASSUME NEW k \in Hidden, i \in Summing(x, 1, k) PROVE k \div G = lo \div G
    <3>1. lo <= k /\ k < lo + count /\ k \in Nat
      BY <2>2, <2>5, Sizes DEF Summing
    <3>2. k - lo \in 0..T - 1 /\ lo + (k - lo) = k
      BY <2>1, <2>3, <3>1, Sizes
    <3> QED BY <2>1, <2>3, <3>2, SameGroup
  <2> QED BY <2>2, <2>4, <2>5
<1>6. CASE Mispaired(x, y)
  <2>1. PICK i \in DOMAIN x.sums : x.sums[i][1].lo \div G # g
    BY <1>6, ScaleFits
  <2>2. PICK k \in Hidden : k = x.sums[i][1].lo
    BY <1>5
  <2>3. Summing(x, 1, k) # {}
    BY <1>5, <2>2
  <2>4. W[k] # 0
    <3>1. Tally(x, k) \in Nat /\ Tally(x, k) > 0
      BY <1>3, <2>3, SummingIs DEF Tally
    <3>2. PICK q \in Nat : W[k] = Tally(x, k) + (B[k] - 1) * q
      BY <1>1 DEF Counts
    <3>3. PICK b \in Nat : b = B[k] /\ b >= 1
      BY BoundAssumption DEF Larger
    <3>4. (b - 1) * q \in Nat
      BY <3>3
    <3> QED BY <3>1, <3>2, <3>3, <3>4
  <2>5. \A n \in RowLanes : z.got[n] = Mixed(Home(n), g, None, None, W)
    BY <1>2, <1>4, HeldTimes
  <2> QED BY <1>6, <2>1, <2>2, <2>4, <2>5, NoneIs DEF Bad
<1>7. CASE ~Mispaired(x, y)
  <2>1. ASSUME NEW k \in Hidden PROVE W[k] = 0 \/ k \div G = g
    <3>1. CASE Summing(x, 1, k) = {}
      BY <1>1, <3>1 DEF Counts
    <3>2. CASE Summing(x, 1, k) # {}
      <4>1. PICK i \in Summing(x, 1, k) : i \in DOMAIN x.sums
        BY <3>2 DEF Summing
      <4> QED BY <1>5, <1>7, <4>1, ScaleFits
    <3> QED BY <3>1, <3>2
  <2>2. \A n \in RowLanes : \A h \in Groups : Held(Home(n), g, 0, W) * As[<<Home(n), g>>] = Held(Home(n), h, 1, W)
    BY <1>2, <2>1, HeldTimes
  <2>3. \A h \in Groups, n \in RowLanes : z.got[n] = Held(Home(n), h, z.applied, W)
    BY <1>4, <2>2
  <2>4. Counts(z, W)
    BY <1>1 DEF Counts, Summing, Tally
  <2> QED BY <1>7, <2>3, <2>4 DEF Good
<1> QED BY <1>6, <1>7

-----------------------------------------------------------------------------
(* Adding a row to a sum.                                                      *)
LEMMA PlainPlus ==
    ASSUME NEW x, PlainSum(x), NEW y, PlainRow(y), NEW z, z = Plus(x, y)
    PROVE  /\ ~Mispaired(x, y) /\ PlainSum(z) /\ z.sums = x.sums \o y.sums /\ z.applied = x.applied
           /\ \A n \in RowLanes : z.got[n] = x.got[n] + y.got[n]
<1>1. PlainSum(y)
  BY DEF PlainRow
<1>2. /\ x \in Values("row", {"token"}) /\ x.coords \in [{"token"} -> [at : [RowLanes -> Int], group : {1}]]
      /\ x.sums \in Seq(Ranges) /\ x.factors \in 0..MaxFactors /\ x.zeroed \in BOOLEAN /\ x.got \in [RowLanes -> Int]
      /\ x.form = "row" /\ x.valid = RowLanes /\ x.extras = FALSE /\ x.applied \in Nat /\ x.applied <= 1
  BY Sizes DEF PlainSum, Values, Places
<1>3. /\ y.coords \in [{"token"} -> [at : [RowLanes -> Int], group : {1}]]
      /\ y.sums \in Seq(Ranges) /\ y.factors \in 0..MaxFactors /\ y.zeroed \in BOOLEAN /\ y.got \in [RowLanes -> Int]
      /\ y.form = "row" /\ y.valid = RowLanes /\ y.extras = FALSE
  BY <1>1, Sizes DEF PlainSum, Values, Places
<1>4. DOMAIN x.coords = {"token"} /\ DOMAIN y.coords = {"token"} /\ ~MeetsSum(x, y) /\ ~MeetsSum(y, x)
      /\ x.coords["token"].group = 1 /\ y.coords["token"].group = 1
  BY <1>2, <1>3 DEF MeetsSum, IsSum
<1>5. ~Mispaired(x, y)
  <2>1. ASSUME NEW n \in RowLanes PROVE ~Disagree(x.coords["token"], y.coords["token"], n)
    <3>1. PICK t \in Nat : t = Home(n)
      BY HomeIs, Sizes
    <3>2. x.coords["token"].at[n] = t /\ y.coords["token"].at[n] = t
      BY <1>1, <3>1 DEF PlainSum, AtRow
    <3> QED BY <1>4, <3>2, DivideOne, Agreeing
  <2> QED BY <1>2, <1>3, <1>4, <2>1 DEF Mispaired
<1>6. Paired(x, y) = x.coords
  <2>1. (DOMAIN x.coords \cup DOMAIN y.coords) \ {} = {"token"}
    BY <1>4
  <2>2. Paired(x, y) = [a \in {"token"} |-> x.coords[a]]
    BY <1>4, <2>1 DEF Paired
  <2> QED BY <1>2, <2>2
<1> DEFINE most == IF y.factors > x.factors THEN y.factors ELSE x.factors
<1>7. most \in 0..MaxFactors
  BY <1>2, <1>3
<1>8. /\ z.form = "row" /\ z.coords = x.coords /\ z.valid = RowLanes /\ z.sums = x.sums \o y.sums
      /\ z.extras = FALSE /\ z.factors = most /\ z.applied = x.applied
      /\ z.got = [n \in RowLanes |-> x.got[n] + y.got[n]]
  BY <1>2, <1>3, <1>6 DEF Plus, Values
<1>9. z \in Values("row", {"token"})
  <2>1. [n \in RowLanes |-> x.got[n] + y.got[n]] \in [RowLanes -> Int]
    BY <1>2, <1>3
  <2>2. x.sums \o y.sums \in Seq(Ranges)
    BY <1>2, <1>3
  <2> HIDE DEF most
  <2>3. x.valid \cup y.valid = RowLanes /\ (x.extras \/ y.extras) \in BOOLEAN /\ (x.zeroed /\ y.zeroed) \in BOOLEAN
    BY <1>2, <1>3
  <2> QED BY <1>2, <1>3, <1>6, <1>7, <2>1, <2>2, <2>3, Sizes DEF Plus, Values, most
<1> HIDE DEF most
<1>10. ASSUME NEW i \in DOMAIN z.sums PROVE OneRange(z.sums[i])
  <2>1. PICK a \in Seq(Ranges), b \in Seq(Ranges) : a = x.sums /\ b = y.sums
    BY <1>2, <1>3
  <2>2. \A j \in DOMAIN a : OneRange(a[j])
    BY <2>1 DEF PlainSum
  <2>3. \A j \in DOMAIN b : OneRange(b[j])
    BY <1>1, <2>1 DEF PlainSum
  <2>4. PICK la \in Nat, lb \in Nat : la = Len(a) /\ lb = Len(b) /\ DOMAIN a = 1..la /\ DOMAIN b = 1..lb
    OBVIOUS
  <2>5. i \in 1..la + lb
    <3>1. a \o b \in Seq(Ranges) /\ Len(a \o b) = Len(a) + Len(b)
      BY ConcatProperties
    <3>2. Len(a \o b) = la + lb /\ DOMAIN (a \o b) = 1..Len(a \o b)
      BY <2>4, <3>1
    <3>3. i \in DOMAIN (a \o b)
      BY <1>8, <2>1
    <3> QED BY <3>2, <3>3
  <2>6. CASE i <= la
    <3>1. (a \o b)[i] = a[i] /\ i \in 1..la
      BY <2>4, <2>5, <2>6, ConcatProperties
    <3> QED BY <1>8, <2>1, <2>2, <2>4, <3>1
  <2>7. CASE ~(i <= la)
    <3>1. (a \o b)[i] = b[i - la] /\ i - la \in 1..lb
      BY <2>4, <2>5, <2>7, ConcatProperties
    <3> QED BY <1>8, <2>1, <2>3, <2>4, <3>1
  <2> QED BY <2>6, <2>7
<1>11. PlainSum(z)
  BY <1>2, <1>8, <1>9, <1>10 DEF PlainSum, AtRow
<1> QED BY <1>5, <1>8, <1>11

LEMMA TallyPlus ==
    ASSUME NEW x, PlainSum(x), NEW y, PlainRow(y), NEW z, z.sums = x.sums \o y.sums, NEW k
    PROVE  /\ Tally(z, k) = Tally(x, k) + Tally(y, k) /\ Tally(x, k) \in Nat /\ Tally(y, k) \in Nat
           /\ Summing(z, 1, k) = {} => Summing(x, 1, k) = {} /\ Summing(y, 1, k) = {}
<1> DEFINE X == Summing(x, 1, k)  Y == Summing(y, 1, k)  Z == Summing(z, 1, k)
<1>1. x.sums \in Seq(Ranges) /\ y.sums \in Seq(Ranges) /\ Len(y.sums) = 1
  BY DEF PlainRow, PlainSum, Values
<1>2. PICK m \in Nat : m = Len(x.sums) /\ DOMAIN x.sums = 1..m
  BY <1>1
<1>3. \A i : i \in Z <=> i \in X \/ (i - m \in Y /\ i \in Nat)
  BY <1>1, <1>2, SummingBoth
<1>4. IsFiniteSet(X) /\ X \subseteq 1..m /\ Cardinality(X) \in Nat
  BY <1>1, <1>2, SummingIs
<1>5. Y = {} \/ Y = {1}
  <2>1. DOMAIN y.sums = {1}
    BY <1>1
  <2>2. Y \subseteq DOMAIN y.sums
    BY DEF Summing
  <2> QED BY <2>1, <2>2
<1> HIDE DEF X, Y, Z
<1>6. CASE Y = {}
  <2>1. Z = X
    BY <1>3, <1>6
  <2>2. Cardinality(Y) = 0
    BY <1>6, FS_EmptySet
  <2>3. PICK c \in Nat : c = Cardinality(X)
    BY <1>4
  <2>4. Cardinality(Z) = c
    BY <2>1, <2>3
  <2>5. c = c + 0
    OBVIOUS
  <2> QED BY <1>6, <2>1, <2>2, <2>3, <2>4, <2>5 DEF Tally, X, Y, Z
<1>7. CASE Y = {1}
  <2>1. Z = X \cup {m + 1}
    <3>1. \A i : (i - m \in Y /\ i \in Nat) <=> i = m + 1
      <4>1. \A i \in Nat : i - m = 1 <=> i = m + 1
        OBVIOUS
      <4> QED BY <1>7, <4>1
    <3> QED BY <1>3, <3>1
  <2>2. m + 1 \notin X
    BY <1>4
  <2>3. Cardinality(Z) = Cardinality(X) + 1
    BY <1>4, <2>1, <2>2, FS_AddElement
  <2>4. Cardinality(Y) = 1
    BY <1>7, FS_Singleton
  <2>5. PICK c \in Nat : c = Cardinality(X)
    BY <1>4
  <2>6. Tally(x, k) = c /\ Tally(y, k) = 1 /\ Tally(z, k) = c + 1
    BY <2>3, <2>4, <2>5 DEF Tally, X, Y, Z
  <2>7. Summing(z, 1, k) # {}
    BY <2>1 DEF Z
  <2> QED BY <2>6, <2>7
<1> QED BY <1>5, <1>6, <1>7

LEMMA CountsPlus ==
    ASSUME Larger, NEW x, PlainSum(x), NEW y, PlainRow(y), NEW z, z.sums = x.sums \o y.sums,
           NEW U \in Weights, NEW V \in Weights, Counts(x, U), Counts(y, V)
    PROVE  Counts(z, Both(U, V))
<1>1. ASSUME NEW k \in Hidden
      PROVE  /\ Both(U, V)[k] \in Nat /\ (Summing(z, 1, k) = {} => Both(U, V)[k] = 0)
             /\ \E q \in Nat : Both(U, V)[k] = Tally(z, k) + (B[k] - 1) * q
  <2>1. U[k] \in Nat /\ V[k] \in Nat /\ (Summing(x, 1, k) = {} => U[k] = 0) /\ (Summing(y, 1, k) = {} => V[k] = 0)
    BY DEF Counts
  <2>2. Both(U, V)[k] = U[k] + V[k]
    BY DEF Both
  <2>3. /\ Tally(z, k) = Tally(x, k) + Tally(y, k) /\ Tally(x, k) \in Nat /\ Tally(y, k) \in Nat
        /\ Summing(z, 1, k) = {} => Summing(x, 1, k) = {} /\ Summing(y, 1, k) = {}
    BY TallyPlus
  <2>4. PICK p \in Nat : U[k] = Tally(x, k) + (B[k] - 1) * p
    BY DEF Counts
  <2>5. PICK q \in Nat : V[k] = Tally(y, k) + (B[k] - 1) * q
    BY DEF Counts
  <2>6. PICK b \in Nat : b = B[k]
    BY DEF Larger
  <2>7. (b - 1) * (p + q) = (b - 1) * p + (b - 1) * q /\ (b - 1) * p \in Int /\ (b - 1) * q \in Int
    OBVIOUS
  <2>8. p + q \in Nat /\ Both(U, V)[k] = Tally(z, k) + (B[k] - 1) * (p + q)
    BY <2>2, <2>3, <2>4, <2>5, <2>6, <2>7
  <2> QED BY <2>1, <2>2, <2>3, <2>8
<1> QED BY <1>1 DEF Counts

LEMMA GoodPlus ==
    ASSUME Larger, NEW x, PlainSum(x), Good(x), NEW y, PlainRow(y), x.applied = y.applied, NEW z, z.sums = x.sums \o y.sums,
           z.applied = x.applied, \A n \in RowLanes : z.got[n] = x.got[n] + y.got[n]
    PROVE  Good(z)
<1>1. PICK U \in Weights :
          Counts(x, U) /\ \A g \in Groups, n \in RowLanes : x.got[n] = Held(Home(n), g, x.applied, U)
  BY DEF Good
<1>2. PICK V \in Weights :
          Counts(y, V) /\ \A g \in Groups, n \in RowLanes : y.got[n] = Held(Home(n), g, y.applied, V)
  BY RowIsGood DEF Good
<1>3. Counts(z, Both(U, V)) /\ Both(U, V) \in Weights
  BY <1>1, <1>2, CountsPlus, NoneIs
<1>4. None \in Weights /\ Both(None, None) = None
  BY NoneIs DEF Both, None
<1>5. ASSUME NEW g \in Groups, NEW n \in RowLanes PROVE z.got[n] = Held(Home(n), g, z.applied, Both(U, V))
  <2>1. PICK t \in Tokens : t = Home(n)
    BY HomeIs, Sizes
  <2>2. /\ Mixed(t, g, Both(U, V), Both(None, None), Both(None, None)) = Mixed(t, g, U, None, None) + Mixed(t, g, V, None, None)
        /\ Mixed(t, g, Both(None, None), Both(U, V), Both(None, None)) = Mixed(t, g, None, U, None) + Mixed(t, g, None, V, None)
    BY <1>4, MixedAdds
  <2>3. Held(t, g, x.applied, Both(U, V)) = Held(t, g, x.applied, U) + Held(t, g, x.applied, V)
    BY <1>4, <2>2 DEF Held
  <2> QED BY <1>1, <1>2, <2>1, <2>3
<1> QED BY <1>3, <1>5 DEF Good

LEMMA BadPlus ==
    ASSUME Larger, NEW x, PlainSum(x), Bad(x), NEW y, PlainRow(y), NEW z,
           z.applied = x.applied, \A n \in RowLanes : z.got[n] = x.got[n] + y.got[n]
    PROVE  Bad(z)
<1>1. PICK g \in Groups, U \in Weights, V \in Weights, W \in Weights :
          /\ \A n \in RowLanes : x.got[n] = Mixed(Home(n), g, U, V, W)
          /\ \E k \in Hidden : k \div G # g /\ W[k] # 0
  BY DEF Bad
<1>2. PICK X \in Weights : \A h \in Groups, n \in RowLanes : y.got[n] = Held(Home(n), h, y.applied, X)
  BY RowIsGood DEF Good
<1>3. None \in Weights /\ Both(W, None) \in Weights /\ \A k \in Hidden : Both(W, None)[k] = W[k]
  <2>1. None \in Weights
    BY NoneIs
  <2>2. ASSUME NEW k \in Hidden PROVE Both(W, None)[k] = W[k]
    <3>1. W[k] \in Int
      BY DEF Weights
    <3> QED BY <3>1 DEF Both, None
  <2> QED BY <2>1, <2>2, NoneIs
<1> DEFINE Y == IF y.applied = 0 THEN X ELSE None
           Z == IF y.applied = 0 THEN None ELSE X
<1>4. Y \in Weights /\ Z \in Weights /\ \A t \in Tokens : Held(t, g, y.applied, X) = Mixed(t, g, Y, Z, None)
  BY <1>3 DEF Held
<1> HIDE DEF Y, Z
<1>5. ASSUME NEW n \in RowLanes PROVE z.got[n] = Mixed(Home(n), g, Both(U, Y), Both(V, Z), Both(W, None))
  <2>1. PICK t \in Tokens : t = Home(n)
    BY HomeIs, Sizes
  <2>2. Mixed(t, g, Both(U, Y), Both(V, Z), Both(W, None)) = Mixed(t, g, U, V, W) + Mixed(t, g, Y, Z, None)
    <3>1. t \in Tokens /\ g \in Groups /\ U \in Weights /\ V \in Weights /\ W \in Weights
          /\ Y \in Weights /\ Z \in Weights /\ None \in Weights
      BY <1>3, <1>4
    <3> QED BY <3>1, MixedAdds
  <2>3. x.got[n] = Mixed(t, g, U, V, W)
    BY <1>1, <2>1
  <2>4. y.got[n] = Mixed(t, g, Y, Z, None)
    BY <1>2, <1>4, <2>1
  <2> QED BY <2>1, <2>2, <2>3, <2>4
<1>6. Both(U, Y) \in Weights /\ Both(V, Z) \in Weights
  BY <1>4, NoneIs
<1>7. \E k \in Hidden : k \div G # g /\ Both(W, None)[k] # 0
  BY <1>1, <1>3
<1> QED BY <1>3, <1>5, <1>6, <1>7 DEF Bad

-----------------------------------------------------------------------------
(* What an output's meaning says of its weights, and what equal outputs say of  *)
(* the weights they were computed with.                                        *)
Means(o) ==
    \E times \in [Hidden -> 0..MaxFactors] :
        \A t \in Tokens : o[t] = SumTo([k \in Hidden |-> Term(t, k, times[k])], K)

LEMMA MeansWeights ==
    ASSUME Larger, NEW o, Means(o)
    PROVE  \E V \in Weights :
              /\ \A k \in Hidden : V[k] >= 1 /\ \E q \in Nat : V[k] = 1 + (B[k] - 1) * q
              /\ \A t \in Tokens, g \in Groups : o[t] = Mixed(t, g, None, V, None)
<1>1. PICK times \in [Hidden -> 0..MaxFactors] :
          \A t \in Tokens : o[t] = SumTo([k \in Hidden |-> Term(t, k, times[k])], K)
  BY DEF Means
<1> DEFINE V == [k \in Hidden |-> Power(B[k], times[k])]
<1>2. ASSUME NEW k \in Hidden PROVE V[k] \in Int /\ V[k] >= 1 /\ \E q \in Nat : V[k] = 1 + (B[k] - 1) * q
  <2>1. PICK b \in Nat, e \in Nat : b = B[k] /\ e = times[k] /\ b >= 1
    BY <1>1, BoundAssumption DEF Larger
  <2>2. Power(b, e) >= 1 /\ \E q \in Nat : Power(b, e) = 1 + (b - 1) * q
    BY <2>1, PowerRest
  <2>3. PICK q \in Nat : Power(b, e) = 1 + (b - 1) * q
    BY <2>2
  <2>4. (b - 1) * q \in Int
    BY <2>1
  <2>5. V[k] = Power(b, e)
    BY <2>1
  <2> QED BY <2>1, <2>2, <2>3, <2>4, <2>5
<1>3. V \in Weights
  BY <1>2 DEF Weights
<1>4. ASSUME NEW t \in Tokens, NEW g \in Groups PROVE o[t] = Mixed(t, g, None, V, None)
  <2>1. \A k \in Hidden : A[<<t, k>>] * Scaled(t, k, 1) * V[k] = Term(t, k, times[k])
    BY DEF Scaled, Term
  <2>2. [k \in Hidden |-> A[<<t, k>>] * Scaled(t, k, 1) * V[k]] = [k \in Hidden |-> Term(t, k, times[k])]
    BY <2>1
  <2> HIDE DEF V
  <2>3. SumTo([k \in Hidden |-> A[<<t, k>>] * Scaled(t, k, 1) * V[k]], K) = Held(t, g, 1, V)
    <3>1. 1 \in {0, 1}
      OBVIOUS
    <3> QED BY <1>3, <3>1, HeldIs
  <2>4. Held(t, g, 1, V) = Mixed(t, g, None, V, None)
    BY DEF Held
  <2> QED BY <1>1, <2>2, <2>3, <2>4
<1> HIDE DEF V
<1> QED BY <1>2, <1>3, <1>4

LEMMA Told ==
    ASSUME Unlike, NEW g \in Groups, NEW U \in Weights, NEW V \in Weights, NEW W \in Weights,
           NEW X \in Weights, NEW Y \in Weights, NEW Z \in Weights,
           \A t \in Tokens : Mixed(t, g, U, V, W) = Mixed(t, g, X, Y, Z)
    PROVE  \A k \in Hidden : /\ U[k] = X[k]
                             /\ k \div G = g => V[k] + W[k] = Y[k] + Z[k]
                             /\ k \div G # g => V[k] = Y[k] /\ W[k] = Z[k]
<1> DEFINE Less(a, b) == [k \in Hidden |-> a[k] - b[k]]
           u == Less(U, X)
           v == Less(V, Y)
           w == Less(W, Z)
<1>1. ASSUME NEW a \in Weights, NEW b \in Weights
      PROVE  Less(a, b) \in Weights /\ Both(b, Less(a, b)) = a /\ \A k \in Hidden : Less(a, b)[k] = a[k] - b[k]
  <2>1. \A k \in Hidden : a[k] \in Int /\ b[k] \in Int
    BY DEF Weights
  <2>2. Less(a, b) \in Weights /\ \A k \in Hidden : Less(a, b)[k] = a[k] - b[k]
    BY <2>1 DEF Weights
  <2>3. \A k \in Hidden : b[k] + Less(a, b)[k] = a[k]
    BY <2>1
  <2>4. a = [k \in Hidden |-> a[k]]
    BY DEF Weights
  <2>5. Both(b, Less(a, b)) = [k \in Hidden |-> b[k] + Less(a, b)[k]]
    BY DEF Both
  <2> HIDE DEF Less
  <2>6. Both(b, Less(a, b)) = [k \in Hidden |-> a[k]]
    BY <2>3, <2>5
  <2> QED BY <2>2, <2>4, <2>6
<1> HIDE DEF Less
<1>2. /\ u \in Weights /\ Both(X, u) = U /\ \A k \in Hidden : u[k] = U[k] - X[k]
      /\ v \in Weights /\ Both(Y, v) = V /\ \A k \in Hidden : v[k] = V[k] - Y[k]
      /\ w \in Weights /\ Both(Z, w) = W /\ \A k \in Hidden : w[k] = W[k] - Z[k]
  BY <1>1
<1> HIDE DEF u, v, w
<1>3. ASSUME NEW t \in Tokens PROVE Mixed(t, g, u, v, w) = 0
  <2>1. /\ Mixed(t, g, Both(X, u), Both(Y, v), Both(Z, w)) = Mixed(t, g, X, Y, Z) + Mixed(t, g, u, v, w)
        /\ Mixed(t, g, X, Y, Z) \in Int
    <3>1. /\ t \in Tokens /\ g \in Groups /\ X \in Weights /\ Y \in Weights /\ Z \in Weights
          /\ u \in Weights /\ v \in Weights /\ w \in Weights
      BY <1>2
    <3> QED BY <3>1, MixedAdds, SMTT(60)
  <2>2. Mixed(t, g, u, v, w) \in Int
    BY <1>2, MixedAdds
  <2>3. PICK a \in Int, b \in Int : a = Mixed(t, g, X, Y, Z) /\ b = Mixed(t, g, u, v, w)
    BY <2>1, <2>2
  <2>4. a + b = a
    BY <1>2, <2>1, <2>3
  <2> QED BY <2>3, <2>4
<1>4. \A k \in Hidden : /\ u[k] = 0 /\ v[k] + (IF k \div G = g THEN w[k] ELSE 0) = 0
                        /\ (k \div G # g => w[k] = 0)
  <2>1. \A a, b, c \in [Hidden -> Int] :
          (\A t \in Tokens : Mixed(t, g, a, b, c) = 0) =>
              \A k \in Hidden : a[k] = 0 /\ b[k] + (IF k \div G = g THEN c[k] ELSE 0) = 0
                                /\ (k \div G # g => c[k] = 0)
    BY DEF Unlike
  <2>2. u \in [Hidden -> Int] /\ v \in [Hidden -> Int] /\ w \in [Hidden -> Int]
    BY <1>2 DEF Weights
  <2> QED BY <1>3, <2>1, <2>2
<1>5. ASSUME NEW k \in Hidden
      PROVE  /\ U[k] = X[k]
             /\ k \div G = g => V[k] + W[k] = Y[k] + Z[k]
             /\ k \div G # g => V[k] = Y[k] /\ W[k] = Z[k]
  <2>1. PICK a \in Int, b \in Int, c \in Int, d \in Int, e \in Int, f \in Int :
            a = U[k] /\ b = V[k] /\ c = W[k] /\ d = X[k] /\ e = Y[k] /\ f = Z[k]
    BY DEF Weights
  <2>2. u[k] = a - d /\ v[k] = b - e /\ w[k] = c - f
    BY <1>2, <2>1
  <2>3. a - d = 0 /\ (k \div G = g => (b - e) + (c - f) = 0) /\ (k \div G # g => (b - e) + 0 = 0 /\ c - f = 0)
    BY <1>4, <2>2
  <2>4. U[k] = X[k]
    <3>1. a - d = 0
      BY <2>3
    <3>2. a = d
      BY <3>1
    <3> QED BY <2>1, <3>2
  <2>5. CASE k \div G = g
    <3>1. b + c = e + f
      BY <2>3, <2>5
    <3> QED BY <2>1, <2>4, <2>5, <3>1
  <2>6. CASE k \div G # g
    <3>1. b = e /\ c = f
      BY <2>3, <2>6
    <3> QED BY <2>1, <2>4, <2>6, <3>1
  <2> QED BY <2>5, <2>6
<1> QED BY <1>5

-----------------------------------------------------------------------------
(* A stored sum that no rule had failed passes the store's own rules if it is   *)
(* the output's meaning; one that a rule had failed is not.                     *)
LEMMA GoodMeant ==
    ASSUME Unlike, NEW x, PlainSum(x), Len(x.sums) <= MaxOps, Good(x),
           NEW o, \A n \in RowLanes : o[Home(n)] = x.got[n], Means(o)
    PROVE  x.applied = 1 /\ \A p \in Programs : Covers(x.sums, p)
<1>1. Larger
  BY LargerIs
<1>2. PICK V \in Weights :
          /\ \A k \in Hidden : V[k] >= 1 /\ \E q \in Nat : V[k] = 1 + (B[k] - 1) * q
          /\ \A t \in Tokens, g \in Groups : o[t] = Mixed(t, g, None, V, None)
  BY <1>1, MeansWeights
<1>3. PICK W \in Weights :
          Counts(x, W) /\ \A g \in Groups, n \in RowLanes : x.got[n] = Held(Home(n), g, x.applied, W)
  BY DEF Good
<1>4. PICK g \in Groups : g = 0 \div G
  BY Sizes, Elements
<1>5. \A t \in Tokens : Held(t, g, x.applied, W) = Mixed(t, g, None, V, None)
  <2>1. SUFFICES ASSUME NEW t \in Tokens PROVE Held(t, g, x.applied, W) = Mixed(t, g, None, V, None)
    OBVIOUS
  <2>2. PICK n \in RowLanes : Home(n) = t
    BY HomeOf
  <2> QED BY <1>2, <1>3, <2>2
<1>6. None \in Weights /\ \A k \in Hidden : None[k] = 0
  BY NoneIs DEF None
<1>7. x.applied = 1
  <2>1. x.applied \in {0, 1}
    <3>1. x.applied \in Nat /\ x.applied <= 1
      BY DEF PlainSum, Values
    <3> QED BY <3>1
  <2>2. SUFFICES ASSUME x.applied = 0 PROVE FALSE
    BY <2>1
  <2>3. \A t \in Tokens : Mixed(t, g, W, None, None) = Mixed(t, g, None, V, None)
    BY <1>5, <2>2 DEF Held
  <2>4. \A k \in Hidden : /\ W[k] = None[k]
                          /\ k \div G = g => None[k] + None[k] = V[k] + None[k]
                          /\ k \div G # g => None[k] = V[k] /\ None[k] = None[k]
    BY <1>6, <2>3, Told
  <2>5. 0 \in Hidden /\ 0 \div G = g
    BY <1>4, Sizes
  <2>6. 0 + 0 = V[0] + 0
    BY <1>6, <2>4, <2>5
  <2>7. V[0] \in Int /\ V[0] >= 1
    BY <1>2, <2>5 DEF Weights
  <2> QED BY <2>6, <2>7
<1>8. \A k \in Hidden : W[k] = V[k]
  <2>1. \A t \in Tokens : Mixed(t, g, None, W, None) = Mixed(t, g, None, V, None)
    BY <1>5, <1>7 DEF Held
  <2>2. \A k \in Hidden : /\ None[k] = None[k]
                          /\ k \div G = g => W[k] + None[k] = V[k] + None[k]
                          /\ k \div G # g => W[k] = V[k] /\ None[k] = None[k]
    BY <1>6, <2>1, Told
  <2>3. \A k \in Hidden : W[k] \in Int /\ V[k] \in Int
    BY DEF Weights
  <2> QED BY <1>6, <2>2, <2>3
<1>9. x.sums \in Seq(Ranges)
  BY DEF PlainSum, Values
<1>10. ASSUME NEW k \in Hidden PROVE Tally(x, k) = 1
  <2>1. PICK m \in Nat : m = Tally(x, k) /\ m <= MaxOps
    <3>1. Tally(x, k) \in Nat /\ Tally(x, k) <= Len(x.sums)
      BY <1>9, SummingIs DEF Tally
    <3>2. Len(x.sums) \in Nat /\ MaxOps \in Nat
      BY <1>9, BoundAssumption
    <3> QED BY <3>1, <3>2
  <2>2. PICK b \in Nat : b = B[k] /\ m + 2 < b
    BY <1>1, <2>1, BoundAssumption DEF Larger
  <2>3. PICK q \in Nat : W[k] = m + (b - 1) * q
    BY <1>3, <2>1, <2>2 DEF Counts
  <2>4. PICK r \in Nat : V[k] = 1 + (b - 1) * r
    BY <1>2, <2>2
  <2>5. m + (b - 1) * q = 1 + (b - 1) * r
    BY <1>8, <2>3, <2>4
  <2>6. q \in Int /\ r \in Int
    OBVIOUS
  <2>7. m = 1
    BY <2>2, <2>5, <2>6, OnePower
  <2> QED BY <2>1, <2>7
<1>11. ASSUME NEW p \in Programs, NEW k \in Hidden PROVE Cardinality(Summing(x, p, k)) = 1
  <2>1. 1 \in Programs
    BY Sizes DEF Programs
  <2>2. \A i \in DOMAIN x.sums : x.sums[i][p] = x.sums[i][1]
    BY <2>1 DEF PlainSum, OneRange
  <2>3. Summing(x, p, k) = Summing(x, 1, k)
    BY <2>2 DEF Summing
  <2> QED BY <1>10, <2>3 DEF Tally
<1>12. \A p \in Programs : Covers(x.sums, p)
  BY <1>11 DEF Covers, Summing
<1> QED BY <1>7, <1>12

LEMMA BadNotMeant ==
    ASSUME Unlike, NEW x, Bad(x), NEW o, \A n \in RowLanes : o[Home(n)] = x.got[n]
    PROVE  ~Means(o)
<1> SUFFICES ASSUME Means(o) PROVE FALSE
  OBVIOUS
<1>1. Larger
  BY LargerIs
<1>2. PICK V \in Weights :
          /\ \A k \in Hidden : V[k] >= 1 /\ \E q \in Nat : V[k] = 1 + (B[k] - 1) * q
          /\ \A t \in Tokens, g \in Groups : o[t] = Mixed(t, g, None, V, None)
  BY <1>1, MeansWeights
<1>3. PICK g \in Groups, X \in Weights, Y \in Weights, Z \in Weights :
          /\ \A n \in RowLanes : x.got[n] = Mixed(Home(n), g, X, Y, Z)
          /\ \E k \in Hidden : k \div G # g /\ Z[k] # 0
  BY DEF Bad
<1>4. \A t \in Tokens : Mixed(t, g, X, Y, Z) = Mixed(t, g, None, V, None)
  <2>1. SUFFICES ASSUME NEW t \in Tokens PROVE Mixed(t, g, X, Y, Z) = Mixed(t, g, None, V, None)
    OBVIOUS
  <2>2. PICK n \in RowLanes : Home(n) = t
    BY HomeOf
  <2> QED BY <1>2, <1>3, <2>2
<1>5. None \in Weights /\ \A k \in Hidden : None[k] = 0
  BY NoneIs DEF None
<1>6. \A k \in Hidden : /\ X[k] = None[k]
                        /\ k \div G = g => Y[k] + Z[k] = V[k] + None[k]
                        /\ k \div G # g => Y[k] = V[k] /\ Z[k] = None[k]
  <2>1. /\ g \in Groups /\ X \in Weights /\ Y \in Weights /\ Z \in Weights /\ None \in Weights /\ V \in Weights
        /\ \A t \in Tokens : Mixed(t, g, X, Y, Z) = Mixed(t, g, None, V, None)
    BY <1>4, <1>5
  <2> QED BY <2>1, Told, SMTT(60)
<1> QED BY <1>3, <1>5, <1>6

-----------------------------------------------------------------------------
(* The inductive invariant of a kernel without an odd choice. What is computed  *)
(* is plain; the accumulator's weights are right until it is multiplied by a    *)
(* scale that is not its own, and cannot be right after; it has no more summands *)
(* than the kernel has operations. A verdict of violation is only carried into  *)
(* the output, or raised at the store, where the output is not the meaning.     *)
Summands == IF acc = Zero THEN 0 ELSE Len(acc.sums)
Building ==
    /\ tile = Nothing \/ PlainTile(tile)
    /\ row = Nothing \/ PlainRow(row)
    /\ \/ verdict = "open" /\ (acc = Zero \/ (PlainSum(acc) /\ Good(acc)))
       \/ verdict = "violation" /\ acc # Zero /\ PlainSum(acc) /\ Bad(acc)
    /\ Summands + One(row # Nothing) + One(tile # Nothing) <= ops
Regular == odd = 0 /\ Standard /\ ops \in Nat /\ ops <= MaxOps
NInv ==
    /\ Regular
    /\ launched => stores # <<>>
    /\ stores = <<>> /\ verdict # "unproven" => Building
    /\ stores # <<>> => (verdict = "violation" => ~Meant) /\ \A t \in Tokens : StoresOf(t) # {}

LEMMA NoneBroken ==
    ASSUME NEW checks, Decide(checks), \A i \in DOMAIN checks : ~checks[i].breaks
    PROVE  verdict' = verdict
<1> DEFINE broken == {i \in DOMAIN checks : checks[i].breaks}
<1>1. broken = {}
  OBVIOUS
<1>2. verdict' = IF verdict # "open" \/ broken = {} THEN verdict ELSE checks[Min(broken)].says
  BY DEF Decide
<1> QED BY <1>1, <1>2

LEMMA Others == \A k, l, x : Elsewhere(k, l) \in Nat /\ Again(x, l) \in Nat
BY Ones DEF Elsewhere, Again

(* A step that computes.                                                       *)
LEMMA StepIs ==
    ASSUME Straight, NInv, stores = <<>>, NEW o \in Nat, Step(o)
    PROVE  /\ o = 0 /\ Building /\ Standard /\ ~launched /\ ops \in Nat
           /\ odd' = 0 /\ ops' = ops + 1 /\ ops' \in Nat /\ ops' <= MaxOps
<1>1. odd = 0 /\ ops \in Nat /\ Standard
  BY DEF NInv, Regular
<1>2. o = 0 /\ odd' = 0 /\ ops' = ops + 1 /\ ops < MaxOps /\ ~launched /\ verdict # "unproven"
  BY <1>1, OddFree
<1>3. Building
  BY <1>2 DEF NInv
<1>4. ops + 1 \in Nat /\ ops + 1 <= MaxOps
  BY <1>1, <1>2, BoundAssumption
<1> QED BY <1>1, <1>2, <1>3, <1>4

LEMMA BuildKeeps ==
    ASSUME Straight, NInv, stores = <<>>, NEW o \in Nat, Step(o), rowAt' = rowAt, stores' = stores, launched' = launched,
           verdict' # "unproven" => Building'
    PROVE  NInv'
<1>1. /\ Standard /\ ~launched /\ odd' = 0 /\ ops' \in Nat /\ ops' <= MaxOps
  BY StepIs
<1>2. Regular'
  BY <1>1 DEF Regular, Standard
<1> QED BY <1>1, <1>2 DEF NInv

LEMMA SummandsAre ==
    ASSUME Building
    PROVE  /\ Summands \in Nat /\ (acc # Zero => PlainSum(acc) /\ Summands = Len(acc.sums))
           /\ One(row # Nothing) \in {0, 1} /\ One(tile # Nothing) \in {0, 1}
<1>1. acc # Zero => PlainSum(acc)
  BY DEF Building
<1>2. acc # Zero => acc.sums \in Seq(Ranges)
  BY <1>1 DEF PlainSum, Values
<1>3. acc # Zero => Len(acc.sums) \in Nat
  BY <1>2
<1> QED BY <1>1, <1>3, Ones DEF Summands

LEMMA PlainForms ==
    /\ \A x : PlainTile(x) => x.form = "tile" /\ x # Nothing
    /\ \A x : PlainSum(x) => x.form = "row" /\ x # Zero /\ x # Nothing
<1>1. \A x : PlainTile(x) => x.form = "tile"
  BY DEF PlainTile, TileRight, Values
<1>2. \A x : PlainSum(x) => x.form = "row"
  BY DEF PlainSum, Values
<1>3. Nothing.form = "none" /\ Zero.form = "zero"
  BY DEF Nothing, Zero
<1> QED BY <1>1, <1>2, <1>3

LEMMA InitRegular == ASSUME Straight, Init PROVE NInv
<1>1. PICK first \in {[p \in Programs |-> R * (p - 1)], [p \in Programs |-> 0]} :
          rowAt = first /\ odd = One(first[P] # R * (P - 1)) /\ odd <= MaxOdd
  BY DEF Init
<1>2. odd = 0
  BY <1>1, Ones DEF Straight
<1>3. first[P] = R * (P - 1)
  BY <1>1, <1>2 DEF One
<1>4. Standard
  <2>1. CASE first = [p \in Programs |-> R * (p - 1)]
    BY <1>1, <2>1 DEF Standard
  <2>2. CASE first = [p \in Programs |-> 0]
    <3>1. PICK a \in Nat \ {0}, b \in Nat \ {0} : a = P /\ b = R
      BY Sizes
    <3>2. P \in Programs
      BY <3>1 DEF Programs
    <3>3. b * (a - 1) = 0
      BY <1>3, <2>2, <3>1, <3>2
    <3>4. a = 1
      BY <3>3
    <3>5. \A p \in Programs : p = 1
      BY <3>1, <3>4 DEF Programs
    <3>6. b * (1 - 1) = 0
      OBVIOUS
    <3>7. \A p \in Programs : R * (p - 1) = 0
      BY <3>1, <3>5, <3>6
    <3>8. [p \in Programs |-> R * (p - 1)] = [p \in Programs |-> 0]
      BY <3>7
    <3> QED BY <1>1, <2>2, <3>8 DEF Standard
  <2> QED BY <1>1, <2>1, <2>2
<1>5. tile = Nothing /\ row = Nothing /\ acc = Zero /\ stores = <<>> /\ verdict = "open" /\ launched = FALSE /\ ops = 0
  BY DEF Init
<1>6. Building
  <2>1. Summands = 0 /\ One(row # Nothing) = 0 /\ One(tile # Nothing) = 0
    BY <1>5 DEF Summands, One
  <2> QED BY <1>5, <2>1 DEF Building
<1> QED BY <1>2, <1>4, <1>5, <1>6, BoundAssumption DEF NInv, Regular

LEMMA LoadTileStays ==
    ASSUME Straight, NInv, NEW l \in Windows("A"), LoadTile(l)
    PROVE  NInv'
<1>1. /\ tile = Nothing /\ stores = <<>> /\ Step(Oddities(l)) /\ tile' = Load(l, "tile")
      /\ Decide(<<InBounds(l, "tile")>>) /\ UNCHANGED <<rowAt, row, acc, stores, launched>>
  BY DEF LoadTile
<1>2. Oddities(l) \in Nat /\ (Oddities(l) = 0 => Plain(l))
  BY NotOdd
<1>3. Plain(l) /\ Building /\ Standard /\ ops' = ops + 1 /\ ops \in Nat
  BY <1>1, <1>2, StepIs
<1>4. PlainTile(tile')
  BY <1>1, <1>3, LoadPlainTile
<1>5. ~OutOfBounds(l, "tile")
  BY <1>3, LoadsAre, PlainInside
<1>6. verdict' = verdict
  <2> DEFINE checks == <<InBounds(l, "tile")>>
  <2>1. DOMAIN checks = {1} /\ checks[1].breaks = OutOfBounds(l, "tile")
    BY DEF InBounds, Check
  <2>2. Decide(checks)
    BY <1>1
  <2> HIDE DEF checks
  <2> QED BY <1>5, <2>1, <2>2, NoneBroken
<1>7. Building'
  <2>1. Summands' = Summands /\ One(row' # Nothing) = One(row # Nothing)
    BY <1>1 DEF Summands
  <2>2. One(tile' # Nothing) \in {0, 1} /\ One(tile # Nothing) = 0
    BY <1>1, Ones DEF One
  <2>3. Summands \in Nat /\ One(row # Nothing) \in {0, 1}
    BY <1>3, SummandsAre
  <2>4. Summands + One(row # Nothing) + One(tile # Nothing) <= ops
    BY <1>3 DEF Building
  <2>5. Summands' + One(row' # Nothing) + One(tile' # Nothing) <= ops'
    BY <1>3, <2>1, <2>2, <2>3, <2>4
  <2> QED BY <1>1, <1>3, <1>4, <1>6, <2>5 DEF Building
<1> QED BY <1>1, <1>2, <1>7, BuildKeeps

LEMMA FactorStays ==
    ASSUME NEW x, NEW l, Decide(FactorChecks(x, l)), ~NotItsScale(l.arg), ~OutOfBounds(l, x.form)
    PROVE  /\ ~Mispaired(x, Load(l, x.form)) => verdict' = verdict
           /\ Mispaired(x, Load(l, x.form)) /\ verdict = "open" => verdict' = "violation"
<1> DEFINE checks == FactorChecks(x, l)
<1>1. DOMAIN checks = 1..3 /\ 3 \in Nat
  BY DEF FactorChecks
<1>2. /\ checks[1].says = "violation" /\ checks[2].says = "violation" /\ checks[3].says = "violation"
      /\ checks[1].breaks = OutOfBounds(l, x.form)
      /\ checks[2].breaks = Mispaired(x, Load(l, x.form))
      /\ checks[3].breaks = NotItsScale(l.arg)
  BY DEF FactorChecks, InBounds, Check
<1> HIDE DEF checks
<1>3. Decide(checks)
  BY DEF checks
<1>4. CASE ~Mispaired(x, Load(l, x.form))
  <2>1. \A i \in 1..3 : ~checks[i].breaks
    <3>1. \A i \in 1..3 : i = 1 \/ i = 2 \/ i = 3
      OBVIOUS
    <3> QED BY <1>2, <1>4, <3>1
  <2> QED BY <1>1, <1>3, <1>4, <2>1, NoneBroken
<1>5. CASE Mispaired(x, Load(l, x.form)) /\ verdict = "open"
  <2> DEFINE broken == {i \in DOMAIN checks : checks[i].breaks}
  <2>1. broken = {2}
    <3>1. \A i \in 1..3 : i = 1 \/ i = 2 \/ i = 3
      OBVIOUS
    <3>2. checks[2].breaks /\ ~checks[1].breaks /\ ~checks[3].breaks /\ 2 \in 1..3
      BY <1>2, <1>5
    <3>3. \A i \in 1..3 : checks[i].breaks <=> i = 2
      BY <3>1, <3>2
    <3> QED BY <1>1, <3>2, <3>3
  <2>2. Min({2}) = 2
    BY DEF Min
  <2>3. verdict' = IF verdict # "open" \/ broken = {} THEN verdict ELSE checks[Min(broken)].says
    BY <1>3 DEF Decide
  <2> HIDE DEF broken
  <2> QED BY <1>2, <1>5, <2>1, <2>2, <2>3
<1> QED BY <1>4, <1>5

LEMMA MulTileStays ==
    ASSUME Straight, NInv, NEW l \in Windows("B") \cup ScaleReads(TRUE) \cup ScaleReads(FALSE), MulTile(l), stores = <<>>
    PROVE  NInv'
<1>1. /\ tile # Nothing /\ tile.factors < MaxFactors
      /\ Step(Oddities(l) + Elsewhere(TileK, l) + Again(tile, l))
      /\ tile' = Times(tile, Load(l, "tile"), l.arg)
      /\ Decide(FactorChecks(tile, l)) /\ UNCHANGED <<rowAt, row, acc, stores, launched>>
  BY DEF MulTile
<1>2. PICK a \in Nat, b \in Nat, c \in Nat : a = Oddities(l) /\ b = Elsewhere(TileK, l) /\ c = Again(tile, l)
  BY NotOdd, Others
<1>3. Step(a + b + c) /\ a + b + c \in Nat
  BY <1>1, <1>2
<1>4. a + b + c = 0 /\ Building /\ Standard /\ ops' = ops + 1 /\ ops \in Nat
  BY <1>3, StepIs
<1>5. a = 0 /\ b = 0 /\ c = 0
  BY <1>4
<1>6. PlainTile(tile) /\ tile.form = "tile"
  BY <1>1, <1>4, PlainForms DEF Building
<1>7. Beside(l, AtK(tile)[<<1, 0, 0>>])
  BY <1>2, <1>5, NotOdd DEF Beside, TileK
<1>8. /\ ~NotItsScale(l.arg) /\ ~OutOfBounds(l, tile.form) /\ ~Mispaired(tile, Load(l, tile.form))
      /\ PlainTile(Times(tile, Load(l, "tile"), l.arg))
  BY <1>1, <1>2, <1>4, <1>5, <1>6, <1>7, MulPlainTile
<1>9. verdict' = verdict
  BY <1>1, <1>8, FactorStays
<1>10. Building'
  <2>1. Summands' = Summands /\ One(row' # Nothing) = One(row # Nothing)
    BY <1>1 DEF Summands
  <2>2. One(tile' # Nothing) \in {0, 1} /\ One(tile # Nothing) = 1
    BY <1>1, Ones DEF One
  <2>3. Summands \in Nat /\ One(row # Nothing) \in {0, 1}
    BY <1>4, SummandsAre
  <2>4. Summands + One(row # Nothing) + One(tile # Nothing) <= ops
    BY <1>4 DEF Building
  <2>5. Summands' + One(row' # Nothing) + One(tile' # Nothing) <= ops'
    BY <1>4, <2>1, <2>2, <2>3, <2>4
  <2> QED BY <1>1, <1>4, <1>8, <1>9, <2>5 DEF Building
<1> QED BY <1>1, <1>3, <1>10, BuildKeeps

LEMMA MulRowStays ==
    ASSUME Straight, NInv, NEW l \in ScaleReads(FALSE), MulRow(l), stores = <<>>
    PROVE  NInv'
<1>1. /\ row # Nothing /\ row.factors < MaxFactors
      /\ Step(Oddities(l) + Elsewhere(RowK, l) + Again(row, l))
      /\ row' = Times(row, Load(l, "row"), l.arg)
      /\ Decide(FactorChecks(row, l)) /\ UNCHANGED <<rowAt, tile, acc, stores, launched>>
  BY DEF MulRow
<1>2. PICK a \in Nat, b \in Nat, c \in Nat : a = Oddities(l) /\ b = Elsewhere(RowK, l) /\ c = Again(row, l)
  BY NotOdd, Others
<1>3. Step(a + b + c) /\ a + b + c \in Nat
  BY <1>1, <1>2
<1>4. a + b + c = 0 /\ Building /\ Standard /\ ops' = ops + 1 /\ ops \in Nat
  BY <1>3, StepIs
<1>5. a = 0 /\ b = 0 /\ c = 0
  BY <1>4
<1>6. PlainRow(row)
  BY <1>1, <1>4 DEF Building
<1>7. Plain(l) /\ Elsewhere(row.sums[1][1].lo, l) = 0
  <2>1. RowK = row.sums[1][1].lo
    BY DEF RowK, Straight, OneLane
  <2>2. Elsewhere(RowK, l) = 0
    BY <1>2, <1>5
  <2> QED BY <1>2, <1>5, <2>1, <2>2, NotOdd
<1>8. /\ ~NotItsScale(l.arg) /\ ~OutOfBounds(l, row.form) /\ ~Mispaired(row, Load(l, row.form))
      /\ PlainRow(Times(row, Load(l, "row"), l.arg))
  BY <1>1, <1>2, <1>4, <1>5, <1>6, <1>7, MulPlainRow
<1>9. verdict' = verdict
  BY <1>1, <1>8, FactorStays
<1>10. Building'
  <2>1. Summands' = Summands /\ One(tile' # Nothing) = One(tile # Nothing)
    BY <1>1 DEF Summands
  <2>2. One(row' # Nothing) \in {0, 1} /\ One(row # Nothing) = 1
    BY <1>1, Ones DEF One
  <2>3. Summands \in Nat /\ One(tile # Nothing) \in {0, 1}
    BY <1>4, SummandsAre
  <2>4. Summands + One(row # Nothing) + One(tile # Nothing) <= ops
    BY <1>4 DEF Building
  <2>5. Summands' + One(row' # Nothing) + One(tile' # Nothing) <= ops'
    BY <1>4, <2>1, <2>2, <2>3, <2>4
  <2> QED BY <1>1, <1>4, <1>8, <1>9, <2>5 DEF Building
<1> QED BY <1>1, <1>3, <1>10, BuildKeeps

-----------------------------------------------------------------------------
LEMMA MulAccStays ==
    ASSUME Straight, Unlike, NInv, NEW l \in ScaleReads(FALSE), MulAcc(l)
    PROVE  NInv'
<1>1. /\ acc # Zero /\ stores = <<>> /\ acc.factors < MaxFactors /\ Step(Oddities(l) + Again(acc, l))
      /\ acc' = Times(acc, Load(l, "row"), l.arg)
      /\ Decide(FactorChecks(acc, l)) /\ UNCHANGED <<rowAt, tile, row, stores, launched>>
  BY DEF MulAcc
<1>2. PICK a \in Nat, c \in Nat : a = Oddities(l) /\ c = Again(acc, l)
  BY NotOdd, Others
<1>3. Step(a + c) /\ a + c \in Nat
  BY <1>1, <1>2
<1>4. a + c = 0 /\ Building /\ Standard /\ ops' = ops + 1 /\ ops \in Nat
  BY <1>1, <1>3, StepIs
<1>5. a = 0 /\ c = 0
  BY <1>4
<1>6. Plain(l)
  BY <1>2, <1>5, NotOdd
<1> DEFINE y == Load(l, "row")
           z == Times(acc, y, "As")
<1>7. /\ l.arg = "As" /\ ~NotItsScale(l.arg) /\ ~OutOfBounds(l, "row")
      /\ \E g \in Groups : ScaleAt(y, g)
  <2> HIDE DEF y
  <2>1. /\ l.arg = "As" /\ l.along = FALSE /\ ~NotItsScale(l.arg) /\ ~OutOfBounds(l, "row")
        /\ \E g \in Groups : l.from \div G = g /\ ScaleAt(y, g)
    BY <1>4, <1>6, PlainScale DEF y
  <2> QED BY <2>1
<1>8. PICK g \in Groups : ScaleAt(y, g)
  BY <1>7
<1>9. PlainSum(acc) /\ acc.form = "row" /\ acc.applied \in Nat
  <2>1. PlainSum(acc)
    BY <1>1, <1>4 DEF Building
  <2> QED BY <2>1, PlainForms DEF PlainSum, Values
<1>10. acc.applied = 0
  <2>1. ~(l.arg # "B" /\ acc.applied > 0)
    BY <1>2, <1>5 DEF Again, One
  <2> QED BY <1>7, <1>9, <2>1
<1>11. verdict = "open" /\ Good(acc)
  <2>1. ~Bad(acc)
    BY <1>10 DEF Bad
  <2> QED BY <1>1, <1>4, <2>1 DEF Building
<1> HIDE DEF y, z
<1>12. /\ PlainSum(z) /\ z.sums = acc.sums /\ z.applied = 1
       /\ \A n \in RowLanes : z.got[n] = acc.got[n] * As[<<Home(n), g>>]
  BY <1>1, <1>8, <1>9, <1>10, ScaledSum DEF z
<1>13. IF Mispaired(acc, y) THEN verdict' = "violation" ELSE verdict' = "open"
  <2>1. acc.form = "row" /\ Load(l, acc.form) = y
    BY <1>9 DEF y
  <2>2. ~NotItsScale(l.arg) /\ ~OutOfBounds(l, acc.form)
    BY <1>7, <2>1
  <2>3. /\ ~Mispaired(acc, Load(l, acc.form)) => verdict' = verdict
        /\ Mispaired(acc, Load(l, acc.form)) /\ verdict = "open" => verdict' = "violation"
    BY <1>1, <2>2, FactorStays
  <2> QED BY <1>11, <2>1, <2>3
<1>14. acc' = z
  BY <1>1, <1>7 DEF z, y
<1>15. IF Mispaired(acc, y) THEN Bad(z) ELSE Good(z)
  <2>2. Larger
    BY LargerIs
  <2> QED BY <1>8, <1>9, <1>10, <1>11, <1>12, <2>2, GoodScaled
<1>16. Building'
  <2>1. Summands' = Summands /\ One(tile' # Nothing) = One(tile # Nothing) /\ One(row' # Nothing) = One(row # Nothing)
    <3>1. z # Zero
      BY <1>12, PlainForms
    <3> QED BY <1>1, <1>12, <1>14, <3>1 DEF Summands
  <2>2. Summands \in Nat /\ One(row # Nothing) \in {0, 1} /\ One(tile # Nothing) \in {0, 1}
    BY <1>4, SummandsAre
  <2>3. Summands + One(row # Nothing) + One(tile # Nothing) <= ops
    BY <1>4 DEF Building
  <2>4. Summands' + One(row' # Nothing) + One(tile' # Nothing) <= ops'
    BY <1>4, <2>1, <2>2, <2>3
  <2>5. z # Zero
    BY <1>12, PlainForms
  <2>6. (tile = Nothing \/ PlainTile(tile)) /\ (row = Nothing \/ PlainRow(row))
    BY <1>4 DEF Building
  <2> QED BY <1>1, <1>12, <1>13, <1>14, <1>15, <2>4, <2>5, <2>6 DEF Building
<1> QED BY <1>1, <1>3, <1>16, BuildKeeps

-----------------------------------------------------------------------------
LEMMA DoubleStays ==
    ASSUME Straight, NInv, Double, stores = <<>>
    PROVE  NInv'
<1>1. Step(1) /\ 1 \in Nat
  BY DEF Double
<1>2. 1 = 0
  BY <1>1, StepIs
<1> QED BY <1>2

LEMMA ReduceStays ==
    ASSUME Straight, NInv, Reduce, stores = <<>>
    PROVE  NInv'
<1> DEFINE checks == <<Check(CountsRowTwice(tile), "violation"), Check(RowChanges(tile) \/ RaggedMask(tile), "unproven"),
                       Check(\E p \in Programs : ReadsTwice(AtK(tile), Read(tile, p)), "violation"),
                       Check(\E p \in Programs : Gaps(AtK(tile), Read(tile, p)), "unproven")>>
<1>1. /\ tile # Nothing /\ row = Nothing /\ Step(0) /\ row' = Reduced(tile) /\ tile' = Nothing
      /\ UNCHANGED <<rowAt, acc, stores, launched>> /\ Decide(checks)
  BY DEF Reduce
<1>2. 0 \in Nat /\ Building /\ ops' = ops + 1 /\ ops \in Nat
  BY <1>1, StepIs
<1>3. PlainTile(tile)
  BY <1>1, <1>2 DEF Building
<1>4. /\ ~CountsRowTwice(tile) /\ ~RowChanges(tile) /\ ~RaggedMask(tile)
      /\ \A p \in Programs : ~ReadsTwice(AtK(tile), Read(tile, p)) /\ ~Gaps(AtK(tile), Read(tile, p))
      /\ PlainRow(Reduced(tile))
  BY <1>3, PlainReduced DEF Straight, OneLane
<1>5. verdict' = verdict
  <2>1. DOMAIN checks = 1..4
    OBVIOUS
  <2>2. /\ checks[1].breaks = CountsRowTwice(tile) /\ checks[2].breaks = (RowChanges(tile) \/ RaggedMask(tile))
        /\ checks[3].breaks = (\E p \in Programs : ReadsTwice(AtK(tile), Read(tile, p)))
        /\ checks[4].breaks = (\E p \in Programs : Gaps(AtK(tile), Read(tile, p)))
    BY DEF Check
  <2> HIDE DEF checks
  <2>3. ~checks[1].breaks /\ ~checks[2].breaks /\ ~checks[3].breaks /\ ~checks[4].breaks
    BY <1>4, <2>2
  <2>4. \A i \in 1..4 : i = 1 \/ i = 2 \/ i = 3 \/ i = 4
    OBVIOUS
  <2>5. \A i \in DOMAIN checks : ~checks[i].breaks
    BY <2>1, <2>3, <2>4
  <2> QED BY <1>1, <2>5, NoneBroken
<1> HIDE DEF checks
<1>6. Building'
  <2>1. Summands' = Summands /\ One(tile' # Nothing) = 0 /\ One(tile # Nothing) = 1 /\ One(row # Nothing) = 0
    BY <1>1 DEF Summands, One
  <2>2. Summands \in Nat /\ One(row' # Nothing) \in {0, 1}
    BY <1>2, SummandsAre, Ones
  <2>3. Summands + One(row # Nothing) + One(tile # Nothing) <= ops
    BY <1>2 DEF Building
  <2>4. Summands' + One(row' # Nothing) + One(tile' # Nothing) <= ops'
    BY <1>2, <2>1, <2>2, <2>3
  <2> QED BY <1>1, <1>2, <1>4, <1>5, <2>4 DEF Building
<1> QED BY <1>1, <1>2, <1>6, BuildKeeps

LEMMA DotStays ==
    ASSUME Straight, NInv, NEW l \in Windows("B"), Dot(l), stores = <<>>
    PROVE  NInv'
<1> DEFINE y == Load(l, "tile")
           checks == <<InBounds(l, "tile"), Check(DotUnproven(tile, y), "unproven"),
                       Check(DotDisagrees(tile, y), "violation"),
                       Check(\E p \in Programs : ReadsTwice(AtK(tile), Live(tile, y, p)), "violation"),
                       Check(RowContracted \/ \E p \in Programs : Gaps(AtK(tile), Live(tile, y, p)), "unproven")>>
<1>1. /\ tile # Nothing /\ row = Nothing /\ Step(Oddities(l) + Elsewhere(TileK, l))
      /\ row' = Dotted(tile, y) /\ tile' = Nothing
      /\ UNCHANGED <<rowAt, acc, stores, launched>> /\ Decide(checks)
  BY DEF Dot
<1> HIDE DEF y
<1>2. PICK a \in Nat, b \in Nat : a = Oddities(l) /\ b = Elsewhere(TileK, l)
  BY NotOdd, Others
<1>3. Step(a + b) /\ a + b \in Nat
  BY <1>1, <1>2
<1>4. a + b = 0 /\ Building /\ Standard /\ ops' = ops + 1 /\ ops \in Nat
  BY <1>3, StepIs
<1>5. a = 0 /\ b = 0
  BY <1>4
<1>6. PlainTile(tile)
  BY <1>1, <1>4 DEF Building
<1>7. Beside(l, AtK(tile)[<<1, 0, 0>>])
  BY <1>2, <1>5, NotOdd DEF Beside, TileK
<1>8. /\ ~OutOfBounds(l, "tile") /\ ~DotUnproven(tile, y) /\ ~DotDisagrees(tile, y)
      /\ \A p \in Programs : ~ReadsTwice(AtK(tile), Live(tile, y, p)) /\ ~Gaps(AtK(tile), Live(tile, y, p))
      /\ PlainRow(Dotted(tile, y))
  BY <1>4, <1>6, <1>7, PlainDotted DEF y
<1>9. verdict' = verdict
  <2>1. DOMAIN checks = 1..5
    OBVIOUS
  <2>2. /\ checks[1].breaks = OutOfBounds(l, "tile") /\ checks[2].breaks = DotUnproven(tile, y)
        /\ checks[3].breaks = DotDisagrees(tile, y)
        /\ checks[4].breaks = (\E p \in Programs : ReadsTwice(AtK(tile), Live(tile, y, p)))
        /\ checks[5].breaks = (RowContracted \/ \E p \in Programs : Gaps(AtK(tile), Live(tile, y, p)))
    BY DEF InBounds, Check
  <2> HIDE DEF checks
  <2>3. ~checks[1].breaks /\ ~checks[2].breaks /\ ~checks[3].breaks /\ ~checks[4].breaks /\ ~checks[5].breaks
    <3>1. ~RowContracted
      BY Sizes DEF RowContracted, Wide, Straight
    <3> QED BY <1>8, <2>2, <3>1
  <2>4. \A i \in 1..5 : i = 1 \/ i = 2 \/ i = 3 \/ i = 4 \/ i = 5
    OBVIOUS
  <2>5. \A i \in DOMAIN checks : ~checks[i].breaks
    BY <2>1, <2>3, <2>4
  <2> QED BY <1>1, <2>5, NoneBroken
<1> HIDE DEF checks
<1>10. Building'
  <2>1. Summands' = Summands /\ One(tile' # Nothing) = 0 /\ One(tile # Nothing) = 1 /\ One(row # Nothing) = 0
    BY <1>1 DEF Summands, One
  <2>2. Summands \in Nat /\ One(row' # Nothing) \in {0, 1}
    BY <1>4, SummandsAre, Ones
  <2>3. Summands + One(row # Nothing) + One(tile # Nothing) <= ops
    BY <1>4 DEF Building
  <2>4. Summands' + One(row' # Nothing) + One(tile' # Nothing) <= ops'
    BY <1>4, <2>1, <2>2, <2>3
  <2> QED BY <1>1, <1>4, <1>8, <1>9, <2>4 DEF Building
<1> QED BY <1>1, <1>3, <1>10, BuildKeeps

LEMMA AccumulateStays ==
    ASSUME Straight, Unlike, NInv, Accumulate, stores = <<>>
    PROVE  NInv'
<1> DEFINE sums == <<Check(Mispaired(acc, row), "violation"), Check(acc.applied # row.applied, "unproven")>>
<1>1. /\ row # Nothing /\ Step(0) /\ acc' = (IF acc = Zero THEN row ELSE Plus(acc, row)) /\ row' = Nothing
      /\ UNCHANGED <<rowAt, tile, stores, launched>>
      /\ (acc = Zero => Decide(<<>>)) /\ (acc # Zero => Decide(sums))
  BY DEF Accumulate
<1>2. 0 \in Nat /\ Building /\ ops' = ops + 1 /\ ops \in Nat
  BY <1>1, StepIs
<1>3. PlainRow(row) /\ PlainSum(row) /\ Larger
  <2>1. PlainRow(row)
    BY <1>1, <1>2 DEF Building
  <2> QED BY <2>1, LargerIs DEF PlainRow
<1>4. One(tile' # Nothing) = One(tile # Nothing) /\ One(row' # Nothing) = 0 /\ One(row # Nothing) = 1
  BY <1>1 DEF One
<1>5. Summands + One(row # Nothing) + One(tile # Nothing) <= ops /\ Summands \in Nat /\ One(tile # Nothing) \in {0, 1}
  BY <1>2, SummandsAre DEF Building
<1>6. tile = Nothing \/ PlainTile(tile)
  BY <1>2 DEF Building
<1>7. CASE acc = Zero
  <2>1. verdict' = verdict
    <3>1. \A i \in DOMAIN <<>> : ~<<>>[i].breaks
      OBVIOUS
    <3> QED BY <1>1, <1>7, <3>1, NoneBroken
  <2>2. verdict = "open"
    BY <1>2, <1>7 DEF Building
  <2>3. PlainSum(acc') /\ Good(acc') /\ acc' # Zero
    <3>1. Good(row)
      BY <1>3, RowIsGood
    <3> QED BY <1>1, <1>3, <1>7, <3>1, PlainForms
  <2>4. Summands = 0 /\ Summands' = 1
    <3>1. Len(row.sums) = 1
      BY <1>3 DEF PlainRow
    <3> QED BY <1>1, <1>7, <2>3, <3>1 DEF Summands
  <2>5. Summands' + One(row' # Nothing) + One(tile' # Nothing) <= ops'
    BY <1>2, <1>4, <1>5, <2>4
  <2>6. Building'
    BY <1>1, <1>6, <2>1, <2>2, <2>3, <2>5 DEF Building
  <2> QED BY <1>1, <1>2, <2>6, BuildKeeps
<1>8. CASE acc # Zero
  <2> DEFINE z == Plus(acc, row)
  <2>1. PlainSum(acc)
    BY <1>2, <1>8 DEF Building
  <2>2. /\ ~Mispaired(acc, row) /\ PlainSum(z) /\ z.sums = acc.sums \o row.sums /\ z.applied = acc.applied
        /\ \A n \in RowLanes : z.got[n] = acc.got[n] + row.got[n]
    <3> HIDE DEF z
    <3>1. z = Plus(acc, row)
      BY DEF z
    <3>2. PlainSum(acc) /\ PlainRow(row) /\ z = Plus(acc, row)
      BY <1>3, <2>1, <3>1
    <3>3. ~Mispaired(acc, row)
      BY <3>2, PlainPlus
    <3>4. PlainSum(z)
      BY <3>2, PlainPlus
    <3>5. z.applied = acc.applied
      BY <3>2, PlainPlus
    <3>6. z.sums = acc.sums \o row.sums
      BY <3>2, PlainPlus
    <3>7. \A n \in RowLanes : z.got[n] = acc.got[n] + row.got[n]
      <4>1. acc \in Values("row", {"token"}) /\ acc.got \in [RowLanes -> Int]
        BY <2>1, Sizes DEF PlainSum, Values
      <4>2. z.got = [n \in RowLanes |-> acc.got[n] + row.got[n]]
        BY <4>1, <3>1 DEF Plus, Values
      <4> QED BY <4>2
    <3> QED BY <3>3, <3>4, <3>5, <3>6, <3>7
  <2>3. acc' = z
    BY <1>1, <1>8
  <2> HIDE DEF z
  <2>4. z # Zero
    BY <2>2, PlainForms
  <2>5. Summands' = Summands + 1
    <3>1. acc.sums \in Seq(Ranges) /\ row.sums \in Seq(Ranges) /\ Len(row.sums) = 1
      BY <1>3, <2>1 DEF PlainRow, PlainSum, Values
    <3>2. Len(acc.sums \o row.sums) = Len(acc.sums) + Len(row.sums)
      BY <3>1, ConcatProperties
    <3> QED BY <1>8, <2>2, <2>3, <2>4, <3>1, <3>2 DEF Summands
  <2>6. Summands' + One(row' # Nothing) + One(tile' # Nothing) <= ops'
    BY <1>2, <1>4, <1>5, <2>5
  <2>7. DOMAIN sums = 1..2 /\ ~sums[1].breaks /\ sums[2].breaks = (acc.applied # row.applied) /\ sums[2].says = "unproven"
    BY <2>2 DEF Check
  <2> HIDE DEF sums
  <2>8. CASE verdict = "violation"
    <3>1. verdict' = "violation"
      BY <1>1, <1>8, <2>8 DEF Decide
    <3>2. Bad(acc)
      BY <1>2, <2>8 DEF Building
    <3>3. Bad(z)
      BY <1>3, <2>1, <2>2, <3>2, BadPlus
    <3>4. Building'
      BY <1>1, <1>6, <2>2, <2>3, <2>4, <2>6, <3>1, <3>3 DEF Building
    <3> QED BY <1>1, <1>2, <3>4, BuildKeeps
  <2>9. CASE verdict = "open" /\ acc.applied = row.applied
    <3>1. verdict' = verdict
      <4>1. \A i \in 1..2 : i = 1 \/ i = 2
        OBVIOUS
      <4>2. \A i \in DOMAIN sums : ~sums[i].breaks
        BY <2>7, <2>9, <4>1
      <4> QED BY <1>1, <1>8, <4>2, NoneBroken
    <3>2. Good(acc)
      BY <1>2, <1>8, <2>9 DEF Building
    <3>3. Good(z)
      BY <1>3, <2>1, <2>2, <2>9, <3>2, GoodPlus
    <3>4. Building'
      BY <1>1, <1>6, <2>2, <2>3, <2>4, <2>6, <2>9, <3>1, <3>3 DEF Building
    <3> QED BY <1>1, <1>2, <3>4, BuildKeeps
  <2>10. CASE verdict = "open" /\ acc.applied # row.applied
    <3> DEFINE broken == {i \in DOMAIN sums : sums[i].breaks}
    <3>1. broken = {2}
      <4>1. \A i \in 1..2 : i = 1 \/ i = 2
        OBVIOUS
      <4>2. sums[2].breaks /\ 2 \in 1..2
        <5>1. acc.applied # row.applied /\ sums[2].breaks = (acc.applied # row.applied)
          BY <2>7, <2>10
        <5>2. sums[2].breaks
          BY <5>1
        <5> QED BY <5>2
      <4>3. \A i \in 1..2 : sums[i].breaks <=> i = 2
        BY <2>7, <4>1, <4>2
      <4> QED BY <2>7, <4>2, <4>3
    <3>2. Min({2}) = 2
      BY DEF Min
    <3>3. verdict' = IF verdict # "open" \/ broken = {} THEN verdict ELSE sums[Min(broken)].says
      BY <1>1, <1>8 DEF Decide
    <3> HIDE DEF broken
    <3>4. verdict' = "unproven"
      BY <2>7, <2>10, <3>1, <3>2, <3>3
    <3> QED BY <1>1, <1>2, <3>4, BuildKeeps
  <2>11. verdict \in {"open", "violation"}
    BY <1>2 DEF Building
  <2> QED BY <2>8, <2>9, <2>10, <2>11
<1> QED BY <1>7, <1>8

-----------------------------------------------------------------------------
LEMMA StoreStays ==
    ASSUME Straight, Unlike, NInv, NEW s \in AllStores, Store(s)
    PROVE  NInv'
<1>1. /\ acc # Zero /\ UNCHANGED <<rowAt, acc, launched>> /\ Decide(StoreChecks(s))
      /\ Step(One(s.rows # "own") + One(s.mask # "all") + One(stores # <<>>))
      /\ stores' = Append(stores, Footprint(s))
      /\ out' = [t \in Tokens |-> IF Written(s, t) = {} THEN out[t] ELSE acc.got[CHOOSE n \in Written(s, t) : TRUE]]
  BY DEF Store, Footprint, Written
<1>2. PICK a \in Nat, b \in Nat, c \in Nat : a = One(s.rows # "own") /\ b = One(s.mask # "all") /\ c = One(stores # <<>>)
  BY Ones
<1>3. Step(a + b + c) /\ a + b + c \in Nat
  BY <1>1, <1>2
<1>4. a + b + c = 0 /\ odd' = 0 /\ ops' = ops + 1 /\ ops < MaxOps /\ ~launched /\ verdict # "unproven"
      /\ Standard /\ ops \in Nat
  BY <1>3, OddFree DEF NInv, Regular
<1>5. a = 0 /\ b = 0 /\ c = 0
  BY <1>4
<1>6. s.rows = "own" /\ s.mask = "all" /\ stores = <<>>
  BY <1>2, <1>5, Ones
<1>7. Building
  BY <1>4, <1>6 DEF NInv
<1>8. /\ PlainSum(acc) /\ Summands = Len(acc.sums) /\ Len(acc.sums) \in Nat /\ Len(acc.sums) <= MaxOps
  <2>1. Summands \in Nat /\ PlainSum(acc) /\ Summands = Len(acc.sums) /\ One(row # Nothing) \in {0, 1} /\ One(tile # Nothing) \in {0, 1}
    BY <1>1, <1>7, SummandsAre
  <2>2. Summands + One(row # Nothing) + One(tile # Nothing) <= ops
    BY <1>7 DEF Building
  <2> QED BY <1>4, <2>1, <2>2, BoundAssumption
<1>9. StoreLanes(s) = RowLanes
  BY <1>6, Sizes DEF StoreLanes
<1>10. ASSUME NEW n \in RowLanes PROVE TargetOf(s, n) = Home(n) /\ Home(n) \in Tokens
  <2>1. Home(n) \in Tokens /\ Home(n) \in Nat
    BY HomeIs, Sizes
  <2>2. n[1] \in Programs
    BY DEF RowLanes
  <2>3. rowAt[n[1]] + n[2] = Home(n)
    BY <1>4, <2>2 DEF Standard, Home
  <2>4. Home(n) + 0 = Home(n)
    BY <2>1
  <2> QED BY <1>6, <2>1, <2>3, <2>4 DEF TargetOf
<1>11. ASSUME NEW n \in RowLanes PROVE out'[Home(n)] = acc.got[n]
  <2>1. Written(s, Home(n)) = {n}
    <3>1. \A m \in RowLanes : TargetOf(s, m) = Home(n) <=> m = n
      BY <1>10, HomesDiffer
    <3> QED BY <1>9, <3>1 DEF Written
  <2>2. (CHOOSE m \in {n} : TRUE) = n
    OBVIOUS
  <2>3. Home(n) \in Tokens
    BY <1>10
  <2>4. out'[Home(n)] = IF Written(s, Home(n)) = {} THEN out[Home(n)] ELSE acc.got[CHOOSE m \in Written(s, Home(n)) : TRUE]
    BY <1>1, <2>3
  <2> QED BY <2>1, <2>2, <2>4
<1>12. ASSUME NEW t \in Tokens PROVE StoresOf(t)' # {}
  <2>1. PICK n \in RowLanes : Home(n) = t
    BY HomeOf
  <2>2. stores' = <<Footprint(s)>>
    BY <1>1, <1>6
  <2>3. n[1] \in Programs /\ TargetOf(s, n) = t /\ n \in StoreLanes(s)
    BY <1>9, <1>10, <2>1 DEF RowLanes
  <2>4. t \in Footprint(s)[n[1]]
    BY <2>3 DEF Footprint
  <2>5. 1 \in DOMAIN stores' /\ (stores')[1] = Footprint(s)
    BY <2>2
  <2>6. <<1, n[1]>> \in (DOMAIN stores') \X Programs /\ t \in (stores')[<<1, n[1]>>[1]][<<1, n[1]>>[2]]
    BY <2>3, <2>4, <2>5
  <2> QED BY <2>6 DEF StoresOf
<1>13. Meant' => Means(out')
  BY DEF Meant, Means
<1>14. verdict' = "violation" => ~Meant'
  <2>1. CASE verdict = "violation"
    <3>1. Bad(acc)
      BY <1>7, <2>1 DEF Building
    <3> QED BY <1>11, <1>13, <3>1, BadNotMeant
  <2>2. CASE verdict = "open"
    <3>1. SUFFICES ASSUME Meant' PROVE verdict' = verdict
      BY <2>2
    <3>2. Good(acc)
      BY <1>1, <1>7, <2>2 DEF Building
    <3>3. acc.applied = 1 /\ \A p \in Programs : Covers(acc.sums, p)
      BY <1>8, <1>11, <1>13, <3>1, <3>2, GoodMeant
    <3>4. acc.valid = RowLanes /\ acc.extras = FALSE /\ \A n \in RowLanes : acc.coords["token"].at[n] = Home(n)
      BY <1>8 DEF PlainSum, AtRow
    <3> DEFINE checks == StoreChecks(s)
    <3>5. DOMAIN checks = 1..6
      <4>1. \A u, v, w, x, y, z : DOMAIN <<u, v, w, x, y, z>> = 1..6
        OBVIOUS
      <4>2. \E u, v, w, x, y, z : checks = <<u, v, w, x, y, z>>
        BY Zenon DEF StoreChecks
      <4> HIDE DEF checks
      <4> QED BY <4>1, <4>2
    <3>6. /\ checks[1].breaks = (\E n \in StoreLanes(s) : TargetOf(s, n) \notin Tokens)
          /\ checks[2].breaks = ~(StoreLanes(s) \subseteq acc.valid)
          /\ checks[3].breaks = (\E n \in StoreLanes(s) : TargetOf(s, n) # acc.coords["token"].at[n])
          /\ checks[4].breaks = (\E p \in Programs : ~Covers(acc.sums, p))
          /\ checks[5].breaks = acc.extras /\ checks[6].breaks = (acc.applied # 1)
      BY DEF StoreChecks, Check
    <3> HIDE DEF checks
    <3>7. ~checks[1].breaks /\ ~checks[2].breaks /\ ~checks[3].breaks
      BY <1>9, <1>10, <3>4, <3>6
    <3>8. ~checks[4].breaks /\ ~checks[5].breaks /\ ~checks[6].breaks
      BY <3>3, <3>4, <3>6
    <3>9. \A i \in 1..6 : i = 1 \/ i = 2 \/ i = 3 \/ i = 4 \/ i = 5 \/ i = 6
      OBVIOUS
    <3>10. \A i \in DOMAIN checks : ~checks[i].breaks
      BY <3>5, <3>7, <3>8, <3>9
    <3>11. Decide(checks)
      BY <1>1 DEF checks
    <3> QED BY <3>10, <3>11, NoneBroken
  <2>3. verdict \in {"open", "violation"}
    BY <1>7 DEF Building
  <2> QED BY <2>1, <2>2, <2>3
<1>15. stores' # <<>>
  BY <1>1, <1>6
<1>16. Regular'
  <2>1. ops' \in Nat /\ ops' <= MaxOps
    BY <1>4, BoundAssumption
  <2> QED BY <1>1, <1>4, <2>1 DEF Regular, Standard
<1> QED BY <1>12, <1>14, <1>15, <1>16 DEF NInv

LEMMA LaunchStays ==
    ASSUME NInv, Launch
    PROVE  NInv'
<1>1. /\ stores # <<>> /\ UNCHANGED <<rowAt, stores, out, ops, odd>>
      /\ verdict' = IF verdict # "open" THEN verdict
                    ELSE IF \E t \in Tokens : StoresOf(t) = {} THEN "violation"
                    ELSE IF \E t \in Tokens : Cardinality(StoresOf(t)) > 1 THEN "unproven"
                    ELSE "proven"
  BY DEF Launch
<1>2. (verdict = "violation" => ~Meant) /\ \A t \in Tokens : StoresOf(t) # {}
  BY <1>1 DEF NInv
<1>3. verdict' = "violation" => verdict = "violation"
  BY <1>1, <1>2
<1>4. (Meant' <=> Meant) /\ \A t \in Tokens : StoresOf(t)' = StoresOf(t)
  BY <1>1 DEF Meant, StoresOf
<1>5. Regular'
  BY <1>1 DEF NInv, Regular, Standard
<1> QED BY <1>1, <1>2, <1>3, <1>4, <1>5 DEF NInv

LEMMA StutterStays ==
    ASSUME NInv, UNCHANGED vars
    PROVE  NInv'
<1>1. (Meant' <=> Meant) /\ (\A t \in Tokens : StoresOf(t)' = StoresOf(t)) /\ Summands' = Summands
  BY DEF vars, Meant, StoresOf, Summands
<1>2. Regular' /\ (Building' <=> Building)
  BY <1>1 DEF vars, NInv, Regular, Standard, Building
<1> QED BY <1>1, <1>2 DEF vars, NInv

LEMMA NextStays == ASSUME Straight, Unlike, IInv, NInv, [Next]_vars PROVE NInv'
<1>1. stores # <<>> => tile = Nothing /\ row = Nothing
  BY DEF IInv, Emptied
<1>2. ASSUME NEW l \in Windows("A"), LoadTile(l) PROVE NInv'
  BY <1>2, LoadTileStays
<1>3. ASSUME NEW l \in Windows("B") \cup ScaleReads(TRUE) \cup ScaleReads(FALSE), MulTile(l) PROVE NInv'
  <2>1. stores = <<>>
    BY <1>1, <1>3 DEF MulTile
  <2> QED BY <1>3, <2>1, MulTileStays
<1>4. ASSUME NEW l \in ScaleReads(FALSE), MulRow(l) PROVE NInv'
  <2>1. stores = <<>>
    BY <1>1, <1>4 DEF MulRow
  <2> QED BY <1>4, <2>1, MulRowStays
<1>5. ASSUME NEW l \in ScaleReads(FALSE), MulAcc(l) PROVE NInv'
  BY <1>5, MulAccStays
<1>6. CASE Double
  <2>1. stores = <<>>
    BY <1>1, <1>6 DEF Double
  <2> QED BY <1>6, <2>1, DoubleStays
<1>7. CASE Reduce
  <2>1. stores = <<>>
    BY <1>1, <1>7 DEF Reduce
  <2> QED BY <1>7, <2>1, ReduceStays
<1>8. ASSUME NEW l \in Windows("B"), Dot(l) PROVE NInv'
  <2>1. stores = <<>>
    BY <1>1, <1>8 DEF Dot
  <2> QED BY <1>8, <2>1, DotStays
<1>9. CASE Accumulate
  <2>1. stores = <<>>
    BY <1>1, <1>9 DEF Accumulate
  <2> QED BY <1>9, <2>1, AccumulateStays
<1>10. ASSUME NEW s \in AllStores, Store(s) PROVE NInv'
  BY <1>10, StoreStays
<1>11. CASE Launch
  BY <1>11, LaunchStays
<1>12. CASE UNCHANGED vars
  BY <1>12, StutterStays
<1> QED BY <1>2, <1>3, <1>4, <1>5, <1>6, <1>7, <1>8, <1>9, <1>10, <1>11, <1>12 DEF Next, AllStores

(* A launch that computes its output's meaning and touches nothing else is not   *)
(* called a violation, for every kernel of the model's operations without an    *)
(* odd choice, however wrong its sums are put together: summands left out or    *)
(* twice, a scale of another group, none or on some of them. For every number   *)
(* of programs and rows, every length of hidden in which tiles fit into groups, *)
(* and every data in which sums with different weights differ (check_launch).   *)
THEOREM RightChoicesAreNotBlamed == ASSUME Straight, Unlike PROVE Spec => []NoFalseViolation
<1>1. Init => IInv /\ NInv
  BY InitRight, InitRegular
<1>2. IInv /\ NInv /\ [Next]_vars => (IInv /\ NInv)'
  BY NextKeeps, NextStays
<1>3. NInv => NoFalseViolation
  BY DEF NInv, NoFalseViolation
<1> QED BY <1>1, <1>2, <1>3, PTL DEF Spec
=============================================================================
