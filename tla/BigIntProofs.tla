---------------------------- MODULE BigIntProofs ----------------------------
(***************************************************************************)
(* Theorem about BigInt: the arithmetic on decimal texts is that of the    *)
(* integers, however long the texts are.                                   *)
(***************************************************************************)
EXTENDS BigInt, WellFoundedInduction, TLAPS

(***************************************************************************)
(* Induction over the naturals, with a set.                                *)
(***************************************************************************)
LEMMA NatLeast ==
    ASSUME NEW T, T \subseteq Nat, T # {}
    PROVE  \E n \in T : \A m \in T : n <= m
<1> DEFINE R == OpToRel(<, Nat)
<1>1. IsWellFoundedOn(R, Nat)
  BY NatLessThanWellFounded
<1>2. \A x, y \in Nat : x < y => <<x, y>> \in R
  BY DEF OpToRel
<1> HIDE DEF R
<1>3. PICK n \in T : \A y \in T : ~ (<<y, n>> \in R)
  BY <1>1, WFMin
<1>4. ASSUME NEW m \in T
      PROVE  n <= m
  <2>1. n \in Nat /\ m \in Nat
    OBVIOUS
  <2>2. ~(m < n)
    BY <1>2, <1>3, <2>1
  <2> QED  BY <2>1, <2>2
<1> QED  BY <1>4

LEMMA SetInduction ==
    ASSUME NEW S, 0 \in S, \A n \in Nat : n \in S => n + 1 \in S
    PROVE  Nat \subseteq S
<1> SUFFICES ASSUME ~ (Nat \subseteq S)
             PROVE FALSE
  OBVIOUS
<1>1. PICK n \in Nat \ S : \A m \in Nat \ S : n <= m
  BY NatLeast
<1> QED  BY <1>1

LEMMA UpTo ==
    ASSUME NEW N \in Nat, NEW S, 0 \in S, \A n \in 0..(N - 1) : n \in S => n + 1 \in S
    PROVE  0..N \subseteq S
<1> DEFINE T == {n \in Nat : n <= N => n \in S}
<1>1. \A n \in Nat : n \in T => n + 1 \in T
  OBVIOUS
<1>2. 0 \in T
  OBVIOUS
<1>3. Nat \subseteq T
  <2> HIDE DEF T
  <2> QED  BY <1>1, <1>2, SetInduction
<1> QED  BY <1>3

\* Function f is made along 1..N from v, each value from the one before.
Along(f, N, V, v, F) ==
    f \in [0..N -> V] /\ f[0] = v /\ \A i \in 1..N : f[i] = F[i][f[i - 1]]

LEMMA Recursion ==
    ASSUME NEW N, NEW V, NEW v, NEW F,
           N \in Nat, v \in V, F \in [1..N -> [V -> V]]
    PROVE  \E f : Along(f, N, V, v, F)
<1> DEFINE S == {n \in 0..N : \E f : Along(f, n, V, v, F)}
<1>1. 0 \in S
  <2>1. Along([i \in 0..0 |-> v], 0, V, v, F)
    BY DEF Along
  <2> QED  BY <2>1
<1>2. ASSUME NEW n \in 0..(N - 1), n \in S
      PROVE  n + 1 \in S
  <2>1. PICK f : Along(f, n, V, v, F)
    BY <1>2
  <2> DEFINE g == [i \in 0..(n + 1) |-> IF i = n + 1 THEN F[n + 1][f[n]] ELSE f[i]]
  <2>2. f \in [0..n -> V] /\ f[0] = v /\ \A i \in 1..n : f[i] = F[i][f[i - 1]]
    BY <2>1 DEF Along
  <2>3. n \in Nat /\ n + 1 \in 1..N /\ n + 1 \in 0..N
    OBVIOUS
  <2>4. F[n + 1][f[n]] \in V
    BY <2>2, <2>3
  <2>5. g \in [0..(n + 1) -> V] /\ g[0] = v
    BY <2>2, <2>3, <2>4
  <2>6. ASSUME NEW i \in 1..(n + 1)
        PROVE  g[i] = F[i][g[i - 1]]
    <3>1. CASE i = n + 1
      <4>1. g[i - 1] = f[n] /\ g[i] = F[n + 1][f[n]]
        BY <3>1, <2>3
      <4> QED  BY <3>1, <4>1
    <3>2. CASE i \in 1..n
      <4>1. g[i - 1] = f[i - 1] /\ g[i] = f[i]
        BY <3>2, <2>3
      <4> QED  BY <2>2, <3>2, <4>1
    <3> QED  BY <2>3, <3>1, <3>2
  <2> HIDE DEF g
  <2>7. Along(g, n + 1, V, v, F)
    BY <2>5, <2>6 DEF Along
  <2> QED  BY <2>3, <2>7
<1>3. N \in S
  <2> HIDE DEF S
  <2>1. 0..N \subseteq S
    BY <1>1, <1>2, UpTo
  <2> QED  BY <2>1
<1> QED  BY <1>3

(***************************************************************************)
(* What a list of digits denotes.                                          *)
(***************************************************************************)
Digits == Seq(0..9)
\* A text that an integer is printed as, without its sign.
Normal(d) == d \in Digits /\ Len(d) >= 1 /\ (Len(d) > 1 => d[1] # 0)

\* P reads the digits d from the left, from P[0] on.
ReadsFrom(P, d) == /\ P \in [0..Len(d) -> Int]
                   /\ \A i \in 1..Len(d) : P[i] = 10 * P[i - 1] + d[i]

LEMMA PrefixValuesAre ==
    ASSUME NEW d \in Digits
    PROVE  /\ ReadsFrom(PrefixValues(d), d) /\ PrefixValues(d)[0] = 0
           /\ \A i \in 0..Len(d) : PrefixValues(d)[i] \in Nat
<1> DEFINE N == Len(d)
           F == [i \in 1..N |-> [x \in Nat |-> 10 * x + d[i]]]
           r == CHOOSE r : r = [i \in 0..Len(d) |-> IF i = 0 THEN 0 ELSE 10 * r[i - 1] + d[i]]
<1>1. N \in Nat /\ \A i \in 1..N : d[i] \in 0..9
  BY DEF Digits
<1>2. F \in [1..N -> [Nat -> Nat]]
  BY <1>1
<1>3. PICK g : Along(g, N, Nat, 0, F)
  <2> HIDE DEF F, N
  <2>1. 0 \in Nat /\ N \in Nat
    BY <1>1
  <2> QED  BY <1>2, <2>1, Recursion, Zenon
<1>4. g \in [0..N -> Nat] /\ g[0] = 0 /\ \A i \in 1..N : g[i] = F[i][g[i - 1]]
  BY <1>3 DEF Along
<1>5. ASSUME NEW i \in 1..N
      PROVE  g[i] = 10 * g[i - 1] + d[i]
  <2>1. g[i - 1] \in Nat
    BY <1>1, <1>4
  <2>2. F[i][g[i - 1]] = 10 * g[i - 1] + d[i]
    BY <2>1
  <2> HIDE DEF F
  <2> QED  BY <1>4, <2>2
<1>6. g = [i \in 0..N |-> IF i = 0 THEN 0 ELSE 10 * g[i - 1] + d[i]]
  BY <1>1, <1>4, <1>5
<1>7. r = [i \in 0..N |-> IF i = 0 THEN 0 ELSE 10 * r[i - 1] + d[i]]
  BY <1>6
<1>8. PrefixValues(d) = r
  BY DEF PrefixValues
<1> HIDE DEF r
<1>9. r[0] = 0 /\ \A i \in 1..N : r[i] = 10 * r[i - 1] + d[i]
  BY <1>1, <1>7
<1>10. \A i \in 0..N : r[i] \in Nat
  <2> DEFINE S == {i \in 0..N : r[i] \in Nat}
  <2>1. 0 \in S
    BY <1>1, <1>9
  <2>2. ASSUME NEW n \in 0..(N - 1), n \in S
        PROVE  n + 1 \in S
    <3>1. n + 1 \in 1..N /\ (n + 1) - 1 = n /\ n + 1 \in 0..N
      BY <1>1
    <3>2. r[n + 1] = 10 * r[n] + d[n + 1]
      BY <1>9, <3>1
    <3>3. r[n] \in Nat /\ d[n + 1] \in Nat
      BY <1>1, <2>2, <3>1
    <3>4. r[n + 1] \in Nat
      BY <3>2, <3>3
    <3> QED  BY <3>1, <3>4
  <2>3. 0..N \subseteq S
    <3> HIDE DEF S, N
    <3> QED  BY <1>1, <2>1, <2>2, UpTo
  <2> QED  BY <2>3
<1>11. r \in [0..N -> Nat]
  <2>1. r = [i \in 0..N |-> r[i]]
    BY <1>7
  <2> QED  BY <1>10, <2>1
<1> QED  BY <1>1, <1>8, <1>9, <1>10, <1>11 DEF ReadsFrom

LEMMA DigitTyped ==
    ASSUME NEW d \in Digits
    PROVE  Len(d) \in Nat /\ \A i \in 1..Len(d) : d[i] \in 0..9 /\ d[i] \in Nat
BY DEF Digits

\* Whoever reads the digits from 0 reads the number; from another digit, the
\* number with this digit in front.
LEMMA Reading ==
    ASSUME NEW d \in Digits, NEW P, ReadsFrom(P, d), NEW Q, ReadsFrom(Q, d), P[0] = Q[0]
    PROVE  \A i \in 0..Len(d) : P[i] = Q[i]
<1> DEFINE N == Len(d)
           S == {i \in 0..N : P[i] = Q[i]}
<1>1. N \in Nat /\ \A i \in 1..N : P[i] = 10 * P[i - 1] + d[i] /\ Q[i] = 10 * Q[i - 1] + d[i]
  BY DEF ReadsFrom, Digits
<1>2. 0 \in S
  BY <1>1
<1>3. ASSUME NEW n \in 0..(N - 1), n \in S
      PROVE  n + 1 \in S
  <2>1. n + 1 \in 1..N /\ (n + 1) - 1 = n /\ n + 1 \in 0..N
    BY <1>1
  <2>2. P[n + 1] = 10 * P[n] + d[n + 1] /\ Q[n + 1] = 10 * Q[n] + d[n + 1]
    BY <1>1, <2>1
  <2>3. P[n] = Q[n]
    BY <1>3
  <2> QED  BY <2>1, <2>2, <2>3
<1>4. 0..N \subseteq S
  <2> HIDE DEF S, N
  <2> QED  BY <1>1, <1>2, <1>3, UpTo
<1> QED  BY <1>4

LEMMA MagnitudeIs ==
    ASSUME NEW d \in Digits, NEW P, ReadsFrom(P, d), P[0] = 0
    PROVE  Magnitude(d) = P[Len(d)]
<1>1. Len(d) \in 0..Len(d)
  BY DigitTyped
<1> QED  BY <1>1, PrefixValuesAre, Reading DEF Magnitude

LEMMA MagnitudeNat ==
    ASSUME NEW d \in Digits
    PROVE  Magnitude(d) \in Nat
<1>1. Len(d) \in 0..Len(d)
  BY DigitTyped
<1> QED  BY <1>1, PrefixValuesAre DEF Magnitude

LEMMA MagnitudeAfter ==
    ASSUME NEW d \in Digits, NEW P, ReadsFrom(P, d), P[0] \in 0..9
    PROVE  /\ <<P[0]>> \o d \in Digits /\ Len(<<P[0]>> \o d) = Len(d) + 1
           /\ (<<P[0]>> \o d)[1] = P[0]
           /\ Magnitude(<<P[0]>> \o d) = P[Len(d)]
<1> DEFINE N == Len(d)
           e == <<P[0]>> \o d
           Q == [i \in 0..(N + 1) |-> IF i = 0 THEN 0 ELSE P[i - 1]]
<1>1. /\ N \in Nat /\ P \in [0..N -> Int]
      /\ \A i \in 1..N : P[i] = 10 * P[i - 1] + d[i]
  BY DEF ReadsFrom, Digits
<1>2. /\ e \in Digits /\ Len(e) = N + 1 /\ e[1] = P[0]
      /\ \A i \in 1..N : e[i + 1] = d[i]
  BY DEF Digits
<1>3. ASSUME NEW i \in 1..(N + 1)
      PROVE  Q[i] = 10 * Q[i - 1] + e[i]
  <2>1. CASE i = 1
    BY <1>1, <1>2, <2>1
  <2>2. CASE i \in 2..(N + 1)
    <3>1. i - 1 \in 1..N /\ (i - 1) + 1 = i /\ i # 0 /\ i - 1 # 0 /\ i - 1 \in 0..(N + 1)
      BY <1>1, <2>2
    <3>2. Q[i] = P[i - 1] /\ Q[i - 1] = P[(i - 1) - 1] /\ e[i] = d[i - 1]
      BY <1>2, <3>1
    <3> QED  BY <1>1, <3>1, <3>2
  <2> QED  BY <1>1, <2>1, <2>2
<1>4. Q \in [0..(N + 1) -> Int] /\ Q[0] = 0 /\ Q[N + 1] = P[N]
  BY <1>1
<1> HIDE DEF Q, e
<1>5. ReadsFrom(Q, e)
  BY <1>2, <1>3, <1>4 DEF ReadsFrom
<1>6. Magnitude(e) = Q[N + 1]
  BY <1>2, <1>4, <1>5, MagnitudeIs
<1> QED  BY <1>2, <1>4, <1>6 DEF e

(***************************************************************************)
(* A column at a time, from the right.                                     *)
(***************************************************************************)
LEMMA DivMod ==
    ASSUME NEW x \in Int
    PROVE  x \div 10 \in Int /\ x % 10 \in 0..9 /\ x = 10 * (x \div 10) + (x % 10)
OBVIOUS

\* One column: a0 is the sum of the totals to its left, c1 the column to its
\* right.
Column(a0, a1, t, c, c1, e0, e1, w) ==
    /\ a0 \in Int /\ t \in Int /\ c \in Int /\ c1 \in Int
    /\ a1 = 10 * a0 + t /\ c = t + (c1 \div 10) /\ w = c % 10
    /\ e1 = a1 + (c1 \div 10) /\ e0 = a0 + (c \div 10)

LEMMA ColumnStep ==
    ASSUME NEW a0, NEW a1, NEW t, NEW c, NEW c1, NEW e0, NEW e1, NEW w,
           Column(a0, a1, t, c, c1, e0, e1, w)
    PROVE  e1 = 10 * e0 + w
<1> DEFINE q == c \div 10
           p == c1 \div 10
<1>1. /\ a0 \in Int /\ t \in Int /\ q \in Int /\ p \in Int /\ w \in Int
      /\ c = 10 * q + w /\ c = t + p /\ a1 = 10 * a0 + t /\ e1 = a1 + p /\ e0 = a0 + q
  BY DivMod DEF Column
<1> HIDE DEF q, p
<1> QED  BY <1>1

\* What a column yields is its total and the carry of the columns to its right;
\* written down, the columns denote the sum of the totals.
Totalled(n, t, count, A) ==
    /\ n \in Nat /\ t \in [1..n -> Int] /\ count \in [0..n -> Int]
    /\ count[0] \div 10 = 0
    /\ \A i \in 1..n : count[i] = t[n + 1 - i] + (count[i - 1] \div 10)
    /\ A \in [0..n -> Int] /\ A[0] = 0 /\ \A k \in 1..n : A[k] = 10 * A[k - 1] + t[k]
Denote(w, n, count, A) ==
    /\ w \in Digits /\ Len(w) = n
    /\ \A k \in 1..n : w[k] = count[n + 1 - k] % 10
    /\ \E E : ReadsFrom(E, w) /\ E[0] = count[n] \div 10 /\ E[n] = A[n]

LEMMA Columns ==
    ASSUME NEW n, NEW t, NEW count, NEW A, Totalled(n, t, count, A)
    PROVE  Denote(Written(count, n), n, count, A)
<1>0. /\ n \in Nat /\ t \in [1..n -> Int] /\ count \in [0..n -> Int]
      /\ count[0] \div 10 = 0
      /\ \A i \in 1..n : count[i] = t[n + 1 - i] + (count[i - 1] \div 10)
      /\ A \in [0..n -> Int] /\ A[0] = 0 /\ \A k \in 1..n : A[k] = 10 * A[k - 1] + t[k]
  BY DEF Totalled
<1> USE <1>0
<1> DEFINE w == Written(count, n)
           E == [k \in 0..n |-> A[k] + (count[n - k] \div 10)]
<1>1. \A i \in 0..n : /\ count[i] \in Int /\ count[i] \div 10 \in Int /\ count[i] % 10 \in 0..9
                      /\ count[i] = 10 * (count[i] \div 10) + (count[i] % 10)
  BY DivMod
<1>2. \A k \in 1..n : n + 1 - k \in 0..n
  OBVIOUS
<1>3. w = [k \in 1..n |-> count[n + 1 - k] % 10]
  BY DEF Written
<1>4. w \in Digits /\ Len(w) = n /\ \A k \in 1..n : w[k] = count[n + 1 - k] % 10
  BY <1>1, <1>2, <1>3 DEF Digits
<1>5. ASSUME NEW k \in 1..n
      PROVE  E[k] = 10 * E[k - 1] + w[k]
  <2> DEFINE j == n + 1 - k
  <2>1. j \in 1..n /\ j - 1 = n - k /\ j = n - (k - 1) /\ k - 1 \in 0..n /\ k \in 0..n
        /\ n + 1 - j = k /\ j \in 0..n /\ j - 1 \in 0..n
    OBVIOUS
  <2>2. count[j] = t[k] + (count[j - 1] \div 10)
    BY <2>1
  <2>3. A[k] = 10 * A[k - 1] + t[k] /\ A[k - 1] \in Int /\ t[k] \in Int
    BY <2>1
  <2>4. E[k] = A[k] + (count[j - 1] \div 10) /\ E[k - 1] = A[k - 1] + (count[j] \div 10)
    BY <2>1
  <2>5. w[k] = count[j] % 10
    BY <1>4
  <2>6. count[j] \in Int /\ count[j - 1] \in Int
    BY <2>1
  <2> HIDE DEF j, E, w
  <2>7. Column(A[k - 1], A[k], t[k], count[j], count[j - 1], E[k - 1], E[k], w[k])
    BY <2>2, <2>3, <2>4, <2>5, <2>6 DEF Column
  <2> QED  BY <2>7, ColumnStep
<1>6. \A k \in 0..n : E[k] \in Int
  <2> TAKE k \in 0..n
  <2>1. n - k \in 0..n
    OBVIOUS
  <2> QED  BY <1>1, <2>1
<1>7. E \in [0..n -> Int]
  BY <1>6
<1>8. E[0] = count[n] \div 10 /\ E[n] = A[n]
  <2>1. n - 0 = n /\ n - n = 0 /\ 0 \in 0..n /\ n \in 0..n
    OBVIOUS
  <2>2. A[n] \in Int /\ count[n] \div 10 \in Int
    BY <1>1, <2>1
  <2> QED  BY <2>1, <2>2
<1> HIDE DEF E, w
<1>9. ReadsFrom(E, w)
  BY <1>4, <1>5, <1>7 DEF ReadsFrom
<1> QED  BY <1>4, <1>8, <1>9 DEF Denote, w

LEMMA FromRightTyped ==
    ASSUME NEW d \in Digits, NEW i \in Nat \ {0}
    PROVE  FromRight(d, i) \in 0..9
<1>1. Len(d) \in Nat /\ \A j \in 1..Len(d) : d[j] \in 0..9
  BY DigitTyped
<1>2. i <= Len(d) => Len(d) + 1 - i \in 1..Len(d)
  BY <1>1
<1> QED  BY <1>1, <1>2 DEF FromRight

LEMMA CarryIs ==
    ASSUME NEW x \in 0..19
    PROVE  x \div 10 = IF x > 9 THEN 1 ELSE 0
<1>1. x \in Int
  OBVIOUS
<1> QED  BY <1>1, DivMod

LEMMA BorrowIs ==
    ASSUME NEW x \in (-10)..9
    PROVE  x \div 10 = - (IF x < 0 THEN 1 ELSE 0)
<1>1. x \in Int
  OBVIOUS
<1> QED  BY <1>1, DivMod

LEMMA NoBorrow ==
    ASSUME NEW x \in (-10)..9, x >= 0
    PROVE  x \div 10 = 0
<1> DEFINE q == x \div 10
           y == x % 10
<1>1. x \in 0..9
  OBVIOUS
<1>2. q \in Int /\ y \in 0..9 /\ x = 10 * q + y
  BY <1>1, DivMod
<1> HIDE DEF q, y
<1>3. q = 0
  BY <1>1, <1>2
<1> QED  BY <1>3 DEF q

\* A number is read the same with zeros in front, n digits in all.
PaddedRead(P, d, n) ==
    /\ P \in [0..n -> Int] /\ P[0] = 0 /\ P[n] = Magnitude(d)
    /\ \A k \in 1..n : P[k] = 10 * P[k - 1] + FromRight(d, n + 1 - k)

LEMMA Padded ==
    ASSUME NEW d \in Digits, NEW n \in Nat, Len(d) <= n
    PROVE  \E P : PaddedRead(P, d, n)
<1> DEFINE m == Len(d)
           D == PrefixValues(d)
           P == [k \in 0..n |-> IF k <= n - m THEN 0 ELSE D[k - (n - m)]]
<1>1. /\ m \in Nat /\ m <= n /\ D \in [0..m -> Int] /\ D[0] = 0 /\ D[m] = Magnitude(d)
      /\ \A i \in 1..m : D[i] = 10 * D[i - 1] + d[i]
  BY DigitTyped, PrefixValuesAre DEF ReadsFrom, Magnitude
<1> HIDE DEF D, m
<1>2. P \in [0..n -> Int] /\ P[0] = 0
  BY <1>1
<1>3. P[n] = Magnitude(d)
  <2>1. CASE m = 0
    BY <1>1, <2>1
  <2>2. CASE m # 0
    <3>1. ~(n <= n - m) /\ n - (n - m) = m /\ n \in 0..n
      BY <1>1, <2>2
    <3> QED  BY <1>1, <3>1
  <2> QED  BY <2>1, <2>2
<1>4. ASSUME NEW k \in 1..n
      PROVE  P[k] = 10 * P[k - 1] + FromRight(d, n + 1 - k)
  <2>1. CASE k <= n - m
    <3>1. k - 1 <= n - m /\ ~(n + 1 - k <= m) /\ k \in 0..n /\ k - 1 \in 0..n
      BY <1>1, <2>1
    <3> QED  BY <2>1, <3>1 DEF FromRight, m
  <2>2. CASE ~(k <= n - m)
    <3> DEFINE i == k - (n - m)
    <3>1. /\ i \in 1..m /\ n + 1 - k <= m /\ m + 1 - (n + 1 - k) = i /\ k \in 0..n /\ k - 1 \in 0..n
          /\ (k - 1) - (n - m) = i - 1
      BY <1>1, <2>2
    <3>2. P[k] = D[i] /\ FromRight(d, n + 1 - k) = d[i]
      BY <2>2, <3>1 DEF FromRight, m
    <3>3. P[k - 1] = D[i - 1]
      <4>1. CASE i = 1
        <5>1. k - 1 <= n - m /\ i - 1 = 0
          BY <1>1, <3>1, <4>1
        <5> QED  BY <1>1, <3>1, <5>1
      <4>2. CASE i # 1
        <5>1. ~(k - 1 <= n - m)
          BY <1>1, <3>1, <4>2
        <5> QED  BY <3>1, <5>1
      <4> QED  BY <4>1, <4>2
    <3> HIDE DEF i, P
    <3> QED  BY <1>1, <3>1, <3>2, <3>3
  <2> QED  BY <2>1, <2>2
<1> HIDE DEF P
<1>5. PaddedRead(P, d, n)
  BY <1>2, <1>3, <1>4 DEF PaddedRead
<1> QED  BY <1>5

LEMMA SumsAre ==
    ASSUME NEW l \in Digits, NEW r \in Digits
    PROVE  /\ Sums(l, r) \in [0..Len(l) -> 0..19] /\ Sums(l, r)[0] = 0
           /\ \A i \in 1..Len(l) : Sums(l, r)[i] = FromRight(l, i) + FromRight(r, i) + (Sums(l, r)[i - 1] \div 10)
<1> DEFINE N == Len(l)
           V == 0..19
           At(i, x) == FromRight(l, i) + FromRight(r, i) + (IF x > 9 THEN 1 ELSE 0)
           F == [i \in 1..N |-> [x \in V |-> At(i, x)]]
           c == CHOOSE c : c = [i \in 0..Len(l) |-> IF i = 0 THEN 0 ELSE At(i, c[i - 1])]
<1>1. N \in Nat /\ \A i \in 1..N : FromRight(l, i) \in 0..9 /\ FromRight(r, i) \in 0..9
  BY DigitTyped, FromRightTyped
<1>2. ASSUME NEW i \in 1..N, NEW x \in V
      PROVE  At(i, x) \in V /\ At(i, x) = FromRight(l, i) + FromRight(r, i) + (x \div 10)
  <2> DEFINE q == x \div 10
             a == FromRight(l, i)
             b == FromRight(r, i)
  <2>1. a \in 0..9 /\ b \in 0..9 /\ x \in V
    BY <1>1
  <2>2. q = IF x > 9 THEN 1 ELSE 0
    BY CarryIs
  <2>3. At(i, x) = a + b + (IF x > 9 THEN 1 ELSE 0)
    OBVIOUS
  <2> HIDE DEF q, a, b, At
  <2>4. At(i, x) \in V /\ At(i, x) = a + b + q
    BY <2>1, <2>2, <2>3
  <2> QED  BY <2>4 DEF q, a, b
<1> HIDE DEF At
<1>3. F \in [1..N -> [V -> V]]
  BY <1>2
<1>4. PICK g : Along(g, N, V, 0, F)
  <2>1. 0 \in V /\ N \in Nat
    BY <1>1
  <2> HIDE DEF F, N, V
  <2> QED  BY <1>3, <2>1, Recursion, Zenon
<1>5. g \in [0..N -> V] /\ g[0] = 0 /\ \A i \in 1..N : g[i] = F[i][g[i - 1]]
  BY <1>4 DEF Along
<1>6. ASSUME NEW i \in 1..N
      PROVE  g[i] = At(i, g[i - 1])
  <2> HIDE DEF V
  <2>1. g[i - 1] \in V
    BY <1>1, <1>5
  <2>2. F[i][g[i - 1]] = At(i, g[i - 1])
    BY <2>1
  <2> HIDE DEF F
  <2> QED  BY <1>5, <2>2
<1>7. g = [i \in 0..N |-> IF i = 0 THEN 0 ELSE At(i, g[i - 1])]
  BY <1>1, <1>5, <1>6
<1>8. c = [i \in 0..N |-> IF i = 0 THEN 0 ELSE At(i, c[i - 1])]
  BY <1>7
<1>9. Sums(l, r) = c
  BY DEF Sums, At
<1> HIDE DEF c
<1>10. c[0] = 0 /\ \A i \in 1..N : c[i] = At(i, c[i - 1])
  BY <1>1, <1>8
<1>11. \A i \in 0..N : c[i] \in V
  <2> DEFINE S == {i \in 0..N : c[i] \in V}
  <2>1. 0 \in S
    BY <1>1, <1>10
  <2>2. ASSUME NEW n \in 0..(N - 1), n \in S
        PROVE  n + 1 \in S
    <3> HIDE DEF V
    <3>1. n + 1 \in 1..N /\ (n + 1) - 1 = n /\ n + 1 \in 0..N
      BY <1>1
    <3>2. c[n + 1] = At(n + 1, c[n]) /\ c[n] \in V
      BY <1>10, <2>2, <3>1
    <3> QED  BY <1>2, <3>1, <3>2
  <2>3. 0..N \subseteq S
    <3> HIDE DEF S, N
    <3> QED  BY <1>1, <2>1, <2>2, UpTo
  <2> QED  BY <2>3
<1>12. c \in [0..N -> V]
  <2>1. c = [i \in 0..N |-> c[i]]
    BY <1>8
  <2> HIDE DEF V
  <2> QED  BY <1>11, <2>1
<1>13. ASSUME NEW i \in 1..N
       PROVE  c[i] = FromRight(l, i) + FromRight(r, i) + (c[i - 1] \div 10)
  <2>1. c[i] = At(i, c[i - 1]) /\ c[i - 1] \in V
    BY <1>1, <1>10, <1>11
  <2> HIDE DEF V
  <2> QED  BY <1>2, <2>1
<1> QED  BY <1>9, <1>10, <1>12, <1>13

LEMMA DifferencesAre ==
    ASSUME NEW l \in Digits, NEW r \in Digits
    PROVE  /\ Differences(l, r) \in [0..Len(l) -> (-10)..9] /\ Differences(l, r)[0] = 0
           /\ \A i \in 1..Len(l) : Differences(l, r)[i] = FromRight(l, i) - FromRight(r, i) + (Differences(l, r)[i - 1] \div 10)
<1> DEFINE N == Len(l)
           V == (-10)..9
           At(i, x) == FromRight(l, i) - FromRight(r, i) - (IF x < 0 THEN 1 ELSE 0)
           F == [i \in 1..N |-> [x \in V |-> At(i, x)]]
           c == CHOOSE c : c = [i \in 0..Len(l) |-> IF i = 0 THEN 0 ELSE At(i, c[i - 1])]
<1>1. N \in Nat /\ \A i \in 1..N : FromRight(l, i) \in 0..9 /\ FromRight(r, i) \in 0..9
  BY DigitTyped, FromRightTyped
<1>2. ASSUME NEW i \in 1..N, NEW x \in V
      PROVE  At(i, x) \in V /\ At(i, x) = FromRight(l, i) - FromRight(r, i) + (x \div 10)
  <2> DEFINE q == x \div 10
             a == FromRight(l, i)
             b == FromRight(r, i)
  <2>1. a \in 0..9 /\ b \in 0..9 /\ x \in V
    BY <1>1
  <2>2. q = - (IF x < 0 THEN 1 ELSE 0)
    BY BorrowIs
  <2>3. At(i, x) = a - b - (IF x < 0 THEN 1 ELSE 0)
    OBVIOUS
  <2> HIDE DEF q, a, b, At
  <2>4. At(i, x) \in V /\ At(i, x) = a - b + q
    BY <2>1, <2>2, <2>3
  <2> QED  BY <2>4 DEF q, a, b
<1> HIDE DEF At
<1>3. F \in [1..N -> [V -> V]]
  BY <1>2
<1>4. PICK g : Along(g, N, V, 0, F)
  <2>1. 0 \in V /\ N \in Nat
    BY <1>1
  <2> HIDE DEF F, N, V
  <2> QED  BY <1>3, <2>1, Recursion, Zenon
<1>5. g \in [0..N -> V] /\ g[0] = 0 /\ \A i \in 1..N : g[i] = F[i][g[i - 1]]
  BY <1>4 DEF Along
<1>6. ASSUME NEW i \in 1..N
      PROVE  g[i] = At(i, g[i - 1])
  <2> HIDE DEF V
  <2>1. g[i - 1] \in V
    BY <1>1, <1>5
  <2>2. F[i][g[i - 1]] = At(i, g[i - 1])
    BY <2>1
  <2> HIDE DEF F
  <2> QED  BY <1>5, <2>2
<1>7. g = [i \in 0..N |-> IF i = 0 THEN 0 ELSE At(i, g[i - 1])]
  BY <1>1, <1>5, <1>6
<1>8. c = [i \in 0..N |-> IF i = 0 THEN 0 ELSE At(i, c[i - 1])]
  BY <1>7
<1>9. Differences(l, r) = c
  BY DEF Differences, At
<1> HIDE DEF c
<1>10. c[0] = 0 /\ \A i \in 1..N : c[i] = At(i, c[i - 1])
  BY <1>1, <1>8
<1>11. \A i \in 0..N : c[i] \in V
  <2> DEFINE S == {i \in 0..N : c[i] \in V}
  <2>1. 0 \in S
    BY <1>1, <1>10
  <2>2. ASSUME NEW n \in 0..(N - 1), n \in S
        PROVE  n + 1 \in S
    <3> HIDE DEF V
    <3>1. n + 1 \in 1..N /\ (n + 1) - 1 = n /\ n + 1 \in 0..N
      BY <1>1
    <3>2. c[n + 1] = At(n + 1, c[n]) /\ c[n] \in V
      BY <1>10, <2>2, <3>1
    <3> QED  BY <1>2, <3>1, <3>2
  <2>3. 0..N \subseteq S
    <3> HIDE DEF S, N
    <3> QED  BY <1>1, <2>1, <2>2, UpTo
  <2> QED  BY <2>3
<1>12. c \in [0..N -> V]
  <2>1. c = [i \in 0..N |-> c[i]]
    BY <1>8
  <2> HIDE DEF V
  <2> QED  BY <1>11, <2>1
<1>13. ASSUME NEW i \in 1..N
       PROVE  c[i] = FromRight(l, i) - FromRight(r, i) + (c[i - 1] \div 10)
  <2>1. c[i] = At(i, c[i - 1]) /\ c[i - 1] \in V
    BY <1>1, <1>10, <1>11
  <2> HIDE DEF V
  <2> QED  BY <1>2, <2>1
<1> QED  BY <1>9, <1>10, <1>12, <1>13

(***************************************************************************)
(* Addition.                                                               *)
(***************************************************************************)
LEMMA ZeroIs == /\ <<0>> \in Digits /\ Normal(<<0>>) /\ Len(<<0>>) = 1 /\ Magnitude(<<0>>) = 0
<1> DEFINE P == [i \in 0..1 |-> 0]
<1>1. <<0>> \in Digits /\ Normal(<<0>>) /\ Len(<<0>>) = 1 /\ <<0>>[1] = 0
  BY DEF Digits, Normal
<1>2. ReadsFrom(P, <<0>>) /\ P[0] = 0 /\ P[1] = 0
  <2>1. \A i \in 1..1 : P[i] = 10 * P[i - 1] + <<0>>[i]
    BY <1>1
  <2> QED  BY <1>1, <2>1 DEF ReadsFrom
<1> HIDE DEF P
<1> QED  BY <1>1, <1>2, MagnitudeIs

\* The totals of the columns and what they denote together.
LEMMA PairRead ==
    ASSUME NEW l \in Digits, NEW r \in Digits, Len(r) <= Len(l)
    PROVE  LET n == Len(l) IN
           /\ \E A : /\ A \in [0..n -> Int] /\ A[0] = 0 /\ A[n] = Magnitude(l) + Magnitude(r)
                     /\ \A k \in 1..n : A[k] = 10 * A[k - 1] + (l[k] + FromRight(r, n + 1 - k))
           /\ \E A : /\ A \in [0..n -> Int] /\ A[0] = 0 /\ A[n] = Magnitude(l) - Magnitude(r)
                     /\ \A k \in 1..n : A[k] = 10 * A[k - 1] + (l[k] - FromRight(r, n + 1 - k))
<1> DEFINE n == Len(l)
           L == PrefixValues(l)
<1>1. n \in Nat /\ \A k \in 1..n : l[k] \in Int /\ FromRight(r, n + 1 - k) \in Int
  <2>1. n \in Nat /\ \A k \in 1..n : l[k] \in Nat /\ n + 1 - k \in Nat \ {0}
    BY DigitTyped
  <2>2. \A k \in 1..n : FromRight(r, n + 1 - k) \in 0..9
    BY <2>1, FromRightTyped
  <2> QED  BY <2>1, <2>2
<1>2. /\ L \in [0..n -> Int] /\ L[0] = 0 /\ L[n] = Magnitude(l)
      /\ \A k \in 1..n : L[k] = 10 * L[k - 1] + l[k]
  BY PrefixValuesAre DEF ReadsFrom, Magnitude
<1>3. PICK R : /\ R \in [0..n -> Int] /\ R[0] = 0 /\ R[n] = Magnitude(r)
               /\ \A k \in 1..n : R[k] = 10 * R[k - 1] + FromRight(r, n + 1 - k)
  <2>1. PICK R : PaddedRead(R, r, n)
    BY <1>1, Padded
  <2> QED  BY <2>1 DEF PaddedRead
<1> HIDE DEF L, n
<1>4. ASSUME NEW k \in 1..n
      PROVE  /\ L[k] + R[k] = 10 * (L[k - 1] + R[k - 1]) + (l[k] + FromRight(r, n + 1 - k))
             /\ L[k] - R[k] = 10 * (L[k - 1] - R[k - 1]) + (l[k] - FromRight(r, n + 1 - k))
  <2> DEFINE f == FromRight(r, n + 1 - k)
  <2>1. k - 1 \in 0..n /\ k \in 0..n
    BY <1>1
  <2>2. /\ L[k - 1] \in Int /\ R[k - 1] \in Int /\ l[k] \in Int /\ f \in Int
        /\ L[k] = 10 * L[k - 1] + l[k] /\ R[k] = 10 * R[k - 1] + f
    BY <1>1, <1>2, <1>3, <2>1
  <2> DEFINE a == L[k - 1]
             b == R[k - 1]
             x == l[k]
  <2>3. a \in Int /\ b \in Int /\ x \in Int /\ f \in Int /\ L[k] = 10 * a + x /\ R[k] = 10 * b + f
    BY <2>2
  <2> HIDE DEF a, b, x, f
  <2>4. /\ L[k] + R[k] = 10 * (a + b) + (x + f)
        /\ L[k] - R[k] = 10 * (a - b) + (x - f)
    BY <2>3
  <2> QED  BY <2>4 DEF a, b, x, f
<1> DEFINE A == [k \in 0..n |-> L[k] + R[k]]
           B == [k \in 0..n |-> L[k] - R[k]]
<1>5. /\ A \in [0..n -> Int] /\ A[0] = 0 /\ A[n] = Magnitude(l) + Magnitude(r)
      /\ B \in [0..n -> Int] /\ B[0] = 0 /\ B[n] = Magnitude(l) - Magnitude(r)
  BY <1>1, <1>2, <1>3
<1>6. ASSUME NEW k \in 1..n
      PROVE  /\ A[k] = 10 * A[k - 1] + (l[k] + FromRight(r, n + 1 - k))
             /\ B[k] = 10 * B[k - 1] + (l[k] - FromRight(r, n + 1 - k))
  <2>1. k - 1 \in 0..n /\ k \in 0..n
    BY <1>1
  <2>2. A[k] = L[k] + R[k] /\ A[k - 1] = L[k - 1] + R[k - 1]
        /\ B[k] = L[k] - R[k] /\ B[k - 1] = L[k - 1] - R[k - 1]
    BY <2>1
  <2> HIDE DEF A, B
  <2> QED  BY <1>4, <2>2, Zenon
<1> HIDE DEF A, B
<1>7. \E D : /\ D \in [0..n -> Int] /\ D[0] = 0 /\ D[n] = Magnitude(l) + Magnitude(r)
             /\ \A k \in 1..n : D[k] = 10 * D[k - 1] + (l[k] + FromRight(r, n + 1 - k))
  BY <1>5, <1>6, Zenon
<1>8. \E D : /\ D \in [0..n -> Int] /\ D[0] = 0 /\ D[n] = Magnitude(l) - Magnitude(r)
             /\ \A k \in 1..n : D[k] = 10 * D[k - 1] + (l[k] - FromRight(r, n + 1 - k))
  BY <1>5, <1>6, Zenon
<1> QED  BY <1>7, <1>8, Zenon DEF n

\* The larger number first: the sum, as long as that number or with a 1 in
\* front of it.
LEMMA AddLargerIs ==
    ASSUME NEW l \in Digits, NEW r \in Digits, Len(r) <= Len(l)
    PROVE  /\ AddLarger(l, r) \in Digits
           /\ Magnitude(AddLarger(l, r)) = Magnitude(l) + Magnitude(r)
           /\ \/ Len(AddLarger(l, r)) = Len(l)
              \/ Len(AddLarger(l, r)) = Len(l) + 1 /\ AddLarger(l, r)[1] = 1
           /\ Normal(l) => Normal(AddLarger(l, r))
<1> DEFINE n == Len(l)
           c == Sums(l, r)
           w == Written(c, n)
           t == [k \in 1..n |-> l[k] + FromRight(r, n + 1 - k)]
<1>1. n \in Nat /\ \A k \in 1..n : l[k] \in 0..9 /\ FromRight(r, n + 1 - k) \in 0..9
  <2>1. n \in Nat /\ \A k \in 1..n : l[k] \in 0..9 /\ n + 1 - k \in Nat \ {0}
    BY DigitTyped
  <2> QED  BY <2>1, FromRightTyped
<1>2. CASE r = <<0>>
  <2>1. AddLarger(l, r) = l
    BY <1>2 DEF AddLarger
  <2> QED  BY <1>1, <1>2, <2>1, ZeroIs, MagnitudeNat
<1>3. CASE r # <<0>>
  <2>1. /\ c \in [0..n -> 0..19] /\ c[0] = 0
        /\ \A i \in 1..n : c[i] = FromRight(l, i) + FromRight(r, i) + (c[i - 1] \div 10)
    BY SumsAre
  <2>2. \A i \in 1..n : t[n + 1 - i] = FromRight(l, i) + FromRight(r, i)
    <3> TAKE i \in 1..n
    <3>1. n + 1 - i \in 1..n /\ n + 1 - (n + 1 - i) = i /\ i <= Len(l)
      BY <1>1
    <3> QED  BY <3>1 DEF FromRight
  <2>3. t \in [1..n -> Int]
    <3>1. \A k \in 1..n : l[k] + FromRight(r, n + 1 - k) \in Int
      <4> TAKE k \in 1..n
      <4>1. l[k] \in 0..9 /\ FromRight(r, n + 1 - k) \in 0..9
        BY <1>1
      <4> DEFINE f == FromRight(r, n + 1 - k)
      <4> HIDE DEF f
      <4> QED  BY <4>1 DEF f
    <3> HIDE DEF n
    <3> QED  BY <3>1
  <2>4. c \in [0..n -> Int] /\ c[0] \div 10 = 0
    <3> DEFINE V == 0..19
    <3>1. V \subseteq Int /\ 0 \div 10 = 0
      OBVIOUS
    <3>2. c \in [0..n -> V] /\ c[0] = 0
      BY <2>1
    <3> HIDE DEF c, n, V
    <3> QED  BY <3>1, <3>2
  <2>5. PICK A : /\ A \in [0..n -> Int] /\ A[0] = 0 /\ A[n] = Magnitude(l) + Magnitude(r)
                 /\ \A k \in 1..n : A[k] = 10 * A[k - 1] + t[k]
    BY PairRead
  <2> HIDE DEF c, w, t, n
  <2>6. \A i \in 1..n : c[i] = t[n + 1 - i] + (c[i - 1] \div 10)
    BY <2>1, <2>2
  <2>7. /\ w \in Digits /\ Len(w) = n
        /\ \A k \in 1..n : w[k] = c[n + 1 - k] % 10
        /\ \E E : ReadsFrom(E, w) /\ E[0] = c[n] \div 10 /\ E[n] = A[n]
    <3>1. Totalled(n, t, c, A)
      BY <1>1, <2>3, <2>4, <2>5, <2>6 DEF Totalled
    <3>2. Denote(Written(c, n), n, c, A)
      BY <3>1, Columns
    <3> QED  BY <3>2 DEF Denote, w
  <2>8. PICK E : ReadsFrom(E, w) /\ E[0] = c[n] \div 10 /\ E[n] = Magnitude(l) + Magnitude(r)
    BY <2>5, <2>7
  <2>9. c[n] \in 0..19 /\ c[n] \div 10 = IF c[n] > 9 THEN 1 ELSE 0
    <3>1. c[n] \in 0..19
      BY <1>1, <2>1
    <3> QED  BY <3>1, CarryIs
  <2>10. CASE c[n] > 9
    <3>1. AddLarger(l, r) = <<1>> \o w
      BY <1>3, <2>10 DEF AddLarger, c, w, n
    <3>2. E[0] = 1
      BY <2>8, <2>9, <2>10
    <3>3. /\ <<1>> \o w \in Digits /\ Len(<<1>> \o w) = n + 1 /\ (<<1>> \o w)[1] = 1
          /\ Magnitude(<<1>> \o w) = E[n]
      BY <2>7, <2>8, <3>2, MagnitudeAfter
    <3> QED  BY <1>1, <2>8, <3>1, <3>3 DEF Normal, n
  <2>11. CASE ~(c[n] > 9)
    <3>1. AddLarger(l, r) = w
      BY <1>3, <2>11 DEF AddLarger, c, w, n
    <3>2. E[0] = 0
      BY <2>8, <2>9, <2>11
    <3>3. Magnitude(w) = E[n]
      BY <2>7, <2>8, <3>2, MagnitudeIs
    <3>4. ASSUME Normal(l)
          PROVE  Normal(w)
      <4>1. n >= 1 /\ (n > 1 => l[1] # 0)
        BY <3>4 DEF Normal, n
      <4>2. w[1] = c[n] % 10 /\ c[n] = t[1] + (c[n - 1] \div 10) /\ t[1] = l[1] + FromRight(r, n)
        <5>1. n \in 1..n /\ n + 1 - n = 1 /\ 1 \in 1..n /\ n + 1 - 1 = n
          BY <1>1, <4>1
        <5>2. t[1] = l[1] + FromRight(r, n)
          BY <5>1 DEF t
        <5> QED  BY <2>6, <2>7, <5>1, <5>2
      <4>3. c[n - 1] \div 10 \in {0, 1} /\ l[1] \in 0..9 /\ FromRight(r, n) \in 0..9
        <5>1. n - 1 \in 0..n /\ 1 \in 1..n /\ n + 1 - 1 = n
          BY <1>1, <4>1
        <5>2. c[n - 1] \in 0..19
          BY <2>1, <5>1
        <5> QED  BY <1>1, <5>1, <5>2, CarryIs
      <4>4. c[n] % 10 = c[n]
        BY <2>9, <2>11
      <4>5. n > 1 => w[1] # 0
        <5> DEFINE a == l[1]
                   b == FromRight(r, n)
                   q == c[n - 1] \div 10
        <5>1. a \in 0..9 /\ b \in 0..9 /\ q \in {0, 1} /\ w[1] = a + b + q
          BY <4>2, <4>3, <4>4
        <5>2. n > 1 => a # 0
          BY <4>1
        <5> HIDE DEF a, b, q
        <5> QED  BY <5>1, <5>2
      <4> QED  BY <2>7, <4>1, <4>5 DEF Normal
    <3> QED  BY <2>7, <2>8, <3>1, <3>3, <3>4 DEF n
  <2> QED  BY <2>10, <2>11
<1> QED  BY <1>2, <1>3

(***************************************************************************)
(* Comparison.                                                             *)
(***************************************************************************)
\* Two numbers of n digits that first differ in digit i, a's the smaller one.
FirstAt(i, n, a, b, A, B) ==
    /\ n \in Nat /\ a \in [1..n -> 0..9] /\ b \in [1..n -> 0..9] /\ i \in 1..n
    /\ A \in [0..n -> Int] /\ \A k \in 1..n : A[k] = 10 * A[k - 1] + a[k]
    /\ B \in [0..n -> Int] /\ \A k \in 1..n : B[k] = 10 * B[k - 1] + b[k]
    /\ A[0] = B[0] /\ (\A j \in 1..(i - 1) : a[j] = b[j]) /\ a[i] < b[i]

LEMMA Lexical ==
    ASSUME NEW n, NEW a, NEW b, NEW A, NEW B, NEW i, FirstAt(i, n, a, b, A, B)
    PROVE  A[n] < B[n]
<1>0. /\ n \in Nat /\ a \in [1..n -> 0..9] /\ b \in [1..n -> 0..9] /\ i \in 1..n
      /\ A \in [0..n -> Int] /\ \A k \in 1..n : A[k] = 10 * A[k - 1] + a[k]
      /\ B \in [0..n -> Int] /\ \A k \in 1..n : B[k] = 10 * B[k - 1] + b[k]
      /\ A[0] = B[0] /\ (\A j \in 1..(i - 1) : a[j] = b[j]) /\ a[i] < b[i]
  BY DEF FirstAt
<1> DEFINE S == {k \in 0..n : IF k < i THEN A[k] = B[k] ELSE A[k] < B[k]}
<1>1. 0 \in S
  BY <1>0
<1>2. ASSUME NEW k \in 0..(n - 1), k \in S
      PROVE  k + 1 \in S
  <2> DEFINE x == A[k]
             y == B[k]
             u == a[k + 1]
             v == b[k + 1]
  <2>1. k + 1 \in 1..n /\ (k + 1) - 1 = k /\ k \in 0..n /\ k + 1 \in 0..n
    BY <1>0
  <2>2. x \in Int /\ y \in Int /\ u \in 0..9 /\ v \in 0..9
    BY <1>0, <2>1
  <2>3. A[k + 1] = 10 * x + u /\ B[k + 1] = 10 * y + v
    BY <1>0, <2>1
  <2>4. IF k < i THEN x = y ELSE x < y
    BY <1>2
  <2>5. /\ k + 1 < i => u = v
        /\ k + 1 = i => u < v
    <3>1. k + 1 < i => k + 1 \in 1..(i - 1)
      BY <1>0, <2>1
    <3> QED  BY <1>0, <3>1
  <2> HIDE DEF x, y, u, v
  <2>6. IF k + 1 < i THEN 10 * x + u = 10 * y + v ELSE 10 * x + u < 10 * y + v
    <3>1. CASE k + 1 < i
      <4>1. k < i
        BY <1>0, <2>1, <3>1
      <4> QED  BY <2>4, <2>5, <3>1, <4>1
    <3>2. CASE k + 1 = i
      <4>1. k < i /\ ~(k + 1 < i)
        BY <1>0, <2>1, <3>2
      <4> QED  BY <2>2, <2>4, <2>5, <3>2, <4>1
    <3>3. CASE k + 1 > i
      <4>1. x < y
        BY <1>0, <2>1, <2>4, <3>3
      <4> QED  BY <1>0, <2>1, <2>2, <3>3, <4>1
    <3> QED  BY <1>0, <2>1, <3>1, <3>2, <3>3
  <2> QED  BY <2>1, <2>3, <2>6
<1>3. 0..n \subseteq S
  <2> HIDE DEF S
  <2> QED  BY <1>0, <1>1, <1>2, UpTo
<1>4. n \in S /\ ~(n < i)
  BY <1>0, <1>3
<1> QED  BY <1>4

LEMMA LessIs ==
    ASSUME NEW l, Normal(l), NEW r, Normal(r), LessThan(l, r)
    PROVE  Magnitude(l) < Magnitude(r)
<1> DEFINE n == Len(r)
           B == PrefixValues(r)
<1>1. /\ l \in Digits /\ r \in Digits /\ n \in Nat /\ n >= 1 /\ Len(l) \in Nat /\ Len(l) >= 1
      /\ r \in [1..n -> 0..9] /\ (n > 1 => r[1] # 0)
  BY DEF Normal, Digits
<1>2. /\ B \in [0..n -> Int] /\ B[0] = 0 /\ B[n] = Magnitude(r)
      /\ \A k \in 1..n : B[k] = 10 * B[k - 1] + r[k]
  BY <1>1, PrefixValuesAre DEF ReadsFrom, Magnitude
<1>3. CASE Len(l) < n
  <2> DEFINE a == [k \in 1..n |-> FromRight(l, n + 1 - k)]
  <2>1. PICK A : /\ A \in [0..n -> Int] /\ A[0] = 0 /\ A[n] = Magnitude(l)
                 /\ \A k \in 1..n : A[k] = 10 * A[k - 1] + FromRight(l, n + 1 - k)
    <3>1. PICK A : PaddedRead(A, l, n)
      BY <1>1, <1>3, Padded
    <3> QED  BY <3>1 DEF PaddedRead
  <2>2. a \in [1..n -> 0..9]
    <3>1. \A k \in 1..n : n + 1 - k \in Nat \ {0}
      BY <1>1
    <3> QED  BY <1>1, <3>1, FromRightTyped
  <2>3. \A k \in 1..n : A[k] = 10 * A[k - 1] + a[k]
    BY <2>1
  <2>4. 1 \in 1..n /\ a[1] < r[1] /\ \A j \in 1..(1 - 1) : a[j] = r[j]
    <3>1. 1 \in 1..n /\ n + 1 - 1 = n /\ ~(n <= Len(l)) /\ n > 1
      BY <1>1, <1>3
    <3>2. a[1] = 0 /\ r[1] \in 0..9 /\ r[1] # 0
      BY <1>1, <3>1 DEF FromRight
    <3> QED  BY <3>1, <3>2
  <2> HIDE DEF a, B, n
  <2>5. FirstAt(1, n, a, r, A, B)
    BY <1>1, <1>2, <2>1, <2>2, <2>3, <2>4 DEF FirstAt
  <2>6. A[n] < B[n]
    BY <2>5, Lexical
  <2> QED  BY <1>2, <2>1, <2>6
<1>4. CASE Len(l) = n /\ TextLess(l, r)
  <2> DEFINE A == PrefixValues(l)
  <2>1. /\ A \in [0..n -> Int] /\ A[0] = 0 /\ A[n] = Magnitude(l)
        /\ \A k \in 1..n : A[k] = 10 * A[k - 1] + l[k]
    BY <1>1, <1>4, PrefixValuesAre DEF ReadsFrom, Magnitude
  <2>2. l \in [1..n -> 0..9] /\ DOMAIN l = 1..n
    BY <1>1, <1>4 DEF Digits
  <2>3. PICK i \in 1..n : (\A j \in 1..(i - 1) : l[j] = r[j]) /\ l[i] < r[i]
    BY <1>4, <2>2 DEF TextLess
  <2> HIDE DEF A, B, n
  <2>4. FirstAt(i, n, l, r, A, B)
    BY <1>1, <1>2, <2>1, <2>2, <2>3 DEF FirstAt
  <2>5. A[n] < B[n]
    BY <2>4, Lexical
  <2> QED  BY <1>2, <2>1, <2>5
<1> QED  BY <1>3, <1>4 DEF LessThan

LEMMA LessTotal ==
    ASSUME NEW l \in Digits, NEW r \in Digits, ~ LessThan(l, r), ~ LessThan(r, l)
    PROVE  l = r
<1> DEFINE n == Len(l)
           T == {i \in 1..n : l[i] # r[i]}
<1>1. /\ n \in Nat /\ Len(r) = n /\ DOMAIN l = 1..n /\ DOMAIN r = 1..n
      /\ l = [i \in 1..n |-> l[i]] /\ r = [i \in 1..n |-> r[i]]
      /\ \A i \in 1..n : l[i] \in 0..9 /\ r[i] \in 0..9
  <2>1. n \in Nat /\ Len(r) \in Nat
    BY DigitTyped
  <2>2. Len(r) = n
    BY <2>1 DEF LessThan
  <2> QED  BY <2>1, <2>2 DEF Digits
<1>2. ~ TextLess(l, r) /\ ~ TextLess(r, l)
  BY <1>1 DEF LessThan
<1>3. CASE T = {}
  BY <1>1, <1>3
<1>4. CASE T # {}
  <2>1. PICK i \in T : \A m \in T : i <= m
    <3>1. T \subseteq Nat
      BY <1>1
    <3> HIDE DEF T
    <3> QED  BY <1>4, <3>1, NatLeast
  <2>2. i \in 1..n /\ \A j \in 1..(i - 1) : j \in 1..n /\ l[j] = r[j]
    BY <1>1, <2>1
  <2>3. l[i] < r[i] \/ r[i] < l[i]
    <3> DEFINE a == l[i]
               b == r[i]
    <3>1. a \in 0..9 /\ b \in 0..9
      BY <1>1, <2>2
    <3>2. a # b
      OBVIOUS
    <3> HIDE DEF a, b
    <3>3. a < b \/ b < a
      BY <3>1, <3>2
    <3> QED  BY <3>3 DEF a, b
  <2> QED  BY <1>1, <1>2, <2>2, <2>3 DEF TextLess
<1> QED  BY <1>3, <1>4

\* The order of the texts is that of the numbers, and one number has one text.
LEMMA LessThanIs ==
    ASSUME NEW l, Normal(l), NEW r, Normal(r)
    PROVE  /\ LessThan(l, r) <=> Magnitude(l) < Magnitude(r)
           /\ l = r <=> Magnitude(l) = Magnitude(r)
<1>1. Magnitude(l) \in Nat /\ Magnitude(r) \in Nat /\ l \in Digits /\ r \in Digits
  BY MagnitudeNat DEF Normal
<1>2. LessThan(l, r) => Magnitude(l) < Magnitude(r)
  BY LessIs
<1>3. LessThan(r, l) => Magnitude(r) < Magnitude(l)
  BY LessIs
<1>4. LessThan(l, r) \/ LessThan(r, l) \/ l = r
  BY <1>1, LessTotal
<1> QED  BY <1>1, <1>2, <1>3, <1>4

LEMMA AddDigitsIs ==
    ASSUME NEW l, Normal(l), NEW r, Normal(r)
    PROVE  /\ Normal(AddDigits(l, r))
           /\ Magnitude(AddDigits(l, r)) = Magnitude(l) + Magnitude(r)
<1>1. /\ l \in Digits /\ r \in Digits /\ Len(l) \in Nat /\ Len(r) \in Nat
      /\ Magnitude(l) \in Nat /\ Magnitude(r) \in Nat
  BY DigitTyped, MagnitudeNat DEF Normal
<1>2. CASE LessThan(l, r)
  <2>1. Len(l) <= Len(r)
    BY <1>1, <1>2 DEF LessThan
  <2> QED  BY <1>1, <1>2, <2>1, AddLargerIs DEF AddDigits
<1>3. CASE ~ LessThan(l, r)
  <2>1. Len(r) <= Len(l)
    BY <1>1, <1>3 DEF LessThan
  <2> QED  BY <1>1, <1>3, <2>1, AddLargerIs DEF AddDigits
<1> QED  BY <1>2, <1>3

(***************************************************************************)
(* Subtraction.                                                            *)
(***************************************************************************)
LEMMA KeptFrom ==
    ASSUME NEW d \in Digits, NEW f, f \in 1..Len(d), d[f] # 0 \/ f = Len(d),
           \A j \in 1..(f - 1) : d[j] = 0
    PROVE  /\ Normal(SubSeq(d, f, Len(d)))
           /\ Magnitude(SubSeq(d, f, Len(d))) = Magnitude(d)
<1> DEFINE n == Len(d)
           P == PrefixValues(d)
           m == n - f + 1
           g == f - 1
           e == SubSeq(d, f, n)
           Q == [k \in 0..m |-> P[g + k]]
<1>1. n \in Nat /\ f \in 1..n /\ \A i \in 1..n : d[i] \in 0..9
  BY DigitTyped
<1>2. /\ P \in [0..n -> Int] /\ P[0] = 0 /\ P[n] = Magnitude(d)
      /\ \A k \in 1..n : P[k] = 10 * P[k - 1] + d[k]
  BY PrefixValuesAre DEF ReadsFrom, Magnitude
<1>3. e \in Digits /\ Len(e) = m /\ \A k \in 1..m : e[k] = d[g + k]
  <2>1. d \in Seq(0..9) /\ f \in 1..Len(d)
    BY DEF Digits
  <2>2. e \in Seq(0..9) /\ Len(e) = n - f + 1 /\ \A k \in 1..(n - f + 1) : e[k] = d[f + k - 1]
    BY <2>1
  <2>3. \A k \in 1..(n - f + 1) : f + k - 1 = g + k
    BY <1>1
  <2> QED  BY <2>2, <2>3 DEF Digits
<1>4. d[f] # 0 \/ f = n
  OBVIOUS
<1> HIDE DEF P, n, e
<1>5. /\ g \in Nat /\ f = g + 1 /\ m \in Nat /\ m >= 1 /\ g + m = n /\ (m > 1 => f # n)
      /\ \A j \in 1..g : d[j] = 0
  BY <1>1
<1> HIDE DEF m, g
<1>6. P[g] = 0
  <2> DEFINE S == {k \in 0..g : P[k] = 0}
  <2>1. 0 \in S /\ g \in S => P[g] = 0
    BY <1>2, <1>5
  <2>2. ASSUME NEW k \in 0..(g - 1), k \in S
        PROVE  k + 1 \in S
    <3>1. k + 1 \in 1..n /\ k + 1 \in 1..g /\ (k + 1) - 1 = k /\ k + 1 \in 0..g
      BY <1>1, <1>5
    <3>2. P[k + 1] = 10 * P[k] + d[k + 1] /\ d[k + 1] = 0 /\ P[k] = 0
      BY <1>2, <1>5, <2>2, <3>1
    <3> QED  BY <3>1, <3>2
  <2>3. 0..g \subseteq S
    <3>1. 0 \in S
      BY <1>2, <1>5
    <3> HIDE DEF S
    <3> QED  BY <1>5, <2>2, <3>1, UpTo
  <2> QED  BY <1>5, <2>3
<1>7. ASSUME NEW k \in 1..m
      PROVE  Q[k] = 10 * Q[k - 1] + e[k]
  <2>1. /\ g + k \in 1..n /\ (g + k) - 1 = g + (k - 1)
        /\ k \in 0..m /\ k - 1 \in 0..m
    BY <1>1, <1>5
  <2>2. Q[k] = P[g + k] /\ Q[k - 1] = P[g + (k - 1)]
    BY <2>1
  <2> HIDE DEF Q
  <2> QED  BY <1>2, <1>3, <2>1, <2>2
<1>8. Q \in [0..m -> Int] /\ Q[0] = 0 /\ Q[m] = Magnitude(d)
  <2>1. \A k \in 0..m : g + k \in 0..n
    BY <1>1, <1>5
  <2>2. g + 0 = g /\ 0 \in 0..m /\ m \in 0..m
    BY <1>5
  <2> QED  BY <1>2, <1>5, <1>6, <2>1, <2>2
<1> HIDE DEF Q
<1>9. ReadsFrom(Q, e)
  BY <1>3, <1>7, <1>8 DEF ReadsFrom
<1>10. Magnitude(e) = Magnitude(d)
  BY <1>3, <1>8, <1>9, MagnitudeIs
<1>11. Normal(e)
  <2>1. 1 \in 1..m /\ e[1] = d[f]
    BY <1>3, <1>5
  <2> QED  BY <1>3, <1>4, <1>5, <2>1 DEF Normal
<1> QED  BY <1>10, <1>11 DEF e, n

LEMMA TrimIs ==
    ASSUME NEW d \in Digits, Len(d) >= 1
    PROVE  Normal(Trim(d)) /\ Magnitude(Trim(d)) = Magnitude(d)
<1> DEFINE n == Len(d)
           First(i) == (d[i] # 0 \/ i = Len(d)) /\ \A j \in 1..(i - 1) : d[j] = 0
           T == {i \in 1..n : d[i] # 0 \/ i = n}
           f == CHOOSE i \in DOMAIN d : First(i)
<1>1. n \in Nat /\ n >= 1 /\ DOMAIN d = 1..n
  BY DEF Digits
<1>2. \E i \in 1..n : First(i)
  <2>1. n \in T /\ T \subseteq Nat
    BY <1>1
  <2>2. PICK i \in T : \A k \in T : i <= k
    <3> HIDE DEF T
    <3> QED  BY <2>1, NatLeast
  <2>3. i \in 1..n /\ (d[i] # 0 \/ i = Len(d)) /\ \A j \in 1..n : d[j] # 0 => j \in T
    BY <2>2
  <2>4. ASSUME NEW j \in 1..(i - 1)
        PROVE  d[j] = 0
    <3> HIDE DEF n, T
    <3>1. j \in 1..n /\ ~(i <= j)
      BY <1>1, <2>3
    <3> QED  BY <2>2, <2>3, <3>1
  <2> QED  BY <2>3, <2>4
<1>3. f \in 1..n /\ First(f)
  <2> HIDE DEF First
  <2> QED  BY <1>1, <1>2
<1>4. Trim(d) = SubSeq(d, f, n)
  BY DEF Trim
<1> HIDE DEF f
<1> QED  BY <1>3, <1>4, KeptFrom

LEMMA NegativeStays ==
    ASSUME NEW d \in Digits, NEW P, ReadsFrom(P, d), P[0] < 0
    PROVE  P[Len(d)] < 0
<1> DEFINE n == Len(d)
           S == {k \in 0..n : P[k] < 0}
<1>1. /\ n \in Nat /\ P \in [0..n -> Int] /\ \A k \in 1..n : d[k] \in 0..9
      /\ \A k \in 1..n : P[k] = 10 * P[k - 1] + d[k]
  BY DigitTyped DEF ReadsFrom
<1>2. 0 \in S
  BY <1>1
<1>3. ASSUME NEW k \in 0..(n - 1), k \in S
      PROVE  k + 1 \in S
  <2>1. k + 1 \in 1..n /\ (k + 1) - 1 = k /\ k + 1 \in 0..n /\ k \in 0..n
    BY <1>1
  <2>2. P[k + 1] = 10 * P[k] + d[k + 1] /\ d[k + 1] \in 0..9 /\ P[k] \in Int /\ P[k] < 0
    BY <1>1, <1>3, <2>1
  <2>3. P[k + 1] < 0
    BY <2>2
  <2> QED  BY <2>1, <2>3
<1>4. 0..n \subseteq S
  <2> HIDE DEF S, n
  <2> QED  BY <1>1, <1>2, <1>3, UpTo
<1> QED  BY <1>1, <1>4

\* Nothing is left to borrow from the columns beyond the first digit when the
\* smaller number is subtracted: what the assertion at the end of the loop says.
LEMMA SubtractDigitsIs ==
    ASSUME NEW l \in Digits, NEW r \in Digits, Len(r) <= Len(l), Len(l) >= 1,
           Magnitude(r) <= Magnitude(l)
    PROVE  /\ Differences(l, r)[Len(l)] >= 0
           /\ Normal(SubtractDigits(l, r))
           /\ Magnitude(SubtractDigits(l, r)) = Magnitude(l) - Magnitude(r)
<1> DEFINE n == Len(l)
           c == Differences(l, r)
           w == Written(c, n)
           t == [k \in 1..n |-> l[k] - FromRight(r, n + 1 - k)]
<1>1. n \in Nat /\ \A k \in 1..n : l[k] \in 0..9 /\ FromRight(r, n + 1 - k) \in 0..9
  <2>1. n \in Nat /\ \A k \in 1..n : l[k] \in 0..9 /\ n + 1 - k \in Nat \ {0}
    BY DigitTyped
  <2> QED  BY <2>1, FromRightTyped
<1>2. /\ c \in [0..n -> (-10)..9] /\ c[0] = 0
      /\ \A i \in 1..n : c[i] = FromRight(l, i) - FromRight(r, i) + (c[i - 1] \div 10)
  BY DifferencesAre
<1>3. \A i \in 1..n : t[n + 1 - i] = FromRight(l, i) - FromRight(r, i)
  <2> TAKE i \in 1..n
  <2>1. n + 1 - i \in 1..n /\ n + 1 - (n + 1 - i) = i /\ i <= Len(l)
    BY <1>1
  <2> QED  BY <2>1 DEF FromRight
<1>4. t \in [1..n -> Int]
  <2>1. \A k \in 1..n : l[k] - FromRight(r, n + 1 - k) \in Int
    <3> TAKE k \in 1..n
    <3>1. l[k] \in 0..9 /\ FromRight(r, n + 1 - k) \in 0..9
      BY <1>1
    <3> DEFINE f == FromRight(r, n + 1 - k)
    <3> HIDE DEF f
    <3> QED  BY <3>1 DEF f
  <2> HIDE DEF n
  <2> QED  BY <2>1
<1>5. c \in [0..n -> Int] /\ c[0] \div 10 = 0
  <2> HIDE DEF c, n
  <2>1. 0 \div 10 = 0
    OBVIOUS
  <2>2. c \in [0..n -> Int]
    <3> DEFINE V == (-10)..9
    <3>1. V \subseteq Int
      OBVIOUS
    <3>2. c \in [0..n -> V]
      BY <1>2
    <3> HIDE DEF V
    <3> QED  BY <3>1, <3>2
  <2> QED  BY <1>2, <2>1, <2>2
<1>6. PICK A : /\ A \in [0..n -> Int] /\ A[0] = 0 /\ A[n] = Magnitude(l) - Magnitude(r)
               /\ \A k \in 1..n : A[k] = 10 * A[k - 1] + t[k]
  BY PairRead
<1> HIDE DEF c, w, t, n
<1>7. \A i \in 1..n : c[i] = t[n + 1 - i] + (c[i - 1] \div 10)
  BY <1>2, <1>3
<1>8. /\ w \in Digits /\ Len(w) = n
      /\ \E E : ReadsFrom(E, w) /\ E[0] = c[n] \div 10 /\ E[n] = A[n]
  <2>1. Totalled(n, t, c, A)
    BY <1>1, <1>4, <1>5, <1>6, <1>7 DEF Totalled
  <2>2. Denote(Written(c, n), n, c, A)
    BY <2>1, Columns
  <2> QED  BY <2>2 DEF Denote, w
<1>9. PICK E : ReadsFrom(E, w) /\ E[0] = c[n] \div 10 /\ E[n] = Magnitude(l) - Magnitude(r)
  BY <1>6, <1>8
<1>10. c[n] \in (-10)..9 /\ c[n] \div 10 = - (IF c[n] < 0 THEN 1 ELSE 0)
  <2>1. c[n] \in (-10)..9
    BY <1>1, <1>2
  <2> QED  BY <2>1, BorrowIs
<1>11. c[n] >= 0
  <2>1. E[n] >= 0
    BY <1>9, MagnitudeNat
  <2>2. ~(E[0] < 0)
    <3>1. E[0] < 0 => E[n] < 0
      BY <1>8, <1>9, NegativeStays
    <3>2. E[n] \in Int
      BY <1>9, MagnitudeNat
    <3> QED  BY <2>1, <3>1, <3>2
  <2> QED  BY <1>9, <1>10, <2>2
<1>12. E[0] = 0
  <2>1. c[n] \div 10 = 0
    BY <1>10, <1>11, NoBorrow
  <2> QED  BY <1>9, <2>1
<1>13. Magnitude(w) = Magnitude(l) - Magnitude(r)
  BY <1>8, <1>9, <1>12, MagnitudeIs
<1>14. SubtractDigits(l, r) = Trim(w) /\ Len(w) >= 1
  BY <1>8 DEF SubtractDigits, w, c, n
<1> QED  BY <1>8, <1>11, <1>13, <1>14, TrimIs DEF c, n

(***************************************************************************)
(* With a sign.                                                            *)
(***************************************************************************)
\* A number as an integer is printed: one of Big, no zeros in front, no
\* negative zero.
Canonical(x) == \E neg \in BOOLEAN, d \in Digits :
                   x = Big(neg, d) /\ Normal(d) /\ (neg => d # <<0>>)

LEMMA CanonicalParts ==
    ASSUME NEW x, Canonical(x)
    PROVE  /\ x = Big(x.neg, x.digits) /\ x.neg \in BOOLEAN /\ Normal(x.digits)
           /\ x.neg => x.digits # <<0>> /\ Magnitude(x.digits) > 0
           /\ Magnitude(x.digits) \in Nat
           /\ ToInt(x) = IF x.neg THEN - Magnitude(x.digits) ELSE Magnitude(x.digits)
           /\ ToInt(x) \in Int
<1>1. PICK neg \in BOOLEAN, d \in Digits : x = Big(neg, d) /\ Normal(d) /\ (neg => d # <<0>>)
  BY DEF Canonical
<1>2. x.neg = neg /\ x.digits = d
  BY <1>1 DEF Big
<1>3. Magnitude(d) \in Nat
  BY MagnitudeNat
<1>4. d # <<0>> => Magnitude(d) > 0
  BY <1>1, <1>3, ZeroIs, LessThanIs
<1>5. ToInt(x) = IF neg THEN - Magnitude(d) ELSE Magnitude(d)
  BY <1>2, <1>3 DEF ToInt
<1> QED  BY <1>1, <1>2, <1>3, <1>4, <1>5

LEMMA CanonicalIs ==
    ASSUME NEW neg \in BOOLEAN, NEW d, Normal(d), neg => Magnitude(d) # 0
    PROVE  /\ Canonical(Big(neg, d))
           /\ ToInt(Big(neg, d)) = IF neg THEN - Magnitude(d) ELSE Magnitude(d)
<1>1. d \in Digits
  BY DEF Normal
<1>2. neg => d # <<0>>
  BY ZeroIs
<1>3. Canonical(Big(neg, d)) /\ Big(neg, d).neg = neg /\ Big(neg, d).digits = d
  BY <1>1, <1>2 DEF Canonical, Big
<1> QED  BY <1>3, CanonicalParts

LEMMA SignedSumIs ==
    ASSUME NEW neg \in BOOLEAN, NEW l, Normal(l), NEW r, Normal(r),
           neg => l # << 0 >> /\ r # << 0 >>
    PROVE  /\ Canonical(SignedSum(neg, l, r))
           /\ ToInt(SignedSum(neg, l, r)) = IF neg THEN - (Magnitude(l) + Magnitude(r))
                                                   ELSE Magnitude(l) + Magnitude(r)
<1>1. SignedSum(neg, l, r) = Big(neg, AddDigits(l, r))
  BY DEF SignedSum
<1>2. Magnitude(l) \in Nat /\ Magnitude(r) \in Nat
  BY MagnitudeNat DEF Normal
<1>3. /\ Normal(AddDigits(l, r))
      /\ Magnitude(AddDigits(l, r)) = Magnitude(l) + Magnitude(r)
  BY AddDigitsIs
<1>4. neg => Magnitude(l) # 0
  BY ZeroIs, LessThanIs
<1>5. neg => Magnitude(AddDigits(l, r)) # 0
  BY <1>2, <1>3, <1>4
<1> QED  BY <1>1, <1>3, <1>5, CanonicalIs

\* Of two numbers, the one that is not less is as long as the other.
LEMMA SubtractNormal ==
    ASSUME NEW l, Normal(l), NEW r, Normal(r), ~ LessThan(l, r)
    PROVE  /\ Normal(SubtractDigits(l, r))
           /\ Magnitude(SubtractDigits(l, r)) = Magnitude(l) - Magnitude(r)
<1>1. /\ l \in Digits /\ r \in Digits /\ Len(l) \in Nat /\ Len(r) \in Nat /\ Len(l) >= 1
      /\ Magnitude(l) \in Nat /\ Magnitude(r) \in Nat
  BY DigitTyped, MagnitudeNat DEF Normal
<1>2. Len(r) <= Len(l)
  BY <1>1 DEF LessThan
<1>3. Magnitude(r) <= Magnitude(l)
  BY <1>1, LessThanIs
<1> QED  BY <1>1, <1>2, <1>3, SubtractDigitsIs

LEMMA SignedDifferenceIs ==
    ASSUME NEW l, Normal(l), NEW r, Normal(r)
    PROVE  /\ Canonical(SignedDifference(l, r))
           /\ ToInt(SignedDifference(l, r)) = Magnitude(l) - Magnitude(r)
<1>1. Magnitude(l) \in Nat /\ Magnitude(r) \in Nat
  BY MagnitudeNat DEF Normal
<1>2. CASE r = <<0>>
  <2>1. SignedDifference(l, r) = Big(FALSE, l)
    BY <1>2 DEF SignedDifference, Positive
  <2>2. Canonical(Big(FALSE, l)) /\ ToInt(Big(FALSE, l)) = Magnitude(l)
    BY CanonicalIs
  <2>3. Magnitude(r) = 0
    BY <1>2, ZeroIs
  <2>4. Magnitude(l) - Magnitude(r) = Magnitude(l)
    BY <1>1, <2>3
  <2> QED  BY <2>1, <2>2, <2>4
<1>3. CASE r # <<0>> /\ ~ LessThan(l, r)
  <2>1. SignedDifference(l, r) = Big(FALSE, SubtractDigits(l, r))
    BY <1>3 DEF SignedDifference, Positive
  <2>2. /\ Normal(SubtractDigits(l, r))
        /\ Magnitude(SubtractDigits(l, r)) = Magnitude(l) - Magnitude(r)
    BY <1>3, SubtractNormal
  <2> QED  BY <2>1, <2>2, CanonicalIs
<1>4. CASE r # <<0>> /\ LessThan(l, r)
  <2> DEFINE d == IF l = <<0>> THEN r ELSE SubtractDigits(r, l)
  <2>1. SignedDifference(l, r) = Big(TRUE, d)
    BY <1>4 DEF SignedDifference, Positive, Negate, Big
  <2>2. Magnitude(l) < Magnitude(r)
    BY <1>4, LessThanIs
  <2>3. Normal(d) /\ Magnitude(d) = Magnitude(r) - Magnitude(l)
    <3>1. ~ LessThan(r, l)
      BY <1>1, <2>2, LessThanIs
    <3>2. /\ Normal(SubtractDigits(r, l))
          /\ Magnitude(SubtractDigits(r, l)) = Magnitude(r) - Magnitude(l)
      BY <3>1, SubtractNormal
    <3> QED  BY <1>1, <3>2, ZeroIs
  <2> HIDE DEF d
  <2>4. Magnitude(d) # 0
    BY <1>1, <2>2, <2>3
  <2>5. Canonical(Big(TRUE, d)) /\ ToInt(Big(TRUE, d)) = - Magnitude(d)
    BY <2>3, <2>4, CanonicalIs
  <2>6. - (Magnitude(r) - Magnitude(l)) = Magnitude(l) - Magnitude(r)
    BY <1>1
  <2> QED  BY <2>1, <2>3, <2>5, <2>6
<1> QED  BY <1>2, <1>3, <1>4

LEMMA PlusIs ==
    ASSUME NEW x, Canonical(x), NEW y, Canonical(y)
    PROVE  Canonical(Plus(x, y)) /\ ToInt(Plus(x, y)) = ToInt(x) + ToInt(y)
<1> DEFINE l == x.digits
           r == y.digits
           p == Magnitude(l)
           q == Magnitude(r)
<1>1. /\ Normal(l) /\ Normal(r) /\ p \in Nat /\ q \in Nat
      /\ x.neg \in BOOLEAN /\ y.neg \in BOOLEAN
      /\ x.neg => l # <<0>>
      /\ y.neg => r # <<0>>
      /\ ToInt(x) = IF x.neg THEN - p ELSE p
      /\ ToInt(y) = IF y.neg THEN - q ELSE q
  BY CanonicalParts
<1>2. Plus(x, y) = IF x.neg = y.neg THEN SignedSum(x.neg, l, r)
                   ELSE IF x.neg THEN SignedDifference(r, l)
                   ELSE SignedDifference(l, r)
  BY DEF Plus
<1> HIDE DEF l, r
<1>3. CASE x.neg = y.neg
  <2>1. /\ Canonical(SignedSum(x.neg, l, r))
        /\ ToInt(SignedSum(x.neg, l, r)) = IF x.neg THEN - (p + q) ELSE p + q
    BY <1>1, <1>3, SignedSumIs
  <2> HIDE DEF p, q
  <2> QED  BY <1>1, <1>2, <1>3, <2>1
<1>4. CASE x.neg /\ ~ y.neg
  <2>1. Canonical(SignedDifference(r, l)) /\ ToInt(SignedDifference(r, l)) = q - p
    BY <1>1, SignedDifferenceIs
  <2> HIDE DEF p, q
  <2>2. ToInt(x) = - p /\ ToInt(y) = q /\ q - p = (- p) + q
    BY <1>1, <1>4
  <2>3. Plus(x, y) = SignedDifference(r, l)
    BY <1>1, <1>2, <1>4
  <2> QED  BY <2>1, <2>2, <2>3
<1>5. CASE ~ x.neg /\ y.neg
  <2>1. Canonical(SignedDifference(l, r)) /\ ToInt(SignedDifference(l, r)) = p - q
    BY <1>1, SignedDifferenceIs
  <2> HIDE DEF p, q
  <2> QED  BY <1>1, <1>2, <1>5, <2>1
<1> QED  BY <1>1, <1>3, <1>4, <1>5

LEMMA MinusIs ==
    ASSUME NEW x, Canonical(x), NEW y, Canonical(y)
    PROVE  Canonical(Minus(x, y)) /\ ToInt(Minus(x, y)) = ToInt(x) - ToInt(y)
<1> DEFINE l == x.digits
           r == y.digits
           p == Magnitude(l)
           q == Magnitude(r)
<1>1. /\ Normal(l) /\ Normal(r) /\ p \in Nat /\ q \in Nat
      /\ x.neg \in BOOLEAN /\ y.neg \in BOOLEAN /\ y = Big(y.neg, r)
      /\ x.neg => l # <<0>>
      /\ y.neg => r # <<0>>
      /\ ToInt(x) = IF x.neg THEN - p ELSE p
      /\ ToInt(y) = IF y.neg THEN - q ELSE q
  BY CanonicalParts
<1>2. CASE IsZero(y)
  <2>1. Minus(x, y) = x
    BY <1>2 DEF Minus
  <2>2. y.neg = FALSE /\ r = <<0>>
    BY <1>2 DEF IsZero, Positive, Big
  <2>3. q = 0
    BY <2>2, ZeroIs
  <2> HIDE DEF p, q
  <2>4. ToInt(y) = 0 /\ ToInt(x) \in Int
    BY <1>1, <2>2, <2>3
  <2> QED  BY <2>1, <2>4
<1>3. ASSUME ~ IsZero(y)
      PROVE  /\ Minus(x, y) = IF x.neg # y.neg THEN SignedSum(x.neg, l, r)
                              ELSE IF ~ x.neg THEN SignedDifference(l, r)
                              ELSE IF ~ LessThan(r, l) THEN SignedDifference(r, l)
                              ELSE Big(SubtractDigits(l, r) # <<0>>, SubtractDigits(l, r))
             /\ ~ y.neg => r # <<0>>
  <2>1. ~ y.neg => r # <<0>>
    BY <1>1, <1>3 DEF IsZero, Positive
  <2> QED  BY <1>3, <2>1 DEF Minus
<1> HIDE DEF l, r
<1>4. CASE ~ IsZero(y) /\ x.neg # y.neg
  <2>1. /\ Canonical(SignedSum(x.neg, l, r))
        /\ ToInt(SignedSum(x.neg, l, r)) = IF x.neg THEN - (p + q) ELSE p + q
    BY <1>1, <1>3, <1>4, SignedSumIs
  <2> HIDE DEF p, q
  <2> QED  BY <1>1, <1>3, <1>4, <2>1
<1>5. CASE ~ IsZero(y) /\ ~ x.neg /\ ~ y.neg
  <2>1. Canonical(SignedDifference(l, r)) /\ ToInt(SignedDifference(l, r)) = p - q
    BY <1>1, SignedDifferenceIs
  <2> HIDE DEF p, q
  <2> QED  BY <1>1, <1>3, <1>5, <2>1
<1>6. CASE ~ IsZero(y) /\ x.neg /\ y.neg /\ ~ LessThan(r, l)
  <2>1. Canonical(SignedDifference(r, l)) /\ ToInt(SignedDifference(r, l)) = q - p
    BY <1>1, SignedDifferenceIs
  <2> HIDE DEF p, q
  <2>2. ToInt(x) = - p /\ ToInt(y) = - q /\ q - p = (- p) - (- q)
    BY <1>1, <1>6
  <2>3. Minus(x, y) = SignedDifference(r, l)
    BY <1>3, <1>6
  <2> QED  BY <2>1, <2>2, <2>3
<1>7. CASE ~ IsZero(y) /\ x.neg /\ y.neg /\ LessThan(r, l)
  <2> DEFINE d == SubtractDigits(l, r)
  <2>1. q < p
    BY <1>1, <1>7, LessThanIs
  <2>2. ~ LessThan(l, r)
    BY <1>1, <2>1, LessThanIs
  <2>3. Normal(d) /\ Magnitude(d) = p - q
    BY <1>1, <2>2, SubtractNormal
  <2>4. Minus(x, y) = Big(d # <<0>>, d)
    BY <1>3, <1>7
  <2> HIDE DEF d, p, q
  <2>5. Magnitude(d) # 0 /\ d # <<0>>
    BY <1>1, <2>1, <2>3, ZeroIs
  <2>6. Minus(x, y) = Big(TRUE, d)
    BY <2>4, <2>5
  <2>7. Canonical(Big(TRUE, d)) /\ ToInt(Big(TRUE, d)) = - Magnitude(d)
    BY <2>3, <2>5, CanonicalIs
  <2>8. ToInt(x) = - p /\ ToInt(y) = - q /\ - (p - q) = (- p) - (- q)
    BY <1>1, <1>7
  <2> QED  BY <2>3, <2>6, <2>7, <2>8
<1> QED  BY <1>1, <1>2, <1>4, <1>5, <1>6, <1>7

LEMMA OrderIs ==
    ASSUME NEW x, Canonical(x), NEW y, Canonical(y)
    PROVE  /\ Less(x, y) <=> ToInt(x) < ToInt(y)
           /\ x = y <=> ToInt(x) = ToInt(y)
<1> DEFINE l == x.digits
           r == y.digits
           p == Magnitude(l)
           q == Magnitude(r)
<1>1. /\ Normal(l) /\ Normal(r) /\ p \in Nat /\ q \in Nat
      /\ x.neg \in BOOLEAN /\ y.neg \in BOOLEAN /\ x = Big(x.neg, l) /\ y = Big(y.neg, r)
      /\ x.neg => p > 0
      /\ y.neg => q > 0
      /\ ToInt(x) = IF x.neg THEN - p ELSE p
      /\ ToInt(y) = IF y.neg THEN - q ELSE q
  BY CanonicalParts
<1>2. /\ LessThan(l, r) <=> p < q
      /\ LessThan(r, l) <=> q < p
      /\ l = r <=> p = q
  BY <1>1, LessThanIs
<1>3. Less(x, y) <=> IF x.neg # y.neg THEN x.neg
                     ELSE IF x.neg THEN LessThan(r, l) ELSE LessThan(l, r)
  BY DEF Less
<1>4. x = y <=> x.neg = y.neg /\ l = r
  BY <1>1
<1> HIDE DEF l, r, p, q
<1>5. Less(x, y) <=> ToInt(x) < ToInt(y)
  BY <1>1, <1>2, <1>3
<1>6. x = y <=> ToInt(x) = ToInt(y)
  BY <1>1, <1>2, <1>4
<1> QED  BY <1>5, <1>6

(***************************************************************************)
(* Multiplication.                                                         *)
(***************************************************************************)
LEMMA DigitsTimes ==
    ASSUME NEW a \in 0..9, NEW b \in 0..9
    PROVE  a * b \in 0..81
<1>1. a \in {0, 1, 2, 3, 4, 5, 6, 7, 8, 9}
  OBVIOUS
<1> QED  BY <1>1

LEMMA SmallCarry ==
    ASSUME NEW x \in 0..89
    PROVE  x \div 10 \in 0..8
<1>1. x \in Int
  OBVIOUS
<1> QED  BY <1>1, DivMod

LEMMA ProductsAre ==
    ASSUME NEW digit \in 0..9, NEW r \in Digits
    PROVE  /\ Products(digit, r) \in [0..Len(r) -> 0..89] /\ Products(digit, r)[0] = 0
           /\ \A i \in 1..Len(r) : Products(digit, r)[i] = digit * FromRight(r, i) + (Products(digit, r)[i - 1] \div 10)
<1> DEFINE N == Len(r)
           V == 0..89
           At(i, x) == digit * FromRight(r, i) + (x \div 10)
           F == [i \in 1..N |-> [x \in V |-> At(i, x)]]
           c == CHOOSE c : c = [i \in 0..Len(r) |-> IF i = 0 THEN 0 ELSE At(i, c[i - 1])]
<1>1. N \in Nat /\ \A i \in 1..N : FromRight(r, i) \in 0..9
  BY DigitTyped, FromRightTyped
<1>2. ASSUME NEW i \in 1..N, NEW x \in V
      PROVE  At(i, x) \in V /\ At(i, x) = digit * FromRight(r, i) + (x \div 10)
  <2> DEFINE q == x \div 10
             b == digit * FromRight(r, i)
  <2>1. b \in 0..81 /\ x \in 0..89
    BY <1>1, DigitsTimes
  <2>2. q \in 0..8
    BY <2>1, SmallCarry
  <2>3. At(i, x) = b + q
    OBVIOUS
  <2> HIDE DEF q, b, At
  <2>4. At(i, x) \in V
    BY <2>1, <2>2, <2>3
  <2> QED  BY <2>3, <2>4 DEF q, b
<1> HIDE DEF At
<1>3. F \in [1..N -> [V -> V]]
  BY <1>2
<1>4. PICK g : Along(g, N, V, 0, F)
  <2>1. 0 \in V /\ N \in Nat
    BY <1>1
  <2> HIDE DEF F, N, V
  <2> QED  BY <1>3, <2>1, Recursion, Zenon
<1>5. g \in [0..N -> V] /\ g[0] = 0 /\ \A i \in 1..N : g[i] = F[i][g[i - 1]]
  BY <1>4 DEF Along
<1>6. ASSUME NEW i \in 1..N
      PROVE  g[i] = At(i, g[i - 1])
  <2> HIDE DEF V
  <2>1. g[i - 1] \in V
    BY <1>1, <1>5
  <2>2. F[i][g[i - 1]] = At(i, g[i - 1])
    BY <2>1
  <2> HIDE DEF F
  <2> QED  BY <1>5, <2>2
<1>7. g = [i \in 0..N |-> IF i = 0 THEN 0 ELSE At(i, g[i - 1])]
  BY <1>1, <1>5, <1>6
<1>8. c = [i \in 0..N |-> IF i = 0 THEN 0 ELSE At(i, c[i - 1])]
  BY <1>7
<1>9. Products(digit, r) = c
  BY DEF Products, At
<1> HIDE DEF c
<1>10. c[0] = 0 /\ \A i \in 1..N : c[i] = At(i, c[i - 1])
  BY <1>1, <1>8
<1>11. \A i \in 0..N : c[i] \in V
  <2> DEFINE S == {i \in 0..N : c[i] \in V}
  <2>1. 0 \in S
    BY <1>1, <1>10
  <2>2. ASSUME NEW n \in 0..(N - 1), n \in S
        PROVE  n + 1 \in S
    <3> HIDE DEF V
    <3>1. n + 1 \in 1..N /\ (n + 1) - 1 = n /\ n + 1 \in 0..N
      BY <1>1
    <3>2. c[n + 1] = At(n + 1, c[n]) /\ c[n] \in V
      BY <1>10, <2>2, <3>1
    <3> QED  BY <1>2, <3>1, <3>2
  <2>3. 0..N \subseteq S
    <3> HIDE DEF S, N
    <3> QED  BY <1>1, <2>1, <2>2, UpTo
  <2> QED  BY <2>3
<1>12. c \in [0..N -> V]
  <2>1. c = [i \in 0..N |-> c[i]]
    BY <1>8
  <2> HIDE DEF V
  <2> QED  BY <1>11, <2>1
<1>13. ASSUME NEW i \in 1..N
       PROVE  c[i] = digit * FromRight(r, i) + (c[i - 1] \div 10)
  <2>1. c[i] = At(i, c[i - 1]) /\ c[i - 1] \in V
    BY <1>1, <1>10, <1>11
  <2> HIDE DEF V
  <2> QED  BY <1>2, <2>1
<1> QED  BY <1>9, <1>10, <1>12, <1>13

LEMMA Scale ==
    ASSUME NEW a \in Int, NEW b \in Int, NEW c \in Int
    PROVE  a * (10 * b + c) = 10 * (a * b) + a * c
OBVIOUS

\* One digit times a number, before it is shifted.
Multiple(digit, r) ==
    LET carry == Products(digit, r)[Len(r)] \div 10
    IN (IF carry > 0 THEN <<carry>> ELSE <<>>) \o Written(Products(digit, r), Len(r))

LEMMA MultipleIs ==
    ASSUME NEW digit \in 0..9, NEW r \in Digits
    PROVE  /\ Multiple(digit, r) \in Digits
           /\ Magnitude(Multiple(digit, r)) = digit * Magnitude(r)
           /\ Len(Multiple(digit, r)) \in {Len(r), Len(r) + 1}
           /\ digit # 0 /\ Len(r) >= 1 /\ r[1] # 0 => Multiple(digit, r)[1] # 0
<1> DEFINE n == Len(r)
           c == Products(digit, r)
           w == Written(c, n)
           t == [k \in 1..n |-> digit * r[k]]
           P == PrefixValues(r)
           A == [k \in 0..n |-> digit * P[k]]
<1>1. n \in Nat /\ digit \in Int /\ \A k \in 1..n : r[k] \in 0..9
  BY DigitTyped
<1>2. /\ c \in [0..n -> 0..89] /\ c[0] = 0
      /\ \A i \in 1..n : c[i] = digit * FromRight(r, i) + (c[i - 1] \div 10)
  BY ProductsAre
<1>3. /\ P \in [0..n -> Int] /\ P[0] = 0 /\ P[n] = Magnitude(r)
      /\ \A k \in 1..n : P[k] = 10 * P[k - 1] + r[k]
  BY PrefixValuesAre DEF ReadsFrom, Magnitude
<1>4. \A i \in 1..n : t[n + 1 - i] = digit * FromRight(r, i)
  <2> TAKE i \in 1..n
  <2>1. n + 1 - i \in 1..n /\ i <= Len(r)
    BY <1>1
  <2> QED  BY <2>1 DEF FromRight
<1>5. t \in [1..n -> Int]
  <2>1. \A k \in 1..n : digit * r[k] \in 0..81
    BY <1>1, DigitsTimes
  <2>2. \A x : x \in 0..81 => x \in Int
    OBVIOUS
  <2> HIDE DEF n
  <2> QED  BY <2>1, <2>2
<1>6. c \in [0..n -> Int] /\ c[0] \div 10 = 0
  <2> DEFINE V == 0..89
  <2>1. V \subseteq Int /\ 0 \div 10 = 0
    OBVIOUS
  <2>2. c \in [0..n -> V]
    BY <1>2
  <2> HIDE DEF c, n, V
  <2> QED  BY <1>2, <2>1, <2>2
<1> HIDE DEF P, n
<1>7. /\ A \in [0..n -> Int] /\ A[0] = 0 /\ A[n] = digit * Magnitude(r)
      /\ \A k \in 1..n : A[k] = 10 * A[k - 1] + t[k]
  <2>1. ASSUME NEW k \in 1..n
        PROVE  A[k] = 10 * A[k - 1] + t[k]
    <3> DEFINE b == P[k - 1]
               x == r[k]
    <3>1. k - 1 \in 0..n /\ k \in 0..n /\ b \in Int /\ x \in Int
      <4>1. k - 1 \in 0..n /\ k \in 0..n
        BY <1>1
      <4>2. r[k] \in 0..9 /\ P[k - 1] \in Int
        BY <1>1, <1>3, <4>1
      <4> QED  BY <4>1, <4>2
    <3>2. A[k] = digit * P[k] /\ A[k - 1] = digit * b /\ t[k] = digit * x /\ P[k] = 10 * b + x
      BY <1>3, <3>1
    <3> HIDE DEF A, t, b, x
    <3>3. digit * (10 * b + x) = 10 * (digit * b) + digit * x
      BY <1>1, <3>1, Scale
    <3> QED  BY <3>2, <3>3
  <2>2. \A k \in 0..n : digit * P[k] \in Int
    BY <1>1, <1>3
  <2>3. A \in [0..n -> Int] /\ A[n] = digit * Magnitude(r)
    BY <1>1, <1>3, <2>2
  <2>4. A[0] = 0
    <3>1. digit * 0 = 0 /\ 0 \in 0..n
      BY <1>1
    <3> QED  BY <1>3, <3>1
  <2> HIDE DEF A, t
  <2> QED  BY <2>1, <2>3, <2>4
<1> HIDE DEF c, w, t, A
<1>8. \A i \in 1..n : c[i] = t[n + 1 - i] + (c[i - 1] \div 10)
  BY <1>2, <1>4
<1>9. /\ w \in Digits /\ Len(w) = n
      /\ \A k \in 1..n : w[k] = c[n + 1 - k] % 10
      /\ \E E : ReadsFrom(E, w) /\ E[0] = c[n] \div 10 /\ E[n] = A[n]
  <2>1. Totalled(n, t, c, A)
    BY <1>1, <1>5, <1>6, <1>7, <1>8 DEF Totalled
  <2>2. Denote(Written(c, n), n, c, A)
    BY <2>1, Columns
  <2> QED  BY <2>2 DEF Denote, w
<1>10. PICK E : ReadsFrom(E, w) /\ E[0] = c[n] \div 10 /\ E[n] = digit * Magnitude(r)
  BY <1>7, <1>9
<1>11. c[n] \in 0..89 /\ c[n] \div 10 \in 0..8
  <2>1. c[n] \in 0..89
    BY <1>1, <1>2
  <2> QED  BY <2>1, SmallCarry
<1>12. CASE c[n] \div 10 > 0
  <2> DEFINE q == c[n] \div 10
  <2>1. Multiple(digit, r) = <<q>> \o w
    BY <1>12 DEF Multiple, c, w, n
  <2> HIDE DEF q
  <2>2. E[0] = q /\ q \in 0..9 /\ q # 0
    BY <1>10, <1>11, <1>12 DEF q
  <2>3. /\ <<q>> \o w \in Digits /\ Len(<<q>> \o w) = n + 1 /\ (<<q>> \o w)[1] = q
        /\ Magnitude(<<q>> \o w) = E[n]
    BY <1>9, <1>10, <2>2, MagnitudeAfter
  <2> QED  BY <1>10, <2>1, <2>2, <2>3 DEF n
<1>13. CASE ~(c[n] \div 10 > 0)
  <2>1. Multiple(digit, r) = <<>> \o w
    BY <1>13 DEF Multiple, c, w, n
  <2>2. <<>> \o w = w
    BY <1>9 DEF Digits
  <2>3. E[0] = 0 /\ c[n] \div 10 = 0
    BY <1>10, <1>11, <1>13
  <2>4. Magnitude(w) = E[n]
    BY <1>9, <1>10, <2>3, MagnitudeIs
  <2>5. ASSUME digit # 0, n >= 1, r[1] # 0
        PROVE  w[1] # 0
    <3>1. n \in 1..n /\ n + 1 - n = 1 /\ 1 \in 1..n /\ n + 1 - 1 = n /\ n - 1 \in 0..n
      BY <1>1, <2>5
    <3>2. w[1] = c[n] % 10 /\ c[n] = digit * r[1] + (c[n - 1] \div 10)
      BY <1>8, <1>9, <3>1 DEF t
    <3>3. c[n] % 10 = c[n]
      <4> DEFINE x == c[n]
      <4>1. x \in Int /\ x \div 10 = 0
        BY <1>11, <2>3
      <4> HIDE DEF x
      <4>2. x = 10 * (x \div 10) + (x % 10) /\ x % 10 \in 0..9
        BY <4>1, DivMod
      <4>3. x % 10 = x
        BY <4>1, <4>2
      <4> QED  BY <4>3 DEF x
    <3>4. c[n - 1] \div 10 \in 0..8
      BY <1>2, <3>1, SmallCarry
    <3>5. digit * r[1] >= 1
      <4>1. digit \in {1, 2, 3, 4, 5, 6, 7, 8, 9} /\ r[1] \in 1..9
        BY <1>1, <2>5, <3>1
      <4> QED  BY <4>1
    <3> DEFINE y == digit * r[1]
               q == c[n - 1] \div 10
    <3>6. y >= 1 /\ y \in 0..81 /\ q \in 0..8 /\ w[1] = y + q
      <4>1. r[1] \in 0..9
        BY <1>1, <3>1
      <4> QED  BY <3>2, <3>3, <3>4, <3>5, <4>1, DigitsTimes
    <3> HIDE DEF y, q
    <3> QED  BY <3>6
  <2> QED  BY <1>9, <1>10, <2>1, <2>2, <2>4, <2>5 DEF n
<1> QED  BY <1>12, <1>13

LEMMA LessTimes ==
    ASSUME NEW a \in Nat, NEW b \in Nat, NEW c \in Nat, NEW d \in Nat, a < b, c < d
    PROVE  a * c < b * d
<1>1. a * c <= b * c
  <2>1. (b - a) * c >= 0 /\ (b - a) * c = b * c - a * c
    OBVIOUS
  <2>2. a * c \in Nat /\ b * c \in Nat
    OBVIOUS
  <2> QED  BY <2>1, <2>2
<1>2. b * c < b * d
  <2>1. b * (d - c) >= 1 /\ b * (d - c) = b * d - b * c
    OBVIOUS
  <2>2. b * c \in Nat /\ b * d \in Nat
    OBVIOUS
  <2> QED  BY <2>1, <2>2
<1>3. a * c \in Nat /\ b * c \in Nat /\ b * d \in Nat
  OBVIOUS
<1> QED  BY <1>1, <1>2, <1>3

(***************************************************************************)
(* Powers of ten, up to the N-th.                                          *)
(***************************************************************************)
Powers(T, N) == /\ N \in Nat /\ T \in [0..N -> Nat] /\ T[0] = 1
                /\ \A i \in 1..N : T[i] = 10 * T[i - 1]

LEMMA PowersExist ==
    ASSUME NEW N \in Nat
    PROVE  \E T : Powers(T, N)
<1> DEFINE F == [i \in 1..N |-> [x \in Nat |-> 10 * x]]
<1>1. F \in [1..N -> [Nat -> Nat]] /\ 1 \in Nat
  OBVIOUS
<1>2. PICK T : Along(T, N, Nat, 1, F)
  <2> HIDE DEF F
  <2> QED  BY <1>1, Recursion, Zenon
<1>3. T \in [0..N -> Nat] /\ T[0] = 1 /\ \A i \in 1..N : T[i] = F[i][T[i - 1]]
  BY <1>2 DEF Along
<1>4. \A i \in 1..N : i - 1 \in 0..N /\ T[i - 1] \in Nat
  BY <1>3
<1>5. \A i \in 1..N : T[i] = 10 * T[i - 1]
  BY <1>3, <1>4
<1> QED  BY <1>3, <1>5 DEF Powers

LEMMA PowersTyped ==
    ASSUME NEW N, NEW T, Powers(T, N), NEW i \in 0..N
    PROVE  /\ T[i] \in Nat
           /\ i < N => T[i + 1] = 10 * T[i]
<1>1. i < N => i + 1 \in 1..N /\ (i + 1) - 1 = i
  BY DEF Powers
<1> QED  BY <1>1 DEF Powers

LEMMA PowersAdd ==
    ASSUME NEW N, NEW T, Powers(T, N), NEW a \in Nat, NEW b \in Nat, a + b <= N
    PROVE  T[a] * T[b] = T[a + b]
<1> DEFINE S == {i \in 0..b : T[a] * T[i] = T[a + i]}
<1>1. N \in Nat /\ a \in 0..N /\ T[a] \in Nat /\ T[0] = 1
  BY DEF Powers
<1>2. 0 \in S
  <2>1. T[a] * 1 = T[a] /\ a + 0 = a
    BY <1>1
  <2> QED  BY <1>1, <2>1
<1>3. ASSUME NEW i \in 0..(b - 1), i \in S
      PROVE  i + 1 \in S
  <2>1. i \in 0..N /\ i < N /\ a + i \in 0..N /\ a + i < N /\ (a + i) + 1 = a + (i + 1) /\ i + 1 \in 0..b
    BY <1>1
  <2>2. T[i] \in Nat /\ T[i + 1] = 10 * T[i] /\ T[a + (i + 1)] = 10 * T[a + i]
    BY <2>1, PowersTyped
  <2>3. T[a] * T[i] = T[a + i]
    BY <1>3
  <2> DEFINE x == T[a]
             y == T[i]
  <2>4. x \in Nat /\ y \in Nat /\ x * y = T[a + i]
    BY <1>1, <2>2, <2>3
  <2> HIDE DEF x, y
  <2>5. x * (10 * y) = 10 * (x * y)
    BY <2>4
  <2>6. T[a] * T[i + 1] = T[a + (i + 1)]
    BY <2>2, <2>4, <2>5 DEF x, y
  <2> QED  BY <2>1, <2>6
<1>4. 0..b \subseteq S
  <2> HIDE DEF S
  <2> QED  BY <1>2, <1>3, UpTo
<1> QED  BY <1>4

LEMMA PowersSame ==
    ASSUME NEW N, NEW T, Powers(T, N), NEW L, NEW R, Powers(R, L), NEW n \in Nat, n <= N, n <= L
    PROVE  R[n] = T[n]
<1> DEFINE S == {i \in 0..n : R[i] = T[i]}
<1>1. N \in Nat /\ L \in Nat /\ 0 \in S
  BY DEF Powers
<1>2. ASSUME NEW i \in 0..(n - 1), i \in S
      PROVE  i + 1 \in S
  <2>1. i \in 0..N /\ i < N /\ i \in 0..L /\ i < L /\ i + 1 \in 0..n
    BY <1>1
  <2>2. T[i + 1] = 10 * T[i] /\ R[i + 1] = 10 * R[i] /\ R[i] = T[i]
    BY <1>2, <2>1, PowersTyped
  <2> QED  BY <2>1, <2>2
<1>3. 0..n \subseteq S
  <2> HIDE DEF S
  <2> QED  BY <1>1, <1>2, UpTo
<1> QED  BY <1>3

\* A number is less than the power of ten that has one digit more, and one that
\* begins with another digit than 0 is not less than the power with as many.
LEMMA MagnitudeBound ==
    ASSUME NEW d \in Digits, NEW N, NEW T, Powers(T, N), Len(d) <= N
    PROVE  /\ Magnitude(d) < T[Len(d)]
           /\ Len(d) >= 1 /\ d[1] # 0 => T[Len(d) - 1] <= Magnitude(d)
<1> DEFINE n == Len(d)
           P == PrefixValues(d)
           S == {k \in 0..n : P[k] < T[k] /\ (k >= 1 /\ d[1] # 0 => T[k - 1] <= P[k])}
<1>1. n \in Nat /\ n <= N /\ N \in Nat /\ \A i \in 1..n : d[i] \in 0..9
  BY DigitTyped DEF Powers
<1>2. /\ P[0] = 0 /\ P[n] = Magnitude(d) /\ \A k \in 0..n : P[k] \in Nat
      /\ \A k \in 1..n : P[k] = 10 * P[k - 1] + d[k]
  BY PrefixValuesAre DEF ReadsFrom, Magnitude
<1>3. T[0] = 1
  BY DEF Powers
<1> HIDE DEF n, P
<1>4. 0 \in S
  BY <1>1, <1>2, <1>3
<1>5. ASSUME NEW k \in 0..(n - 1), k \in S
      PROVE  k + 1 \in S
  <2>1. k + 1 \in 1..n /\ (k + 1) - 1 = k /\ k + 1 \in 0..n /\ k \in 0..n /\ k \in 0..N /\ k < N
    BY <1>1
  <2> DEFINE p == P[k]
             x == d[k + 1]
             t == T[k]
  <2>2. p \in Nat /\ x \in 0..9 /\ t \in Nat /\ P[k + 1] = 10 * p + x /\ T[k + 1] = 10 * t
    BY <1>1, <1>2, <2>1, PowersTyped
  <2>3. p < t
    BY <1>5
  <2>4. d[1] # 0 => t <= 10 * p + x
    <3>1. CASE k = 0
      <4>1. p = 0 /\ t = 1 /\ x = d[1]
        BY <1>2, <1>3, <3>1
      <4> HIDE DEF p, t, x
      <4> QED  BY <2>2, <4>1
    <3>2. CASE k # 0
      <4>1. k >= 1 /\ k - 1 \in 0..N /\ k - 1 < N /\ (k - 1) + 1 = k
        BY <1>1, <3>2
      <4>2. T[k - 1] \in Nat /\ t = 10 * T[k - 1]
        BY <4>1, PowersTyped
      <4>3. d[1] # 0 => T[k - 1] <= p
        BY <1>5, <4>1
      <4> DEFINE u == T[k - 1]
      <4> HIDE DEF u, p, t, x
      <4> QED  BY <2>2, <4>2, <4>3 DEF u
    <3> QED  BY <3>1, <3>2
  <2> HIDE DEF p, x, t
  <2>5. 10 * p + x < 10 * t
    BY <2>2, <2>3
  <2>6. T[(k + 1) - 1] = t
    BY <2>1 DEF t
  <2> QED  BY <2>1, <2>2, <2>4, <2>5, <2>6
<1>6. 0..n \subseteq S
  <2> HIDE DEF S
  <2> QED  BY <1>1, <1>4, <1>5, UpTo
<1>7. n \in S
  BY <1>1, <1>6
<1> QED  BY <1>2, <1>7 DEF n

LEMMA ShiftIs ==
    ASSUME NEW d \in Digits, NEW m \in Nat, NEW N, NEW T, Powers(T, N), m <= N
    PROVE  /\ d \o Zeros(m) \in Digits /\ Len(d \o Zeros(m)) = Len(d) + m
           /\ Len(d) >= 1 => (d \o Zeros(m))[1] = d[1]
           /\ Magnitude(d \o Zeros(m)) = Magnitude(d) * T[m]
<1> DEFINE n == Len(d)
           z == Zeros(m)
           e == d \o z
           P == PrefixValues(d)
           Q == PrefixValues(e)
<1>1. z \in Digits /\ Len(z) = m /\ \A i \in 1..m : z[i] = 0
  BY DEF Zeros, Digits
<1>2. /\ n \in Nat /\ e \in Digits /\ Len(e) = n + m
      /\ \A i \in 1..n : e[i] = d[i]
      /\ \A i \in 1..m : e[n + i] = 0
  <2> HIDE DEF z
  <2>1. n \in Nat /\ e \in Digits /\ Len(e) = n + m
    BY <1>1 DEF Digits
  <2>2. \A i \in 1..n : e[i] = d[i]
    BY <1>1, <2>1 DEF Digits
  <2>3. ASSUME NEW i \in 1..m
        PROVE  e[n + i] = 0
    <3>1. n + i \in 1..(n + m) /\ n + i > n /\ (n + i) - n = i
      BY <2>1
    <3>2. e[n + i] = z[(n + i) - n]
      BY <1>1, <2>1, <3>1 DEF Digits
    <3> QED  BY <1>1, <3>1, <3>2
  <2> QED  BY <2>1, <2>2, <2>3
<1>3. /\ P \in [0..n -> Int] /\ P[0] = 0 /\ P[n] = Magnitude(d) /\ Magnitude(d) \in Nat
      /\ \A k \in 1..n : P[k] = 10 * P[k - 1] + d[k]
  BY PrefixValuesAre, MagnitudeNat DEF ReadsFrom, Magnitude
<1> HIDE DEF z, e, n
<1>4. /\ Q \in [0..(n + m) -> Int] /\ Q[0] = 0 /\ Q[n + m] = Magnitude(e)
      /\ \A k \in 1..(n + m) : Q[k] = 10 * Q[k - 1] + e[k]
  BY <1>2, PrefixValuesAre DEF ReadsFrom, Magnitude
<1> HIDE DEF P, Q
<1>5. Q[n] = P[n]
  <2> DEFINE S == {k \in 0..n : Q[k] = P[k]}
  <2>1. 0 \in S
    BY <1>2, <1>3, <1>4
  <2>2. ASSUME NEW k \in 0..(n - 1), k \in S
        PROVE  k + 1 \in S
    <3>1. k + 1 \in 1..n /\ k + 1 \in 1..(n + m) /\ (k + 1) - 1 = k /\ k + 1 \in 0..n
      BY <1>2
    <3>2. Q[k + 1] = 10 * Q[k] + e[k + 1] /\ P[k + 1] = 10 * P[k] + d[k + 1]
          /\ e[k + 1] = d[k + 1] /\ Q[k] = P[k]
      BY <1>2, <1>3, <1>4, <2>2, <3>1
    <3> QED  BY <3>1, <3>2
  <2>3. 0..n \subseteq S
    <3> HIDE DEF S
    <3> QED  BY <1>2, <2>1, <2>2, UpTo
  <2>4. n \in 0..n
    BY <1>2
  <2> QED  BY <2>3, <2>4
<1>6. Q[n + m] = Magnitude(d) * T[m]
  <2> DEFINE M == Magnitude(d)
             S == {j \in 0..m : Q[n + j] = M * T[j]}
  <2>1. M \in Nat /\ N \in Nat /\ T[0] = 1
    BY <1>3 DEF Powers
  <2>2. 0 \in S
    <3>1. n + 0 = n /\ M * 1 = M
      BY <1>2, <2>1
    <3> QED  BY <1>3, <1>5, <2>1, <3>1
  <2> HIDE DEF M
  <2>3. ASSUME NEW j \in 0..(m - 1), j \in S
        PROVE  j + 1 \in S
    <3>1. /\ j + 1 \in 1..m /\ n + (j + 1) \in 1..(n + m) /\ (n + (j + 1)) - 1 = n + j
          /\ j + 1 \in 0..m /\ j \in 0..N /\ j < N
      BY <1>2, <2>1
    <3>2. Q[n + (j + 1)] = 10 * Q[n + j] + 0
      BY <1>2, <1>4, <3>1
    <3>3. T[j] \in Nat /\ T[j + 1] = 10 * T[j] /\ Q[n + j] = M * T[j]
      BY <2>3, <3>1, PowersTyped
    <3> DEFINE t == T[j]
    <3>4. t \in Nat
      BY <3>3
    <3> HIDE DEF t
    <3>5. 10 * (M * t) + 0 = M * (10 * t)
      BY <2>1, <3>4
    <3>6. Q[n + (j + 1)] = M * T[j + 1]
      BY <3>2, <3>3, <3>5 DEF t
    <3> QED  BY <3>1, <3>6
  <2>4. 0..m \subseteq S
    <3> HIDE DEF S
    <3> QED  BY <2>2, <2>3, UpTo
  <2> QED  BY <2>4 DEF M
<1>7. n >= 1 => e[1] = d[1]
  <2>1. n >= 1 => 1 \in 1..n
    BY <1>2
  <2> QED  BY <1>2, <2>1
<1> QED  BY <1>2, <1>4, <1>6, <1>7 DEF e, z, n

RowReads(row, digit, r, m, T) ==
    /\ row \in Digits /\ Len(row) \in {Len(r) + m, Len(r) + 1 + m}
    /\ Magnitude(row) = (digit * Magnitude(r)) * T[m]

LEMMA RowIs ==
    ASSUME NEW digit \in 0..9, NEW r \in Digits, NEW m \in Nat, NEW N, NEW T, Powers(T, N), m <= N
    PROVE  /\ RowReads(Row(digit, r, m), digit, r, m, T)
           /\ digit # 0 /\ Len(r) >= 1 /\ r[1] # 0 => Row(digit, r, m)[1] # 0
<1> DEFINE h == Multiple(digit, r)
<1>1. Row(digit, r, m) = h \o Zeros(m)
  BY DEF Row, Multiple
<1>2. /\ h \in Digits /\ Magnitude(h) = digit * Magnitude(r) /\ Len(h) \in {Len(r), Len(r) + 1}
      /\ digit # 0 /\ Len(r) >= 1 /\ r[1] # 0 => h[1] # 0
  BY MultipleIs
<1>3. Len(r) \in Nat
  BY DigitTyped
<1> HIDE DEF h
<1>4. /\ h \o Zeros(m) \in Digits /\ Len(h \o Zeros(m)) = Len(h) + m
      /\ Len(h) >= 1 => (h \o Zeros(m))[1] = h[1]
      /\ Magnitude(h \o Zeros(m)) = Magnitude(h) * T[m]
  BY <1>2, ShiftIs
<1>5. Magnitude(Row(digit, r, m)) = (digit * Magnitude(r)) * T[m]
  BY <1>1, <1>2, <1>4, Zenon
<1>6. Len(h) + m \in {Len(r) + m, Len(r) + 1 + m} /\ (Len(r) >= 1 => Len(h) >= 1)
  BY <1>2, <1>3
<1> DEFINE z == h \o Zeros(m)
<1>7. /\ z \in Digits /\ Len(z) \in {Len(r) + m, Len(r) + 1 + m}
      /\ digit # 0 /\ Len(r) >= 1 /\ r[1] # 0 => z[1] # 0
  BY <1>2, <1>4, <1>6, Zenon
<1> HIDE DEF z
<1> QED  BY <1>1, <1>5, <1>7 DEF z, RowReads

\* Addition of texts that may begin with zeros, as the rows of a product may.
LEMMA AddAny ==
    ASSUME NEW l \in Digits, NEW r \in Digits, NEW K \in Nat, Len(l) <= K, Len(r) <= K
    PROVE  /\ AddDigits(l, r) \in Digits
           /\ Magnitude(AddDigits(l, r)) = Magnitude(l) + Magnitude(r)
           /\ \/ Len(AddDigits(l, r)) <= K
              \/ Len(AddDigits(l, r)) = K + 1 /\ AddDigits(l, r)[1] = 1
           /\ Len(l) >= 1 => Len(AddDigits(l, r)) >= 1
<1>1. /\ Len(l) \in Nat /\ Len(r) \in Nat /\ Magnitude(l) \in Nat /\ Magnitude(r) \in Nat
  BY DigitTyped, MagnitudeNat
<1> DEFINE a == IF LessThan(l, r) THEN r ELSE l
           b == IF LessThan(l, r) THEN l ELSE r
           s == AddLarger(a, b)
<1>2. AddDigits(l, r) = s
  BY DEF AddDigits
<1>3. a \in Digits /\ b \in Digits /\ Len(b) <= Len(a) /\ Len(a) <= K /\ Len(a) \in Nat
      /\ Magnitude(a) + Magnitude(b) = Magnitude(l) + Magnitude(r) /\ Len(l) <= Len(a)
  <2>1. CASE LessThan(l, r)
    <3>1. Len(l) <= Len(r)
      BY <1>1, <2>1 DEF LessThan
    <3> QED  BY <1>1, <2>1, <3>1
  <2>2. CASE ~ LessThan(l, r)
    <3>1. Len(r) <= Len(l)
      BY <1>1, <2>2 DEF LessThan
    <3> QED  BY <1>1, <2>2, <3>1
  <2> QED  BY <2>1, <2>2
<1> HIDE DEF a, b
<1>4. /\ s \in Digits /\ Magnitude(s) = Magnitude(a) + Magnitude(b)
      /\ \/ Len(s) = Len(a)
         \/ Len(s) = Len(a) + 1 /\ s[1] = 1
  BY <1>3, AddLargerIs
<1> HIDE DEF s
<1> QED  BY <1>1, <1>2, <1>3, <1>4

(***************************************************************************)
(* The rows of a product, added.                                           *)
(***************************************************************************)
LEMMA RowsAddedAre ==
    ASSUME NEW short \in Digits, NEW long \in Digits
    PROVE  /\ RowsAdded(short, long)[0] = <<0>>
           /\ \A i \in 1..Len(short) :
                RowsAdded(short, long)[i]
                = AddDigits(RowsAdded(short, long)[i - 1], Row(FromRight(short, i), long, i - 1))
<1> DEFINE N == Len(short)
           At(i, x) == AddDigits(x, Row(FromRight(short, i), long, i - 1))
           F == [i \in 1..N |-> [x \in Digits |-> At(i, x)]]
           c == CHOOSE c : c = [i \in 0..Len(short) |-> IF i = 0 THEN <<0>> ELSE At(i, c[i - 1])]
<1>1. N \in Nat /\ <<0>> \in Digits
  BY DigitTyped, ZeroIs
<1>2. ASSUME NEW i \in 1..N, NEW x \in Digits
      PROVE  At(i, x) \in Digits
  <2> DEFINE row == Row(FromRight(short, i), long, i - 1)
  <2>1. i - 1 \in Nat /\ i \in Nat \ {0}
    BY <1>1
  <2>2. FromRight(short, i) \in 0..9
    BY <2>1, FromRightTyped
  <2>3. PICK T : Powers(T, i - 1)
    BY <2>1, PowersExist
  <2>4. i - 1 <= i - 1
    BY <2>1
  <2>5. row \in Digits
    BY <2>1, <2>2, <2>3, <2>4, RowIs DEF RowReads
  <2> HIDE DEF row
  <2> DEFINE K == Len(x) + Len(row)
  <2>6. K \in Nat /\ Len(x) <= K /\ Len(row) <= K
    BY <2>5, DigitTyped
  <2> HIDE DEF K
  <2>7. AddDigits(x, row) \in Digits
    BY <2>5, <2>6, AddAny
  <2> QED  BY <2>7 DEF row
<1> HIDE DEF At
<1>3. F \in [1..N -> [Digits -> Digits]]
  BY <1>2
<1>4. PICK g : Along(g, N, Digits, <<0>>, F)
  <2> HIDE DEF F, N
  <2> QED  BY <1>1, <1>3, Recursion, Zenon
<1>5. g \in [0..N -> Digits] /\ g[0] = <<0>> /\ \A i \in 1..N : g[i] = F[i][g[i - 1]]
  BY <1>4 DEF Along
<1>6. ASSUME NEW i \in 1..N
      PROVE  g[i] = At(i, g[i - 1])
  <2>1. g[i - 1] \in Digits
    BY <1>1, <1>5
  <2>2. F[i][g[i - 1]] = At(i, g[i - 1])
    BY <2>1
  <2> HIDE DEF F
  <2> QED  BY <1>5, <2>2
<1>7. g = [i \in 0..N |-> IF i = 0 THEN <<0>> ELSE At(i, g[i - 1])]
  BY <1>1, <1>5, <1>6
<1>8. c = [i \in 0..N |-> IF i = 0 THEN <<0>> ELSE At(i, c[i - 1])]
  BY <1>7
<1>9. RowsAdded(short, long) = c
  BY DEF RowsAdded, At
<1> HIDE DEF c
<1>10. c[0] = <<0>> /\ \A i \in 1..N : c[i] = At(i, c[i - 1])
  BY <1>1, <1>8
<1> QED  BY <1>9, <1>10 DEF At

\* S: the last i digits of a number, for every i, and the power they stay below.
LastParts(S, d, T) ==
    /\ S \in [0..Len(d) -> Int] /\ S[0] = 0 /\ S[Len(d)] = Magnitude(d)
    /\ \A i \in 1..Len(d) : S[i] = S[i - 1] + FromRight(d, i) * T[i - 1]
    /\ \A i \in 0..Len(d) : S[i] \in Nat /\ S[i] < T[i]

LEMMA LastDigits ==
    ASSUME NEW d \in Digits, NEW N, NEW T, Powers(T, N), Len(d) <= N
    PROVE  \E S : LastParts(S, d, T)
<1> DEFINE n == Len(d)
           P == PrefixValues(d)
           M == Magnitude(d)
           S == [i \in 0..n |-> M - P[n - i] * T[i]]
           Z == {i \in 0..n : S[i] \in Nat /\ S[i] < T[i]}
<1>1. n \in Nat /\ n <= N /\ N \in Nat /\ T[0] = 1 /\ M \in Nat /\ \A i \in 1..n : d[i] \in 0..9
  BY DigitTyped, MagnitudeNat DEF Powers
<1>2. /\ P[0] = 0 /\ P[n] = M /\ \A k \in 0..n : P[k] \in Nat
      /\ \A k \in 1..n : P[k] = 10 * P[k - 1] + d[k]
  BY PrefixValuesAre DEF ReadsFrom, Magnitude
<1> HIDE DEF P, M
<1>3. \A i \in 0..n : n - i \in 0..n /\ P[n - i] \in Nat /\ T[i] \in Nat
  <2> TAKE i \in 0..n
  <2>1. n - i \in 0..n /\ i \in 0..N
    BY <1>1
  <2> QED  BY <1>2, <2>1, PowersTyped
<1>4. S \in [0..n -> Int]
  <2>1. \A i \in 0..n : M - P[n - i] * T[i] \in Int
    BY <1>1, <1>3
  <2> HIDE DEF n
  <2> QED  BY <2>1
<1>5. S[0] = 0 /\ S[n] = M
  <2>1. n - 0 = n /\ n - n = 0 /\ 0 \in 0..n /\ n \in 0..n
    BY <1>1
  <2>2. S[0] = M - M * 1
    BY <1>1, <1>2, <2>1
  <2>3. S[n] = M - 0 * T[n] /\ T[n] \in Nat
    BY <1>2, <1>3, <2>1
  <2> HIDE DEF S
  <2> QED  BY <1>1, <2>2, <2>3
<1>6. ASSUME NEW i \in 1..n
      PROVE  S[i] = S[i - 1] + FromRight(d, i) * T[i - 1]
  <2> DEFINE j == n + 1 - i
             p == P[j - 1]
             x == d[j]
             t == T[i - 1]
  <2>1. /\ j \in 1..n /\ j - 1 = n - i /\ n - (i - 1) = j /\ i - 1 \in 0..n /\ i \in 0..n
        /\ i - 1 \in 0..N /\ i - 1 < N /\ (i - 1) + 1 = i /\ i <= Len(d) /\ j - 1 \in 0..n
    BY <1>1
  <2>2. t \in Nat /\ T[i] = 10 * t
    BY <2>1, PowersTyped
  <2>3. p \in Nat /\ x \in 0..9 /\ P[j] = 10 * p + x
    BY <1>1, <1>2, <2>1
  <2>4. S[i] = M - p * (10 * t) /\ S[i - 1] = M - (10 * p + x) * t
    <3> HIDE DEF n, p, x, t
    <3>1. S[i] = M - P[n - i] * T[i] /\ S[i - 1] = M - P[n - (i - 1)] * T[i - 1]
      BY <2>1
    <3> QED  BY <2>1, <2>2, <2>3, <3>1 DEF p, t
  <2>5. FromRight(d, i) = x
    BY <2>1 DEF FromRight
  <2> HIDE DEF S, p, x, t, j
  <2>6. M - p * (10 * t) = (M - (10 * p + x) * t) + x * t
    BY <1>1, <2>2, <2>3
  <2> QED  BY <2>4, <2>5, <2>6 DEF t
<1> HIDE DEF S
<1>7. 0 \in Z
  BY <1>1, <1>5
<1>8. ASSUME NEW k \in 0..(n - 1), k \in Z
      PROVE  k + 1 \in Z
  <2> DEFINE f == FromRight(d, k + 1)
             t == T[k]
             y == S[k]
  <2>1. k + 1 \in 1..n /\ (k + 1) - 1 = k /\ k + 1 \in 0..n /\ k \in 0..N /\ k < N /\ k + 1 \in Nat \ {0}
    BY <1>1
  <2>2. t \in Nat /\ T[k + 1] = 10 * t
    BY <2>1, PowersTyped
  <2>3. f \in 0..9
    BY <2>1, FromRightTyped
  <2>4. S[k + 1] = y + f * t /\ y \in Nat /\ y < t
    BY <1>6, <1>8, <2>1
  <2> HIDE DEF f, t, y
  <2>5. f * t \in Nat /\ f * t <= 9 * t
    <3>1. f \in {0, 1, 2, 3, 4, 5, 6, 7, 8, 9}
      BY <2>3
    <3> QED  BY <2>2, <3>1
  <2> DEFINE g == f * t
  <2> HIDE DEF g
  <2>6. y + g \in Nat /\ y + g < 10 * t
    BY <2>2, <2>4, <2>5 DEF g
  <2> QED  BY <2>1, <2>2, <2>4, <2>6 DEF g
<1>9. 0..n \subseteq Z
  <2> HIDE DEF Z, n
  <2> QED  BY <1>1, <1>7, <1>8, UpTo
<1> HIDE DEF n
<1>10. \A i \in 0..n : S[i] \in Nat /\ S[i] < T[i]
  BY <1>9
<1> QED  BY <1>4, <1>5, <1>6, <1>10 DEF LastParts, n, M

\* After i rows: the product with the last i digits, in no more digits than it
\* may have.
RowsSum(v, i, short, long, S) ==
    /\ v \in Digits /\ Len(v) >= 1 /\ Len(v) <= Len(long) + i
    /\ Magnitude(v) = S[i] * Magnitude(long)

LEMMA RowAdded ==
    ASSUME NEW short \in Digits, NEW long, Normal(long), long # << 0 >>,
           NEW N, NEW T, Powers(T, N), Len(short) + Len(long) <= N,
           NEW S, LastParts(S, short, T),
           NEW i \in 1..Len(short), NEW v, RowsSum(v, i - 1, short, long, S)
    PROVE  RowsSum(AddDigits(v, Row(FromRight(short, i), long, i - 1)), i, short, long, S)
<1> DEFINE x == FromRight(short, i)
           row == Row(x, long, i - 1)
           L == Len(long)
           M == Magnitude(long)
           K == L + i
           t == T[i - 1]
           u == AddDigits(v, row)
<1>1. /\ Len(short) \in Nat /\ i \in Nat \ {0} /\ i - 1 \in Nat /\ i - 1 <= N /\ N \in Nat
      /\ L \in Nat /\ long \in Digits /\ M \in Nat /\ L >= 1
      /\ i - 1 \in 0..N /\ i \in 0..N /\ L \in 0..N /\ K \in Nat /\ K <= N /\ K \in 0..N
      /\ i \in 0..Len(short) /\ i - 1 \in 0..Len(short)
  <2>1. Len(short) \in Nat /\ L \in Nat /\ long \in Digits /\ M \in Nat /\ L >= 1 /\ N \in Nat
    BY DigitTyped, MagnitudeNat DEF Normal, Powers
  <2> HIDE DEF L, M
  <2> QED  BY <2>1 DEF L
<1>2. x \in 0..9
  BY <1>1, FromRightTyped
<1>3. t \in Nat /\ T[i] \in Nat /\ T[L] \in Nat /\ T[K] \in Nat
  BY <1>1, PowersTyped
<1> HIDE DEF x
<1>4. row \in Digits /\ Magnitude(row) = (x * M) * t /\ Len(row) \in {L + (i - 1), L + 1 + (i - 1)}
  <2>1. RowReads(Row(x, long, i - 1), x, long, i - 1, T)
    BY <1>1, <1>2, RowIs
  <2> QED  BY <2>1 DEF RowReads
<1>5. v \in Digits /\ Len(v) >= 1 /\ Len(v) <= L + (i - 1) /\ Magnitude(v) = S[i - 1] * M
  BY DEF RowsSum
<1>6. S[i] = S[i - 1] + x * t /\ S[i - 1] \in Nat /\ S[i] \in Nat /\ S[i] < T[i]
  BY <1>1 DEF LastParts, x
<1> HIDE DEF row, M, L
<1>7. Len(v) <= K /\ Len(row) <= K /\ Len(v) \in Nat
  <2>1. Len(v) \in Nat /\ Len(row) \in Nat
    BY <1>4, <1>5, DigitTyped
  <2> QED  BY <1>1, <1>4, <1>5, <2>1
<1> HIDE DEF K, t
<1>8. /\ u \in Digits /\ Magnitude(u) = Magnitude(v) + Magnitude(row) /\ Len(u) >= 1
      /\ \/ Len(u) <= K
         \/ Len(u) = K + 1 /\ u[1] = 1
  BY <1>1, <1>4, <1>5, <1>7, AddAny
<1> HIDE DEF u
<1>9. Magnitude(u) = S[i] * M
  <2> DEFINE s == S[i - 1]
  <2>1. s \in Nat /\ x \in Int /\ S[i] = s + x * t
    BY <1>2, <1>6
  <2> HIDE DEF s
  <2>2. s * M + (x * M) * t = (s + x * t) * M
    BY <1>1, <1>3, <2>1
  <2> QED  BY <1>4, <1>5, <1>8, <2>1, <2>2 DEF s
<1>10. Magnitude(u) < T[K]
  <2>1. M < T[L] /\ T[i] * T[L] = T[K]
    <3>1. M < T[L]
      BY <1>1, MagnitudeBound DEF M, L
    <3>2. i + L <= N /\ i + L = K /\ i \in Nat
      BY <1>1 DEF K
    <3>3. T[i] * T[L] = T[i + L]
      BY <1>1, <3>2, PowersAdd
    <3> QED  BY <3>1, <3>2, <3>3
  <2> DEFINE a == S[i]
             b == T[i]
             c == T[L]
  <2>2. a \in Nat /\ b \in Nat /\ c \in Nat /\ a < b /\ M < c /\ M \in Nat
    BY <1>1, <1>3, <1>6, <2>1
  <2> HIDE DEF a, b, c
  <2>3. a * M < b * c
    BY <2>2, LessTimes
  <2> QED  BY <1>9, <2>1, <2>3 DEF a, b, c
<1>11. Len(u) <= K
  <2> SUFFICES ASSUME Len(u) = K + 1, u[1] = 1
               PROVE  FALSE
    BY <1>8
  <2>1. PICK R : Powers(R, K + 1)
    BY <1>1, PowersExist
  <2>2. R[K] <= Magnitude(u)
    <3>1. Len(u) <= K + 1 /\ Len(u) >= 1 /\ u[1] # 0 /\ Len(u) - 1 = K
      BY <1>1
    <3> QED  BY <1>8, <2>1, <3>1, MagnitudeBound
  <2>3. R[K] = T[K]
    BY <1>1, <2>1, PowersSame
  <2>4. Magnitude(u) \in Nat
    BY <1>8, MagnitudeNat
  <2> QED  BY <1>3, <1>10, <2>2, <2>3, <2>4
<1> QED  BY <1>8, <1>9, <1>11 DEF RowsSum, u, row, x, M, L, K

LEMMA FirstDigit ==
    ASSUME NEW d, Normal(d), d # << 0 >>
    PROVE  d \in Digits /\ Len(d) \in Nat /\ Len(d) >= 1 /\ d[1] \in 1..9
<1>1. d \in Digits /\ Len(d) \in Nat /\ Len(d) >= 1
  BY DigitTyped DEF Normal
<1>2. d[1] \in 0..9
  <2>1. 1 \in 1..Len(d)
    BY <1>1
  <2> QED  BY <1>1, <2>1, DigitTyped
<1>3. d[1] # 0
  <2>1. CASE Len(d) = 1
    <3>1. d = <<d[1]>>
      BY <1>1, <2>1 DEF Digits
    <3> QED  BY <3>1
  <2>2. CASE Len(d) # 1
    <3> DEFINE n == Len(d)
    <3>0. n \in Nat /\ n >= 1 /\ n # 1
      BY <1>1, <2>2
    <3> HIDE DEF n
    <3>1. n > 1
      BY <3>0
    <3> QED  BY <3>1 DEF Normal, n
  <2> QED  BY <2>1, <2>2
<1> QED  BY <1>1, <1>2, <1>3

\* The last row begins with another digit than 0 and no sum before it is
\* longer, so neither does the result begin with a 0.
LEMMA LastRowAdded ==
    ASSUME NEW v \in Digits, NEW row \in Digits, Len(row) >= 1, row[1] # 0, Len(v) <= Len(row)
    PROVE  Normal(AddDigits(v, row))
<1>1. Len(v) \in Nat /\ Len(row) \in Nat
  BY DigitTyped
<1>2. CASE LessThan(v, row)
  <2>1. Normal(row)
    BY DEF Normal
  <2> QED  BY <1>2, <2>1, AddLargerIs DEF AddDigits
<1>3. CASE ~ LessThan(v, row)
  <2>1. Len(v) = Len(row) /\ ~ TextLess(v, row)
    BY <1>1, <1>3 DEF LessThan
  <2>2. 1 \in 1..Len(row) /\ 1 \in DOMAIN v /\ \A j \in 1..(1 - 1) : FALSE
    BY <1>1, <2>1 DEF Digits
  <2>3. ~ (v[1] < row[1])
    BY <2>1, <2>2 DEF TextLess
  <2>4. v[1] \in 0..9 /\ row[1] \in 0..9
    BY <2>1, <2>2, DigitTyped
  <2>5. v[1] # 0
    BY <2>3, <2>4
  <2>6. Normal(v)
    BY <1>1, <2>1, <2>5 DEF Normal
  <2> QED  BY <1>1, <1>3, <2>1, <2>6, AddLargerIs DEF AddDigits
<1> QED  BY <1>2, <1>3

LEMMA RowsAddedIs ==
    ASSUME NEW short, Normal(short), short # << 0 >>, NEW long, Normal(long), long # << 0 >>
    PROVE  /\ Normal(RowsAdded(short, long)[Len(short)])
           /\ Magnitude(RowsAdded(short, long)[Len(short)]) = Magnitude(short) * Magnitude(long)
<1> DEFINE m == Len(short)
           L == Len(long)
           N == m + L
           c == RowsAdded(short, long)
<1>1. /\ short \in Digits /\ m \in Nat /\ m >= 1 /\ short[1] \in 1..9
      /\ long \in Digits /\ L \in Nat /\ L >= 1 /\ long[1] \in 1..9
  BY FirstDigit
<1>2. c[0] = <<0>> /\ \A i \in 1..m : c[i] = AddDigits(c[i - 1], Row(FromRight(short, i), long, i - 1))
  BY <1>1, RowsAddedAre
<1> HIDE DEF c
<1>3. N \in Nat /\ m <= N /\ m + L <= N
  BY <1>1
<1> HIDE DEF N
<1>4. PICK T : Powers(T, N)
  BY <1>3, PowersExist
<1>5. PICK S : LastParts(S, short, T)
  BY <1>1, <1>3, <1>4, LastDigits
<1> DEFINE Z == {i \in 0..m : RowsSum(c[i], i, short, long, S)}
<1>6. 0 \in Z
  <2>1. Magnitude(long) \in Nat
    BY <1>1, MagnitudeNat
  <2>2. Magnitude(<<0>>) = S[0] * Magnitude(long)
    BY <1>5, <2>1, ZeroIs DEF LastParts
  <2>3. Len(<<0>>) >= 1 /\ Len(<<0>>) <= Len(long) + 0 /\ <<0>> \in Digits
    BY <1>1, ZeroIs
  <2>4. RowsSum(c[0], 0, short, long, S)
    BY <1>2, <2>2, <2>3 DEF RowsSum
  <2> QED  BY <1>1, <2>4
<1>7. ASSUME NEW k \in 0..(m - 1), k \in Z
      PROVE  k + 1 \in Z
  <2> DEFINE i == k + 1
             v == c[k]
  <2>1. i \in 1..m /\ i - 1 = k /\ i \in 0..m
    BY <1>1
  <2>2. RowsSum(v, k, short, long, S)
    BY <1>7
  <2>3. c[i] = AddDigits(v, Row(FromRight(short, i), long, i - 1))
    BY <1>2, <2>1
  <2> HIDE DEF i, v
  <2>4. RowsSum(v, i - 1, short, long, S)
    BY <2>1, <2>2
  <2>5. RowsSum(AddDigits(v, Row(FromRight(short, i), long, i - 1)), i, short, long, S)
    BY <1>1, <1>3, <1>4, <1>5, <2>1, <2>4, RowAdded
  <2>6. RowsSum(c[i], i, short, long, S)
    BY <2>3, <2>5
  <2> QED  BY <2>1, <2>6 DEF i
<1>8. 0..m \subseteq Z
  <2> HIDE DEF Z, m
  <2> QED  BY <1>1, <1>6, <1>7, UpTo
<1>9. RowsSum(c[m], m, short, long, S) /\ RowsSum(c[m - 1], m - 1, short, long, S)
  <2>1. m \in 0..m /\ m - 1 \in 0..m
    BY <1>1
  <2> QED  BY <1>8, <2>1
<1>10. Normal(c[m])
  <2> DEFINE x == FromRight(short, m)
             k == m - 1
             row == Row(x, long, k)
             v == c[k]
  <2>1. m \in 1..m /\ k \in Nat /\ k <= N /\ m <= Len(short) /\ m + 1 - m = 1
    BY <1>1, <1>3
  <2>2. x \in 0..9 /\ x # 0
    BY <1>1, <2>1 DEF FromRight
  <2>3. c[m] = AddDigits(v, row)
    BY <1>2, <2>1
  <2>4. v \in Digits /\ Len(v) <= L + k
    BY <1>9 DEF RowsSum
  <2> HIDE DEF x, k, v, row
  <2>5. /\ RowReads(Row(x, long, k), x, long, k, T)
        /\ x # 0 /\ Len(long) >= 1 /\ long[1] # 0 => Row(x, long, k)[1] # 0
    BY <1>1, <1>4, <2>1, <2>2, RowIs
  <2>6. row \in Digits /\ row[1] # 0
    BY <1>1, <2>2, <2>5 DEF row, RowReads
  <2>7. Len(row) \in {L + k, L + 1 + k}
    BY <2>5 DEF row, RowReads
  <2> HIDE DEF L
  <2>8. Len(v) <= Len(row) /\ Len(row) >= 1
    <3>1. Len(v) \in Nat
      BY <2>4, DigitTyped
    <3> QED  BY <1>1, <2>1, <2>4, <2>7, <3>1
  <2>9. Normal(AddDigits(v, row))
    BY <2>4, <2>6, <2>8, LastRowAdded
  <2> QED  BY <2>3, <2>9
<1> QED  BY <1>5, <1>9, <1>10 DEF LastParts, RowsSum, c, m

LEMMA MultiplyDigitsIs ==
    ASSUME NEW l, Normal(l), NEW r, Normal(r)
    PROVE  /\ Normal(MultiplyDigits(l, r))
           /\ Magnitude(MultiplyDigits(l, r)) = Magnitude(l) * Magnitude(r)
<1> DEFINE p == Magnitude(l)
           q == Magnitude(r)
<1>1. p \in Nat /\ q \in Nat
  BY MagnitudeNat DEF Normal
<1>2. CASE l = <<0>> \/ r = <<0>>
  <2>1. MultiplyDigits(l, r) = <<0>>
    BY <1>2 DEF MultiplyDigits
  <2>2. p = 0 \/ q = 0
    BY <1>2, ZeroIs
  <2> HIDE DEF p, q
  <2>3. p * q = 0
    BY <1>1, <2>2
  <2> QED  BY <2>1, <2>3, ZeroIs DEF p, q
<1>3. CASE l # <<0>> /\ r # <<0>> /\ LessThan(r, l)
  <2>1. MultiplyDigits(l, r) = RowsAdded(r, l)[Len(r)]
    BY <1>3 DEF MultiplyDigits
  <2>2. Normal(RowsAdded(r, l)[Len(r)]) /\ Magnitude(RowsAdded(r, l)[Len(r)]) = q * p
    BY <1>3, RowsAddedIs
  <2> HIDE DEF p, q
  <2>3. q * p = p * q
    BY <1>1
  <2> QED  BY <2>1, <2>2, <2>3 DEF p, q
<1>4. CASE l # <<0>> /\ r # <<0>> /\ ~ LessThan(r, l)
  <2>1. MultiplyDigits(l, r) = RowsAdded(l, r)[Len(l)]
    BY <1>4 DEF MultiplyDigits
  <2>2. Normal(RowsAdded(l, r)[Len(l)]) /\ Magnitude(RowsAdded(l, r)[Len(l)]) = p * q
    BY <1>4, RowsAddedIs
  <2> QED  BY <2>1, <2>2
<1> QED  BY <1>2, <1>3, <1>4

LEMMA SignOfProduct ==
    ASSUME NEW p \in Nat, NEW q \in Nat
    PROVE  /\ (- p) * q = - (p * q) /\ p * (- q) = - (p * q) /\ (- p) * (- q) = p * q
           /\ p * q \in Nat /\ (p > 0 /\ q > 0 => p * q # 0)
<1>1. /\ (- p) * q = - (p * q) /\ p * (- q) = - (p * q) /\ (- p) * (- q) = p * q
  OBVIOUS
<1>2. p * q \in Nat
  OBVIOUS
<1>3. ASSUME p > 0, q > 0
      PROVE  p * q # 0
  <2>1. 0 * 0 < p * q
    BY <1>3, LessTimes
  <2> QED  BY <1>2, <2>1
<1> QED  BY <1>1, <1>2, <1>3

LEMMA TimesIs ==
    ASSUME NEW x, Canonical(x), NEW y, Canonical(y)
    PROVE  Canonical(Times(x, y)) /\ ToInt(Times(x, y)) = ToInt(x) * ToInt(y)
<1> DEFINE l == x.digits
           r == y.digits
           p == Magnitude(l)
           q == Magnitude(r)
           d == MultiplyDigits(l, r)
           neg == d # <<0>> /\ x.neg # y.neg
<1>1. /\ Normal(l) /\ Normal(r) /\ p \in Nat /\ q \in Nat
      /\ x.neg \in BOOLEAN /\ y.neg \in BOOLEAN
      /\ x.neg => p > 0
      /\ y.neg => q > 0
      /\ ToInt(x) = IF x.neg THEN - p ELSE p
      /\ ToInt(y) = IF y.neg THEN - q ELSE q
  BY CanonicalParts
<1>2. Times(x, y) = Big(neg, d)
  BY DEF Times
<1>3. Normal(d) /\ Magnitude(d) = p * q
  BY <1>1, MultiplyDigitsIs
<1>4. d # <<0>> <=> Magnitude(d) # 0
  BY <1>3, ZeroIs, LessThanIs
<1> HIDE DEF d, p, q
<1>5. neg \in BOOLEAN /\ (neg => Magnitude(d) # 0)
  BY <1>4
<1>6. Canonical(Big(neg, d)) /\ ToInt(Big(neg, d)) = IF neg THEN - (p * q) ELSE p * q
  <2> HIDE DEF neg
  <2> QED  BY <1>3, <1>5, CanonicalIs
<1>7. /\ (- p) * q = - (p * q) /\ p * (- q) = - (p * q) /\ (- p) * (- q) = p * q
      /\ p * q \in Nat
  BY <1>1, SignOfProduct
<1>8. ToInt(x) * ToInt(y) = IF x.neg # y.neg THEN - (p * q) ELSE p * q
  BY <1>1, <1>7, Zenon
<1> DEFINE z == p * q
<1>9. (IF neg THEN - z ELSE z) = IF x.neg # y.neg THEN - z ELSE z
  <2>1. neg <=> z # 0 /\ x.neg # y.neg
    BY <1>3, <1>4
  <2>2. z \in Nat
    BY <1>7
  <2> HIDE DEF z, neg
  <2> QED  BY <2>1, <2>2
<1> QED  BY <1>2, <1>6, <1>8, <1>9

(***************************************************************************)
(* std::to_string.                                                         *)
(***************************************************************************)
Spells(d, n) == Normal(d) /\ Magnitude(d) = n

LEMMA OneDigit ==
    ASSUME NEW n \in 0..9
    PROVE  Spells(<<n>>, n)
<1> DEFINE P == [i \in 0..1 |-> IF i = 0 THEN 0 ELSE n]
<1>1. <<n>> \in Digits /\ Len(<<n>>) = 1 /\ <<n>>[1] = n
  BY DEF Digits
<1>2. P \in [0..1 -> Int] /\ P[0] = 0 /\ P[1] = n
  OBVIOUS
<1> HIDE DEF P
<1>3. ReadsFrom(P, <<n>>)
  <2>1. ASSUME NEW i \in 1..1
        PROVE  P[i] = 10 * P[i - 1] + <<n>>[i]
    <3>1. i = 1 /\ i - 1 = 0
      OBVIOUS
    <3> QED  BY <1>1, <1>2, <3>1
  <2> QED  BY <1>1, <1>2, <2>1 DEF ReadsFrom
<1>4. Normal(<<n>>)
  BY <1>1 DEF Normal
<1> QED  BY <1>1, <1>2, <1>3, <1>4, MagnitudeIs DEF Spells

LEMMA AppendIs ==
    ASSUME NEW d \in Digits, NEW x \in 0..9
    PROVE  /\ Append(d, x) \in Digits /\ Len(Append(d, x)) = Len(d) + 1
           /\ Len(d) >= 1 => Append(d, x)[1] = d[1]
           /\ Magnitude(Append(d, x)) = 10 * Magnitude(d) + x
<1> DEFINE n == Len(d)
           e == Append(d, x)
           P == PrefixValues(d)
           Q == [i \in 0..(n + 1) |-> IF i <= n THEN P[i] ELSE 10 * P[n] + x]
<1>1. /\ n \in Nat /\ e \in Digits /\ Len(e) = n + 1 /\ e[n + 1] = x
      /\ \A i \in 1..n : e[i] = d[i]
  BY DEF Digits
<1>2. /\ P \in [0..n -> Int] /\ P[0] = 0 /\ P[n] = Magnitude(d) /\ P[n] \in Int
      /\ \A k \in 1..n : P[k] = 10 * P[k - 1] + d[k]
  BY PrefixValuesAre, MagnitudeNat DEF ReadsFrom, Magnitude
<1> HIDE DEF n, e, P
<1>3. Q \in [0..(n + 1) -> Int] /\ Q[0] = 0 /\ Q[n + 1] = 10 * Magnitude(d) + x
  <2>1. \A i \in 0..(n + 1) : (IF i <= n THEN P[i] ELSE 10 * P[n] + x) \in Int
    BY <1>1, <1>2
  <2>2. Q \in [0..(n + 1) -> Int]
    BY <2>1
  <2>3. 0 \in 0..(n + 1) /\ 0 <= n /\ n + 1 \in 0..(n + 1) /\ ~(n + 1 <= n)
    BY <1>1
  <2> QED  BY <1>2, <2>2, <2>3
<1>4. ASSUME NEW i \in 1..(n + 1)
      PROVE  Q[i] = 10 * Q[i - 1] + e[i]
  <2>1. i - 1 \in 0..(n + 1) /\ i \in 0..(n + 1) /\ i - 1 <= n
    BY <1>1
  <2>2. CASE i <= n
    <3>1. i \in 1..n
      BY <1>1, <2>2
    <3>2. Q[i] = P[i] /\ Q[i - 1] = P[i - 1]
      BY <2>1, <2>2
    <3> HIDE DEF Q
    <3> QED  BY <1>1, <1>2, <3>1, <3>2
  <2>3. CASE ~(i <= n)
    <3>1. i = n + 1 /\ i - 1 = n
      BY <1>1, <2>3
    <3>2. Q[n] = P[n] /\ Q[n + 1] = 10 * P[n] + x
      BY <1>2, <1>3, <2>1, <3>1
    <3> HIDE DEF Q
    <3> QED  BY <1>1, <3>1, <3>2
  <2> QED  BY <2>2, <2>3
<1> HIDE DEF Q
<1>5. ReadsFrom(Q, e)
  BY <1>1, <1>3, <1>4 DEF ReadsFrom
<1>6. Magnitude(e) = Q[n + 1]
  BY <1>1, <1>3, <1>5, MagnitudeIs
<1>7. n >= 1 => e[1] = d[1]
  <2>1. n >= 1 => 1 \in 1..n
    BY <1>1
  <2> QED  BY <1>1, <2>1
<1> QED  BY <1>1, <1>3, <1>6, <1>7 DEF n, e

LEMMA OneDigitMore ==
    ASSUME NEW n \in Nat, n >= 10, NEW d, Spells(d, n \div 10)
    PROVE  Spells(Append(d, n % 10), n)
<1> DEFINE q == n \div 10
           x == n % 10
<1>1. q \in Int /\ x \in 0..9 /\ n = 10 * q + x
  BY DivMod
<1>2. Normal(d) /\ Magnitude(d) = q /\ d \in Digits /\ Len(d) >= 1
  BY DEF Spells, Normal
<1> HIDE DEF q, x
<1>3. q # 0
  BY <1>1
<1>4. d[1] \in 1..9
  <2>1. d # <<0>>
    BY <1>2, <1>3, ZeroIs
  <2> QED  BY <1>2, <2>1, FirstDigit
<1> DEFINE e == Append(d, x)
<1>5. e \in Digits /\ Len(e) = Len(d) + 1 /\ e[1] = d[1] /\ Magnitude(e) = 10 * Magnitude(d) + x
  BY <1>1, <1>2, AppendIs
<1>6. Len(d) \in Nat
  BY <1>2, DigitTyped
<1> HIDE DEF e
<1>7. Magnitude(e) = n
  BY <1>1, <1>2, <1>5
<1>8. Normal(e)
  <2>1. Len(e) >= 1 /\ e[1] # 0
    BY <1>2, <1>4, <1>5, <1>6
  <2> QED  BY <1>5, <2>1 DEF Normal
<1> QED  BY <1>7, <1>8 DEF Spells, e, x

\* What holds of a number when it holds of its tenth holds of all of them.
LEMMA ByTenths ==
    ASSUME NEW S, 0..9 \subseteq S, \A n \in Nat : n >= 10 /\ n \div 10 \in S => n \in S
    PROVE  Nat \subseteq S
<1> SUFFICES ASSUME ~ (Nat \subseteq S)
             PROVE FALSE
  OBVIOUS
<1>1. PICK n \in Nat \ S : \A m \in Nat \ S : n <= m
  BY NatLeast
<1>2. n >= 10
  <2>1. ~(n \in 0..9)
    BY <1>1
  <2> QED  BY <2>1
<1> DEFINE q == n \div 10
<1>3. q \in Nat /\ q < n
  <2>1. q \in Int /\ n % 10 \in 0..9 /\ n = 10 * q + (n % 10)
    BY DivMod
  <2> DEFINE x == n % 10
  <2> HIDE DEF q, x
  <2>2. x \in 0..9 /\ n = 10 * q + x
    BY <2>1 DEF x
  <2> QED  BY <1>2, <2>1, <2>2
<1>4. q \notin S
  BY <1>1, <1>2
<1> HIDE DEF q
<1>5. n <= q
  BY <1>1, <1>3, <1>4
<1> QED  BY <1>3, <1>5

\* Every number has one text.
LEMMA DigitsOfIs ==
    ASSUME NEW n \in Nat
    PROVE  Spells(DigitsOf[n], n)
<1> DEFINE g == [m \in Nat |-> CHOOSE d : Spells(d, m)]
           Z == {m \in Nat : \E d : Spells(d, m)}
<1>1. Nat \subseteq Z
  <2>1. 0..9 \subseteq Z
    BY OneDigit
  <2>2. ASSUME NEW m \in Nat, m >= 10, m \div 10 \in Z
        PROVE  m \in Z
    <3>1. PICK d : Spells(d, m \div 10)
      BY <2>2
    <3>2. Spells(Append(d, m % 10), m)
      BY <2>2, <3>1, OneDigitMore
    <3> QED  BY <3>2
  <2> HIDE DEF Z
  <2> QED  BY <2>1, <2>2, ByTenths
<1>2. \A m \in Nat : Spells(g[m], m)
  BY <1>1
<1>3. ASSUME NEW m \in Nat, NEW d, Spells(d, m)
      PROVE  g[m] = d
  <2>1. Spells(g[m], m)
    BY <1>2
  <2> HIDE DEF g
  <2> QED  BY <1>3, <2>1, LessThanIs DEF Spells
<1>4. ASSUME NEW m \in Nat
      PROVE  g[m] = IF m < 10 THEN <<m>> ELSE Append(g[m \div 10], m % 10)
  <2>1. CASE m < 10
    <3>1. m \in 0..9
      BY <2>1
    <3>2. g[m] = <<m>>
      BY <1>3, <3>1, OneDigit
    <3> HIDE DEF g
    <3> QED  BY <2>1, <3>2
  <2>2. CASE ~(m < 10)
    <3>1. m \div 10 \in Nat /\ m >= 10
      BY <2>2
    <3>2. Spells(g[m \div 10], m \div 10)
      BY <1>2, <3>1
    <3> HIDE DEF g
    <3>3. Spells(Append(g[m \div 10], m % 10), m)
      BY <3>1, <3>2, OneDigitMore
    <3>4. g[m] = Append(g[m \div 10], m % 10)
      BY <1>3, <3>3
    <3> QED  BY <2>2, <3>4
  <2> QED  BY <2>1, <2>2
<1>5. g = [m \in Nat |-> g[m]]
  OBVIOUS
<1> HIDE DEF g
<1>6. g = [m \in Nat |-> IF m < 10 THEN <<m>> ELSE Append(g[m \div 10], m % 10)]
  BY <1>4, <1>5
<1> DEFINE D == DigitsOf
<1>7. D = [m \in Nat |-> IF m < 10 THEN <<m>> ELSE Append(D[m \div 10], m % 10)]
  BY <1>6 DEF DigitsOf
<1> HIDE DEF D
<1> DEFINE S == {m \in Nat : Spells(D[m], m)}
<1>8. 0..9 \subseteq S
  <2>1. ASSUME NEW m \in 0..9
        PROVE  m \in S
    <3>1. D[m] = <<m>> /\ m \in Nat
      BY <1>7
    <3> QED  BY <3>1, OneDigit
  <2> QED  BY <2>1
<1>9. ASSUME NEW m \in Nat, m >= 10, m \div 10 \in S
      PROVE  m \in S
  <2>1. D[m] = Append(D[m \div 10], m % 10)
    BY <1>7, <1>9
  <2>2. Spells(D[m \div 10], m \div 10)
    BY <1>9
  <2>3. Spells(Append(D[m \div 10], m % 10), m)
    BY <1>9, <2>2, OneDigitMore
  <2> QED  BY <2>1, <2>3
<1>10. Nat \subseteq S
  <2> HIDE DEF S
  <2> QED  BY <1>8, <1>9, ByTenths
<1> QED  BY <1>10 DEF D

LEMMA FromIntIs ==
    ASSUME NEW i \in Int
    PROVE  Canonical(FromInt(i)) /\ ToInt(FromInt(i)) = i
<1>1. CASE i < 0
  <2> DEFINE n == - i
             d == DigitsOf[n]
  <2>1. n \in Nat /\ n # 0
    BY <1>1
  <2>2. FromInt(i) = Big(TRUE, d)
    BY <1>1 DEF FromInt
  <2>3. Spells(DigitsOf[n], n)
    <3> HIDE DEF n
    <3> QED  BY <2>1, DigitsOfIs
  <2> HIDE DEF d
  <2>4. Normal(d) /\ Magnitude(d) = n
    BY <2>3 DEF Spells, d
  <2>5. Canonical(Big(TRUE, d)) /\ ToInt(Big(TRUE, d)) = - Magnitude(d)
    BY <2>1, <2>4, CanonicalIs
  <2>6. - n = i
    OBVIOUS
  <2> HIDE DEF n
  <2>7. ToInt(Big(TRUE, d)) = i
    BY <2>4, <2>5, <2>6
  <2> QED  BY <2>2, <2>5, <2>7
<1>2. CASE ~(i < 0)
  <2>1. i \in Nat
    BY <1>2
  <2>2. Normal(DigitsOf[i]) /\ Magnitude(DigitsOf[i]) = i
    BY <2>1, DigitsOfIs DEF Spells
  <2>3. FromInt(i) = Big(FALSE, DigitsOf[i])
    BY <1>2 DEF FromInt, Positive
  <2> QED  BY <2>2, <2>3, CanonicalIs
<1> QED  BY <1>1, <1>2

(***************************************************************************)
(* The operators compute with the integers.                                *)
(***************************************************************************)
\* A number of the program that no leading zero and no negative zero has got
\* into is the text of its integer.
LEMMA CanonicalText ==
    ASSUME NEW x, Canonical(x)
    PROVE  ToInt(x) \in Int /\ x = FromInt(ToInt(x))
<1>1. ToInt(x) \in Int
  BY CanonicalParts
<1>2. Canonical(FromInt(ToInt(x))) /\ ToInt(FromInt(ToInt(x))) = ToInt(x)
  BY <1>1, FromIntIs
<1> QED  BY <1>1, <1>2, OrderIs

(***************************************************************************)
(* The operators +, -, *, <, > and == of BigInt (bigint.cc), on the texts  *)
(* of any two integers however long, give the text of their sum,           *)
(* difference and product and the order and equality of the integers: no   *)
(* carry or borrow is lost, no zero is left in front, zero has no sign.    *)
(***************************************************************************)
THEOREM BigIntExact ==
    \A i, j \in Int :
      /\ Plus(FromInt(i), FromInt(j)) = FromInt(i + j)
      /\ Minus(FromInt(i), FromInt(j)) = FromInt(i - j)
      /\ Times(FromInt(i), FromInt(j)) = FromInt(i * j)
      /\ Less(FromInt(i), FromInt(j)) <=> i < j
      /\ Greater(FromInt(i), FromInt(j)) <=> i > j
      /\ FromInt(i) = FromInt(j) <=> i = j
<1> SUFFICES ASSUME NEW i \in Int, NEW j \in Int
             PROVE  /\ Plus(FromInt(i), FromInt(j)) = FromInt(i + j)
                    /\ Minus(FromInt(i), FromInt(j)) = FromInt(i - j)
                    /\ Times(FromInt(i), FromInt(j)) = FromInt(i * j)
                    /\ Less(FromInt(i), FromInt(j)) <=> i < j
                    /\ Greater(FromInt(i), FromInt(j)) <=> i > j
                    /\ FromInt(i) = FromInt(j) <=> i = j
  OBVIOUS
<1> DEFINE x == FromInt(i)
           y == FromInt(j)
<1>1. Canonical(x) /\ ToInt(x) = i /\ Canonical(y) /\ ToInt(y) = j
  BY FromIntIs
<1> HIDE DEF x, y
<1>2. Plus(x, y) = FromInt(i + j)
  <2>1. Canonical(Plus(x, y)) /\ ToInt(Plus(x, y)) = i + j
    BY <1>1, PlusIs
  <2> QED  BY <2>1, CanonicalText
<1>3. Minus(x, y) = FromInt(i - j)
  <2>1. Canonical(Minus(x, y)) /\ ToInt(Minus(x, y)) = i - j
    BY <1>1, MinusIs
  <2> QED  BY <2>1, CanonicalText
<1>4. Times(x, y) = FromInt(i * j)
  <2>1. Canonical(Times(x, y)) /\ ToInt(Times(x, y)) = i * j
    BY <1>1, TimesIs
  <2> QED  BY <2>1, CanonicalText
<1>5. Less(x, y) <=> i < j
  BY <1>1, OrderIs
<1>6. Greater(x, y) <=> i > j
  <2>1. Less(y, x) <=> j < i
    BY <1>1, OrderIs
  <2> QED  BY <2>1 DEF Greater
<1>7. x = y <=> i = j
  BY <1>1, OrderIs
<1> QED  BY <1>2, <1>3, <1>4, <1>5, <1>6, <1>7 DEF x, y
=============================================================================
