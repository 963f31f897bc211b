------------------------- MODULE InputBuilderProofs -------------------------
(***************************************************************************)
(* Theorem about the input builder: whatever is called, the stack holds    *)
(* what the list of the calls says.  The documents have no bound, so they  *)
(* have no type; what is proved of them is where they stand.               *)
(***************************************************************************)
EXTENDS MCInputBuilder, WellFoundedInduction, TLAPS

(***************************************************************************)
(* Induction over the naturals, with a set.                                *)
(***************************************************************************)
LEMMA NatLeast ==
    ASSUME NEW T, T \subseteq Nat, T # {}
    PROVE  \E n \in T : \A m \in T : n <= m
<1> DEFINE R == OpToRel(<, Nat)
<1>1. IsWellFoundedOn(R, Nat)
  BY NatLessThanWellFounded
<1>2. \A x, y \in Nat : x < y => <<x, y>> \in R
  BY DEF OpToRel
<1> HIDE DEF R
<1>3. PICK n \in T : \A y \in T : ~ (<<y, n>> \in R)
  BY <1>1, WFMin
<1>4. ASSUME NEW m \in T
      PROVE  n <= m
  <2>1. n \in Nat /\ m \in Nat
    OBVIOUS
  <2>2. ~(m < n)
    BY <1>2, <1>3, <2>1
  <2> QED  BY <2>1, <2>2
<1> QED  BY <1>4

LEMMA SetInduction ==
    ASSUME NEW S, 0 \in S, \A n \in Nat : n \in S => n + 1 \in S
    PROVE  Nat \subseteq S
<1> SUFFICES ASSUME ~ (Nat \subseteq S)
             PROVE FALSE
  OBVIOUS
<1>1. PICK n \in Nat \ S : \A m \in Nat \ S : n <= m
  BY NatLeast
<1> QED  BY <1>1

LEMMA MaxOf ==
    ASSUME NEW i \in Nat, NEW S, S \subseteq 0..i, S # {}
    PROVE  Max(S) \in S /\ \A y \in S : y <= Max(S)
<1> DEFINE T == {i - y : y \in S}
<1>1. PICK n \in T : \A m \in T : n <= m
  <2>1. \A y \in S : i - y \in Nat
    OBVIOUS
  <2>2. T \subseteq Nat
    BY <2>1
  <2>3. T # {}
    OBVIOUS
  <2> QED  BY <2>2, <2>3, NatLeast
<1>2. PICK x \in S : n = i - x
  OBVIOUS
<1>3. \A y \in S : x >= y
  <2> TAKE y \in S
  <2>1. n <= i - y
    BY <1>1
  <2> QED  BY <1>2, <2>1
<1> QED  BY <1>3 DEF Max

(***************************************************************************)
(* The recursive definitions, unfolded.                                    *)
(***************************************************************************)
\* A list of calls.
CallList(c) == /\ Len(c) \in Nat
               /\ \A i \in 1..Len(c) : PartsOf(c[i]) \in Nat

LEMMA HeightsAre ==
    ASSUME NEW c, CallList(c)
    PROVE  /\ Heights(c) \in [0..Len(c) -> Int]
           /\ Heights(c)[0] = 0
           /\ \A i \in 1..Len(c) : Heights(c)[i] = Heights(c)[i - 1] - PartsOf(c[i]) + 1
<1> DEFINE N == Len(c)
           Ok(n) == {g \in [0..n -> Int] : /\ g[0] = 0
                                           /\ \A i \in 1..n : g[i] = g[i - 1] - PartsOf(c[i]) + 1}
           S == {n \in Nat : n <= N => Ok(n) # {}}
           h == CHOOSE h : h = [i \in 0..Len(c) |-> IF i = 0 THEN 0 ELSE h[i - 1] - PartsOf(c[i]) + 1]
<1>1. N \in Nat /\ \A i \in 1..N : PartsOf(c[i]) \in Nat
  BY DEF CallList
<1>2. 0 \in S
  <2>1. [i \in 0..0 |-> 0] \in Ok(0)
    OBVIOUS
  <2> QED  BY <2>1
<1>3. ASSUME NEW n \in Nat, n \in S, n + 1 <= N
      PROVE  n + 1 \in S
  <2>0. n <= N
    BY <1>1, <1>3
  <2>1. PICK g \in Ok(n) : TRUE
    <3> HIDE DEF Ok
    <3> QED  BY <1>3, <2>0
  <2> DEFINE f == [i \in 0..(n + 1) |-> IF i = n + 1 THEN g[n] - PartsOf(c[i]) + 1 ELSE g[i]]
  <2>2. g \in [0..n -> Int] /\ g[0] = 0 /\ \A i \in 1..n : g[i] = g[i - 1] - PartsOf(c[i]) + 1
    BY <2>1
  <2>3. f \in [0..(n + 1) -> Int] /\ f[0] = 0
    BY <1>1, <1>3, <2>2
  <2>4. ASSUME NEW i \in 1..(n + 1)
        PROVE  f[i] = f[i - 1] - PartsOf(c[i]) + 1
    <3>1. CASE i = n + 1
      <4>1. f[i - 1] = g[n] /\ f[i] = g[n] - PartsOf(c[i]) + 1
        BY <3>1
      <4> QED  BY <4>1
    <3>2. CASE i \in 1..n
      <4>1. f[i - 1] = g[i - 1] /\ f[i] = g[i]
        BY <3>2
      <4> QED  BY <2>2, <3>2, <4>1
    <3> QED  BY <3>1, <3>2
  <2>5. f \in Ok(n + 1)
    BY <2>3, <2>4
  <2> HIDE DEF Ok
  <2> QED  BY <2>5
<1>4. N \in S
  <2>1. \A n \in Nat : n \in S => n + 1 \in S
    <3> HIDE DEF Ok
    <3> QED  BY <1>1, <1>3
  <2> HIDE DEF S
  <2> QED  BY <1>1, <1>2, <2>1, SetInduction
<1>5. PICK g \in Ok(N) : TRUE
  BY <1>1, <1>4
<1>6. g = [i \in 0..N |-> IF i = 0 THEN 0 ELSE g[i - 1] - PartsOf(c[i]) + 1]
  BY <1>1, <1>5
<1>7. h = [i \in 0..N |-> IF i = 0 THEN 0 ELSE h[i - 1] - PartsOf(c[i]) + 1]
  BY <1>6
<1>8. Heights(c) = h
  BY DEF Heights
<1> HIDE DEF h
<1>9. h[0] = 0 /\ \A i \in 1..N : h[i] = h[i - 1] - PartsOf(c[i]) + 1
  BY <1>1, <1>7
<1> DEFINE I == {n \in Nat : n <= N => h[n] \in Int}
<1>10. N \in Nat /\ \A n \in 0..N : h[n] \in Int
  <2>1. 0 \in I
    BY <1>9
  <2>2. \A n \in Nat : n \in I => n + 1 \in I
    BY <1>1, <1>9
  <2>3. Nat \subseteq I
    <3> HIDE DEF I
    <3> QED  BY <2>1, <2>2, SetInduction
  <2> QED  BY <1>1, <2>3
<1> QED  BY <1>7, <1>8, <1>9, <1>10

\* A part stays where it is until a call leaves as many parts again.
LEMMA EndOfIs ==
    ASSUME NEW h, NEW i \in Nat, NEW n
    PROVE  /\ EndOf(h, i, n) \in 0..i
           /\ i > 0 /\ h[i] = n => EndOf(h, i, n) = i
           /\ i > 0 /\ h[i] # n => EndOf(h, i, n) = EndOf(h, i - 1, n)
<1> DEFINE S == {0} \cup {j \in 1..i : h[j] = n}
<1>1. S \subseteq 0..i /\ S # {} /\ EndOf(h, i, n) = Max(S)
  BY DEF EndOf
<1>2. Max(S) \in S /\ \A y \in S : y <= Max(S)
  <2> HIDE DEF S
  <2> QED  BY <1>1, MaxOf
<1>3. ASSUME i > 0, h[i] = n
      PROVE  Max(S) = i
  BY <1>1, <1>2, <1>3
<1>4. ASSUME i > 0, h[i] # n
      PROVE  S = {0} \cup {j \in 1..(i - 1) : h[j] = n}
  BY <1>4
<1>5. ASSUME i > 0, h[i] # n
      PROVE  EndOf(h, i, n) = EndOf(h, i - 1, n)
  BY <1>1, <1>4, <1>5 DEF EndOf
<1> HIDE DEF S
<1> QED  BY <1>1, <1>2, <1>3, <1>5

\* The parts of call i of c, when g says what the calls before it make.
PartsIn(c, g, i) ==
    [k \in 1..PartsOf(c[i]) |-> g[EndOf(Heights(c), i - 1, Heights(c)[i - 1] - PartsOf(c[i]) + k)]]
Makes(c, g, i) == IF i = 0 THEN NotATerm ELSE Built(c[i], PartsIn(c, g, i))

LEMMA MakesSame ==
    ASSUME NEW c, NEW i \in Nat, NEW f, NEW g, \A j \in 0..(i - 1) : f[j] = g[j]
    PROVE  Makes(c, f, i) = Makes(c, g, i)
<1>1. CASE i = 0
  BY <1>1 DEF Makes
<1>2. CASE i > 0
  <2>0. i - 1 \in Nat
    BY <1>2
  <2>1. \A n : EndOf(Heights(c), i - 1, n) \in 0..(i - 1)
    BY <2>0, EndOfIs
  <2>2. PartsIn(c, f, i) = PartsIn(c, g, i)
    BY <2>1 DEF PartsIn
  <2> QED  BY <2>2 DEF Makes
<1> QED  BY <1>1, <1>2

LEMMA NodesAre ==
    ASSUME NEW c, Len(c) \in Nat
    PROVE  \A i \in 0..Len(c) : Nodes(c)[i] = Makes(c, Nodes(c), i)
<1> DEFINE N == Len(c)
           Ok(n) == \E g : g = [i \in 0..n |-> Makes(c, g, i)]
           S == {n \in Nat : Ok(n)}
           Body(g) == [i \in 0..N |->
                          IF i = 0 THEN NotATerm
                          ELSE Built(c[i], [k \in 1..PartsOf(c[i]) |->
                                 g[EndOf(Heights(c), i - 1, Heights(c)[i - 1] - PartsOf(c[i]) + k)]])]
           r == CHOOSE g : g = Body(g)
<1>1. \A g : Body(g) = [i \in 0..N |-> Makes(c, g, i)]
  BY DEF Makes, PartsIn
<1>2. Nodes(c) = r
  BY DEF Nodes
<1> HIDE DEF Body
<1>3. 0 \in S
  <2> DEFINE g == [i \in 0..0 |-> NotATerm]
  <2>1. g = [i \in 0..0 |-> Makes(c, g, i)]
    BY DEF Makes
  <2> QED  BY <2>1
<1>4. ASSUME NEW n \in Nat, n \in S
      PROVE  n + 1 \in S
  <2>1. PICK g : g = [i \in 0..n |-> Makes(c, g, i)]
    BY <1>4
  <2> DEFINE f == [i \in 0..(n + 1) |-> IF i = n + 1 THEN Makes(c, g, i) ELSE g[i]]
  <2>2. \A i \in 0..n : f[i] = g[i] /\ g[i] = Makes(c, g, i)
    BY <2>1
  <2>3. f[n + 1] = Makes(c, g, n + 1)
    OBVIOUS
  <2> HIDE DEF f
  <2>4. ASSUME NEW i \in 0..(n + 1)
        PROVE  f[i] = Makes(c, f, i)
    <3>1. i \in Nat /\ \A j \in 0..(i - 1) : f[j] = g[j]
      BY <2>2
    <3>2. Makes(c, f, i) = Makes(c, g, i)
      BY <3>1, MakesSame
    <3>3. f[i] = Makes(c, g, i)
      BY <2>2, <2>3
    <3> QED  BY <3>2, <3>3
  <2>5. f = [i \in 0..(n + 1) |-> Makes(c, f, i)]
    BY <2>4 DEF f
  <2> QED  BY <2>5
<1>5. N \in S
  <2> HIDE DEF S
  <2> QED  BY <1>3, <1>4, SetInduction
<1>6. PICK g : g = [i \in 0..N |-> Makes(c, g, i)]
  BY <1>5
<1>7. g = Body(g)
  BY <1>1, <1>6
<1>8. r = Body(r)
  BY <1>7
<1> HIDE DEF r
<1>9. r = [i \in 0..N |-> Makes(c, r, i)]
  BY <1>1, <1>8
<1> QED  BY <1>2, <1>9

(***************************************************************************)
(* What is said of a list of calls stays when another call is made.        *)
(***************************************************************************)
LEMMA PrefixHeights ==
    ASSUME NEW c, NEW d, CallList(c), CallList(d), Len(c) <= Len(d),
           \A i \in 1..Len(c) : d[i] = c[i]
    PROVE  \A i \in 0..Len(c) : Heights(d)[i] = Heights(c)[i]
<1> DEFINE S == {n \in Nat : n <= Len(c) => Heights(d)[n] = Heights(c)[n]}
<1>1. Len(c) \in Nat /\ Len(d) \in Nat
  BY DEF CallList
<1>2. 0 \in S
  BY HeightsAre
<1>3. ASSUME NEW n \in Nat, n \in S
      PROVE  n + 1 \in S
  <2> SUFFICES ASSUME n + 1 <= Len(c)
               PROVE  Heights(d)[n + 1] = Heights(c)[n + 1]
    OBVIOUS
  <2>1. n + 1 \in 1..Len(c) /\ n + 1 \in 1..Len(d) /\ (n + 1) - 1 = n /\ n <= Len(c)
    BY <1>1
  <2>2. /\ Heights(c)[n + 1] = Heights(c)[n] - PartsOf(c[n + 1]) + 1
        /\ Heights(d)[n + 1] = Heights(d)[n] - PartsOf(d[n + 1]) + 1
    BY <2>1, HeightsAre
  <2> QED  BY <1>3, <2>1, <2>2
<1>4. Nat \subseteq S
  <2> HIDE DEF S
  <2> QED  BY <1>2, <1>3, SetInduction
<1> QED  BY <1>1, <1>4

LEMMA EndOfSame ==
    ASSUME NEW g, NEW h, NEW i \in Nat, \A j \in 1..i : g[j] = h[j], NEW n
    PROVE  EndOf(g, i, n) = EndOf(h, i, n)
<1>1. {j \in 1..i : g[j] = n} = {j \in 1..i : h[j] = n}
  OBVIOUS
<1> QED  BY <1>1 DEF EndOf

LEMMA PrefixNodes ==
    ASSUME NEW c, NEW d, CallList(c), CallList(d), Len(c) <= Len(d),
           \A i \in 1..Len(c) : d[i] = c[i]
    PROVE  \A i \in 0..Len(c) : Nodes(d)[i] = Nodes(c)[i]
<1> DEFINE S == {n \in Nat : \A i \in 0..n : i <= Len(c) => Nodes(d)[i] = Nodes(c)[i]}
<1>1. Len(c) \in Nat /\ Len(d) \in Nat
  BY DEF CallList
<1>2. 0 \in S
  <2>1. Nodes(d)[0] = NotATerm /\ Nodes(c)[0] = NotATerm
    BY <1>1, NodesAre DEF Makes
  <2> QED  BY <2>1
<1>3. ASSUME NEW n \in Nat, n \in S
      PROVE  n + 1 \in S
  <2> SUFFICES ASSUME n + 1 <= Len(c)
               PROVE  Nodes(d)[n + 1] = Nodes(c)[n + 1]
    BY <1>1, <1>3
  <2>1. /\ n + 1 \in 0..Len(c) /\ n + 1 \in 0..Len(d) /\ n + 1 \in 1..Len(c)
        /\ (n + 1) - 1 = n /\ n + 1 # 0 /\ n <= Len(c)
    BY <1>1
  <2>2. \A j \in 0..n : Nodes(d)[j] = Nodes(c)[j] /\ Heights(d)[j] = Heights(c)[j]
    <3>1. \A j \in 0..n : j <= Len(c) => Nodes(d)[j] = Nodes(c)[j]
      BY <1>3
    <3>2. \A j \in 0..Len(c) : Heights(d)[j] = Heights(c)[j]
      BY PrefixHeights
    <3>3. \A j \in 0..n : j <= Len(c) /\ j \in 0..Len(c)
      BY <1>1, <2>1
    <3> QED  BY <3>1, <3>2, <3>3
  <2>3. d[n + 1] = c[n + 1]
    BY <2>1
  <2>4. \A m : EndOf(Heights(d), n, m) = EndOf(Heights(c), n, m)
    BY <2>2, EndOfSame
  <2>5. PartsIn(d, Nodes(d), n + 1) = PartsIn(c, Nodes(d), n + 1)
    BY <2>1, <2>2, <2>3, <2>4 DEF PartsIn
  <2>6. Makes(d, Nodes(d), n + 1) = Makes(c, Nodes(d), n + 1)
    BY <2>1, <2>3, <2>5 DEF Makes
  <2>7. Makes(c, Nodes(d), n + 1) = Makes(c, Nodes(c), n + 1)
    BY <2>1, <2>2, MakesSame
  <2> QED  BY <1>1, <2>1, <2>6, <2>7, NodesAre
<1>4. Nat \subseteq S
  <2> HIDE DEF S
  <2> QED  BY <1>2, <1>3, SetInduction
<1>5. Len(c) \in S
  BY <1>1, <1>4
<1> QED  BY <1>1, <1>5

LEMMA PrefixWhole ==
    ASSUME NEW c, NEW d, CallList(c), CallList(d), Len(c) <= Len(d),
           \A i \in 1..Len(c) : d[i] = c[i]
    PROVE  /\ \A i \in 0..Len(c) : Whole(d, i) = Whole(c, i)
           /\ \A i \in 1..Len(c) : Fails(d, i) = Fails(c, i)
<1>1. Len(c) \in Nat /\ Len(d) \in Nat
  BY DEF CallList
<1>2. ASSUME NEW i \in 0..Len(c)
      PROVE  Whole(d, i) = Whole(c, i)
  <2>1. \A j \in 0..Len(c) : Heights(d)[j] = Heights(c)[j] /\ Nodes(d)[j] = Nodes(c)[j]
    BY PrefixHeights, PrefixNodes
  <2>2. i \in Nat /\ \A j \in 1..i : Heights(d)[j] = Heights(c)[j]
    BY <1>1, <2>1
  <2>3. ASSUME NEW n
        PROVE  EndOf(Heights(d), i, n) = EndOf(Heights(c), i, n) /\ EndOf(Heights(c), i, n) \in 0..i
    <3>1. EndOf(Heights(d), i, n) = EndOf(Heights(c), i, n)
      BY <2>2, EndOfSame
    <3>2. EndOf(Heights(c), i, n) \in 0..i
      BY <2>2, EndOfIs
    <3> QED  BY <3>1, <3>2
  <2>4. \A n : Nodes(d)[EndOf(Heights(d), i, n)] = Nodes(c)[EndOf(Heights(c), i, n)]
    BY <1>1, <2>1, <2>3
  <2> QED  BY <2>1, <2>4 DEF Whole
<1>3. ASSUME NEW i \in 1..Len(c)
      PROVE  Fails(d, i) = Fails(c, i)
  <2>1. i - 1 \in 0..Len(c)
    BY <1>1
  <2>2. Heights(d)[i - 1] = Heights(c)[i - 1] /\ Whole(d, i - 1) = Whole(c, i - 1)
    BY <1>2, <2>1, PrefixHeights
  <2> QED  BY <2>2 DEF Fails
<1> QED  BY <1>2, <1>3

(***************************************************************************)
(* The invariant.                                                          *)
(***************************************************************************)
Call == [op : {"scalar"}, value : Scalars] \cup [op : {"item"}]
        \cup [op : {"object", "array", "set"}, count : Counts]

\* The first of the calls that fails is the one after call i.
Reads(c, i) == /\ i \in 0..Len(c)
               /\ i < Len(c) => Fails(c, i + 1)
               /\ \A k \in 1..i : ~Fails(c, k)

BuildInv == /\ calls \in Seq(Call) /\ Reads(calls, Done) /\ given \in Nat
            /\ BuiltAsRead

LEMMA CallParts ==
    ASSUME NEW x \in Call
    PROVE  PartsOf(x) \in Nat
<1>1. CASE x.op = "scalar" \/ x.op = "item"
  BY <1>1 DEF PartsOf
<1>2. CASE ~(x.op = "scalar" \/ x.op = "item")
  <2>1. x.count \in Nat
    BY <1>2, CountsAssumption DEF Call
  <2> QED  BY <1>2, <2>1 DEF PartsOf
<1> QED  BY <1>1, <1>2

LEMMA CallsAreList ==
    ASSUME NEW c \in Seq(Call)
    PROVE  CallList(c)
BY CallParts DEF CallList

\* There is only one such call.
First(c) == CHOOSE i \in 0..Len(c) : Reads(c, i)

LEMMA FirstIs ==
    ASSUME NEW c \in Seq(Call), NEW d, Reads(c, d)
    PROVE  First(c) = d
<1>1. Len(c) \in Nat /\ d \in 0..Len(c)
  BY DEF Reads
<1>2. ASSUME NEW e \in 0..Len(c), Reads(c, e)
      PROVE  e = d
  <2>1. ~ (e < d)
    <3> SUFFICES ASSUME e < d
                 PROVE  FALSE
      OBVIOUS
    <3>1. e + 1 \in 1..d /\ e < Len(c)
      BY <1>1
    <3> QED  BY <1>2, <3>1 DEF Reads
  <2>2. ~ (d < e)
    <3> SUFFICES ASSUME d < e
                 PROVE  FALSE
      OBVIOUS
    <3>1. d + 1 \in 1..e /\ d < Len(c)
      BY <1>1
    <3> QED  BY <3>1, <1>2 DEF Reads
  <2> QED  BY <1>1, <2>1, <2>2
<1> QED  BY <1>1, <1>2 DEF First

LEMMA DoneIsFirst == Done = First(calls) /\ Done' = First(calls')
BY DEF Done, First, Reads

\* The stack is a list as long as the calls say.
LEMMA StackIs ==
    ASSUME BuildInv
    PROVE  LET h == Heights(calls)[Done]
           IN  /\ h \in Nat /\ Len(stack) = h /\ DOMAIN stack = 1..h
               /\ stack \in Seq({stack[i] : i \in 1..h})
               /\ \A k \in 1..h : stack[k] = Nodes(calls)[EndOf(Heights(calls), Done, k)]
               /\ Done \in Nat /\ Done <= Len(calls) /\ Len(calls) \in Nat
<1> DEFINE h == Heights(calls)[Done]
<1>1. /\ Done \in Nat /\ Done <= Len(calls) /\ Len(calls) \in Nat
      /\ Done \in 0..Len(calls) /\ CallList(calls)
  BY CallsAreList DEF BuildInv, Reads
<1>2. h \in Nat
  <2>1. CASE Done = 0
    BY <1>1, <2>1, HeightsAre
  <2>2. CASE Done > 0
    <3>1. Done \in 1..Done /\ Done \in 1..Len(calls) /\ Done - 1 \in 0..Len(calls)
      BY <1>1, <2>2
    <3>2. ~Fails(calls, Done)
      BY <3>1 DEF BuildInv, Reads
    <3>3. ~ (Heights(calls)[Done - 1] < PartsOf(calls[Done]))
      BY <3>2 DEF Fails
    <3>4. Heights(calls)[Done - 1] \in Int /\ h = Heights(calls)[Done - 1] - PartsOf(calls[Done]) + 1
      BY <1>1, <3>1, HeightsAre
    <3>5. PartsOf(calls[Done]) \in Nat
      BY <1>1, <3>1 DEF CallList
    <3> QED  BY <3>3, <3>4, <3>5
  <2> QED  BY <1>1, <2>1, <2>2
<1>3. stack = [k \in 1..h |-> Nodes(calls)[EndOf(Heights(calls), Done, k)]]
  BY DEF BuildInv, BuiltAsRead, Whole
<1> HIDE DEF h
<1>4. stack \in Seq({stack[i] : i \in 1..h})
  BY <1>2, <1>3
<1>5. Len(stack) = h /\ DOMAIN stack = 1..h
  BY <1>2, <1>3, <1>4
<1>6. \A k \in 1..h : stack[k] = Nodes(calls)[EndOf(Heights(calls), Done, k)]
  BY <1>3
<1> QED  BY <1>1, <1>2, <1>4, <1>5, <1>6 DEF h
(***************************************************************************)
(* One more call.                                                          *)
(***************************************************************************)
LEMMA OneMore ==
    ASSUME BuildInv, NEW x \in Call, Made(x)
    PROVE  LET n == Len(calls)
           IN  /\ calls' \in Seq(Call) /\ Len(calls') = n + 1 /\ calls'[n + 1] = x
               /\ n \in Nat /\ CallList(calls')
               /\ \A i \in 0..n : /\ Heights(calls')[i] = Heights(calls)[i]
                                  /\ Nodes(calls')[i] = Nodes(calls)[i]
                                  /\ Whole(calls', i) = Whole(calls, i)
               /\ \A i \in 1..n : Fails(calls', i) = Fails(calls, i)
<1> DEFINE n == Len(calls)
<1>1. /\ calls \in Seq(Call) /\ calls' = Append(calls, x)
      /\ calls' \in Seq(Call) /\ n \in Nat /\ Len(calls') = n + 1 /\ calls'[n + 1] = x
      /\ \A i \in 1..n : calls'[i] = calls[i]
  BY DEF BuildInv, Made
<1>2. CallList(calls) /\ CallList(calls')
  BY <1>1, CallsAreList
<1>3. Len(calls) <= Len(calls')
  BY <1>1
<1>4. \A i \in 0..n : Heights(calls')[i] = Heights(calls)[i]
  BY <1>1, <1>2, <1>3, PrefixHeights
<1>5. \A i \in 0..n : Nodes(calls')[i] = Nodes(calls)[i]
  BY <1>1, <1>2, <1>3, PrefixNodes
<1>6. /\ \A i \in 0..n : Whole(calls', i) = Whole(calls, i)
      /\ \A i \in 1..n : Fails(calls', i) = Fails(calls, i)
  BY <1>1, <1>2, <1>3, PrefixWhole
<1> QED  BY <1>1, <1>2, <1>4, <1>5, <1>6

\* The input is what it was.
LEMMA InputStays ==
    ASSUME BuildInv, NEW x \in Call, Made(x)
    PROVE  /\ given' \in Nat /\ given' <= Done
           /\ given' = 0 => input' = NoInput
           /\ given' > 0 => input' = Nodes(calls')[given']
<1>1. given' = given /\ input' = input /\ given \in Nat /\ given <= Done /\ Done \in 0..Len(calls)
  BY DEF Made, BuildInv, BuiltAsRead, Reads
<1>2. given \in 0..Len(calls)
  BY <1>1, OneMore
<1>3. Nodes(calls')[given] = Nodes(calls)[given]
  BY <1>2, OneMore
<1> QED  BY <1>1, <1>3 DEF BuildInv, BuiltAsRead

\* Call x lacks parts, or has others than its kind of call takes.
Refuses(x) == \/ Len(stack) < PartsOf(x)
              \/ x.op = "object" /\ ~OnlyItems(PartsOf(x))

LEMMA FailsIs ==
    ASSUME BuildInv, NEW x \in Call, Made(x), Done = Len(calls)
    PROVE  Fails(calls', Len(calls) + 1) <=> Refuses(x)
<1> DEFINE n == Len(calls)
           h == Heights(calls)[n]
           k == PartsOf(x)
<1>1. /\ n \in Nat /\ h \in Nat /\ Len(stack) = h /\ k \in Nat
      /\ stack \in Seq({stack[i] : i \in 1..h})
  BY StackIs, CallParts
<1>2. calls'[n + 1] = x /\ (n + 1) - 1 = n /\ n \in 0..n
  BY <1>1, OneMore
<1>3. Heights(calls')[n] = h /\ Whole(calls', n) = Whole(calls, n)
  BY <1>2, OneMore
<1>4. Whole(calls, n) = stack
  BY DEF BuildInv, BuiltAsRead
<1> HIDE DEF n, h, k
<1>5. Fails(calls', n + 1) <=> \/ h < k
                               \/ x.op = "object" /\ \E i \in (h - k + 1)..h : stack[i].kind # "item"
  BY <1>2, <1>3, <1>4 DEF Fails, k
<1>6. ASSUME k <= h
      PROVE  OnlyItems(k) <=> \A i \in (h - k + 1)..h : stack[i].kind = "item"
  <2>1. \A i \in 1..k : Top(k)[i] = stack[h - k + i]
    BY <1>1, <1>6 DEF Top
  <2>2. OnlyItems(k) <=> \A i \in 1..k : stack[h - k + i].kind = "item"
    BY <1>1, <1>6, <2>1 DEF OnlyItems
  <2>3. \A i \in (h - k + 1)..h : i - (h - k) \in 1..k /\ h - k + (i - (h - k)) = i
    BY <1>1
  <2>4. \A i \in 1..k : h - k + i \in (h - k + 1)..h
    BY <1>1
  <2> QED  BY <2>2, <2>3, <2>4
<1>7. h < k \/ k <= h
  BY <1>1
<1> QED  BY <1>1, <1>5, <1>6, <1>7 DEF Refuses, k, n

LEMMA Breaks ==
    ASSUME BuildInv, NEW x \in Call, Made(x), status # "OK" \/ Refuses(x),
           UNCHANGED stack, status' # "OK"
    PROVE  BuildInv'
<1> DEFINE n == Len(calls)
           d == Done
<1>1. n \in Nat /\ d \in 0..n /\ Len(calls') = n + 1 /\ calls' \in Seq(Call)
  BY OneMore DEF BuildInv, Reads
<1>2. Reads(calls', d)
  <2>1. d \in 0..Len(calls')
    BY <1>1
  <2>2. Fails(calls', d + 1)
    <3>1. CASE d < n
      <4>1. d + 1 \in 1..n
        BY <1>1, <3>1
      <4>2. Fails(calls, d + 1)
        BY <3>1 DEF BuildInv, Reads
      <4> QED  BY <4>1, <4>2, OneMore
    <3>2. CASE d = n
      <4>1. Refuses(x)
        BY <3>2 DEF BuildInv, BuiltAsRead
      <4> QED  BY <3>2, <4>1, FailsIs
    <3> QED  BY <1>1, <3>1, <3>2
  <2>3. \A i \in 1..d : ~Fails(calls', i)
    <3>1. \A i \in 1..d : i \in 1..n
      BY <1>1
    <3>2. \A i \in 1..d : ~Fails(calls, i)
      BY DEF BuildInv, Reads
    <3> QED  BY <3>1, <3>2, OneMore
  <2> QED  BY <2>1, <2>2, <2>3 DEF Reads
<1>3. Done' = d
  BY <1>1, <1>2, FirstIs, DoneIsFirst
<1>4. stack' = Whole(calls', d)
  BY <1>1, OneMore DEF BuildInv, BuiltAsRead
<1>5. d # n + 1
  BY <1>1
<1> HIDE DEF d
<1> QED  BY <1>1, <1>2, <1>3, <1>4, <1>5, InputStays DEF BuildInv, BuiltAsRead, d
\* A part is built of the last k ones.
LEMMA BuildsPart ==
    ASSUME BuildInv, NEW x \in Call, Made(x), status = "OK", Len(stack) >= PartsOf(x),
           stack' = Append(Below(PartsOf(x)), Built(x, Top(PartsOf(x))))
    PROVE  stack' = Whole(calls', Len(calls) + 1)
<1> DEFINE n == Len(calls)
           h == Heights(calls)[n]
           k == PartsOf(x)
           H == Heights(calls')
           y == Built(x, Top(k))
<1>0. Done = n
  BY DEF BuildInv, BuiltAsRead
<1>1. /\ n \in Nat /\ h \in Nat /\ Len(stack) = h /\ k \in Nat /\ k <= h
      /\ stack \in Seq({stack[i] : i \in 1..h})
      /\ \A i \in 1..h : stack[i] = Nodes(calls)[EndOf(Heights(calls), n, i)]
  BY <1>0, StackIs, CallParts
<1>2. calls'[n + 1] = x /\ (n + 1) - 1 = n /\ n + 1 \in 1..Len(calls') /\ n + 1 \in 0..Len(calls')
      /\ Len(calls') \in Nat /\ CallList(calls') /\ n + 1 # 0 /\ n + 1 \in Nat /\ n + 1 > 0
  BY <1>1, OneMore
<1>3. /\ \A i \in 1..n : H[i] = Heights(calls)[i]
      /\ H[n] = h
  BY <1>1, OneMore
<1>4. H[n + 1] = h - k + 1
  BY <1>2, <1>3, HeightsAre
<1> HIDE DEF H, h, k, n
\* What was there before.
<1>5. ASSUME NEW i \in 1..h
      PROVE  /\ EndOf(H, n, i) \in 0..n
             /\ Nodes(calls')[EndOf(H, n, i)] = stack[i]
  <2>0. n \in Nat /\ \A j \in 1..n : H[j] = Heights(calls)[j]
    BY <1>1, <1>3
  <2>1. EndOf(H, n, i) = EndOf(Heights(calls), n, i)
    BY <2>0, EndOfSame
  <2>2. EndOf(H, n, i) \in 0..n
    BY <1>1, EndOfIs
  <2>3. Nodes(calls')[EndOf(H, n, i)] = Nodes(calls)[EndOf(H, n, i)]
    BY <2>2, OneMore DEF n
  <2> QED  BY <1>1, <2>1, <2>2, <2>3
\* What is new.
<1>6. Nodes(calls')[n + 1] = y
  <2>1. PartsIn(calls', Nodes(calls'), n + 1)
          = [i \in 1..k |-> Nodes(calls')[EndOf(H, n, h - k + i)]]
    BY <1>2, <1>3 DEF PartsIn, H, k
  <2>2. \A i \in 1..k : h - k + i \in 1..h
    BY <1>1
  <2>3. \A i \in 1..k : Nodes(calls')[EndOf(H, n, h - k + i)] = stack[h - k + i]
    BY <1>5, <2>2
  <2>4. Top(k) = [i \in 1..k |-> stack[h - k + i]]
    <3>1. Top(k) = SubSeq(stack, h - k + 1, h)
      BY <1>1 DEF Top
    <3>2. /\ Top(k) \in Seq({stack[i] : i \in 1..h}) /\ Len(Top(k)) = k
          /\ \A i \in 1..k : Top(k)[i] = stack[h - k + i]
      BY <1>1, <3>1
    <3> QED  BY <1>1, <3>2
  <2>5. PartsIn(calls', Nodes(calls'), n + 1) = Top(k)
    BY <2>1, <2>3, <2>4
  <2> QED  BY <1>2, <2>5, NodesAre DEF Makes
<1>7. \A i \in 1..(h - k) : Nodes(calls')[EndOf(H, n + 1, i)] = stack[i]
  <2> TAKE i \in 1..(h - k)
  <2>1. i \in 1..h /\ H[n + 1] # i
    BY <1>1, <1>4
  <2>2. EndOf(H, n + 1, i) = EndOf(H, n, i)
    BY <1>2, <2>1, EndOfIs
  <2> QED  BY <1>5, <2>1, <2>2
<1>8. Nodes(calls')[EndOf(H, n + 1, h - k + 1)] = y
  <2>1. EndOf(H, n + 1, h - k + 1) = n + 1
    BY <1>2, <1>4, EndOfIs
  <2> QED  BY <1>6, <2>1
<1>9. Whole(calls', n + 1) = [i \in 1..(h - k + 1) |-> Nodes(calls')[EndOf(H, n + 1, i)]]
  BY <1>4 DEF Whole, H
<1> HIDE DEF y
<1>10. \A i \in 1..(h - k + 1) :
         Nodes(calls')[EndOf(H, n + 1, i)] = IF i = h - k + 1 THEN y ELSE stack[i]
  BY <1>1, <1>7, <1>8
<1>11. Append(Below(k), y) = [i \in 1..(h - k + 1) |-> IF i = h - k + 1 THEN y ELSE stack[i]]
  <2>1. /\ Below(k) = [i \in 1..(h - k) |-> stack[i]]
        /\ Below(k) \in Seq({stack[i] : i \in 1..h})
        /\ Len(Below(k)) = h - k
    BY <1>1 DEF Below
  <2> QED  BY <1>1, <2>1
<1> QED  BY <1>9, <1>10, <1>11 DEF y, k, n

LEMMA Succeeds ==
    ASSUME BuildInv, NEW x \in Call, Made(x), ~Refuses(x),
           Becomes(PartsOf(x), Built(x, Top(PartsOf(x))))
    PROVE  BuildInv'
<1> DEFINE n == Len(calls)
<1>1. /\ status = "OK" /\ status' = "OK" /\ Len(stack) >= PartsOf(x) /\ Done = n
      /\ stack' = Append(Below(PartsOf(x)), Built(x, Top(PartsOf(x))))
  BY DEF Becomes, BuildInv, BuiltAsRead
<1>2. n \in Nat /\ Len(calls') = n + 1 /\ calls' \in Seq(Call)
  BY OneMore
<1>3. Reads(calls', n + 1)
  <2>1. ~Fails(calls', n + 1)
    BY <1>1, FailsIs
  <2>2. \A i \in 1..n : ~Fails(calls', i)
    <3>1. \A i \in 1..n : ~Fails(calls, i)
      BY <1>1 DEF BuildInv, Reads
    <3> QED  BY <3>1, OneMore
  <2>3. \A i \in 1..(n + 1) : i = n + 1 \/ i \in 1..n
    BY <1>2
  <2> QED  BY <1>2, <2>1, <2>2, <2>3 DEF Reads
<1>4. Done' = n + 1
  BY <1>2, <1>3, FirstIs, DoneIsFirst
<1>5. stack' = Whole(calls', n + 1)
  BY <1>1, BuildsPart
<1>6. /\ given' \in Nat /\ given' <= n
      /\ given' = 0 => input' = NoInput
      /\ given' > 0 => input' = Nodes(calls')[given']
  BY <1>1, InputStays
<1>7. given' <= n + 1
  BY <1>2, <1>6
<1> HIDE DEF n
<1> QED  BY <1>1, <1>2, <1>3, <1>4, <1>5, <1>6, <1>7 DEF BuildInv, BuiltAsRead

\* Every call either builds a part or leaves the stack alone and the builder
\* broken.
LEMMA CallStep ==
    ASSUME BuildInv, NEW x \in Call, Made(x),
           \/ ~Refuses(x) /\ Becomes(PartsOf(x), Built(x, Top(PartsOf(x))))
           \/ Refuses(x) /\ UNCHANGED stack /\ status' # "OK"
           \/ Broken
    PROVE  BuildInv'
<1>1. CASE ~Refuses(x) /\ Becomes(PartsOf(x), Built(x, Top(PartsOf(x))))
  BY <1>1, Succeeds
<1>2. CASE Refuses(x) /\ UNCHANGED stack /\ status' # "OK"
  BY <1>2, Breaks
<1>3. CASE Broken
  BY <1>3, Breaks DEF Broken
<1> QED  BY <1>1, <1>2, <1>3

LEMMA InputCallStep ==
    ASSUME BuildInv, \/ \E x \in Scalars : InputScalar(x)
                     \/ InputObjectItem
                     \/ \E n \in Counts : InputObject(n) \/ InputArray(n) \/ InputSet(n)
    PROVE  BuildInv'
<1>0. Len(stack) \in Nat /\ stack \in Seq({stack[i] : i \in 1..Len(stack)})
  BY StackIs
<1>1. ASSUME NEW v \in Scalars, InputScalar(v)
      PROVE  BuildInv'
  <2> DEFINE x == [op |-> "scalar", value |-> v]
  <2>1. x \in Call /\ Made(x) /\ PartsOf(x) = 0 /\ x.op # "object"
    BY <1>1 DEF InputScalar, Call, PartsOf
  <2>2. ~Refuses(x)
    BY <1>0, <2>1 DEF Refuses
  <2>3. Built(x, Top(0)) = Scalar(v)
    BY DEF Built
  <2>4. Broken \/ Becomes(0, Scalar(v))
    BY <1>1 DEF InputScalar
  <2> HIDE DEF x
  <2> QED  BY <2>1, <2>2, <2>3, <2>4, CallStep
<1>2. CASE InputObjectItem
  <2> DEFINE x == [op |-> "item"]
  <2>1. x \in Call /\ Made(x) /\ PartsOf(x) = 2 /\ x.op # "object"
    BY <1>2 DEF InputObjectItem, Call, PartsOf
  <2>2. Refuses(x) <=> Len(stack) < 2
    BY <2>1 DEF Refuses
  <2>3. Built(x, Top(2)) = Item(ToTerm(Top(2)[1]), ToTerm(Top(2)[2]))
    BY DEF Built
  <2>4. \/ Refuses(x) /\ UNCHANGED stack /\ status' # "OK"
        \/ Broken
        \/ ~Refuses(x) /\ Becomes(2, Built(x, Top(2)))
    BY <1>0, <1>2, <2>2, <2>3 DEF InputObjectItem, Missing
  <2> HIDE DEF x
  <2> QED  BY <2>1, <2>4, CallStep
<1>3. ASSUME NEW n \in Counts, InputObject(n)
      PROVE  BuildInv'
  <2> DEFINE x == [op |-> "object", count |-> n]
  <2>0. n \in Nat
    BY CountsAssumption
  <2>1. x \in Call /\ Made(x) /\ PartsOf(x) = n /\ x.op = "object"
    BY <1>3 DEF InputObject, Call, PartsOf
  <2>2. Refuses(x) <=> Len(stack) < n \/ ~OnlyItems(n)
    BY <2>1 DEF Refuses
  <2>3. Built(x, Top(n)) = Object(Top(n))
    BY DEF Built
  <2>4. \/ Refuses(x) /\ UNCHANGED stack /\ status' # "OK"
        \/ Broken
        \/ ~Refuses(x) /\ Becomes(n, Built(x, Top(n)))
    BY <1>0, <1>3, <2>0, <2>2, <2>3 DEF InputObject, Missing, OnlyItems
  <2> HIDE DEF x
  <2> QED  BY <2>1, <2>4, CallStep
<1>4. ASSUME NEW n \in Counts, InputArray(n)
      PROVE  BuildInv'
  <2> DEFINE x == [op |-> "array", count |-> n]
  <2>0. n \in Nat
    BY CountsAssumption
  <2>1. x \in Call /\ Made(x) /\ PartsOf(x) = n /\ x.op # "object"
    BY <1>4 DEF InputArray, Call, PartsOf
  <2>2. Refuses(x) <=> Len(stack) < n
    BY <2>1 DEF Refuses
  <2>3. Built(x, Top(n)) = Array(Top(n))
    BY DEF Built
  <2>4. \/ Refuses(x) /\ UNCHANGED stack /\ status' # "OK"
        \/ Broken
        \/ ~Refuses(x) /\ Becomes(n, Built(x, Top(n)))
    BY <1>0, <1>4, <2>0, <2>2, <2>3 DEF InputArray, Missing, Becomes
  <2> HIDE DEF x
  <2> QED  BY <2>1, <2>4, CallStep
<1>5. ASSUME NEW n \in Counts, InputSet(n)
      PROVE  BuildInv'
  <2> DEFINE x == [op |-> "set", count |-> n]
  <2>0. n \in Nat
    BY CountsAssumption
  <2>1. x \in Call /\ Made(x) /\ PartsOf(x) = n /\ x.op # "object"
    BY <1>5 DEF InputSet, Call, PartsOf
  <2>2. Refuses(x) <=> Len(stack) < n
    BY <2>1 DEF Refuses
  <2>3. Built(x, Top(n)) = SetNode({ToTerm(Top(n)[i]) : i \in DOMAIN Top(n)})
    BY DEF Built
  <2>4. \/ Refuses(x) /\ UNCHANGED stack /\ status' # "OK"
        \/ Broken
        \/ ~Refuses(x) /\ Becomes(n, SetNode({ToTerm(Top(n)[i]) : i \in 1..n}))
    BY <1>0, <1>5, <2>0, <2>2 DEF InputSet, Missing, Becomes
  <2>5. ~Refuses(x) => DOMAIN Top(n) = 1..n
    BY <1>0, <2>0, <2>2 DEF Top
  <2> HIDE DEF x
  <2> QED  BY <2>1, <2>3, <2>4, <2>5, CallStep
<1> QED  BY <1>1, <1>2, <1>3, <1>4, <1>5

LEMMA SetInputStep ==
    ASSUME BuildInv, SetInput
    PROVE  BuildInv'
<1>1. UNCHANGED <<stack, status, calls>> /\ Done' = Done
  BY DoneIsFirst DEF SetInput
<1>2. CASE UNCHANGED <<input, given>>
  BY <1>1, <1>2 DEF BuildInv, BuiltAsRead
<1>3. CASE InputNode # NoInput /\ input' = InputNode /\ given' = Len(calls)
  <2> DEFINE n == Len(calls)
             h == Heights(calls)[n]
  <2>1. stack # <<>> /\ status = "OK" /\ input' = stack[Len(stack)]
    BY <1>3 DEF InputNode
  <2>2. Done = n /\ n \in Nat
    BY <2>1, StackIs DEF BuildInv, BuiltAsRead
  <2>3. /\ Len(stack) = h /\ h \in Nat
        /\ \A k \in 1..h : stack[k] = Nodes(calls)[EndOf(Heights(calls), n, k)]
        /\ stack \in Seq({stack[i] : i \in 1..h})
    BY <2>2, StackIs
  <2>4. h > 0
    BY <2>1, <2>3
  <2>5. n > 0
    <3>1. n = 0 => h = 0
      BY <2>2, CallsAreList, HeightsAre DEF BuildInv
    <3> QED  BY <2>2, <2>4, <3>1
  <2>6. EndOf(Heights(calls), n, h) = n
    BY <2>2, <2>5, EndOfIs
  <2>7. input' = Nodes(calls)[n]
    BY <2>1, <2>3, <2>4, <2>6
  <2> HIDE DEF n, h
  <2> QED  BY <1>1, <1>3, <2>2, <2>5, <2>7 DEF BuildInv, BuiltAsRead, n
<1> QED  BY <1>2, <1>3 DEF SetInput

LEMMA BuildInit == Init => BuildInv
<1> SUFFICES ASSUME Init
             PROVE  BuildInv
  OBVIOUS
<1>1. calls = <<>> /\ calls \in Seq(Call) /\ Len(calls) = 0
  BY DEF Init
<1>2. Reads(calls, 0)
  BY <1>1 DEF Reads
<1>3. Done = 0
  BY <1>1, <1>2, FirstIs, DoneIsFirst
<1>4. Heights(calls)[0] = 0
  BY <1>1, CallsAreList, HeightsAre
<1>5. Whole(calls, 0) = <<>>
  <2>1. Whole(calls, 0) = [k \in 1..0 |-> Nodes(calls)[EndOf(Heights(calls), 0, k)]]
    BY <1>4 DEF Whole
  <2> QED  BY <2>1
<1> QED  BY <1>1, <1>2, <1>3, <1>5 DEF Init, BuildInv, BuiltAsRead

\* Whatever the calls on a builder, in whatever order and however many, the
\* stack holds the parts that the calls before the first failure say, nothing
\* lost and nothing twice; the builder is broken from that call on, and the
\* interpreter has the last part that was whole when it was set (regoInput*
\* and regoSetInput of rego_c.cc).
THEOREM InputCorrect == Spec => []BuiltAsRead
<1>1. BuildInv /\ [Next]_vars => BuildInv'
  <2> SUFFICES ASSUME BuildInv, [Next]_vars
               PROVE  BuildInv'
    OBVIOUS
  <2>1. CASE UNCHANGED vars
    <3>1. UNCHANGED <<stack, status, input, calls, given>> /\ Done' = Done
      BY <2>1, DoneIsFirst DEF vars
    <3> QED  BY <3>1 DEF BuildInv, BuiltAsRead
  <2> QED  BY <2>1, InputCallStep, SetInputStep DEF Next
<1>2. BuildInv => BuiltAsRead
  BY DEF BuildInv
<1> QED  BY <1>1, <1>2, BuildInit, PTL DEF Spec
=============================================================================
