---------------------------- MODULE RegoVMProofs ----------------------------
(***************************************************************************)
(* Theorems about RegoVM, for every set of verified bundles and every      *)
(* value of the limits: type correctness together with the agreement of    *)
(* the machine's counters with its stack.  Neither is inductive alone: a   *)
(* counter stays a natural number because an activation on the stack       *)
(* accounts for it, and the stack has its shape because the state is typed.*)
(*                                                                         *)
(* The lemmas come first: sequences as stacks, and what pushing and        *)
(* popping an activation does to StackOK and to CountersOK.                *)
(*                                                                         *)
(* Then what a step of RegoVM may do to what is there: the depth limits    *)
(* bound the C++ stack, no function is active twice, and nothing is        *)
(* evaluated once the statement limit is reached; no failure is forgotten  *)
(* on its way up the stack, and input and data are put back after every    *)
(* With.  The last two rest on what a step may do to the nodes, to the     *)
(* locals and to the activations that stay on the stack.                   *)
(***************************************************************************)
EXTENDS RegoVMTrace, SequenceTheorems, FiniteSetTheorems, TLAPS

(***************************************************************************)
(* Sequences whose elements are not taken from a known set (the stack and  *)
(* the nodes).                                                             *)
(***************************************************************************)
LEMMA SeqIsSeq ==
    ASSUME NEW S, NEW s \in Seq(S)
    PROVE  IsSeq(s) /\ Len(s) \in Nat /\ DOMAIN s = 1..Len(s)
BY DEF IsSeq

LEMMA IsSeqDomain ==
    ASSUME NEW s, IsSeq(s)
    PROVE  Len(s) \in Nat /\ DOMAIN s = 1..Len(s)
BY DEF IsSeq

LEMMA PushIsSeq ==
    ASSUME NEW s, IsSeq(s), NEW x
    PROVE  /\ IsSeq(Append(s, x))
           /\ Len(Append(s, x)) = Len(s) + 1
           /\ \A i \in 1..Len(s) : Append(s, x)[i] = s[i]
           /\ Append(s, x)[Len(s) + 1] = x
<1> DEFINE S == {s[i] : i \in DOMAIN s}
           T == S \cup {x}
<1>1. s \in Seq(T)
  BY DEF IsSeq
<1>2. Append(s, x) \in Seq(T)
  BY <1>1
<1>3. IsSeq(Append(s, x))
  <2> HIDE DEF T
  <2> QED  BY <1>2, SeqIsSeq
<1>4. /\ Len(Append(s, x)) = Len(s) + 1
      /\ \A i \in 1..Len(s) : Append(s, x)[i] = s[i]
      /\ Append(s, x)[Len(s) + 1] = x
  <2>1. x \in T
    OBVIOUS
  <2> HIDE DEF T
  <2> QED  BY <1>1, <2>1
<1> QED  BY <1>3, <1>4

LEMMA PopIsSeq ==
    ASSUME NEW s, IsSeq(s), Len(s) > 0
    PROVE  /\ IsSeq(SubSeq(s, 1, Len(s) - 1))
           /\ Len(SubSeq(s, 1, Len(s) - 1)) = Len(s) - 1
           /\ \A i \in 1..(Len(s) - 1) : SubSeq(s, 1, Len(s) - 1)[i] = s[i]
<1> DEFINE S == {s[i] : i \in DOMAIN s}
<1>1. s \in Seq(S)
  BY DEF IsSeq
<1> HIDE DEF S
<1> DEFINE n == Len(s) - 1
<1>2. n \in Nat /\ \A i \in 1..n : s[i] \in S
  BY <1>1
<1> HIDE DEF n
<1>3. /\ SubSeq(s, 1, n) \in Seq(S)
      /\ Len(SubSeq(s, 1, n)) = IF 1 <= n THEN n - 1 + 1 ELSE 0
      /\ \A i \in 1..(n - 1 + 1) : SubSeq(s, 1, n)[i] = s[1 + i - 1]
  BY <1>2, SubSeqProperties
<1>4. /\ SubSeq(s, 1, n) \in Seq(S)
      /\ Len(SubSeq(s, 1, n)) = n
      /\ \A i \in 1..n : SubSeq(s, 1, n)[i] = s[i]
  BY <1>2, <1>3
<1> QED  BY <1>4, SeqIsSeq DEF n

LEMMA PopTyped ==
    ASSUME NEW C, NEW c \in Seq(C), Len(c) > 0
    PROVE  SubSeq(c, 1, Len(c) - 1) \in Seq(C)
<1> DEFINE n == Len(c) - 1
<1>1. n \in Nat /\ \A i \in 1..n : c[i] \in C
  OBVIOUS
<1> HIDE DEF n
<1>2. SubSeq(c, 1, n) \in Seq(C)
  BY <1>1, SubSeqProperties
<1> QED  BY <1>2 DEF n

LEMMA ExceptIsSeq ==
    ASSUME NEW s, IsSeq(s), NEW n \in 1..Len(s), NEW x
    PROVE  IsSeq([s EXCEPT ![n] = x]) /\ Len([s EXCEPT ![n] = x]) = Len(s)
<1> DEFINE S == {s[i] : i \in DOMAIN s}
           T == S \cup {x}
<1>1. s \in Seq(T) /\ x \in T
  BY DEF IsSeq
<1> HIDE DEF T
<1>2. [s EXCEPT ![n] = x] \in Seq(T) /\ Len([s EXCEPT ![n] = x]) = Len(s)
  BY <1>1, ExceptSeq
<1> QED  BY <1>2, SeqIsSeq

LEMMA MapIsSeq ==
    ASSUME NEW s, IsSeq(s), NEW t, t = [i \in DOMAIN s |-> t[i]]
    PROVE  IsSeq(t) /\ Len(t) = Len(s) /\ DOMAIN t = DOMAIN s
<1> DEFINE T == {t[i] : i \in DOMAIN s}
<1>1. Len(s) \in Nat /\ DOMAIN s = 1..Len(s)
  BY IsSeqDomain
<1>2. t \in [1..Len(s) -> T]
  BY <1>1
<1> HIDE DEF T
<1>3. t \in Seq(T) /\ Len(t) = Len(s)
  BY <1>1, <1>2
<1> QED  BY <1>1, <1>3, SeqIsSeq

LEMMA Push2IsSeq ==
    ASSUME NEW s, IsSeq(s), NEW x, NEW y
    PROVE  IsSeq(s \o <<x, y>>) /\ Len(s \o <<x, y>>) = Len(s) + 2
<1> DEFINE S == {s[i] : i \in DOMAIN s}
           T == S \cup {x, y}
<1>1. s \in Seq(T) /\ <<x, y>> \in Seq(T)
  BY DEF IsSeq
<1> HIDE DEF T
<1>2. s \o <<x, y>> \in Seq(T) /\ Len(s \o <<x, y>>) = Len(s) + 2
  BY <1>1
<1> QED  BY <1>2, SeqIsSeq

LEMMA PopPush ==
    ASSUME NEW s, IsSeq(s), Len(s) > 0
    PROVE  Append(SubSeq(s, 1, Len(s) - 1), s[Len(s)]) = s
<1> DEFINE S == {s[i] : i \in DOMAIN s}
           r == SubSeq(s, 1, Len(s) - 1)
           x == s[Len(s)]
<1>1. s \in Seq(S) /\ x \in S /\ Len(s) \in Nat
  BY DEF IsSeq
<1>2. IsSeq(r) /\ Len(r) = Len(s) - 1 /\ \A i \in 1..(Len(s) - 1) : r[i] = s[i]
  BY PopIsSeq
<1>3. r \in Seq(S)
  <2>1. r \in Seq({r[i] : i \in DOMAIN r}) /\ DOMAIN r = 1..Len(r)
    BY <1>2, IsSeqDomain DEF IsSeq
  <2>2. {r[i] : i \in DOMAIN r} \subseteq S
    BY <1>1, <1>2, <2>1, IsSeqDomain
  <2> QED  BY <2>1, <2>2, SeqMonotonic
<1> HIDE DEF S, r, x
<1>4. /\ Append(r, x) \in Seq(S) /\ Len(Append(r, x)) = Len(s)
      /\ \A i \in 1..(Len(s) - 1) : Append(r, x)[i] = s[i]
      /\ Append(r, x)[Len(s)] = x
  BY <1>1, <1>2, <1>3, AppendProperties
<1>5. \A i \in 1..Len(s) : Append(r, x)[i] = s[i]
  BY <1>1, <1>4 DEF x
<1>6. Append(r, x) = s
  BY <1>1, <1>4, <1>5, SeqEqual
<1> QED  BY <1>6 DEF r, x

-----------------------------------------------------------------------------
(***************************************************************************)
(* StackOK.                                                                *)
(***************************************************************************)
LEMMA StackGrow ==
    ASSUME NEW s, NEW b, NEW m \in Nat, NEW n \in Nat, m <= n, StackOK(s, b, 1..m)
    PROVE  StackOK(s, b, 1..n)
<1>1. \A k \in 1..m : k \in 1..n
  OBVIOUS
<1>2. ASSUME NEW a, Activation(a, b, 1..m)
      PROVE  Activation(a, b, 1..n)
  BY <1>1, <1>2 DEF Activation
<1> QED  BY <1>2 DEF StackOK

LEMMA PushStackOK ==
    ASSUME NEW s, NEW b, NEW N, StackOK(s, b, N),
           NEW a, Activation(a, b, N), a.kind # "plan"
    PROVE  StackOK(Append(s, a), b, N)
<1> DEFINE t == Append(s, a)
<1>1. IsSeq(s) /\ Len(s) \in Nat /\ Len(s) > 0 /\ DOMAIN s = 1..Len(s)
  BY IsSeqDomain DEF StackOK
<1>2. /\ IsSeq(t) /\ Len(t) = Len(s) + 1 /\ DOMAIN t = 1..(Len(s) + 1)
      /\ \A i \in 1..Len(s) : t[i] = s[i]
      /\ t[Len(s) + 1] = a
  BY <1>1, PushIsSeq, IsSeqDomain
<1> HIDE DEF t
<1>3. ASSUME NEW i \in DOMAIN t
      PROVE  Activation(t[i], b, N) /\ (t[i].kind = "plan" <=> i = 1)
  <2>1. CASE i = Len(s) + 1
    BY <2>1, <1>1, <1>2
  <2>2. CASE i \in 1..Len(s)
    BY <2>2, <1>1, <1>2 DEF StackOK
  <2> QED  BY <2>1, <2>2, <1>1, <1>2
<1>4. StackOK(t, b, N)
  BY <1>1, <1>2, <1>3 DEF StackOK
<1> QED  BY <1>4 DEF t

LEMMA PopStackOK ==
    ASSUME NEW s, NEW b, NEW N, StackOK(s, b, N), Len(s) > 1
    PROVE  StackOK(SubSeq(s, 1, Len(s) - 1), b, N)
<1> DEFINE t == SubSeq(s, 1, Len(s) - 1)
<1>1. IsSeq(s) /\ Len(s) \in Nat /\ DOMAIN s = 1..Len(s)
  BY IsSeqDomain DEF StackOK
<1>2. /\ IsSeq(t) /\ Len(t) = Len(s) - 1 /\ DOMAIN t = 1..(Len(s) - 1)
      /\ \A i \in 1..(Len(s) - 1) : t[i] = s[i]
  BY <1>1, PopIsSeq, IsSeqDomain
<1> HIDE DEF t
<1>3. StackOK(t, b, N)
  BY <1>1, <1>2 DEF StackOK
<1> QED  BY <1>3 DEF t

LEMMA ReplaceStackOK ==
    ASSUME NEW s, NEW b, NEW N, StackOK(s, b, N),
           NEW a, Activation(a, b, N), a.kind = "plan" <=> s[Len(s)].kind = "plan"
    PROVE  StackOK(Append(SubSeq(s, 1, Len(s) - 1), a), b, N)
<1> DEFINE r == SubSeq(s, 1, Len(s) - 1)
           t == Append(r, a)
<1>1. IsSeq(s) /\ Len(s) \in Nat /\ Len(s) > 0 /\ DOMAIN s = 1..Len(s)
  BY IsSeqDomain DEF StackOK
<1>2. /\ IsSeq(r) /\ Len(r) = Len(s) - 1 /\ DOMAIN r = 1..(Len(s) - 1)
      /\ \A i \in 1..(Len(s) - 1) : r[i] = s[i]
  BY <1>1, PopIsSeq, IsSeqDomain
<1> HIDE DEF r
<1>3. /\ IsSeq(t) /\ Len(t) = Len(s) /\ DOMAIN t = 1..Len(s)
      /\ \A i \in 1..(Len(s) - 1) : t[i] = s[i]
      /\ t[Len(s)] = a
  <2>1. /\ IsSeq(t) /\ Len(t) = Len(r) + 1
        /\ \A i \in 1..Len(r) : t[i] = r[i]
        /\ t[Len(r) + 1] = a
    BY <1>2, PushIsSeq
  <2>2. Len(r) + 1 = Len(s)
    BY <1>1, <1>2
  <2> HIDE DEF t
  <2> QED  BY <1>1, <1>2, <2>1, <2>2, IsSeqDomain
<1> HIDE DEF t
<1>4. ASSUME NEW i \in DOMAIN t
      PROVE  Activation(t[i], b, N) /\ (t[i].kind = "plan" <=> i = 1)
  <2>1. CASE i = Len(s)
    BY <2>1, <1>1, <1>3 DEF StackOK
  <2>2. CASE i \in 1..(Len(s) - 1)
    BY <2>2, <1>1, <1>3 DEF StackOK
  <2> QED  BY <2>1, <2>2, <1>1, <1>3
<1>5. StackOK(t, b, N)
  BY <1>1, <1>3, <1>4 DEF StackOK
<1> QED  BY <1>5 DEF t, r

-----------------------------------------------------------------------------
(***************************************************************************)
(* CountersOK.                                                             *)
(***************************************************************************)
Bump(a, kind) == IF a.kind = kind THEN 1 ELSE 0
CallsBelow(a, c) == IF a.kind = "call" THEN SubSeq(c, 1, Len(c) - 1) ELSE c

LEMMA CountNat ==
    ASSUME NEW s, NEW kind, NEW n \in Nat
    PROVE  Count(s, kind, n) \in 0..n
<1> DEFINE A == {i \in 1..n : s[i].kind = kind}
<1>1. IsFiniteSet(1..n) /\ Cardinality(1..n) = n
  <2>1. 1 \in Int /\ n \in Int
    OBVIOUS
  <2> QED  BY <2>1, FS_Interval
<1>2. A \subseteq 1..n
  OBVIOUS
<1>3. IsFiniteSet(A) /\ Cardinality(A) <= n
  BY <1>1, <1>2, FS_Subset
<1>4. Cardinality(A) \in Nat
  BY <1>3, FS_CardinalityType
<1> QED  BY <1>3, <1>4 DEF Count

\* Count looks at the first n activations only.
LEMMA CountSame ==
    ASSUME NEW s, NEW t, NEW kind, NEW n \in Nat,
           \A i \in 1..n : t[i].kind = s[i].kind
    PROVE  Count(t, kind, n) = Count(s, kind, n)
<1>1. {i \in 1..n : t[i].kind = kind} = {i \in 1..n : s[i].kind = kind}
  OBVIOUS
<1> QED  BY <1>1 DEF Count

LEMMA CountNext ==
    ASSUME NEW s, NEW kind, NEW n \in Nat
    PROVE  Count(s, kind, n + 1) = Count(s, kind, n) + Bump(s[n + 1], kind)
<1> DEFINE A == {i \in 1..n : s[i].kind = kind}
           B == {i \in 1..(n + 1) : s[i].kind = kind}
<1>1. IsFiniteSet(A)
  <2>1. IsFiniteSet(1..n)
    <3>1. 1 \in Int /\ n \in Int
      OBVIOUS
    <3> QED  BY <3>1, FS_Interval
  <2>2. A \subseteq 1..n
    OBVIOUS
  <2> QED  BY <2>1, <2>2, FS_Subset
<1>2. CASE s[n + 1].kind = kind
  <2>1. B = A \cup {n + 1} /\ n + 1 \notin A
    BY <1>2
  <2>2. Cardinality(B) = Cardinality(A) + 1
    BY <1>1, <2>1, FS_AddElement
  <2> QED  BY <1>2, <2>2 DEF Count, Bump
<1>3. CASE s[n + 1].kind # kind
  <2>1. B = A
    BY <1>3
  <2>2. Cardinality(A) \in Nat
    BY <1>1, FS_CardinalityType
  <2>3. Cardinality(B) = Cardinality(A) + 0
    <3> HIDE DEF A, B
    <3> QED  BY <2>1, <2>2
  <2> QED  BY <1>3, <2>3 DEF Count, Bump
<1> QED  BY <1>2, <1>3

LEMMA CountPositive ==
    ASSUME NEW s, NEW kind, NEW n \in Nat, NEW i \in 1..n, s[i].kind = kind
    PROVE  Count(s, kind, n) >= 1
<1> DEFINE A == {j \in 1..n : s[j].kind = kind}
<1>1. IsFiniteSet(A)
  <2>1. 1 \in Int /\ n \in Int /\ A \subseteq 1..n
    OBVIOUS
  <2> QED  BY <2>1, FS_Interval, FS_Subset
<1>2. A # {}
  OBVIOUS
<1>3. Cardinality(A) \in Nat /\ Cardinality(A) # 0
  BY <1>1, <1>2, FS_CardinalityType, FS_EmptySet
<1> QED  BY <1>3 DEF Count

LEMMA CountMonotone ==
    ASSUME NEW s, NEW kind, NEW n \in Nat, NEW i \in 0..n
    PROVE  Count(s, kind, i) <= Count(s, kind, n)
<1> DEFINE A == {j \in 1..i : s[j].kind = kind}
           B == {j \in 1..n : s[j].kind = kind}
<1>1. IsFiniteSet(B)
  <2>1. 1 \in Int /\ n \in Int /\ B \subseteq 1..n
    OBVIOUS
  <2> QED  BY <2>1, FS_Interval, FS_Subset
<1>2. A \subseteq B
  OBVIOUS
<1> QED  BY <1>1, <1>2, FS_Subset DEF Count

\* A push changes the counters by its own kind only.
LEMMA CountersPush ==
    ASSUME NEW s, IsSeq(s), NEW a, NEW d \in Int, NEW w \in Int,
           NEW c, IsSeq(c), NEW c2, IsSeq(c2),
           \/ a.kind # "call" /\ c2 = c
           \/ /\ a.kind = "call" /\ Len(c2) = Len(c) + 1
              /\ \A i \in 1..Len(c) : c2[i] = c[i]
              /\ c2[Len(c) + 1].name = a.func,
           CountersOK(s, d, w, c)
    PROVE  CountersOK(Append(s, a), d + Bump(a, "block"), w + Bump(a, "with"), c2)
<1> DEFINE t == Append(s, a)
           n == Len(s)
<1>1. n \in Nat /\ DOMAIN s = 1..n /\ Len(c) \in Nat
  BY IsSeqDomain
<1>2. /\ IsSeq(t) /\ Len(t) = n + 1 /\ DOMAIN t = 1..(n + 1)
      /\ \A i \in 1..n : t[i] = s[i]
      /\ t[n + 1] = a
  BY PushIsSeq, IsSeqDomain
<1> HIDE DEF t, n
<1>3. ASSUME NEW kind, NEW i \in 0..n
      PROVE  Count(t, kind, i) = Count(s, kind, i)
  <2>1. i \in Nat /\ \A j \in 1..i : t[j].kind = s[j].kind
    BY <1>1, <1>2
  <2> QED  BY <2>1, CountSame
<1>4. ASSUME NEW kind
      PROVE  Count(t, kind, n + 1) = Count(s, kind, n) + Bump(a, kind)
  <2>1. Count(t, kind, n + 1) = Count(t, kind, n) + Bump(t[n + 1], kind)
    BY <1>1, CountNext
  <2>2. Count(t, kind, n) = Count(s, kind, n)
    BY <1>1, <1>3
  <2> QED  BY <2>1, <2>2, <1>2
<1>5. d = Count(s, "block", n) /\ w = Count(s, "with", n) /\ Len(c) = Count(s, "call", n)
  BY DEF CountersOK, n
<1>6. Len(c2) = Count(t, "call", n + 1)
  <2>1. Count(t, "call", n + 1) = Len(c) + Bump(a, "call")
    BY <1>4, <1>5
  <2>2. Len(c2) = Len(c) + Bump(a, "call")
    BY DEF Bump
  <2> QED  BY <2>1, <2>2
<1>7. ASSUME NEW i \in DOMAIN t, t[i].kind = "call"
      PROVE  c2[Count(t, "call", i)].name = t[i].func
  <2>1. CASE i = n + 1
    <3>1. a.kind = "call" /\ c2[Len(c) + 1].name = a.func
      BY <1>7, <2>1, <1>2
    <3>2. Count(t, "call", n + 1) = Len(c) + 1
      BY <3>1, <1>4, <1>5 DEF Bump
    <3> QED  BY <2>1, <3>1, <3>2, <1>2
  <2>2. CASE i \in 1..n
    <3>1. /\ s[i].kind = "call" /\ t[i].func = s[i].func
          /\ Count(t, "call", i) = Count(s, "call", i)
      BY <1>1, <1>2, <1>3, <1>7, <2>2
    <3>2. c[Count(s, "call", i)].name = s[i].func
      BY <1>1, <2>2, <3>1 DEF CountersOK
    <3>3. Count(s, "call", i) \in 1..Len(c)
      <4>1. Count(s, "call", i) <= Count(s, "call", n)
        BY <1>1, <2>2, CountMonotone
      <4>2. Count(s, "call", i) >= 1
        BY <1>1, <2>2, <3>1, CountPositive
      <4>3. Count(s, "call", i) \in Nat
        BY <1>1, <2>2, CountNat
      <4> QED  BY <4>1, <4>2, <4>3, <1>5
    <3>4. c2[Count(s, "call", i)] = c[Count(s, "call", i)]
      BY <3>3
    <3> QED  BY <3>1, <3>2, <3>4
  <2> QED  BY <2>1, <2>2, <1>1, <1>2
<1>8. CountersOK(t, d + Bump(a, "block"), w + Bump(a, "with"), c2)
  BY <1>2, <1>4, <1>5, <1>6, <1>7 DEF CountersOK
<1> QED  BY <1>8 DEF t

\* A pop undoes it, and finds the function it leaves at the end of the calls.
LEMMA CountersPop ==
    ASSUME NEW s, IsSeq(s), Len(s) > 0, NEW d \in Int, NEW w \in Int,
           NEW c, IsSeq(c), CountersOK(s, d, w, c),
           NEW a, a = s[Len(s)], NEW c2, c2 = CallsBelow(a, c)
    PROVE  /\ CountersOK(SubSeq(s, 1, Len(s) - 1),
                         d - Bump(a, "block"), w - Bump(a, "with"), c2)
           /\ d >= Bump(a, "block") /\ w >= Bump(a, "with")
           /\ a.kind = "call" => Len(c) > 0 /\ c[Len(c)].name = a.func
<1> DEFINE r == SubSeq(s, 1, Len(s) - 1)
           n == Len(s) - 1
<1>1. n \in Nat /\ Len(s) = n + 1 /\ DOMAIN s = 1..(n + 1)
  BY IsSeqDomain
<1>2. /\ IsSeq(r) /\ Len(r) = n /\ DOMAIN r = 1..n
      /\ \A i \in 1..n : r[i] = s[i]
  BY PopIsSeq, IsSeqDomain
<1> HIDE DEF r, n
<1>3. ASSUME NEW kind, NEW i \in 0..n
      PROVE  Count(r, kind, i) = Count(s, kind, i)
  <2>1. i \in Nat /\ \A j \in 1..i : r[j].kind = s[j].kind
    BY <1>1, <1>2
  <2> QED  BY <2>1, CountSame
<1>4. ASSUME NEW kind
      PROVE  /\ Count(s, kind, n + 1) = Count(r, kind, n) + Bump(a, kind)
             /\ Count(r, kind, n) \in Nat /\ Bump(a, kind) \in Nat
  <2>1. Count(s, kind, n + 1) = Count(s, kind, n) + Bump(s[n + 1], kind)
    BY <1>1, CountNext
  <2>2. Count(r, kind, n) = Count(s, kind, n)
    BY <1>1, <1>3
  <2>3. Count(r, kind, n) \in Nat
    BY <1>1, CountNat
  <2>4. Bump(a, kind) \in Nat
    BY DEF Bump
  <2> QED  BY <2>1, <2>2, <2>3, <2>4, <1>1
<1>5. /\ d = Count(s, "block", n + 1) /\ w = Count(s, "with", n + 1)
      /\ Len(c) = Count(s, "call", n + 1)
  BY <1>1 DEF CountersOK
<1>6. d >= Bump(a, "block") /\ w >= Bump(a, "with")
  BY <1>4, <1>5
<1>7. a.kind = "call" => Len(c) > 0 /\ c[Len(c)].name = a.func
  <2> SUFFICES ASSUME a.kind = "call"
               PROVE  Len(c) > 0 /\ c[Len(c)].name = a.func
    OBVIOUS
  <2>1. Len(c) > 0
    BY <1>4, <1>5 DEF Bump
  <2>2. n + 1 \in DOMAIN s /\ s[n + 1] = a
    BY <1>1
  <2>3. c[Count(s, "call", n + 1)].name = a.func
    BY <2>2 DEF CountersOK
  <2> QED  BY <2>1, <2>3, <1>5
<1>8. Len(c2) = Count(r, "call", n) /\ \A j \in 1..Count(r, "call", n) : c2[j] = c[j]
  <2>1. CASE a.kind = "call"
    <3>1. IsSeq(c) /\ Len(c) > 0 /\ Len(c) \in Nat
      BY <1>7, <2>1, IsSeqDomain
    <3>2. /\ Len(c2) = Len(c) - 1
          /\ \A j \in 1..(Len(c) - 1) : c2[j] = c[j]
      BY <2>1, <3>1, PopIsSeq DEF CallsBelow
    <3>3. Count(r, "call", n) = Len(c) - 1
      BY <2>1, <1>4, <1>5 DEF Bump
    <3> QED  BY <3>2, <3>3
  <2>2. CASE a.kind # "call"
    <3>1. Count(r, "call", n) = Len(c)
      BY <2>2, <1>4, <1>5 DEF Bump
    <3> QED  BY <2>2, <3>1 DEF CallsBelow
  <2> QED  BY <2>1, <2>2
<1>9. ASSUME NEW i \in DOMAIN r, r[i].kind = "call"
      PROVE  c2[Count(r, "call", i)].name = r[i].func
  <2>1. /\ i \in DOMAIN s /\ s[i].kind = "call" /\ r[i].func = s[i].func
        /\ Count(r, "call", i) = Count(s, "call", i)
    BY <1>1, <1>2, <1>3, <1>9
  <2>2. c[Count(s, "call", i)].name = s[i].func
    BY <2>1 DEF CountersOK
  <2>3. Count(r, "call", i) \in 1..Count(r, "call", n)
    <3>1. Count(r, "call", i) <= Count(r, "call", n)
      BY <1>1, <1>2, <1>9, CountMonotone
    <3>2. Count(r, "call", i) >= 1
      BY <1>1, <1>2, <1>9, CountPositive
    <3>3. Count(r, "call", i) \in Nat
      BY <1>1, <1>2, <1>9, CountNat
    <3>4. Count(r, "call", n) \in Nat
      BY <1>4
    <3> QED  BY <3>1, <3>2, <3>3, <3>4
  <2> QED  BY <2>1, <2>2, <2>3, <1>8
<1>10. CountersOK(r, d - Bump(a, "block"), w - Bump(a, "with"), c2)
  <2>1. d - Bump(a, "block") = Count(r, "block", Len(r))
    <3>1. /\ d = Count(r, "block", n) + Bump(a, "block")
          /\ Count(r, "block", n) \in Nat /\ Bump(a, "block") \in Nat
      BY <1>4, <1>5
    <3> QED  BY <3>1, <1>2
  <2>2. w - Bump(a, "with") = Count(r, "with", Len(r))
    <3>1. /\ w = Count(r, "with", n) + Bump(a, "with")
          /\ Count(r, "with", n) \in Nat /\ Bump(a, "with") \in Nat
      BY <1>4, <1>5
    <3> QED  BY <3>1, <1>2
  <2> QED  BY <2>1, <2>2, <1>2, <1>8, <1>9 DEF CountersOK
<1> QED  BY <1>6, <1>7, <1>10 DEF r

\* An activation that moves on, or becomes one of another kind that counts the
\* same, leaves the counters as they are.
LEMMA CountersReplace ==
    ASSUME NEW s, IsSeq(s), Len(s) > 0, NEW d \in Int, NEW w \in Int,
           NEW c, IsSeq(c), CountersOK(s, d, w, c),
           NEW a, \A kind \in {"block", "with", "call"} :
                     a.kind = kind <=> s[Len(s)].kind = kind,
           a.kind = "call" => a.func = s[Len(s)].func
    PROVE  CountersOK(Append(SubSeq(s, 1, Len(s) - 1), a), d, w, c)
<1> DEFINE r == SubSeq(s, 1, Len(s) - 1)
           x == s[Len(s)]
           c1 == CallsBelow(x, c)
<1>1. /\ CountersOK(r, d - Bump(x, "block"), w - Bump(x, "with"), c1)
      /\ x.kind = "call" => Len(c) > 0 /\ c[Len(c)].name = x.func
  BY CountersPop
<1>2. IsSeq(r) /\ Len(c) \in Nat
  BY PopIsSeq, IsSeqDomain
<1>3. /\ IsSeq(c1)
      /\ x.kind = "call" => /\ Len(c) = Len(c1) + 1
                            /\ \A i \in 1..Len(c1) : c[i] = c1[i]
      /\ x.kind # "call" => c = c1
  BY <1>1, <1>2, PopIsSeq DEF CallsBelow
<1>4. Bump(a, "block") = Bump(x, "block") /\ Bump(a, "with") = Bump(x, "with")
  BY DEF Bump
<1>5. d - Bump(x, "block") \in Int /\ w - Bump(x, "with") \in Int
  BY DEF Bump
<1>6. \/ a.kind # "call" /\ c = c1
      \/ /\ a.kind = "call" /\ Len(c) = Len(c1) + 1
         /\ \A i \in 1..Len(c1) : c[i] = c1[i]
         /\ c[Len(c1) + 1].name = a.func
  BY <1>1, <1>3
<1> HIDE DEF r, x, c1
<1>7. CountersOK(Append(r, a), d - Bump(x, "block") + Bump(a, "block"),
                               w - Bump(x, "with") + Bump(a, "with"), c)
  BY <1>1, <1>2, <1>3, <1>5, <1>6, CountersPush
<1>8. /\ d - Bump(x, "block") + Bump(a, "block") = d
      /\ w - Bump(x, "with") + Bump(a, "with") = w
  BY <1>4 DEF Bump
<1> QED  BY <1>7, <1>8 DEF r

-----------------------------------------------------------------------------
(***************************************************************************)
(* The invariant, and the machine's memory.                                *)
(***************************************************************************)
MemoryOK ==
    /\ IsSeq(heap)
    /\ frame \in [Locals -> Node \cup {Null}]
    /\ cache \in [Functions -> Node \cup {Null, NoEntry}]
    /\ results \in Seq(Node \cup {Null})
ControlOK ==
    /\ errors \in Seq(ErrorKinds)
    /\ callStack \in Seq([name : Functions, arity : Nat])
    /\ stmtCount \in Nat
    /\ breakCount \in 0..SizeMax
    /\ code \in Codes \cup {"None"} /\ status \in Statuses
Inv ==
    /\ bundle \in Bundles
    /\ MemoryOK
    /\ ControlOK
    /\ StackOK(stack, bundle, Node)
    /\ CountersMatchStack

LEMMA AddErrorTyped ==
    ASSUME errors \in Seq(ErrorKinds), NEW kind \in ErrorKinds, AddError(kind)
    PROVE  errors' \in Seq(ErrorKinds)
<1>1. Append(errors, kind) \in Seq(ErrorKinds)
  BY AppendProperties
<1> QED  BY <1>1 DEF AddError

LEMMA ErrorKindsFacts ==
    /\ {"timeout", "rego_recursion_error", "builtin", "arity mismatch",
        "function result", "object insert conflict"} \subseteq ErrorKinds
    /\ ConflictError \in ErrorKinds
BY DEF ErrorKinds, ConflictError

LEMMA InvImplies ==
    ASSUME Inv
    PROVE  TypeOK /\ blockDepth \in Nat /\ withCount \in Nat /\ Len(stack) \in Nat
<1>1. IsSeq(stack) /\ Len(stack) \in Nat
  BY IsSeqDomain DEF Inv, StackOK
<1>2. blockDepth \in Nat /\ withCount \in Nat
  BY <1>1, CountNat DEF Inv, CountersMatchStack, CountersOK
<1> QED  BY <1>1, <1>2 DEF Inv, TypeOK, MemoryOK, ControlOK

-----------------------------------------------------------------------------
(***************************************************************************)
(* Memory.  Alloc is all that a step ever does to the nodes and the frame. *)
(***************************************************************************)
Alloc ==
    /\ IsSeq(heap') /\ Len(heap') \in Nat /\ Len(heap) \in Nat
    /\ Len(heap) <= Len(heap')
    /\ frame' \in [Locals -> 1..Len(heap') \cup {Null}]

LEMMA SameMemory ==
    ASSUME Inv, UNCHANGED <<frame, heap>>
    PROVE  Alloc
BY IsSeqDomain DEF Inv, MemoryOK, Alloc, Node

LEMMA WriteNodeAllocs ==
    ASSUME Inv, NEW l \in Locals, NEW n \in Node \cup {Null}, WriteNode(l, n)
    PROVE  Alloc
BY IsSeqDomain DEF Inv, MemoryOK, Alloc, WriteNode, Node

LEMMA PushAllocs ==
    ASSUME Inv, NEW l \in Locals, NEW node, heap' = Append(heap, node),
           frame' = [frame EXCEPT ![l] = Len(heap) + 1]
    PROVE  Alloc
<1>1. IsSeq(heap) /\ Len(heap) \in Nat
  BY IsSeqDomain DEF Inv, MemoryOK
<1>2. IsSeq(heap') /\ Len(heap') = Len(heap) + 1
  BY <1>1, PushIsSeq
<1>3. frame \in [Locals -> 1..Len(heap) \cup {Null}]
  BY DEF Inv, MemoryOK, Node
<1> QED  BY <1>1, <1>2, <1>3 DEF Alloc

LEMMA WriteValueAllocs ==
    ASSUME Inv, NEW l \in Locals, NEW v, WriteValue(l, v)
    PROVE  Alloc
<1>2. CASE v = Undef
  <2>1. WriteNode(l, Null)
    BY <1>2 DEF WriteValue
  <2> QED  BY <2>1, WriteNodeAllocs
<1>3. CASE v # Undef
  BY <1>3, PushAllocs DEF WriteValue
<1> QED  BY <1>2, <1>3

LEMMA WriteItemAllocs ==
    ASSUME Inv, NEW l \in Locals, NEW n, NEW steps, NEW v, WriteItem(l, n, steps, v)
    PROVE  Alloc
BY PushAllocs DEF WriteItem

LEMMA WriteOperandAllocs ==
    ASSUME Inv, NEW l \in Locals, NEW op, OperandOK(op, bundle), WriteOperand(l, op)
    PROVE  Alloc
<1>1. CASE IsLocal(op)
  <2>1. op[2] \in Locals /\ WriteNode(l, frame[op[2]])
    BY <1>1 DEF OperandOK, WriteOperand, Locals
  <2>2. frame[op[2]] \in Node \cup {Null}
    BY <2>1 DEF Inv, MemoryOK
  <2> QED  BY <2>1, <2>2, WriteNodeAllocs
<1>2. CASE ~IsLocal(op)
  BY <1>2, WriteValueAllocs DEF WriteOperand
<1> QED  BY <1>1, <1>2

LEMMA FillAllocs ==
    ASSUME Inv, NEW n, NEW v, NEW replaced, Fill(n, v, replaced)
    PROVE  Alloc
<1>1. IsSeq(heap) /\ Len(heap) \in Nat
  BY IsSeqDomain DEF Inv, MemoryOK
<1>2. heap' = [m \in DOMAIN heap |-> heap'[m]]
  BY DEF Fill
<1>3. IsSeq(heap') /\ Len(heap') = Len(heap)
  BY <1>1, <1>2, MapIsSeq
<1> QED  BY <1>1, <1>3 DEF Inv, MemoryOK, Fill, Alloc, Node

LEMMA AllocKeeps ==
    ASSUME Inv, Alloc, bundle' = bundle,
           cache' \in [Functions -> 1..Len(heap') \cup {Null, NoEntry}],
           results' \in Seq(1..Len(heap') \cup {Null})
    PROVE  /\ bundle' \in Bundles
           /\ MemoryOK'
           /\ StackOK(stack, bundle, Node')
<1>1. StackOK(stack, bundle, 1..Len(heap'))
  BY StackGrow DEF Inv, Alloc, Node
<1>2. MemoryOK'
  BY DEF Inv, Alloc, MemoryOK, Node, Locals, LocalsOf, Functions
<1> QED  BY <1>1, <1>2 DEF Inv, Node

\* Cached nodes and results stay allocated.
LEMMA AllocRemembers ==
    ASSUME Inv, Alloc
    PROVE  /\ cache \in [Functions -> 1..Len(heap') \cup {Null, NoEntry}]
           /\ results \in Seq(1..Len(heap') \cup {Null})
           /\ \A n \in Node : n \in 1..Len(heap')
<1>1. 1..Len(heap) \subseteq 1..Len(heap')
  BY DEF Alloc
<1>2. results \in Seq(1..Len(heap') \cup {Null})
  <2>1. results \in Seq(Node \cup {Null})
    BY DEF Inv, MemoryOK
  <2>2. Node \cup {Null} \subseteq 1..Len(heap') \cup {Null}
    BY <1>1 DEF Node
  <2> QED  BY <2>1, <2>2, SeqMonotonic
<1> QED  BY <1>1, <1>2 DEF Inv, MemoryOK, Node

-----------------------------------------------------------------------------
(***************************************************************************)
(* Statements that run neither a block nor a function.                     *)
(***************************************************************************)
LEMMA StatementFacts ==
    ASSUME Inv, AtStatement
    PROVE  /\ StatementOK(Stmt, bundle)
           /\ Stmt.target \in Locals
           /\ frame[Stmt.target] \in Node \cup {Null}
           /\ stmtCount + 1 \in Nat
<1>1. /\ IsSeq(stack) /\ Len(stack) \in Nat /\ Len(stack) > 0
      /\ DOMAIN stack = 1..Len(stack)
  BY IsSeqDomain DEF Inv, StackOK
<1>2. Activation(Top, bundle, Node) /\ Top.kind = "block"
  BY <1>1 DEF Inv, StackOK, Top, AtStatement, Running
<1>3. Top.block \in DOMAIN bundle.blocks /\ Top.pc \in Nat \ {0}
  BY <1>2 DEF Activation
<1>4. Verified(bundle)
  BY BundlesVerified DEF Inv
<1>5. IsSeq(Body(Top.block))
  BY <1>3, <1>4 DEF Verified, Body
<1>6. Top.pc \in DOMAIN Body(Top.block)
  BY <1>3, <1>5, IsSeqDomain DEF AtStatement
<1>7. StatementOK(Stmt, bundle)
  BY <1>3, <1>4, <1>6 DEF Verified, Body, Stmt
<1>8. Stmt.target \in Locals
  BY <1>7 DEF StatementOK, Locals
<1> QED  BY <1>7, <1>8 DEF Inv, MemoryOK, ControlOK

\* A step that leaves the stack and the counters that follow it alone.
LEMMA StraightStep ==
    ASSUME Inv, Alloc, UNCHANGED <<bundle, cache, counters, stack>>,
           results' \in Seq(1..Len(heap') \cup {Null}),
           errors' \in Seq(ErrorKinds), stmtCount' \in Nat,
           code' \in Codes \cup {"None"}, status' \in Statuses
    PROVE  Inv'
<1>1. bundle' \in Bundles /\ MemoryOK' /\ StackOK(stack', bundle', Node')
  BY AllocKeeps, AllocRemembers
<1>2. ControlOK'
  BY DEF Inv, ControlOK, counters, Functions
<1>3. CountersMatchStack'
  BY DEF Inv, CountersMatchStack, counters
<1> QED  BY <1>1, <1>2, <1>3 DEF Inv

\* The same for a statement, which leaves the results alone too.
LEMMA StatementStep ==
    ASSUME Inv, Alloc, NEW types, Executes(types), NEW c \in Codes, Completes(c),
           errors' \in Seq(ErrorKinds)
    PROVE  Inv'
<1>1. stmtCount' \in Nat
  BY StatementFacts DEF Executes
<1>2. results' \in Seq(1..Len(heap') \cup {Null}) /\ status' \in Statuses
  BY AllocRemembers DEF Completes, Inv, ControlOK
<1>3. UNCHANGED <<bundle, cache, counters, stack>> /\ code' \in Codes
  BY DEF Completes
<1> QED  BY <1>1, <1>2, <1>3, StraightStep

\* A statement that throws, and one that crashes.
LEMMA StopStep ==
    ASSUME Inv, status' \in Statuses, stmtCount' \in Nat,
           UNCHANGED <<bundle, frame, heap, errors, results, cache, counters, stack, code>>
    PROVE  Inv'
<1>1. Alloc
  BY SameMemory
<1>2. results' \in Seq(1..Len(heap') \cup {Null})
  BY <1>1, AllocRemembers
<1> QED  BY <1>1, <1>2, StraightStep DEF Inv, ControlOK

LEMMA TestStep ==
    ASSUME Inv, NEW type, NEW holds, Test(type, holds)
    PROVE  Inv'
<1>1. Alloc /\ errors' \in Seq(ErrorKinds)
  BY SameMemory DEF Test, Inv, ControlOK
<1>2. Executes({type})
  BY DEF Test
<1>3. CASE holds
  <2>1. Completes("Continue")
    BY <1>3 DEF Test
  <2> QED  BY <1>1, <1>2, <2>1, StatementStep DEF Codes
<1>4. CASE ~holds
  <2>1. Completes("Undefined")
    BY <1>4 DEF Test
  <2> QED  BY <1>1, <1>2, <2>1, StatementStep DEF Codes
<1> QED  BY <1>3, <1>4

LEMMA TestsStep ==
    ASSUME Inv, Tests
    PROVE  Inv'
<1> DEFINE a == Unpack(Stmt.op0)
           b == Unpack(Stmt.op1)
<1>1. \/ Test("IsObject", Tag(a) = "object")
      \/ Test("IsArray", Tag(a) = "array")
      \/ Test("IsSet", Tag(a) = "set")
      \/ Test("IsDefined", frame[Stmt.target] # Null)
      \/ Test("IsUndefined", frame[Stmt.target] = Null)
      \/ Test("Nop", TRUE)
      \/ Test("Equal", Undef \notin {a, b} /\ (a = b \/ Err \in {a, b}))
      \/ Test("NotEqual", Undef \notin {a, b} /\ (a # b \/ Err \in {a, b}))
  BY DEF Tests
<1> HIDE DEF a, b
<1> QED  BY <1>1, TestStep

LEMMA StraightPreserves ==
    ASSUME Inv, Straight
    PROVE  Inv'
<1> USE DEF Codes
<1>0. /\ errors \in Seq(ErrorKinds)
      /\ (UNCHANGED errors => errors' \in Seq(ErrorKinds))
  BY DEF Inv, ControlOK
<1>1. CASE Make
  <2>1. Executes({"MakeObject", "MakeArray", "MakeSet", "MakeNull",
                  "MakeNumberRef", "MakeNumberInt", "AssignInt"})
        /\ WriteValue(Stmt.target, NewValue(Stmt))
        /\ Completes("Continue") /\ UNCHANGED errors
    BY <1>1 DEF Make
  <2>2. Alloc
    BY <2>1, StatementFacts, WriteValueAllocs DEF Executes
  <2> QED  BY <1>0, <2>1, <2>2, StatementStep
<1>2. CASE MeasureLen
  <2>1. Alloc
    BY <1>2, StatementFacts, WriteValueAllocs DEF MeasureLen, Executes
  <2> QED  BY <1>0, <1>2, <2>1, StatementStep DEF MeasureLen
<1>3. CASE Tests
  BY <1>3, TestsStep
<1>4. CASE ResetLocal
  <2>1. Alloc
    BY <1>4, StatementFacts, WriteNodeAllocs DEF ResetLocal, Executes
  <2> QED  BY <1>0, <1>4, <2>1, StatementStep DEF ResetLocal
<1>5. CASE AssignVar
  <2>1. OperandOK(Stmt.op0, bundle) /\ Stmt.target \in Locals
    BY <1>5, StatementFacts DEF AssignVar, Executes, StatementOK
  <2>2. Alloc
    BY <1>5, <2>1, WriteOperandAllocs DEF AssignVar
  <2> QED  BY <1>0, <1>5, <2>2, StatementStep DEF AssignVar
<1>6. CASE AssignVarOnce
  <2>1. OperandOK(Stmt.op0, bundle) /\ Stmt.target \in Locals
    BY <1>6, StatementFacts DEF AssignVarOnce, Executes, StatementOK
  <2>2. /\ Executes({"AssignVarOnce"})
        /\ \/ Completes("Continue") /\ UNCHANGED <<frame, heap, errors>>
           \/ /\ WriteOperand(Stmt.target, Stmt.op0)
              /\ Completes("Continue") /\ UNCHANGED errors
           \/ /\ AddError(ConflictError)
              /\ Completes("Error") /\ UNCHANGED <<frame, heap>>
    BY <1>6 DEF AssignVarOnce
  <2>3. CASE Completes("Continue") /\ UNCHANGED <<frame, heap, errors>>
    BY <1>0, <2>2, <2>3, SameMemory, StatementStep
  <2>4. CASE /\ WriteOperand(Stmt.target, Stmt.op0)
             /\ Completes("Continue") /\ UNCHANGED errors
    BY <1>0, <2>1, <2>2, <2>4, WriteOperandAllocs, StatementStep
  <2>5. CASE /\ AddError(ConflictError)
             /\ Completes("Error") /\ UNCHANGED <<frame, heap>>
    <3>1. errors' \in Seq(ErrorKinds)
      BY <2>5, ErrorKindsFacts, AddErrorTyped DEF Inv, ControlOK
    <3> QED  BY <2>2, <2>5, <3>1, SameMemory, StatementStep
  <2> QED  BY <2>2, <2>3, <2>4, <2>5
<1>7. CASE ObjectInsert
  <2>1. /\ Executes({"ObjectInsert", "ObjectInsertOnce"})
        /\ \/ /\ AddError("object insert conflict")
              /\ Completes("Error") /\ UNCHANGED <<frame, heap>>
           \/ /\ \E v, replaced : Fill(frame[Stmt.target], v, replaced)
              /\ Completes("Continue") /\ UNCHANGED errors
    BY <1>7 DEF ObjectInsert
  <2>2. CASE /\ AddError("object insert conflict")
             /\ Completes("Error") /\ UNCHANGED <<frame, heap>>
    <3>1. errors' \in Seq(ErrorKinds)
      BY <2>2, ErrorKindsFacts, AddErrorTyped DEF Inv, ControlOK
    <3> QED  BY <2>1, <2>2, <3>1, SameMemory, StatementStep
  <2>3. CASE /\ \E v, replaced : Fill(frame[Stmt.target], v, replaced)
             /\ Completes("Continue") /\ UNCHANGED errors
    BY <1>0, <2>1, <2>3, FillAllocs, StatementStep
  <2> QED  BY <2>1, <2>2, <2>3
<1>8. CASE ObjectMerge
  <2>1. OperandOK(Stmt.op0, bundle) /\ Stmt.target \in Locals
    BY <1>8, StatementFacts DEF ObjectMerge, Executes, StatementOK
  <2>2. Alloc
    BY <1>8, <2>1, WriteValueAllocs, WriteOperandAllocs DEF ObjectMerge
  <2> QED  BY <1>0, <1>8, <2>2, StatementStep DEF ObjectMerge
<1>9. CASE Add
  <2>1. /\ Executes({"ArrayAppend", "SetAdd"})
        /\ \/ /\ Completes("Undefined") /\ UNCHANGED <<frame, heap, errors>>
           \/ /\ \/ UNCHANGED <<frame, heap>>
                 \/ \E v, replaced : Fill(frame[Stmt.target], v, replaced)
              /\ Completes("Continue") /\ UNCHANGED errors
    BY <1>9 DEF Add
  <2>2. CASE Completes("Undefined") /\ UNCHANGED <<frame, heap, errors>>
    BY <1>0, <2>1, <2>2, SameMemory, StatementStep
  <2>3. CASE UNCHANGED <<frame, heap>> /\ Completes("Continue") /\ UNCHANGED errors
    BY <1>0, <2>1, <2>3, SameMemory, StatementStep
  <2>4. CASE /\ \E v, replaced : Fill(frame[Stmt.target], v, replaced)
             /\ Completes("Continue") /\ UNCHANGED errors
    BY <1>0, <2>1, <2>4, FillAllocs, StatementStep
  <2> QED  BY <2>1, <2>2, <2>3, <2>4
<1>10. CASE DotStmt
  <2>1. /\ Executes({"Dot"}) /\ UNCHANGED errors
        /\ \/ Completes("Undefined") /\ UNCHANGED <<frame, heap>>
           \/ /\ \E n, steps, v : WriteItem(Stmt.target, n, steps, v)
              /\ Completes("Continue")
    BY <1>10 DEF DotStmt
  <2>2. CASE Completes("Undefined") /\ UNCHANGED <<frame, heap>>
    BY <1>0, <2>1, <2>2, SameMemory, StatementStep
  <2>3. CASE /\ \E n, steps, v : WriteItem(Stmt.target, n, steps, v)
             /\ Completes("Continue")
    <3>1. Alloc
      BY <2>1, <2>3, StatementFacts, WriteItemAllocs DEF Executes
    <3> QED  BY <1>0, <2>1, <2>3, <3>1, StatementStep
  <2> QED  BY <2>1, <2>2, <2>3
<1>11. CASE ResultSetAdd
  <2>1. frame[Stmt.target] \in Node \cup {Null} /\ stmtCount' \in Nat
    BY <1>11, StatementFacts DEF ResultSetAdd, Executes
  <2>2. results' \in Seq(Node \cup {Null})
    BY <1>11, <2>1, AppendProperties DEF ResultSetAdd, Inv, MemoryOK
  <2>3. results' \in Seq(1..Len(heap') \cup {Null})
    BY <1>11, <2>2 DEF ResultSetAdd, Node
  <2>4. Alloc
    BY <1>11, SameMemory DEF ResultSetAdd
  <2> QED  BY <1>0, <1>11, <2>1, <2>3, <2>4, StraightStep
           DEF ResultSetAdd, Inv, ControlOK
<1>12. CASE ReturnLocal
  BY <1>0, <1>12, SameMemory, StatementStep DEF ReturnLocal
<1>13. CASE BreakStmt
  <2>1. StatementOK(Stmt, bundle) /\ Stmt.type = "Break" /\ stmtCount' \in Nat
    BY <1>13, StatementFacts DEF BreakStmt, Executes
  <2>2. breakCount + Stmt.op0[2] \in Int /\ SizeMax \in Nat
    BY <2>1, LimitsAssumption DEF StatementOK, Inv, ControlOK
  <2>3. breakCount' \in 0..SizeMax
    BY <1>13, <2>2 DEF BreakStmt
  <2>4. Alloc
    BY <1>13, SameMemory DEF BreakStmt
  <2>5. MemoryOK' /\ bundle' \in Bundles /\ StackOK(stack', bundle', Node')
    BY <1>13, <2>4, AllocKeeps, AllocRemembers DEF BreakStmt
  <2>6. ControlOK'
    BY <1>13, <2>1, <2>3 DEF BreakStmt, Inv, ControlOK, Functions
  <2>7. CountersMatchStack'
    BY <1>13 DEF BreakStmt, Inv, CountersMatchStack
  <2> QED  BY <2>5, <2>6, <2>7 DEF Inv
<1>14. CASE DynamicUndefined
  BY <1>0, <1>14, SameMemory, StatementStep DEF DynamicUndefined
<1>15. CASE Timeout
  <2>1. stmtCount' \in Nat
    BY <1>15, StatementFacts DEF Timeout
  <2>2. errors' \in Seq(ErrorKinds)
    BY <1>15, ErrorKindsFacts, AddErrorTyped DEF Timeout, Inv, ControlOK
  <2>3. Alloc
    BY <1>15, SameMemory DEF Timeout
  <2>4. results' \in Seq(1..Len(heap') \cup {Null})
    BY <1>15, <2>3, AllocRemembers DEF Timeout
  <2> QED  BY <1>15, <2>1, <2>2, <2>3, <2>4, StraightStep DEF Timeout, Inv, ControlOK
<1>16. CASE RawOperand
  <2>1. stmtCount' \in Nat
    BY <1>16, StatementFacts DEF RawOperand
  <2> QED  BY <1>16, <2>1, StopStep DEF RawOperand, Throw, Statuses
<1>17. CASE FillMalformed
  <2>1. stmtCount' \in Nat
    BY <1>17, StatementFacts DEF FillMalformed, Executes
  <2> QED  BY <1>17, <2>1, StopStep DEF FillMalformed, Statuses
<1> QED  BY <1>1, <1>2, <1>3, <1>4, <1>5, <1>6, <1>7, <1>8, <1>9, <1>10, <1>11,
            <1>12, <1>13, <1>14, <1>15, <1>16, <1>17 DEF Straight

-----------------------------------------------------------------------------
(***************************************************************************)
(* Steps that push, pop or replace an activation.                          *)
(***************************************************************************)
LEMMA TopFacts ==
    ASSUME Inv
    PROVE  /\ IsSeq(stack) /\ Len(stack) \in Nat /\ Len(stack) > 0
           /\ Top = stack[Len(stack)] /\ Activation(Top, bundle, Node)
           /\ Top.kind # "plan" => Len(stack) > 1
           /\ IsSeq(callStack) /\ blockDepth \in Nat /\ withCount \in Nat
           /\ CountersOK(stack, blockDepth, withCount, callStack)
<1>1. /\ IsSeq(stack) /\ Len(stack) \in Nat /\ Len(stack) > 0
      /\ DOMAIN stack = 1..Len(stack)
  BY IsSeqDomain DEF Inv, StackOK
<1>2. Activation(Top, bundle, Node) /\ (Top.kind = "plan" <=> Len(stack) = 1)
  BY <1>1 DEF Inv, StackOK, Top
<1>3. IsSeq(callStack)
  BY SeqIsSeq DEF Inv, ControlOK
<1> QED  BY <1>1, <1>2, <1>3, InvImplies DEF Inv, CountersMatchStack, Top

LEMMA ControlStep ==
    ASSUME Inv, Alloc, bundle' = bundle,
           cache' \in [Functions -> 1..Len(heap') \cup {Null, NoEntry}],
           results' = results, errors' \in Seq(ErrorKinds),
           callStack' \in Seq([name : Functions, arity : Nat]),
           stmtCount' \in Nat, breakCount' \in 0..SizeMax,
           code' \in Codes \cup {"None"}, status' \in Statuses,
           StackOK(stack', bundle, Node'),
           CountersOK(stack', blockDepth', withCount', callStack')
    PROVE  Inv'
<1>1. bundle' \in Bundles /\ MemoryOK'
  BY AllocKeeps, AllocRemembers
<1>2. ControlOK'
  BY DEF ControlOK, Functions
<1> QED  BY <1>1, <1>2 DEF Inv, CountersMatchStack

\* The last activation returns.
LEMMA PopStep ==
    ASSUME Inv, Alloc, Top.kind # "plan", stack' = Below,
           blockDepth' = blockDepth - Bump(Top, "block"),
           withCount' = withCount - Bump(Top, "with"),
           callStack' = CallsBelow(Top, callStack),
           cache' \in [Functions -> 1..Len(heap') \cup {Null, NoEntry}],
           UNCHANGED <<bundle, results, stmtCount, status>>,
           errors' \in Seq(ErrorKinds), breakCount' \in 0..SizeMax, code' \in Codes
    PROVE  Inv'
<1>1. CountersOK(stack', blockDepth', withCount', callStack')
  <2>1. blockDepth \in Int /\ withCount \in Int
    BY TopFacts
  <2> QED  BY <2>1, TopFacts, CountersPop DEF Below
<1>2. callStack' \in Seq([name : Functions, arity : Nat])
  <2>1. callStack \in Seq([name : Functions, arity : Nat])
    BY DEF Inv, ControlOK
  <2>2. CASE Top.kind = "call"
    <3>1. Len(callStack) > 0
      <4>1. blockDepth \in Int /\ withCount \in Int
        BY TopFacts
      <4> QED  BY <2>2, <4>1, TopFacts, CountersPop
    <3> QED  BY <2>1, <2>2, <3>1, PopTyped DEF CallsBelow
  <2>3. CASE Top.kind # "call"
    BY <2>1, <2>3 DEF CallsBelow
  <2> QED  BY <2>2, <2>3
<1>3. StackOK(stack', bundle, Node')
  <2>1. StackOK(stack, bundle, Node')
    BY AllocKeeps, AllocRemembers
  <2>2. Len(stack) > 1
    BY TopFacts
  <2> QED  BY <2>1, <2>2, PopStackOK DEF Below
<1> QED  BY <1>1, <1>2, <1>3, ControlStep DEF Inv, ControlOK

\* run_block is called by the last activation of `base'.
LEMMA EnterStep ==
    ASSUME Inv, Alloc, NEW base, NEW b \in DOMAIN bundle.blocks, EnterBlock(base, b),
           StackOK(base, bundle, Node'),
           CountersOK(base, blockDepth, withCount', callStack), withCount' \in Nat,
           UNCHANGED <<bundle, results, cache, callStack, breakCount, status>>,
           stmtCount' \in Nat
    PROVE  Inv'
<1>1. cache' \in [Functions -> 1..Len(heap') \cup {Null, NoEntry}]
  BY AllocRemembers
<1>2. /\ callStack' \in Seq([name : Functions, arity : Nat]) /\ IsSeq(callStack)
      /\ breakCount' \in 0..SizeMax /\ status' \in Statuses
      /\ errors \in Seq(ErrorKinds)
  BY TopFacts DEF Inv, ControlOK
<1>3. CASE BlocksTooDeep
  <2>1. /\ AddError("rego_recursion_error")
        /\ stack' = base /\ code' = "Error" /\ blockDepth' = blockDepth
    BY <1>3 DEF EnterBlock
  <2>2. errors' \in Seq(ErrorKinds)
    BY <1>2, <2>1, ErrorKindsFacts, AddErrorTyped
  <2> QED  BY <1>1, <1>2, <2>1, <2>2, ControlStep DEF Codes
<1>4. CASE ~BlocksTooDeep
  <2> DEFINE a == [kind |-> "block", block |-> b, pc |-> 1]
  <2>1. /\ errors' = errors /\ code' = "None" /\ blockDepth' = blockDepth + 1
        /\ stack' = Append(base, a)
    BY <1>4 DEF EnterBlock
  <2>2. StackOK(stack', bundle, Node')
    <3>1. Activation(a, bundle, Node') /\ a.kind # "plan"
      BY DEF Activation
    <3> HIDE DEF a
    <3> QED  BY <2>1, <3>1, PushStackOK
  <2>3. CountersOK(stack', blockDepth', withCount', callStack')
    <3>1. a.kind = "block"
      OBVIOUS
    <3> HIDE DEF a
    <3>2. /\ a.kind # "call" /\ IsSeq(base)
          /\ blockDepth \in Int /\ withCount' \in Int
          /\ blockDepth + Bump(a, "block") = blockDepth + 1
      BY <3>1, TopFacts DEF Bump, StackOK
    <3>3. withCount' + Bump(a, "with") = withCount'
      <4>1. Bump(a, "with") = 0
        BY <3>1 DEF Bump
      <4> QED  BY <3>2, <4>1
    <3>4. CountersOK(Append(base, a), blockDepth + Bump(a, "block"),
                     withCount' + Bump(a, "with"), callStack)
      BY <1>2, <3>2, CountersPush
    <3> QED  BY <2>1, <3>2, <3>3, <3>4
  <2> QED  BY <1>1, <1>2, <2>1, <2>2, <2>3, ControlStep
<1> QED  BY <1>3, <1>4

\* The loops over blocks.
LEMMA NextBlockStep ==
    ASSUME Inv, NEW kind \in {"plan", "nest", "call"}, NEW codes, NextBlock(kind, codes)
    PROVE  Inv'
<1> DEFINE a == [Top EXCEPT !.next = @ + 1]
           base == Append(Below, a)
           b == Top.blocks[Top.next]
<1>1. /\ Top.kind = kind /\ Top.next <= Len(Top.blocks) /\ EnterBlock(base, b)
      /\ UNCHANGED <<bundle, frame, heap, results, cache, stmtCount, callStack,
                     withCount, breakCount, status>>
  BY DEF NextBlock, Running
<1>2. Alloc
  BY <1>1, SameMemory
<1>3. Top.blocks \in Seq(DOMAIN bundle.blocks) /\ Top.next \in Nat \ {0}
  BY <1>1, TopFacts DEF Activation
<1>4. b \in DOMAIN bundle.blocks
  BY <1>1, <1>3
<1>5. /\ Activation(a, bundle, Node') /\ a.kind = Top.kind
      /\ a.kind = "call" => a.func = Top.func
  <2>1. CASE kind \in {"plan", "nest"}
    BY <1>1, <2>1, TopFacts DEF Activation
  <2>2. CASE kind = "call"
    BY <1>1, <2>2, TopFacts DEF Activation
  <2> QED  BY <2>1, <2>2
<1> HIDE DEF a
<1>6. StackOK(base, bundle, Node')
  <2>1. StackOK(stack, bundle, Node')
    BY <1>1, <1>2, AllocKeeps, AllocRemembers
  <2> QED  BY <1>5, <2>1, TopFacts, ReplaceStackOK DEF Below
<1>7. CountersOK(base, blockDepth, withCount', callStack) /\ withCount' \in Nat
  <2>1. blockDepth \in Int /\ withCount \in Int
    BY TopFacts
  <2> QED  BY <1>1, <1>5, <2>1, TopFacts, CountersReplace DEF Below
<1> HIDE DEF base, b
<1>8. stmtCount' \in Nat
  BY <1>1 DEF Inv, ControlOK
<1> QED  BY <1>1, <1>2, <1>4, <1>6, <1>7, <1>8, EnterStep

\* An activation that counts nothing is pushed.
LEMMA PushStep ==
    ASSUME Inv, Alloc, NEW a, Activation(a, bundle, Node'),
           a.kind \notin {"plan", "block", "with", "call"}, stack' = Append(stack, a),
           UNCHANGED <<bundle, results, cache, counters, errors, status>>,
           code' \in Codes \cup {"None"}, stmtCount' \in Nat
    PROVE  Inv'
<1>1. StackOK(stack', bundle, Node')
  <2>1. StackOK(stack, bundle, Node')
    BY AllocKeeps, AllocRemembers
  <2> QED  BY <2>1, PushStackOK
<1>2. CountersOK(stack', blockDepth', withCount', callStack')
  <2>1. blockDepth \in Int /\ withCount \in Int
    BY TopFacts
  <2>2. CountersOK(Append(stack, a), blockDepth + Bump(a, "block"),
                   withCount + Bump(a, "with"), callStack)
    BY <2>1, TopFacts, CountersPush
  <2>3. blockDepth + Bump(a, "block") = blockDepth /\ withCount + Bump(a, "with") = withCount
    BY <2>1 DEF Bump
  <2> QED  BY <2>2, <2>3 DEF counters
<1> QED  BY <1>1, <1>2, AllocRemembers, ControlStep DEF Inv, ControlOK, counters

\* An activation moves on.
LEMMA ReplaceStep ==
    ASSUME Inv, Alloc, NEW a, Activation(a, bundle, Node'),
           a.kind = Top.kind, a.kind = "call" => a.func = Top.func,
           stack' = Append(Below, a),
           UNCHANGED <<bundle, results, cache, counters, errors, status, stmtCount>>,
           code' \in Codes \cup {"None"}
    PROVE  Inv'
<1>1. StackOK(stack', bundle, Node')
  <2>1. StackOK(stack, bundle, Node')
    BY AllocKeeps, AllocRemembers
  <2> QED  BY <2>1, TopFacts, ReplaceStackOK DEF Below
<1>2. CountersOK(stack', blockDepth', withCount', callStack')
  <2>1. blockDepth \in Int /\ withCount \in Int
    BY TopFacts
  <2> QED  BY <2>1, TopFacts, CountersReplace DEF Below, counters
<1> QED  BY <1>1, <1>2, AllocRemembers, ControlStep DEF Inv, ControlOK, counters

-----------------------------------------------------------------------------
LEMMA ScanNextPreserves ==
    ASSUME Inv, ScanNext
    PROVE  Inv'
<1>1. PICK k \in ScanKeys :
         /\ \E x, y : heap' = heap \o <<x, y>>
         /\ frame' = [frame EXCEPT ![Top.key] = Len(heap) + 1,
                                   ![Top.value] = Len(heap) + 2]
         /\ EnterBlock(Append(Below, [Top EXCEPT !.seen = @ \cup {k}]), Top.block)
  BY DEF ScanNext, ScannedNodes
<1> DEFINE a == [Top EXCEPT !.seen = @ \cup {k}]
           base == Append(Below, a)
<1>2. Top.kind = "scan" /\ UNCHANGED <<bundle, results, cache, stmtCount, callStack,
                                       withCount, breakCount, status>>
  BY DEF ScanNext, Running
<1>3. /\ Top.source \in Node \cup {Null} /\ Top.block \in DOMAIN bundle.blocks
      /\ Top.key \in Locals /\ Top.value \in Locals
      /\ Top = [kind |-> "scan", source |-> Top.source, seen |-> Top.seen,
                key |-> Top.key, value |-> Top.value, block |-> Top.block]
  BY <1>2, TopFacts DEF Activation, Locals
<1>4. Alloc
  <2>1. IsSeq(heap) /\ Len(heap) \in Nat /\ frame \in [Locals -> 1..Len(heap) \cup {Null}]
    BY IsSeqDomain DEF Inv, MemoryOK, Node
  <2>2. IsSeq(heap') /\ Len(heap') = Len(heap) + 2
    BY <1>1, <2>1, Push2IsSeq
  <2>3. Len(heap) + 1 \in 1..Len(heap') /\ Len(heap) + 2 \in 1..Len(heap')
    BY <2>1, <2>2
  <2>4. frame \in [Locals -> 1..Len(heap') \cup {Null}]
    BY <2>1, <2>2
  <2>5. frame' \in [Locals -> 1..Len(heap') \cup {Null}]
    BY <1>1, <1>3, <2>3, <2>4
  <2> QED  BY <2>1, <2>2, <2>5 DEF Alloc
<1>5. Activation(a, bundle, Node') /\ a.kind = "scan"
  <2>1. \A n \in Node \cup {Null} : n \in Node' \cup {Null}
    BY <1>4, AllocRemembers DEF Node
  <2>2. a = [kind |-> "scan", source |-> Top.source, seen |-> Top.seen \cup {k},
             key |-> Top.key, value |-> Top.value, block |-> Top.block]
    BY <1>3
  <2> HIDE DEF a
  <2> QED  BY <1>3, <2>1, <2>2 DEF Activation, Locals
<1> HIDE DEF a
<1>6. StackOK(base, bundle, Node')
  <2>1. StackOK(stack, bundle, Node')
    BY <1>2, <1>4, AllocKeeps, AllocRemembers
  <2> QED  BY <1>2, <1>5, <2>1, TopFacts, ReplaceStackOK DEF Below
<1>7. CountersOK(base, blockDepth, withCount', callStack) /\ withCount' \in Nat
  <2>1. blockDepth \in Int /\ withCount \in Int
    BY TopFacts
  <2> QED  BY <1>2, <1>5, <2>1, TopFacts, CountersReplace DEF Below
<1>8. stmtCount' \in Nat /\ EnterBlock(base, Top.block)
  BY <1>1, <1>2 DEF Inv, ControlOK, a
<1> HIDE DEF base
<1> QED  BY <1>2, <1>3, <1>4, <1>6, <1>7, <1>8, EnterStep

LEMMA WithStmtPreserves ==
    ASSUME Inv, WithStmt
    PROVE  Inv'
<1> DEFINE a == [kind |-> "with", target |-> Stmt.target, old |-> frame[Stmt.target]]
           base == Append(stack, a)
<1>1. /\ AtStatement /\ stmtCount' = stmtCount + 1 /\ Stmt.type = "With"
      /\ withCount' = withCount + 1
      /\ EnterBlock(base, Stmt.blocks[1])
      /\ UNCHANGED <<bundle, results, cache, callStack, breakCount, status>>
  BY DEF WithStmt, Executes
<1>2. /\ StatementOK(Stmt, bundle) /\ Stmt.target \in Locals
      /\ frame[Stmt.target] \in Node \cup {Null} /\ stmtCount' \in Nat
  BY <1>1, StatementFacts
<1>3. Stmt.blocks[1] \in DOMAIN bundle.blocks
  BY <1>1, <1>2 DEF StatementOK
<1>4. Alloc
  <2>1. CASE Stmt.path = <<>>
    <3>1. OperandOK(Stmt.op0, bundle) /\ WriteOperand(Stmt.target, Stmt.op0)
      BY <1>2, <2>1 DEF StatementOK, WithStmt
    <3> QED  BY <1>2, <3>1, WriteOperandAllocs
  <2>2. CASE Stmt.path # <<>>
    <3>1. \E v : WriteValue(Stmt.target, v)
      BY <2>2 DEF WithStmt
    <3> QED  BY <1>2, <3>1, WriteValueAllocs
  <2> QED  BY <2>1, <2>2
<1>5. Activation(a, bundle, Node') /\ a.kind = "with"
  <2>1. \A n \in Node \cup {Null} : n \in Node' \cup {Null}
    BY <1>4, AllocRemembers DEF Node
  <2> QED  BY <1>2, <2>1 DEF Activation, Locals
<1> HIDE DEF a
<1>6. StackOK(base, bundle, Node')
  <2>1. StackOK(stack, bundle, Node')
    BY <1>1, <1>4, AllocKeeps, AllocRemembers
  <2> QED  BY <1>5, <2>1, PushStackOK
<1>7. CountersOK(base, blockDepth, withCount', callStack) /\ withCount' \in Nat
  <2>1. blockDepth \in Int /\ withCount \in Int /\ withCount' \in Nat
    BY <1>1, TopFacts
  <2>2. CountersOK(Append(stack, a), blockDepth + Bump(a, "block"),
                   withCount + Bump(a, "with"), callStack)
    BY <1>5, <2>1, TopFacts, CountersPush
  <2>3. /\ blockDepth + Bump(a, "block") = blockDepth
        /\ withCount + Bump(a, "with") = withCount + 1
    BY <1>5, <2>1 DEF Bump
  <2> QED  BY <1>1, <2>1, <2>2, <2>3
<1> HIDE DEF base
<1> QED  BY <1>1, <1>2, <1>3, <1>4, <1>6, <1>7, EnterStep

LEMMA BlocksPreserves ==
    ASSUME Inv, Blocks
    PROVE  Inv'
<1> USE DEF Codes
<1>0. /\ errors \in Seq(ErrorKinds) /\ breakCount \in 0..SizeMax /\ stmtCount \in Nat
      /\ code \in Codes \cup {"None"} /\ SizeMax \in Nat
  BY LimitsAssumption DEF Inv, ControlOK
<1>1. CASE PlanNext
  BY <1>1, NextBlockStep DEF PlanNext
<1>2. CASE PlanDone
  BY <1>0, <1>2, StopStep DEF PlanDone, Statuses
<1>3. CASE NestNext
  BY <1>3, NextBlockStep DEF NestNext
<1>4. CASE NestDone
  <2>1. /\ Top.kind = "nest" /\ stack' = Below /\ code' \in Codes
        /\ UNCHANGED <<bundle, frame, heap, errors, results, cache, stmtCount,
                       counters, status>>
    BY <1>4 DEF NestDone, Running, Return
  <2>2. Alloc
    BY <2>1, SameMemory
  <2>3. /\ blockDepth - Bump(Top, "block") = blockDepth
        /\ withCount - Bump(Top, "with") = withCount
        /\ CallsBelow(Top, callStack) = callStack
    BY <2>1, TopFacts DEF Bump, CallsBelow
  <2> QED  BY <1>0, <2>1, <2>2, <2>3, AllocRemembers, PopStep DEF counters
<1>5. CASE BlockAdvance
  <2> DEFINE a == [Top EXCEPT !.pc = @ + 1]
  <2>1. /\ Top.kind = "block" /\ stack' = Append(Below, a) /\ code' = "None"
        /\ UNCHANGED <<bundle, frame, heap, errors, results, cache, stmtCount,
                       counters, status>>
    BY <1>5 DEF BlockAdvance, Running
  <2>2. Alloc
    BY <2>1, SameMemory
  <2>3. Activation(a, bundle, Node') /\ a.kind = "block"
    BY <2>1, TopFacts DEF Activation
  <2> HIDE DEF a
  <2> QED  BY <2>1, <2>2, <2>3, ReplaceStep
<1>6. CASE BlockEnd \/ BlockExit \/ BlockBreak
  <2>1. /\ Top.kind = "block" /\ stack' = Below /\ code' \in Codes
        /\ blockDepth' = blockDepth - 1
        /\ UNCHANGED <<bundle, frame, heap, errors, results, cache, stmtCount,
                       callStack, withCount, status>>
    BY <1>6 DEF BlockEnd, BlockExit, BlockBreak, Running, Return
  <2>2. breakCount' \in 0..SizeMax
    <3>1. breakCount - 1 \in Int /\ (breakCount' = breakCount
                                     \/ breakCount' = (breakCount - 1) % (SizeMax + 1))
      BY <1>0, <1>6 DEF BlockEnd, BlockExit, BlockBreak
    <3> QED  BY <1>0, <3>1
  <2>3. Alloc
    BY <2>1, SameMemory
  <2>4. /\ Bump(Top, "block") = 1
        /\ withCount - Bump(Top, "with") = withCount
        /\ CallsBelow(Top, callStack) = callStack
    BY <2>1, TopFacts DEF Bump, CallsBelow
  <2> QED  BY <1>0, <2>1, <2>2, <2>3, <2>4, AllocRemembers, PopStep
<1>7. CASE BlockStmt
  <2> DEFINE a == [kind |-> "nest", blocks |-> Stmt.blocks, next |-> 1]
  <2>1. /\ AtStatement /\ stmtCount' = stmtCount + 1 /\ stack' = Append(stack, a)
        /\ UNCHANGED <<bundle, frame, heap, errors, results, cache, counters, code,
                       status>>
    BY <1>7 DEF BlockStmt, Executes
  <2>2. Alloc
    BY <2>1, SameMemory
  <2>3. stmtCount' \in Nat /\ StatementOK(Stmt, bundle)
    BY <2>1, StatementFacts
  <2>4. Activation(a, bundle, Node') /\ a.kind = "nest"
    BY <2>3 DEF Activation, StatementOK
  <2> HIDE DEF a
  <2> QED  BY <1>0, <2>1, <2>2, <2>3, <2>4, PushStep
<1>8. CASE NotStmt
  <2> DEFINE a == [kind |-> "not"]
  <2>1. /\ AtStatement /\ stmtCount' = stmtCount + 1 /\ Stmt.type = "Not"
        /\ EnterBlock(Append(stack, a), Stmt.blocks[1])
        /\ UNCHANGED <<bundle, frame, heap, results, cache, callStack, withCount,
                       breakCount, status>>
    BY <1>8 DEF NotStmt, Executes
  <2>2. Alloc
    BY <2>1, SameMemory
  <2>3. stmtCount' \in Nat /\ Stmt.blocks[1] \in DOMAIN bundle.blocks
    BY <2>1, StatementFacts DEF StatementOK
  <2>4. Activation(a, bundle, Node') /\ a.kind = "not"
    BY DEF Activation
  <2> HIDE DEF a
  <2>5. StackOK(Append(stack, a), bundle, Node')
    <3>1. StackOK(stack, bundle, Node')
      BY <2>1, <2>2, AllocKeeps, AllocRemembers
    <3> QED  BY <2>4, <3>1, PushStackOK
  <2>6. CountersOK(Append(stack, a), blockDepth, withCount', callStack)
        /\ withCount' \in Nat
    <3>1. blockDepth \in Int /\ withCount \in Int
      BY TopFacts
    <3>2. CountersOK(Append(stack, a), blockDepth + Bump(a, "block"),
                     withCount + Bump(a, "with"), callStack)
      BY <2>4, <3>1, TopFacts, CountersPush
    <3>3. /\ blockDepth + Bump(a, "block") = blockDepth
          /\ withCount + Bump(a, "with") = withCount
      BY <2>4, <3>1 DEF Bump
    <3> QED  BY <2>1, <3>2, <3>3, TopFacts
  <2> QED  BY <2>1, <2>2, <2>3, <2>5, <2>6, EnterStep
<1>9. CASE NotDone
  <2>1. /\ Top.kind = "not" /\ stack' = Below /\ code' \in Codes
        /\ UNCHANGED <<bundle, frame, heap, errors, results, cache, stmtCount,
                       counters, status>>
    BY <1>9 DEF NotDone, Running, Return
  <2>2. Alloc
    BY <2>1, SameMemory
  <2>3. /\ blockDepth - Bump(Top, "block") = blockDepth
        /\ withCount - Bump(Top, "with") = withCount
        /\ CallsBelow(Top, callStack) = callStack
    BY <2>1, TopFacts DEF Bump, CallsBelow
  <2> QED  BY <1>0, <2>1, <2>2, <2>3, AllocRemembers, PopStep DEF counters
<1>10. CASE WithStmt
  BY <1>10, WithStmtPreserves
<1>11. CASE WithCrash
  <2>1. stmtCount' \in Nat
    BY <1>11, StatementFacts DEF WithCrash, Executes
  <2> QED  BY <1>11, <2>1, StopStep DEF WithCrash, Statuses
<1>12. CASE WithDone
  <2>1. /\ Top.kind = "with" /\ stack' = Below /\ code' \in Codes
        /\ WriteNode(Top.target, Top.old) /\ withCount' = withCount - 1
        /\ UNCHANGED <<bundle, errors, results, cache, stmtCount, callStack,
                       breakCount, blockDepth, status>>
    BY <1>0, <1>12 DEF WithDone, Running, Return
  <2>2. Top.target \in Locals /\ Top.old \in Node \cup {Null}
    BY <2>1, TopFacts DEF Activation, Locals
  <2>3. Alloc
    BY <2>1, <2>2, WriteNodeAllocs
  <2>4. /\ blockDepth - Bump(Top, "block") = blockDepth
        /\ Bump(Top, "with") = 1
        /\ CallsBelow(Top, callStack) = callStack
    BY <2>1, TopFacts DEF Bump, CallsBelow
  <2> QED  BY <1>0, <2>1, <2>3, <2>4, AllocRemembers, PopStep
<1>13. CASE ScanStmt
  <2>1. Executes({"Scan"}) /\ Alloc /\ AtStatement /\ stmtCount' = stmtCount + 1
    BY <1>13, SameMemory DEF ScanStmt, Executes
  <2>2. CASE Completes("Undefined")
    BY <1>0, <1>13, <2>1, <2>2, StatementStep DEF ScanStmt
  <2>3. CASE ~Completes("Undefined")
    <3> DEFINE a == [kind |-> "scan", source |-> frame[Stmt.target], seen |-> {},
                     key |-> Stmt.op0[2], value |-> Stmt.op1[2],
                     block |-> Stmt.blocks[1]]
    <3>1. /\ stack' = Append(stack, a) /\ Stmt.type = "Scan"
          /\ UNCHANGED <<bundle, errors, results, cache, counters, code, status>>
      BY <1>13, <2>3 DEF ScanStmt, Executes
    <3>2. /\ StatementOK(Stmt, bundle) /\ stmtCount' \in Nat
          /\ frame[Stmt.target] \in Node \cup {Null}
      BY <2>1, StatementFacts
    <3>3. \A n \in Node \cup {Null} : n \in Node' \cup {Null}
      BY <2>1, AllocRemembers DEF Node
    <3>4. Activation(a, bundle, Node') /\ a.kind = "scan"
      BY <3>1, <3>2, <3>3 DEF Activation, StatementOK
    <3> HIDE DEF a
    <3> QED  BY <1>0, <2>1, <3>1, <3>2, <3>4, PushStep
  <2> QED  BY <2>2, <2>3
<1>14. CASE ScanThrow
  <2>1. stmtCount' \in Nat
    BY <1>14, StatementFacts DEF ScanThrow, Executes
  <2> QED  BY <1>14, <2>1, StopStep DEF ScanThrow, Throw, Statuses
<1>15. CASE ScanNext
  BY <1>15, ScanNextPreserves
<1>16. CASE ScanDone
  <2>1. /\ Top.kind = "scan" /\ stack' = Below /\ code' \in Codes
        /\ UNCHANGED <<bundle, frame, heap, errors, results, cache, stmtCount,
                       counters, status>>
    BY <1>0, <1>16 DEF ScanDone, Running, Return
  <2>2. Alloc
    BY <2>1, SameMemory
  <2>3. /\ blockDepth - Bump(Top, "block") = blockDepth
        /\ withCount - Bump(Top, "with") = withCount
        /\ CallsBelow(Top, callStack) = callStack
    BY <2>1, TopFacts DEF Bump, CallsBelow
  <2> QED  BY <1>0, <2>1, <2>2, <2>3, AllocRemembers, PopStep DEF counters
<1> QED  BY <1>1, <1>2, <1>3, <1>4, <1>5, <1>6, <1>7, <1>8, <1>9, <1>10, <1>11,
            <1>12, <1>13, <1>14, <1>15, <1>16 DEF Blocks

-----------------------------------------------------------------------------
LEMMA FunctionFacts ==
    ASSUME Inv, NEW f \in Functions
    PROVE  FunctionOK(bundle.functions[f], bundle)
BY BundlesVerified DEF Inv, Verified, Functions

\* run_call up to the binding of the parameters, in a caller whose stack is
\* the machine's, with the activation of a CallDynamic on top for one.
LEMMA DoCallStep ==
    ASSUME Inv, NEW base, NEW f, NEW args, IsSeq(args), NEW target \in Locals,
           \A i \in DOMAIN args : OperandOK(args[i], bundle),
           StackOK(base, bundle, Node),
           CountersOK(base, blockDepth, withCount, callStack),
           stmtCount' \in Nat, DoCall(base, f, args, target)
    PROVE  Inv'
<1> USE DEF Codes
<1>0. /\ errors \in Seq(ErrorKinds) /\ breakCount \in 0..SizeMax
      /\ callStack \in Seq([name : Functions, arity : Nat])
      /\ code \in Codes \cup {"None"} /\ status \in Statuses
  BY DEF Inv, ControlOK
<1>1. CASE Throw
  BY <1>0, <1>1, StopStep DEF Throw, Statuses
<1>2. CASE /\ \E v : WriteValue(target, v)
           /\ stack' = base
           /\ \/ AddError("builtin") /\ code' = "Error"
              \/ code' = "Continue" /\ UNCHANGED errors
           /\ UNCHANGED <<bundle, results, cache, counters, status>>
  <2>1. Alloc
    BY <1>2, WriteValueAllocs
  <2>2. errors' \in Seq(ErrorKinds)
    <3>1. CASE AddError("builtin")
      BY <1>0, <3>1, ErrorKindsFacts, AddErrorTyped
    <3>2. CASE UNCHANGED errors
      BY <1>0, <3>2
    <3> QED  BY <1>2, <3>1, <3>2
  <2>3. StackOK(stack', bundle, Node')
    BY <1>2, <2>1, StackGrow DEF Alloc, Node
  <2> QED  BY <1>0, <1>2, <2>1, <2>2, <2>3, AllocRemembers, ControlStep DEF counters
<1>3. CASE /\ f \in Functions /\ cache[f] # NoEntry
           /\ WriteNode(target, cache[f])
           /\ code' \in {"Error", "Continue"}
           /\ stack' = base
           /\ UNCHANGED <<bundle, errors, results, cache, counters, status>>
  <2>1. cache[f] \in Node \cup {Null}
    BY <1>3 DEF Inv, MemoryOK
  <2>2. Alloc
    BY <1>3, <2>1, WriteNodeAllocs
  <2>3. StackOK(stack', bundle, Node')
    BY <1>3, <2>2, StackGrow DEF Alloc, Node
  <2> QED  BY <1>0, <1>3, <2>2, <2>3, AllocRemembers, ControlStep DEF counters
<1>4. CASE /\ AddError("arity mismatch") /\ code' = "Error" /\ stack' = base
           /\ UNCHANGED <<bundle, frame, heap, results, cache, counters, status>>
  <2>1. Alloc
    BY <1>4, SameMemory
  <2>2. errors' \in Seq(ErrorKinds)
    BY <1>0, <1>4, ErrorKindsFacts, AddErrorTyped
  <2>3. StackOK(stack', bundle, Node')
    BY <1>4, <2>1, StackGrow DEF Alloc, Node
  <2> QED  BY <1>0, <1>4, <2>1, <2>2, <2>3, AllocRemembers, ControlStep DEF counters
<1>5. CASE /\ f \in Functions /\ Len(args) >= Len(bundle.functions[f].params)
           /\ stack' = Append(base, [kind |-> "bind", func |-> f, args |-> args,
                                     next |-> 3, target |-> target])
           /\ code' = "None" /\ UNCHANGED errors
           /\ UNCHANGED <<bundle, frame, heap, results, cache, counters, status>>
  <2> DEFINE a == [kind |-> "bind", func |-> f, args |-> args, next |-> 3,
                   target |-> target]
  <2>1. Alloc
    BY <1>5, SameMemory
  <2>2. Activation(a, bundle, Node') /\ a.kind = "bind"
    BY <1>5 DEF Activation, Functions, Locals
  <2>3. stack' = Append(base, a)
    BY <1>5
  <2> HIDE DEF a
  <2>4. StackOK(base, bundle, Node')
    BY <1>5, <2>1, StackGrow DEF Alloc, Node
  <2>5. StackOK(stack', bundle, Node')
    BY <2>2, <2>3, <2>4, PushStackOK
  <2>6. CountersOK(stack', blockDepth', withCount', callStack')
    <3>1. blockDepth \in Int /\ withCount \in Int /\ IsSeq(base)
      BY TopFacts DEF StackOK
    <3>2. CountersOK(Append(base, a), blockDepth + Bump(a, "block"),
                     withCount + Bump(a, "with"), callStack)
      BY <2>2, <3>1, TopFacts, CountersPush
    <3>3. /\ blockDepth + Bump(a, "block") = blockDepth
          /\ withCount + Bump(a, "with") = withCount
      BY <2>2, <3>1 DEF Bump
    <3> QED  BY <1>5, <2>3, <3>2, <3>3 DEF counters
  <2> QED  BY <1>0, <1>5, <2>1, <2>5, <2>6, AllocRemembers, ControlStep DEF counters
<1> QED  BY <1>1, <1>2, <1>3, <1>4, <1>5 DEF DoCall, CacheHit

LEMMA BindParamPreserves ==
    ASSUME Inv, BindParam
    PROVE  Inv'
<1> DEFINE f == bundle.functions[Top.func]
           a == [Top EXCEPT !.next = @ + 1]
<1>1. Top.kind = "bind" /\ Top.next <= Len(f.params) /\ stmtCount' = stmtCount
  BY DEF BindParam, Running
<1>2. /\ Top = [kind |-> "bind", func |-> Top.func, args |-> Top.args,
                next |-> Top.next, target |-> Top.target]
      /\ Top.func \in Functions /\ Top.target \in LocalsOf(bundle)
      /\ Top.next \in Nat \ {0, 1, 2}
      /\ IsSeq(Top.args) /\ Len(Top.args) >= Len(f.params)
      /\ \A i \in DOMAIN Top.args : OperandOK(Top.args[i], bundle)
  BY <1>1, TopFacts DEF Activation, Functions
<1>3. f.params \in Seq(Locals)
  BY <1>2, FunctionFacts DEF FunctionOK, Locals
<1>4. f.params[Top.next] \in Locals /\ OperandOK(Top.args[Top.next], bundle)
  <2>1. Top.next \in 1..Len(f.params) /\ Top.next \in DOMAIN Top.args
    BY <1>1, <1>2, <1>3, IsSeqDomain
  <2> QED  BY <1>2, <1>3, <2>1
<1>5. CASE Throw
  BY <1>1, <1>5, StopStep DEF Throw, Statuses, Inv, ControlOK
<1>6. CASE /\ WriteOperand(f.params[Top.next], Top.args[Top.next])
           /\ stack' = Append(Below, a)
           /\ UNCHANGED <<bundle, errors, results, cache, counters, code, status>>
  <2>1. Alloc
    BY <1>4, <1>6, WriteOperandAllocs
  <2>2. a = [kind |-> "bind", func |-> Top.func, args |-> Top.args,
             next |-> Top.next + 1, target |-> Top.target]
    BY <1>2
  <2>3. stack' = Append(Below, a)
    BY <1>6
  <2> HIDE DEF a
  <2>4. Activation(a, bundle, Node') /\ a.kind = "bind"
    BY <1>2, <2>2 DEF Activation, Functions
  <2> QED  BY <1>1, <1>6, <2>1, <2>3, <2>4, ReplaceStep DEF Inv, ControlOK
<1> QED  BY <1>5, <1>6 DEF BindParam

LEMMA EnterFunctionPreserves ==
    ASSUME Inv, EnterFunction
    PROVE  Inv'
<1> USE DEF Codes
<1>0. /\ errors \in Seq(ErrorKinds) /\ breakCount \in 0..SizeMax /\ stmtCount \in Nat
      /\ code \in Codes \cup {"None"} /\ status \in Statuses
      /\ callStack \in Seq([name : Functions, arity : Nat])
  BY DEF Inv, ControlOK
<1>1. /\ Top.kind = "bind"
      /\ UNCHANGED <<bundle, frame, heap, results, cache, stmtCount, withCount,
                     breakCount, blockDepth, status>>
  BY DEF EnterFunction, Running
<1>2. Alloc
  BY <1>1, SameMemory
<1>3. /\ blockDepth - Bump(Top, "block") = blockDepth
      /\ withCount - Bump(Top, "with") = withCount
      /\ CallsBelow(Top, callStack) = callStack
  BY <1>1, TopFacts DEF Bump, CallsBelow
<1>4. CASE AddError("rego_recursion_error") /\ Return("Error") /\ UNCHANGED callStack
  <2>1. errors' \in Seq(ErrorKinds)
    BY <1>0, <1>4, ErrorKindsFacts, AddErrorTyped
  <2> QED  BY <1>0, <1>1, <1>2, <1>3, <1>4, <2>1, AllocRemembers, PopStep DEF Return
<1>5. CASE /\ callStack' = Append(callStack,
                  [name |-> Top.func, arity |-> bundle.functions[Top.func].arity])
           /\ stack' = Append(Below, [kind |-> "call", func |-> Top.func,
                  blocks |-> bundle.functions[Top.func].blocks, next |-> 1,
                  target |-> Top.target])
           /\ UNCHANGED <<errors, code>>
  <2> DEFINE x == [name |-> Top.func, arity |-> bundle.functions[Top.func].arity]
             a == [kind |-> "call", func |-> Top.func,
                   blocks |-> bundle.functions[Top.func].blocks, next |-> 1,
                   target |-> Top.target]
  <2>1. Top.func \in Functions /\ Top.target \in LocalsOf(bundle)
    BY <1>1, TopFacts DEF Activation, Functions
  <2>2. FunctionOK(bundle.functions[Top.func], bundle)
    BY <2>1, FunctionFacts
  <2>3. Activation(a, bundle, Node') /\ a.kind = "call" /\ a.func = Top.func
    BY <2>1, <2>2 DEF Activation, FunctionOK, Functions
  <2>4. x \in [name : Functions, arity : Nat] /\ x.name = Top.func
    BY <2>1, <2>2 DEF FunctionOK
  <2>5. callStack' = Append(callStack, x) /\ stack' = Append(Below, a)
    BY <1>5
  <2> HIDE DEF a, x
  <2>6. /\ callStack' \in Seq([name : Functions, arity : Nat])
        /\ IsSeq(callStack') /\ Len(callStack') = Len(callStack) + 1
        /\ \A i \in 1..Len(callStack) : callStack'[i] = callStack[i]
        /\ callStack'[Len(callStack) + 1].name = a.func
    <3>1. /\ callStack' \in Seq([name : Functions, arity : Nat])
          /\ Len(callStack') = Len(callStack) + 1
          /\ \A i \in 1..Len(callStack) : callStack'[i] = callStack[i]
          /\ callStack'[Len(callStack) + 1] = x
      BY <1>0, <2>4, <2>5, AppendProperties
    <3> QED  BY <2>3, <2>4, <3>1, SeqIsSeq
  <2>7. StackOK(stack', bundle, Node')
    <3>1. StackOK(stack, bundle, Node')
      BY <1>1, <1>2, AllocKeeps, AllocRemembers
    <3> QED  BY <1>1, <2>3, <2>5, <3>1, TopFacts, ReplaceStackOK DEF Below
  <2>8. CountersOK(stack', blockDepth', withCount', callStack')
    <3>1. blockDepth \in Int /\ withCount \in Int /\ IsSeq(Below)
      BY TopFacts, PopIsSeq DEF Below
    <3>2. CountersOK(Below, blockDepth, withCount, callStack)
      <4>1. CountersOK(Below, blockDepth - Bump(Top, "block"),
                       withCount - Bump(Top, "with"), CallsBelow(Top, callStack))
        BY <3>1, TopFacts, CountersPop DEF Below
      <4> QED  BY <1>3, <4>1
    <3>3. CountersOK(Append(Below, a), blockDepth + Bump(a, "block"),
                     withCount + Bump(a, "with"), callStack')
      BY <2>3, <2>6, <3>1, <3>2, TopFacts, CountersPush
    <3>4. /\ blockDepth + Bump(a, "block") = blockDepth
          /\ withCount + Bump(a, "with") = withCount
      BY <2>3, <3>1 DEF Bump
    <3> QED  BY <1>1, <2>5, <3>3, <3>4
  <2> QED  BY <1>0, <1>1, <1>2, <1>5, <2>6, <2>7, <2>8, AllocRemembers, ControlStep
<1> QED  BY <1>4, <1>5 DEF EnterFunction

LEMMA CallReturnPreserves ==
    ASSUME Inv, CallReturn
    PROVE  Inv'
<1> DEFINE f == bundle.functions[Top.func]
           n == frame[f.result]
<1>1. /\ Top.kind = "call" /\ stack' = Below /\ callStack' = CallsBelow(Top, callStack)
      /\ code' \in Codes /\ WriteNode(Top.target, n)
      /\ cache' = cache \/ cache' = [cache EXCEPT ![Top.func] = n]
      /\ errors' = errors \/ errors' = Append(errors, "function result")
      /\ UNCHANGED <<bundle, results, stmtCount, withCount, breakCount, blockDepth,
                     status>>
  BY DEF CallReturn, Running, PopFunction, CallsBelow, Return, AddError, Codes
<1>2. Top.func \in Functions /\ Top.target \in Locals
  BY <1>1, TopFacts DEF Activation, Functions, Locals
<1>3. n \in Node \cup {Null}
  <2>1. f.result \in Locals
    BY <1>2, FunctionFacts DEF FunctionOK, Locals
  <2> QED  BY <2>1 DEF Inv, MemoryOK
<1>4. Alloc
  BY <1>1, <1>2, <1>3, WriteNodeAllocs
<1>5. cache' \in [Functions -> 1..Len(heap') \cup {Null, NoEntry}]
  <2>1. n \in 1..Len(heap') \cup {Null}
    BY <1>3, <1>4, AllocRemembers
  <2>2. cache \in [Functions -> 1..Len(heap') \cup {Null, NoEntry}]
    BY <1>4, AllocRemembers
  <2> HIDE DEF n
  <2> QED  BY <1>1, <1>2, <2>1, <2>2
<1> HIDE DEF f, n
<1>6. errors' \in Seq(ErrorKinds) /\ breakCount' \in 0..SizeMax
  <2>1. errors \in Seq(ErrorKinds) /\ "function result" \in ErrorKinds
    BY DEF Inv, ControlOK, ErrorKinds
  <2>2. errors' = errors \/ errors' = Append(errors, "function result")
    BY <1>1
  <2>3. Append(errors, "function result") \in Seq(ErrorKinds)
    BY <2>1, AppendProperties
  <2> QED  BY <1>1, <2>1, <2>2, <2>3 DEF Inv, ControlOK
<1>7. /\ blockDepth - Bump(Top, "block") = blockDepth
      /\ withCount - Bump(Top, "with") = withCount
  <2>1. Bump(Top, "block") = 0 /\ Bump(Top, "with") = 0
    BY <1>1 DEF Bump
  <2>2. blockDepth \in Int /\ withCount \in Int
    BY TopFacts
  <2> QED  BY <2>1, <2>2
<1> QED  BY <1>1, <1>4, <1>5, <1>6, <1>7, PopStep

LEMMA CallsPreserves ==
    ASSUME Inv, Calls
    PROVE  Inv'
<1> USE DEF Codes
<1>0. /\ errors \in Seq(ErrorKinds) /\ breakCount \in 0..SizeMax /\ stmtCount \in Nat
      /\ code \in Codes \cup {"None"} /\ status \in Statuses
      /\ blockDepth \in Int /\ withCount \in Int
  BY TopFacts DEF Inv, ControlOK
<1>1. CASE CallStmt
  <2>1. StatementOK(Stmt, bundle) /\ Stmt.target \in Locals /\ stmtCount' \in Nat
    BY <1>1, StatementFacts DEF CallStmt, Executes
  <2>2. IsSeq(Stmt.args) /\ \A i \in DOMAIN Stmt.args : OperandOK(Stmt.args[i], bundle)
    BY <2>1 DEF StatementOK
  <2>3. StackOK(stack, bundle, Node) /\ CountersOK(stack, blockDepth, withCount, callStack)
    BY TopFacts DEF Inv
  <2> QED  BY <1>1, <2>1, <2>2, <2>3, DoCallStep DEF CallStmt
<1>2. CASE BindParam
  BY <1>2, BindParamPreserves
<1>3. CASE EnterFunction
  BY <1>3, EnterFunctionPreserves
<1>4. CASE CallNext
  BY <1>4, NextBlockStep DEF CallNext
<1>5. CASE CallNoBlocks
  <2>1. Alloc
    BY <1>5, SameMemory DEF CallNoBlocks
  <2>2. results' \in Seq(1..Len(heap') \cup {Null})
    BY <1>5, <2>1, AllocRemembers DEF CallNoBlocks
  <2> QED  BY <1>0, <1>5, <2>1, <2>2, StraightStep DEF CallNoBlocks
<1>6. CASE CallReturn
  BY <1>6, CallReturnPreserves
<1>7. CASE CallFail
  <2>1. /\ Top.kind = "call" /\ stack' = Below /\ callStack' = CallsBelow(Top, callStack)
        /\ code' \in Codes
        /\ UNCHANGED <<bundle, frame, heap, errors, results, cache, stmtCount,
                       withCount, breakCount, blockDepth, status>>
    BY <1>7 DEF CallFail, Running, PopFunction, CallsBelow, Return
  <2>2. Alloc
    BY <2>1, SameMemory
  <2>3. /\ blockDepth - Bump(Top, "block") = blockDepth
        /\ withCount - Bump(Top, "with") = withCount
    BY <1>0, <2>1 DEF Bump
  <2> QED  BY <1>0, <2>1, <2>2, <2>3, AllocRemembers, PopStep
<1>8. CASE DynamicCall
  <2>1. PICK i \in Prefixes(Stmt) :
          DoCall(Append(stack, [kind |-> "dynamic", target |-> Stmt.target,
                                path |-> SubSeq(Stmt.path, i + 1, Len(Stmt.path))]),
                 PrefixName(Stmt, i), Stmt.args, Stmt.target)
    BY <1>8 DEF DynamicCall
  <2> DEFINE a == [kind |-> "dynamic", target |-> Stmt.target,
                   path |-> SubSeq(Stmt.path, i + 1, Len(Stmt.path))]
  <2>2. StatementOK(Stmt, bundle) /\ Stmt.target \in Locals /\ stmtCount' \in Nat
    BY <1>8, StatementFacts DEF DynamicCall, Executes
  <2>3. IsSeq(Stmt.args) /\ \A j \in DOMAIN Stmt.args : OperandOK(Stmt.args[j], bundle)
    BY <2>2 DEF StatementOK
  <2>4. Activation(a, bundle, Node) /\ a.kind = "dynamic"
    BY <2>2 DEF Activation, Locals
  <2>5. DoCall(Append(stack, a), PrefixName(Stmt, i), Stmt.args, Stmt.target)
    BY <2>1
  <2> HIDE DEF a
  <2>6. StackOK(Append(stack, a), bundle, Node)
    BY <2>4, PushStackOK DEF Inv
  <2>7. CountersOK(Append(stack, a), blockDepth, withCount, callStack)
    <3>1. CountersOK(Append(stack, a), blockDepth + Bump(a, "block"),
                     withCount + Bump(a, "with"), callStack)
      BY <1>0, <2>4, TopFacts, CountersPush
    <3>2. /\ blockDepth + Bump(a, "block") = blockDepth
          /\ withCount + Bump(a, "with") = withCount
      BY <1>0, <2>4 DEF Bump
    <3> QED  BY <3>1, <3>2
  <2> QED  BY <2>2, <2>3, <2>5, <2>6, <2>7, DoCallStep
<1>9. CASE DynamicDone
  <2>1. /\ Top.kind = "dynamic" /\ stack' = Below /\ code' \in Codes
        /\ \/ UNCHANGED <<frame, heap>>
           \/ \E n, steps, v : WriteItem(Top.target, n, steps, v)
        /\ UNCHANGED <<bundle, errors, results, cache, stmtCount, counters, status>>
    BY <1>0, <1>9 DEF DynamicDone, Running, Return
  <2>2. Top.target \in Locals
    BY <2>1, TopFacts DEF Activation, Locals
  <2>3. Alloc
    BY <2>1, <2>2, SameMemory, WriteItemAllocs
  <2>4. /\ blockDepth - Bump(Top, "block") = blockDepth
        /\ withCount - Bump(Top, "with") = withCount
        /\ CallsBelow(Top, callStack) = callStack
    BY <1>0, <2>1 DEF Bump, CallsBelow
  <2> QED  BY <1>0, <2>1, <2>3, <2>4, AllocRemembers, PopStep DEF counters
<1> QED  BY <1>1, <1>2, <1>3, <1>4, <1>5, <1>6, <1>7, <1>8, <1>9 DEF Calls

LEMMA StutterPreserves ==
    ASSUME Inv, UNCHANGED vars
    PROVE  Inv'
<1>1. UNCHANGED <<bundle, frame, heap, errors, results, cache, counters, stack, code>>
      /\ status' \in Statuses /\ stmtCount' \in Nat
  BY DEF Inv, ControlOK, vars
<1> QED  BY <1>1, StopStep

LEMMA InitInv ==
    ASSUME Init
    PROVE  Inv
<1> DEFINE a == [kind |-> "plan", blocks |-> bundle.plan, next |-> 1]
<1>1. Verified(bundle) /\ SizeMax \in Nat
  BY BundlesVerified, LimitsAssumption DEF Init
<1>2. stack = <<a>> /\ Len(stack) = 1 /\ stack \in Seq({a}) /\ stack[1] = a
  BY DEF Init
<1>3. Activation(a, bundle, Node) /\ a.kind = "plan"
  BY <1>1 DEF Activation, Verified
<1>4. IsSeq(stack) /\ DOMAIN stack = 1..1
  BY <1>2, SeqIsSeq
<1>5. StackOK(stack, bundle, Node)
  <2> HIDE DEF a
  <2> QED  BY <1>2, <1>3, <1>4 DEF StackOK
<1>6. MemoryOK
  <2>1. PICK input \in Inputs :
          /\ heap = <<NewNode(1, input), NewNode(2, bundle.data)>>
          /\ frame = [l \in Locals |-> IF l = 0 /\ input # Undef THEN 1
                                       ELSE IF l = 1 THEN 2 ELSE Null]
    BY DEF Init
  <2>2. IsSeq(heap) /\ Len(heap) = 2
    <3>1. heap \in Seq({NewNode(1, input), NewNode(2, bundle.data)}) /\ Len(heap) = 2
      BY <2>1
    <3> QED  BY <3>1, SeqIsSeq
  <2>3. 1 \in Node /\ 2 \in Node
    BY <2>2 DEF Node
  <2>4. frame \in [Locals -> Node \cup {Null}]
    BY <2>1, <2>3
  <2>5. cache \in [Functions -> Node \cup {Null, NoEntry}] /\ results \in Seq(Node \cup {Null})
    BY EmptySeq DEF Init
  <2> QED  BY <2>2, <2>4, <2>5 DEF MemoryOK
<1>7. ControlOK
  BY <1>1, EmptySeq DEF Init, ControlOK, Statuses
<1>8. CountersMatchStack
  <2> HIDE DEF a
  <2>1. ASSUME NEW kind \in {"block", "with", "call"}
        PROVE  Count(stack, kind, 1) = 0
    <3>1. {i \in 1..1 : stack[i].kind = kind} = {}
      BY <1>2, <1>3
    <3> QED  BY <3>1, FS_EmptySet DEF Count
  <2>2. callStack = <<>> /\ Len(callStack) = 0 /\ blockDepth = 0 /\ withCount = 0
    BY DEF Init
  <2> QED  BY <1>2, <1>3, <1>4, <2>1, <2>2 DEF CountersMatchStack, CountersOK
<1> QED  BY <1>5, <1>6, <1>7, <1>8 DEF Inv, Init

LEMMA StepInv ==
    ASSUME Inv, [Next]_vars
    PROVE  Inv'
BY StraightPreserves, BlocksPreserves, CallsPreserves, StutterPreserves DEF Next

\* The inductive invariant: a bundle that verify accepted, a typed state, and
\* counters that agree with the stack.
THEOREM Invariance == Spec => []Inv
<1>1. Init => Inv
  BY InitInv
<1>2. Inv /\ [Next]_vars => Inv'
  BY StepInv
<1> QED  BY <1>1, <1>2, PTL DEF Spec

\* The machine never leaves its types, whatever (verified) bundle it runs: no
\* local, cache entry or result refers to a node that does not exist, and no
\* statement reads a local or a block outside the bundle.
THEOREM TypeCorrect == Spec => []TypeOK
<1>1. Inv => TypeOK
  BY InvImplies
<1> QED  BY <1>1, Invariance, PTL

\* m_block_depth, m_with_count and m_call_stack agree with the C++ stack on
\* every path out of run_block, run_with and run_call.
THEOREM CountersCorrect == Spec => []CountersMatchStack
<1>1. Inv => CountersMatchStack
  BY DEF Inv
<1> QED  BY <1>1, Invariance, PTL

(***************************************************************************)
(* The depth of blocks.                                                    *)
(***************************************************************************)
DepthOK == blockDepth <= MaxBlockDepth

LEMMA EnterBlockDepth ==
    ASSUME Inv, DepthOK, NEW base, NEW b, EnterBlock(base, b)
    PROVE  DepthOK'
<1>1. blockDepth \in Nat /\ MaxBlockDepth \in Nat
  BY TopFacts, LimitsAssumption
<1> QED  BY <1>1 DEF DepthOK, EnterBlock, BlocksTooDeep

LEMMA DepthPreserved ==
    ASSUME Inv, DepthOK, [Next]_vars
    PROVE  DepthOK'
<1>0. blockDepth \in Nat /\ MaxBlockDepth \in Nat
  BY TopFacts, LimitsAssumption
<1>1. CASE \E base, b : EnterBlock(base, b)
  BY <1>1, EnterBlockDepth
<1>2. CASE blockDepth' = blockDepth - 1 \/ blockDepth' = blockDepth
  BY <1>0, <1>2 DEF DepthOK
<1>3. CASE Straight
  <2>1. blockDepth' = blockDepth
    BY <1>3 DEF Straight, Make, MeasureLen, Tests, Test, ResetLocal, AssignVar,
        AssignVarOnce, ObjectInsert, ObjectMerge, Add, FillMalformed, DotStmt, ResultSetAdd,
        ReturnLocal, BreakStmt, DynamicUndefined, Timeout, RawOperand, Throw,
        Completes, counters
  <2> QED  BY <1>2, <2>1
<1>4. CASE Blocks
  <2>1. \/ \E base, b : EnterBlock(base, b)
        \/ blockDepth' = blockDepth - 1 \/ blockDepth' = blockDepth
    <3>1. CASE PlanNext \/ NestNext
      BY <3>1 DEF PlanNext, NestNext, NextBlock
    <3>2. CASE ScanNext \/ NotStmt \/ WithStmt
      BY <3>2 DEF ScanNext, NotStmt, WithStmt
    <3>3. CASE \/ PlanDone \/ NestDone \/ BlockAdvance \/ BlockEnd \/ BlockExit
               \/ BlockBreak \/ BlockStmt \/ NotDone \/ WithCrash \/ WithDone
               \/ ScanStmt \/ ScanThrow \/ ScanDone
      BY <3>3 DEF PlanDone, NestDone, BlockAdvance, BlockEnd, BlockExit, BlockBreak,
          BlockStmt, NotDone, WithCrash, WithDone, ScanStmt, ScanThrow, ScanDone,
          Throw, Completes, counters
    <3> QED  BY <1>4, <3>1, <3>2, <3>3 DEF Blocks
  <2> QED  BY <1>1, <1>2, <2>1
<1>5. CASE Calls
  <2>1. \/ \E base, b : EnterBlock(base, b)
        \/ blockDepth' = blockDepth
    <3>1. CASE CallNext
      BY <3>1 DEF CallNext, NextBlock
    <3>2. CASE CallStmt \/ DynamicCall
      BY <3>2 DEF CallStmt, DynamicCall, DoCall, Throw, counters
    <3>3. CASE \/ BindParam \/ EnterFunction \/ CallNoBlocks \/ CallReturn
               \/ CallFail \/ DynamicDone
      BY <3>3 DEF BindParam, EnterFunction, CallNoBlocks, CallReturn, CallFail,
          DynamicDone, Throw, counters
    <3> QED  BY <1>5, <3>1, <3>2, <3>3 DEF Calls
  <2> QED  BY <1>1, <1>2, <2>1
<1>6. CASE UNCHANGED vars
  <2>1. blockDepth' = blockDepth
    BY <1>6 DEF vars, counters
  <2> QED  BY <1>2, <2>1
<1> QED  BY <1>3, <1>4, <1>5, <1>6 DEF Next

-----------------------------------------------------------------------------
(***************************************************************************)
(* The depth of calls.  A call that is binding its parameters is on top of *)
(* the stack, and its function is not active yet: run_call looked at the   *)
(* call stack before it started to bind, and nothing else runs meanwhile.  *)
(***************************************************************************)
CallsOK ==
    /\ Len(callStack) <= MaxCallDepth
    /\ \A i, j \in DOMAIN callStack :
          callStack[i].name = callStack[j].name => i = j
BindFresh ==
    \A i \in DOMAIN stack : stack[i].kind = "bind" =>
        i = Len(stack) /\ ~OnCallStack(stack[i].func)
NoBind(s) == \A i \in DOMAIN s : s[i].kind # "bind"

LEMMA NoBindPush ==
    ASSUME NEW s, IsSeq(s), NoBind(s), NEW a, a.kind # "bind"
    PROVE  IsSeq(Append(s, a)) /\ NoBind(Append(s, a))
<1> DEFINE t == Append(s, a)
<1>1. /\ IsSeq(t) /\ Len(s) \in Nat /\ DOMAIN s = 1..Len(s)
      /\ DOMAIN t = 1..(Len(s) + 1)
      /\ \A i \in 1..Len(s) : t[i] = s[i]
      /\ t[Len(s) + 1] = a
  BY PushIsSeq, IsSeqDomain
<1> HIDE DEF t
<1>2. NoBind(t)
  BY <1>1 DEF NoBind
<1> QED  BY <1>1, <1>2 DEF t

LEMMA NoBindEnter ==
    ASSUME NEW base, IsSeq(base), NoBind(base), NEW b, EnterBlock(base, b)
    PROVE  NoBind(stack')
<1>1. CASE stack' = base
  BY <1>1
<1>2. CASE stack' = Append(base, [kind |-> "block", block |-> b, pc |-> 1])
  <2> DEFINE a == [kind |-> "block", block |-> b, pc |-> 1]
  <2>1. a.kind # "bind" /\ stack' = Append(base, a)
    BY <1>2
  <2> HIDE DEF a
  <2> QED  BY <2>1, NoBindPush
<1> QED  BY <1>1, <1>2 DEF EnterBlock

LEMMA NoBindBelow ==
    ASSUME Inv, BindFresh
    PROVE  /\ IsSeq(Below) /\ NoBind(Below)
           /\ Top.kind # "bind" => NoBind(stack)
<1>1. /\ IsSeq(stack) /\ Len(stack) \in Nat /\ Len(stack) > 0
      /\ DOMAIN stack = 1..Len(stack) /\ Top = stack[Len(stack)]
  BY TopFacts, IsSeqDomain
<1>2. /\ IsSeq(Below) /\ Len(Below) = Len(stack) - 1 /\ DOMAIN Below = 1..(Len(stack) - 1)
      /\ \A i \in 1..(Len(stack) - 1) : Below[i] = stack[i]
  BY <1>1, PopIsSeq, IsSeqDomain DEF Below
<1> QED  BY <1>1, <1>2 DEF BindFresh, NoBind

\* The blocks of a plan, of a Block statement or of a function.
LEMMA NextBlockNoBind ==
    ASSUME Inv, BindFresh, NEW kind \in {"plan", "nest", "call"}, NEW codes,
           NextBlock(kind, codes)
    PROVE  NoBind(stack') /\ UNCHANGED callStack
<1> DEFINE a == [Top EXCEPT !.next = @ + 1]
<1>1. /\ Top.kind = kind /\ EnterBlock(Append(Below, a), Top.blocks[Top.next])
      /\ UNCHANGED callStack
  BY DEF NextBlock, Running
<1>2. a.kind = kind
  <2>1. CASE kind \in {"plan", "nest"}
    BY <1>1, <2>1, TopFacts DEF Activation
  <2>2. CASE kind = "call"
    BY <1>1, <2>2, TopFacts DEF Activation
  <2> QED  BY <2>1, <2>2
<1> HIDE DEF a
<1>3. IsSeq(Append(Below, a)) /\ NoBind(Append(Below, a))
  BY <1>2, NoBindBelow, NoBindPush
<1> QED  BY <1>1, <1>3, NoBindEnter

LEMMA BlocksNoBind ==
    ASSUME Inv, BindFresh, Blocks
    PROVE  UNCHANGED callStack /\ (NoBind(stack') \/ stack' = stack)
<1>1. CASE PlanNext \/ NestNext
  BY <1>1, NextBlockNoBind DEF PlanNext, NestNext
<1>2. CASE PlanDone \/ WithCrash \/ ScanThrow
  BY <1>2 DEF PlanDone, WithCrash, ScanThrow, Throw, counters
<1>3. CASE NestDone \/ BlockEnd \/ BlockExit \/ BlockBreak \/ NotDone \/ WithDone \/ ScanDone
  <2>1. stack' = Below /\ UNCHANGED callStack
    BY <1>3 DEF NestDone, BlockEnd, BlockExit, BlockBreak, NotDone, WithDone, ScanDone,
        Return, counters
  <2> QED  BY <2>1, NoBindBelow
<1>4. CASE BlockAdvance
  <2> DEFINE a == [Top EXCEPT !.pc = @ + 1]
  <2>1. Top.kind = "block" /\ stack' = Append(Below, a) /\ UNCHANGED callStack
    BY <1>4 DEF BlockAdvance, Running, counters
  <2>2. a.kind = "block"
    BY <2>1, TopFacts DEF Activation
  <2> HIDE DEF a
  <2> QED  BY <2>1, <2>2, NoBindBelow, NoBindPush
<1>5. CASE BlockStmt \/ NotStmt \/ WithStmt \/ ScanStmt
  <2>1. Top.kind = "block" /\ NoBind(stack) /\ IsSeq(stack)
    BY <1>5, NoBindBelow, TopFacts DEF BlockStmt, NotStmt, WithStmt, ScanStmt, Executes,
        AtStatement, Running
  <2>2. UNCHANGED callStack
    BY <1>5 DEF BlockStmt, NotStmt, WithStmt, ScanStmt, Completes, counters
  <2>3. CASE BlockStmt
    <3> DEFINE a == [kind |-> "nest", blocks |-> Stmt.blocks, next |-> 1]
    <3>1. stack' = Append(stack, a) /\ a.kind # "bind"
      BY <2>3 DEF BlockStmt
    <3> HIDE DEF a
    <3> QED  BY <2>1, <2>2, <3>1, NoBindPush
  <2>4. CASE NotStmt
    <3> DEFINE a == [kind |-> "not"]
    <3>1. EnterBlock(Append(stack, a), Stmt.blocks[1]) /\ a.kind # "bind"
      BY <2>4 DEF NotStmt
    <3> HIDE DEF a
    <3>2. IsSeq(Append(stack, a)) /\ NoBind(Append(stack, a))
      BY <2>1, <3>1, NoBindPush
    <3> QED  BY <2>2, <3>1, <3>2, NoBindEnter
  <2>5. CASE WithStmt
    <3> DEFINE a == [kind |-> "with", target |-> Stmt.target, old |-> frame[Stmt.target]]
    <3>1. EnterBlock(Append(stack, a), Stmt.blocks[1]) /\ a.kind # "bind"
      BY <2>5 DEF WithStmt
    <3> HIDE DEF a
    <3>2. IsSeq(Append(stack, a)) /\ NoBind(Append(stack, a))
      BY <2>1, <3>1, NoBindPush
    <3> QED  BY <2>2, <3>1, <3>2, NoBindEnter
  <2>6. CASE ScanStmt
    <3> DEFINE a == [kind |-> "scan", source |-> frame[Stmt.target], seen |-> {},
                     key |-> Stmt.op0[2], value |-> Stmt.op1[2],
                     block |-> Stmt.blocks[1]]
    <3>1. (stack' = stack \/ stack' = Append(stack, a)) /\ a.kind # "bind"
      BY <2>6 DEF ScanStmt, Completes
    <3> HIDE DEF a
    <3> QED  BY <2>1, <2>2, <3>1, NoBindPush
  <2> QED  BY <1>5, <2>3, <2>4, <2>5, <2>6
<1>6. CASE ScanNext
  <2>1. PICK k \in ScanKeys :
           EnterBlock(Append(Below, [Top EXCEPT !.seen = @ \cup {k}]), Top.block)
    BY <1>6 DEF ScanNext
  <2> DEFINE a == [Top EXCEPT !.seen = @ \cup {k}]
  <2>2. Top.kind = "scan" /\ UNCHANGED callStack
    BY <1>6 DEF ScanNext, Running
  <2>3. a.kind = "scan"
    <3>1. Top = [kind |-> "scan", source |-> Top.source, seen |-> Top.seen,
                 key |-> Top.key, value |-> Top.value, block |-> Top.block]
      BY <2>2, TopFacts DEF Activation
    <3> QED  BY <2>2, <3>1
  <2>4. EnterBlock(Append(Below, a), Top.block)
    BY <2>1
  <2> HIDE DEF a
  <2>5. IsSeq(Append(Below, a)) /\ NoBind(Append(Below, a))
    BY <2>3, NoBindBelow, NoBindPush
  <2> QED  BY <2>2, <2>4, <2>5, NoBindEnter
<1> QED  BY <1>1, <1>2, <1>3, <1>4, <1>5, <1>6 DEF Blocks

LEMMA FreshNoBind ==
    ASSUME NoBind(stack')
    PROVE  BindFresh'
BY DEF NoBind, BindFresh

LEMMA FreshSame ==
    ASSUME BindFresh, stack' = stack, callStack' = callStack
    PROVE  BindFresh'
BY DEF BindFresh, OnCallStack

LEMMA FreshBind ==
    ASSUME NEW base, IsSeq(base), NoBind(base), NEW a, ~OnCallStack(a.func),
           stack' = Append(base, a), callStack' = callStack
    PROVE  BindFresh'
<1>1. /\ Len(base) \in Nat /\ DOMAIN base = 1..Len(base)
      /\ DOMAIN stack' = 1..(Len(base) + 1) /\ Len(stack') = Len(base) + 1
      /\ \A i \in 1..Len(base) : stack'[i] = base[i]
      /\ stack'[Len(base) + 1] = a
  <2>1. /\ IsSeq(stack') /\ Len(stack') = Len(base) + 1
        /\ \A i \in 1..Len(base) : stack'[i] = base[i]
        /\ stack'[Len(base) + 1] = a
    BY PushIsSeq
  <2>2. /\ Len(base) \in Nat /\ DOMAIN base = 1..Len(base)
        /\ DOMAIN stack' = 1..Len(stack')
    BY <2>1, IsSeqDomain
  <2> QED  BY <2>1, <2>2
<1> QED  BY <1>1 DEF BindFresh, NoBind, OnCallStack

LEMMA DoCallFresh ==
    ASSUME Inv, BindFresh, NEW base, IsSeq(base), NoBind(base),
           NEW f, NEW args, NEW target, DoCall(base, f, args, target)
    PROVE  BindFresh' /\ UNCHANGED callStack
<1> DEFINE a == [kind |-> "bind", func |-> f, args |-> args, next |-> 3,
                 target |-> target]
<1>1. /\ UNCHANGED callStack
      /\ \/ stack' = stack \/ stack' = base
         \/ ~OnCallStack(f) /\ stack' = Append(base, a)
  BY DEF DoCall, Throw, counters
<1>2. a.func = f
  OBVIOUS
<1> HIDE DEF a
<1> QED  BY <1>1, <1>2, FreshSame, FreshNoBind, FreshBind

LEMMA TopBindFresh ==
    ASSUME Inv, BindFresh, Top.kind = "bind"
    PROVE  ~OnCallStack(Top.func)
BY TopFacts, IsSeqDomain DEF BindFresh

LEMMA EnterFunctionCalls ==
    ASSUME Inv, CallsOK, BindFresh, EnterFunction
    PROVE  CallsOK' /\ BindFresh'
<1>1. Top.kind = "bind" /\ ~OnCallStack(Top.func)
  BY TopBindFresh DEF EnterFunction, Running
<1>2. CASE stack' = Below /\ callStack' = callStack
  BY <1>2, NoBindBelow, FreshNoBind DEF CallsOK
<1>3. CASE /\ Len(callStack) < MaxCallDepth
           /\ callStack' = Append(callStack,
                  [name |-> Top.func, arity |-> bundle.functions[Top.func].arity])
           /\ stack' = Append(Below, [kind |-> "call", func |-> Top.func,
                  blocks |-> bundle.functions[Top.func].blocks, next |-> 1,
                  target |-> Top.target])
  <2> DEFINE x == [name |-> Top.func, arity |-> bundle.functions[Top.func].arity]
             a == [kind |-> "call", func |-> Top.func,
                   blocks |-> bundle.functions[Top.func].blocks, next |-> 1,
                   target |-> Top.target]
  <2>1. x.name = Top.func /\ a.kind = "call" /\ callStack' = Append(callStack, x)
        /\ stack' = Append(Below, a)
    BY <1>3
  <2> HIDE DEF x, a
  <2>2. BindFresh'
    BY <2>1, NoBindBelow, NoBindPush, FreshNoBind
  <2>3. /\ IsSeq(callStack') /\ Len(callStack') = Len(callStack) + 1
        /\ \A i \in 1..Len(callStack) : callStack'[i] = callStack[i]
        /\ callStack'[Len(callStack) + 1] = x
    BY <2>1, TopFacts, PushIsSeq
  <2>4. /\ Len(callStack) \in Nat /\ DOMAIN callStack = 1..Len(callStack)
        /\ DOMAIN callStack' = 1..(Len(callStack) + 1)
    BY <2>3, TopFacts, IsSeqDomain
  <2>5. \A i \in 1..Len(callStack) : callStack[i].name # x.name
    BY <1>1, <2>1, <2>4 DEF OnCallStack
  <2>6. Len(callStack') <= MaxCallDepth
    BY <1>3, <2>3, <2>4, LimitsAssumption
  <2>7. ASSUME NEW i \in DOMAIN callStack', NEW j \in DOMAIN callStack',
               callStack'[i].name = callStack'[j].name
        PROVE  i = j
    <3>1. CASE i \in 1..Len(callStack) /\ j \in 1..Len(callStack)
      BY <2>3, <2>4, <2>7, <3>1 DEF CallsOK
    <3>2. CASE i = Len(callStack) + 1 \/ j = Len(callStack) + 1
      BY <2>3, <2>4, <2>5, <2>7, <3>2
    <3> QED  BY <2>4, <3>1, <3>2
  <2> QED  BY <2>2, <2>6, <2>7 DEF CallsOK
<1> QED  BY <1>2, <1>3 DEF EnterFunction, Return

LEMMA PopFunctionCalls ==
    ASSUME Inv, CallsOK, Top.kind = "call", PopFunction
    PROVE  CallsOK'
<1>1. IsSeq(callStack) /\ Len(callStack) > 0 /\ Len(callStack) \in Nat
      /\ DOMAIN callStack = 1..Len(callStack)
  <2>1. blockDepth \in Int /\ withCount \in Int
    BY TopFacts
  <2> QED  BY <2>1, TopFacts, CountersPop, IsSeqDomain
<1>2. /\ IsSeq(callStack') /\ Len(callStack') = Len(callStack) - 1
      /\ \A i \in 1..(Len(callStack) - 1) : callStack'[i] = callStack[i]
  BY <1>1, PopIsSeq DEF PopFunction
<1>3. DOMAIN callStack' = 1..(Len(callStack) - 1)
  BY <1>2, IsSeqDomain
<1> QED  BY <1>1, <1>2, <1>3, LimitsAssumption DEF CallsOK

LEMMA CallsPreserved ==
    ASSUME Inv, CallsOK, BindFresh, [Next]_vars
    PROVE  CallsOK' /\ BindFresh'
<1>0. UNCHANGED callStack => CallsOK'
  BY DEF CallsOK
<1>1. CASE Straight
  <2>1. UNCHANGED <<stack, callStack>>
    BY <1>1 DEF Straight, Make, MeasureLen, Tests, Test, ResetLocal, AssignVar,
        AssignVarOnce, ObjectInsert, ObjectMerge, Add, FillMalformed, DotStmt, ResultSetAdd,
        ReturnLocal, BreakStmt, DynamicUndefined, Timeout, RawOperand, Throw,
        Completes, counters
  <2> QED  BY <1>0, <2>1, FreshSame
<1>2. CASE Blocks
  BY <1>0, <1>2, BlocksNoBind, FreshNoBind, FreshSame
<1>3. CASE CallStmt
  <2>1. NoBind(stack) /\ IsSeq(stack)
    BY <1>3, TopFacts, NoBindBelow DEF CallStmt, Executes, AtStatement, Running
  <2>2. DoCall(stack, Stmt.func, Stmt.args, Stmt.target)
    BY <1>3 DEF CallStmt
  <2> QED  BY <1>0, <2>1, <2>2, DoCallFresh
<1>4. CASE BindParam
  <2> DEFINE a == [Top EXCEPT !.next = @ + 1]
  <2>1. /\ Top.kind = "bind" /\ UNCHANGED callStack
        /\ stack' = stack \/ stack' = Append(Below, a)
    BY <1>4 DEF BindParam, Running, Throw, counters
  <2>2. a.func = Top.func
    <3>1. Top = [kind |-> "bind", func |-> Top.func, args |-> Top.args,
                 next |-> Top.next, target |-> Top.target]
      BY <2>1, TopFacts DEF Activation
    <3> QED  BY <3>1
  <2> HIDE DEF a
  <2>3. ~OnCallStack(a.func)
    BY <2>1, <2>2, TopBindFresh
  <2> QED  BY <1>0, <2>1, <2>3, NoBindBelow, FreshSame, FreshBind
<1>5. CASE EnterFunction
  BY <1>5, EnterFunctionCalls
<1>6. CASE CallNext
  BY <1>0, <1>6, NextBlockNoBind, FreshNoBind DEF CallNext
<1>7. CASE CallNoBlocks
  BY <1>0, <1>7, FreshSame DEF CallNoBlocks, counters
<1>8. CASE CallReturn \/ CallFail
  <2>1. Top.kind = "call" /\ PopFunction /\ stack' = Below
    BY <1>8 DEF CallReturn, CallFail, Running, Return
  <2> QED  BY <2>1, PopFunctionCalls, NoBindBelow, FreshNoBind
<1>9. CASE DynamicCall
  <2>1. PICK i \in Prefixes(Stmt) :
          DoCall(Append(stack, [kind |-> "dynamic", target |-> Stmt.target,
                                path |-> SubSeq(Stmt.path, i + 1, Len(Stmt.path))]),
                 PrefixName(Stmt, i), Stmt.args, Stmt.target)
    BY <1>9 DEF DynamicCall
  <2> DEFINE a == [kind |-> "dynamic", target |-> Stmt.target,
                   path |-> SubSeq(Stmt.path, i + 1, Len(Stmt.path))]
  <2>2. a.kind # "bind" /\ DoCall(Append(stack, a), PrefixName(Stmt, i), Stmt.args,
                                 Stmt.target)
    BY <2>1
  <2> HIDE DEF a
  <2>3. NoBind(stack) /\ IsSeq(stack)
    BY <1>9, TopFacts, NoBindBelow DEF DynamicCall, Executes, AtStatement, Running
  <2>4. IsSeq(Append(stack, a)) /\ NoBind(Append(stack, a))
    BY <2>2, <2>3, NoBindPush
  <2> QED  BY <1>0, <2>2, <2>4, DoCallFresh
<1>10. CASE DynamicDone
  <2>1. stack' = Below /\ UNCHANGED callStack
    BY <1>10 DEF DynamicDone, Return, counters
  <2> QED  BY <1>0, <2>1, NoBindBelow, FreshNoBind
<1>11. CASE UNCHANGED vars
  BY <1>0, <1>11, FreshSame DEF vars, counters
<1> QED  BY <1>1, <1>2, <1>3, <1>4, <1>5, <1>6, <1>7, <1>8, <1>9, <1>10, <1>11
         DEF Next, Calls

LEMMA LimitsInit ==
    ASSUME Init
    PROVE  DepthOK /\ CallsOK /\ BindFresh
<1>1. /\ DepthOK /\ callStack = <<>> /\ Len(callStack) = 0 /\ DOMAIN callStack = {}
  BY LimitsAssumption DEF Init, DepthOK
<1>2. stack = << [kind |-> "plan", blocks |-> bundle.plan, next |-> 1] >>
  BY DEF Init
<1>3. BindFresh
  BY <1>2 DEF BindFresh
<1> QED  BY <1>1, <1>3, LimitsAssumption DEF CallsOK

LimitsInv == Inv /\ DepthOK /\ CallsOK /\ BindFresh

LEMMA StepLimits ==
    ASSUME LimitsInv, [Next]_vars
    PROVE  LimitsInv'
BY StepInv, DepthPreserved, CallsPreserved DEF LimitsInv

\* The depth limits bound the C++ stack and no function is active twice, so no
\* activation overwrites the locals of an earlier one of the same function.
THEOREM LimitsCorrect == Spec => []LimitsRespected
<1>1. Init => LimitsInv
  BY InitInv, LimitsInit DEF LimitsInv
<1>2. LimitsInv /\ [Next]_vars => LimitsInv'
  BY StepLimits
<1>3. LimitsInv => LimitsRespected
  BY DEF LimitsInv, DepthOK, CallsOK, LimitsRespected
<1> QED  BY <1>1, <1>2, <1>3, PTL DEF Spec

-----------------------------------------------------------------------------
(***************************************************************************)
(* The statement limit.  From the statement that reaches it on, no Return  *)
(* travels up the stack, no call is about to start, and a block (or the    *)
(* plan, when the limit is 0) is what runs next.                           *)
(***************************************************************************)
Stopping ==
    stmtCount >= StmtLimit => /\ code # "Return"
                              /\ Top.kind # "bind"
                              /\ code = "None" => Top.kind \in {"block", "plan"}

LEMMA TopAfterPush ==
    ASSUME NEW s, IsSeq(s), NEW a, stack' = Append(s, a)
    PROVE  Top' = a
BY PushIsSeq DEF Top

LEMMA TopAfterPop ==
    ASSUME Inv, BindFresh, Top.kind # "plan", stack' = Below
    PROVE  Top'.kind # "bind"
<1>1. IsSeq(stack) /\ Len(stack) \in Nat /\ Len(stack) > 1
  BY TopFacts
<1>2. Len(Below) = Len(stack) - 1 /\ DOMAIN Below = 1..(Len(stack) - 1)
  BY <1>1, NoBindBelow, PopIsSeq, IsSeqDomain DEF Below
<1>3. Len(Below) \in DOMAIN Below
  BY <1>1, <1>2
<1> QED  BY <1>3, NoBindBelow DEF NoBind, Top

LEMMA EnterBlockStopping ==
    ASSUME NEW base, IsSeq(base), NEW a, NEW b, a.kind # "bind",
           EnterBlock(Append(base, a), b)
    PROVE  Stopping'
<1>1. IsSeq(Append(base, a))
  BY PushIsSeq
<1>2. CASE stack' = Append(base, a) /\ code' = "Error"
  BY <1>2, TopAfterPush DEF Stopping
<1>3. CASE /\ stack' = Append(Append(base, a), [kind |-> "block", block |-> b, pc |-> 1])
           /\ code' = "None"
  <2> DEFINE x == [kind |-> "block", block |-> b, pc |-> 1]
  <2>1. x.kind = "block" /\ stack' = Append(Append(base, a), x)
    BY <1>3
  <2> HIDE DEF x
  <2>2. Top' = x
    BY <1>1, <2>1, TopAfterPush
  <2> QED  BY <1>3, <2>1, <2>2 DEF Stopping
<1> QED  BY <1>2, <1>3 DEF EnterBlock

LEMMA NextBlockStopping ==
    ASSUME Inv, BindFresh, NEW kind \in {"plan", "nest", "call"}, NEW codes,
           NextBlock(kind, codes)
    PROVE  Stopping'
<1> DEFINE a == [Top EXCEPT !.next = @ + 1]
<1>1. Top.kind = kind /\ EnterBlock(Append(Below, a), Top.blocks[Top.next])
  BY DEF NextBlock, Running
<1>2. a.kind = kind
  <2>1. CASE kind \in {"plan", "nest"}
    BY <1>1, <2>1, TopFacts DEF Activation
  <2>2. CASE kind = "call"
    BY <1>1, <2>2, TopFacts DEF Activation
  <2> QED  BY <2>1, <2>2
<1> HIDE DEF a
<1> QED  BY <1>1, <1>2, NoBindBelow, EnterBlockStopping

\* What can still happen once the limit is reached.
Winding == \/ PlanNext \/ PlanDone \/ NestNext \/ NestDone
           \/ BlockAdvance \/ BlockEnd \/ BlockExit \/ BlockBreak
           \/ NotDone \/ WithDone \/ ScanNext \/ ScanDone
           \/ CallNext \/ CallFail \/ DynamicDone

LEMMA AtLimit ==
    ASSUME Inv, Stopping, [Next]_vars
    PROVE  \/ Timeout
           \/ stmtCount' < StmtLimit
           \/ Winding /\ stmtCount' = stmtCount
           \/ UNCHANGED vars
<1>0. stmtCount \in Nat /\ StmtLimit \in Nat
  BY LimitsAssumption DEF Inv, ControlOK
<1>1. ASSUME NEW types, Executes(types)
      PROVE  stmtCount' < StmtLimit
  BY <1>0, <1>1 DEF Executes, LimitReached
<1>2. CASE Straight
  <2>1. CASE RawOperand
    BY <1>0, <2>1 DEF RawOperand, LimitReached
  <2>2. CASE Tests
    BY <1>1, <2>2 DEF Tests, Test
  <2>3. CASE Straight /\ ~RawOperand /\ ~Tests /\ ~Timeout
    <3>1. \E types : Executes(types)
      BY <2>3 DEF Straight, Make, MeasureLen, ResetLocal, AssignVar, AssignVarOnce,
          ObjectInsert, ObjectMerge, Add, FillMalformed, DotStmt, ResultSetAdd, ReturnLocal, BreakStmt,
          DynamicUndefined
    <3> QED  BY <1>1, <3>1
  <2> QED  BY <1>2, <2>1, <2>2, <2>3
<1>3. CASE Blocks
  <2>1. CASE BlockStmt \/ NotStmt \/ WithStmt \/ WithCrash \/ ScanStmt \/ ScanThrow
    BY <1>1, <2>1 DEF BlockStmt, NotStmt, WithStmt, WithCrash, ScanStmt, ScanThrow
  <2>2. CASE Winding
    BY <2>2 DEF Winding, PlanNext, PlanDone, NestNext, NestDone, BlockAdvance, BlockEnd,
        BlockExit, BlockBreak, NotDone, WithDone, ScanNext, ScanDone, CallNext, CallFail,
        DynamicDone, NextBlock
  <2> QED  BY <1>3, <2>1, <2>2 DEF Blocks, Winding
<1>4. CASE Calls
  <2>1. CASE CallStmt \/ DynamicCall
    BY <1>1, <2>1 DEF CallStmt, DynamicCall
  <2>2. CASE BindParam \/ EnterFunction
    BY <1>0, <2>2 DEF BindParam, EnterFunction, Running, Stopping
  <2>3. CASE CallNoBlocks
    BY <1>0, <2>3 DEF CallNoBlocks, Running, Stopping
  <2>4. CASE CallReturn
    <3>1. code = "Return" /\ stmtCount' = stmtCount
      BY <2>4 DEF CallReturn
    <3> QED  BY <1>0, <3>1 DEF Stopping
  <2>5. CASE CallNext \/ CallFail \/ DynamicDone
    BY <2>5 DEF Winding, CallNext, CallFail, DynamicDone, NextBlock
  <2> QED  BY <1>4, <2>1, <2>2, <2>3, <2>4, <2>5 DEF Calls
<1> QED  BY <1>2, <1>3, <1>4 DEF Next

LEMMA StepCounts ==
    ASSUME Inv, [Next]_vars
    PROVE  stmtCount' = stmtCount \/ stmtCount' = stmtCount + 1
<1>1. CASE Straight
  BY <1>1 DEF Straight, Make, MeasureLen, Tests, Test, ResetLocal, AssignVar,
      AssignVarOnce, ObjectInsert, ObjectMerge, Add, FillMalformed, DotStmt, ResultSetAdd, ReturnLocal,
      BreakStmt, DynamicUndefined, Timeout, RawOperand, Executes
<1>2. CASE Blocks
  BY <1>2 DEF Blocks, PlanNext, PlanDone, NestNext, NestDone, BlockAdvance, BlockEnd,
      BlockExit, BlockBreak, BlockStmt, NotStmt, NotDone, WithStmt, WithCrash, WithDone,
      ScanStmt, ScanThrow, ScanNext, ScanDone, NextBlock, Executes
<1>3. CASE Calls
  BY <1>3 DEF Calls, CallStmt, BindParam, EnterFunction, CallNext, CallNoBlocks,
      CallReturn, CallFail, DynamicCall, DynamicDone, NextBlock, Executes
<1>4. CASE UNCHANGED vars
  BY <1>4 DEF vars
<1> QED  BY <1>1, <1>2, <1>3, <1>4 DEF Next

LEMMA WindingStopping ==
    ASSUME Inv, BindFresh, Stopping, stmtCount >= StmtLimit, Winding
    PROVE  Stopping'
<1>0. code # "Return" /\ Top.kind # "bind" /\ (code = "None" => Top.kind \in {"block", "plan"})
  BY DEF Stopping
<1>1. CASE PlanNext \/ NestNext \/ CallNext
  BY <1>1, NextBlockStopping DEF PlanNext, NestNext, CallNext
<1>2. CASE PlanDone
  <2>1. UNCHANGED <<stack, code>>
    BY <1>2 DEF PlanDone
  <2> QED  BY <1>0, <2>1 DEF Stopping, Top
<1>3. CASE BlockAdvance
  <2> DEFINE a == [Top EXCEPT !.pc = @ + 1]
  <2>1. Top.kind = "block" /\ stack' = Append(Below, a) /\ code' = "None"
    BY <1>3 DEF BlockAdvance, Running
  <2>2. a.kind = "block"
    BY <2>1, TopFacts DEF Activation
  <2> HIDE DEF a
  <2>3. Top' = a
    BY <2>1, NoBindBelow, TopAfterPush
  <2> QED  BY <2>1, <2>2, <2>3 DEF Stopping
<1>4. CASE ScanNext
  <2>1. PICK k \in ScanKeys :
           EnterBlock(Append(Below, [Top EXCEPT !.seen = @ \cup {k}]), Top.block)
    BY <1>4 DEF ScanNext
  <2> DEFINE a == [Top EXCEPT !.seen = @ \cup {k}]
  <2>2. a.kind = "scan"
    <3>1. Top = [kind |-> "scan", source |-> Top.source, seen |-> Top.seen,
                 key |-> Top.key, value |-> Top.value, block |-> Top.block]
      BY <1>4, TopFacts DEF Activation, ScanNext, Running
    <3> QED  BY <3>1
  <2>3. EnterBlock(Append(Below, a), Top.block)
    BY <2>1
  <2> HIDE DEF a
  <2> QED  BY <2>2, <2>3, NoBindBelow, EnterBlockStopping
<1>5. CASE \/ NestDone \/ BlockEnd \/ BlockExit \/ BlockBreak \/ NotDone
           \/ WithDone \/ ScanDone \/ CallFail \/ DynamicDone
  <2>1. stack' = Below /\ Top.kind # "plan"
    BY <1>5 DEF NestDone, BlockEnd, BlockExit, BlockBreak, NotDone, WithDone, ScanDone,
        CallFail, DynamicDone, Return, Running
  <2>2. code' \notin {"None", "Return"}
    <3>1. code \in Codes \cup {"None"}
      BY DEF Inv, ControlOK
    <3>2. CASE NestDone \/ BlockEnd \/ BlockExit \/ BlockBreak \/ WithDone
      BY <1>0, <3>2 DEF NestDone, BlockEnd, BlockExit, BlockBreak, WithDone, Return
    <3>3. CASE NotDone \/ CallFail
      BY <1>0, <3>3 DEF NotDone, CallFail, Return
    <3>4. CASE ScanDone \/ DynamicDone
      BY <1>0, <3>4 DEF ScanDone, DynamicDone, Return
    <3> QED  BY <1>5, <3>2, <3>3, <3>4
  <2>3. Top'.kind # "bind"
    BY <2>1, TopAfterPop
  <2> QED  BY <2>2, <2>3 DEF Stopping
<1> QED  BY <1>1, <1>2, <1>3, <1>4, <1>5 DEF Winding

LEMMA StepStopping ==
    ASSUME LimitsInv, Stopping, [Next]_vars
    PROVE  Stopping'
<1>0. Inv /\ BindFresh /\ stmtCount \in Nat /\ StmtLimit \in Nat
  BY LimitsAssumption DEF LimitsInv, Inv, ControlOK
<1>1. CASE Timeout
  <2>1. code' = "Timeout" /\ stack' = stack /\ Top.kind = "block"
    BY <1>1 DEF Timeout, AtStatement, Running
  <2> QED  BY <2>1 DEF Stopping, Top
<1>2. CASE stmtCount' < StmtLimit
  <2>1. stmtCount' \in Nat
    BY <1>0, StepInv DEF Inv, ControlOK
  <2> QED  BY <1>0, <1>2, <2>1 DEF Stopping
<1>3. CASE Winding /\ stmtCount' = stmtCount
  <2>1. CASE stmtCount >= StmtLimit
    BY <1>0, <1>3, <2>1, WindingStopping
  <2>2. CASE ~(stmtCount >= StmtLimit)
    BY <1>3, <2>2 DEF Stopping
  <2> QED  BY <2>1, <2>2
<1>4. CASE UNCHANGED vars
  <2>1. UNCHANGED <<stack, code, stmtCount>>
    BY <1>4 DEF vars
  <2> QED  BY <2>1 DEF Stopping, Top
<1> QED  BY <1>0, <1>1, <1>2, <1>3, <1>4, AtLimit

LEMMA LimitFreezes ==
    ASSUME Inv, Stopping, stmtCount >= StmtLimit, [Next]_vars
    PROVE  /\ UNCHANGED <<results, cache>>
           /\ \A n \in DOMAIN heap : heap'[n] = heap[n]
<1>0. /\ stmtCount \in Nat /\ StmtLimit \in Nat
      /\ IsSeq(heap) /\ Len(heap) \in Nat /\ DOMAIN heap = 1..Len(heap)
  BY LimitsAssumption, IsSeqDomain DEF Inv, ControlOK, MemoryOK
<1>1. CASE UNCHANGED <<heap, results, cache>>
  BY <1>1
<1>2. CASE Winding
  <2>1. UNCHANGED <<results, cache>>
    BY <1>2 DEF Winding, PlanNext, PlanDone, NestNext, NestDone, BlockAdvance, BlockEnd,
        BlockExit, BlockBreak, NotDone, WithDone, ScanNext, ScanDone, CallNext, CallFail,
        DynamicDone, NextBlock
  <2>2. CASE ScanNext
    <3>1. PICK x, y : heap' = heap \o <<x, y>>
      BY <2>2 DEF ScanNext, ScannedNodes
    <3>2. \A n \in 1..Len(heap) : heap'[n] = heap[n]
      <4> DEFINE S == {heap[i] : i \in DOMAIN heap} \cup {x, y}
      <4>1. heap \in Seq(S) /\ <<x, y>> \in Seq(S) /\ Len(<<x, y>>) = 2
        BY <1>0 DEF IsSeq
      <4> HIDE DEF S
      <4> QED  BY <1>0, <3>1, <4>1, ConcatProperties
    <3> QED  BY <1>0, <2>1, <3>2
  <2>3. CASE DynamicDone
    <3>1. heap' = heap \/ \E n, steps, v : WriteItem(Top.target, n, steps, v)
      BY <2>3 DEF DynamicDone
    <3>2. heap' = heap \/ \E node : heap' = Append(heap, node)
      BY <3>1 DEF WriteItem
    <3>3. \A n \in 1..Len(heap) : heap'[n] = heap[n]
      BY <1>0, <3>2, PushIsSeq
    <3> QED  BY <1>0, <2>1, <3>3
  <2>4. CASE ~ScanNext /\ ~DynamicDone
    <3>1. heap' = heap
      BY <1>2, <2>4 DEF Winding, PlanNext, PlanDone, NestNext, NestDone, BlockAdvance,
          BlockEnd, BlockExit, BlockBreak, NotDone, WithDone, WriteNode, ScanDone,
          CallNext, CallFail, NextBlock
    <3> QED  BY <2>1, <3>1
  <2> QED  BY <2>2, <2>3, <2>4
<1>3. CASE stmtCount' < StmtLimit
  BY <1>0, <1>3, StepCounts
<1>4. CASE Timeout
  BY <1>1, <1>4 DEF Timeout
<1>5. CASE UNCHANGED vars
  BY <1>1, <1>5 DEF vars
<1> QED  BY <1>2, <1>3, <1>4, <1>5, AtLimit

\* Once the statement limit is reached the machine only winds up: no existing
\* node changes, nothing is cached, nothing is returned.
THEOREM FrozenCorrect == Spec => FrozenAtLimit
<1> DEFINE I == LimitsInv /\ Stopping
<1>1. Init => I
  <2> SUFFICES ASSUME Init
               PROVE  I
    OBVIOUS
  <2>1. LimitsInv
    BY InitInv, LimitsInit DEF LimitsInv
  <2>2. code = "None" /\ Top.kind = "plan"
    BY DEF Init, Top
  <2> QED  BY <2>1, <2>2 DEF Stopping
<1>2. I /\ [Next]_vars => I'
  BY StepLimits, StepStopping
<1>3. I /\ [Next]_vars =>
        [stmtCount >= StmtLimit => /\ UNCHANGED <<results, cache>>
                                   /\ \A n \in DOMAIN heap : heap'[n] = heap[n]]_vars
  BY LimitFreezes DEF LimitsInv
<1> QED  BY <1>1, <1>2, <1>3, PTL DEF Spec, FrozenAtLimit

(***************************************************************************)
(* The inductive invariants of failures and of documents.                  *)
(***************************************************************************)
\* What an activation was given by the statement or the function it runs.
LaidOut(a, b) ==
    /\ FunctionsHaveBlocks(b) /\ a.kind = "call" => a.blocks # <<>>
    /\ DocumentsApart(b) =>
         /\ a.kind \in {"call", "bind", "dynamic"} =>
               a.target \notin Documents \cup Builders(b)
         /\ a.kind = "with" => a.target \notin Builders(b)
         /\ a.kind = "scan" => /\ a.key \notin Documents \cup Builders(b)
                               /\ a.value \notin Documents \cup Builders(b)
StackLaidOut(s, b) == \A i \in DOMAIN s : LaidOut(s[i], b)

\* An error is recorded before it travels, and a cached error was recorded.
Told == code \in {"Error", "Timeout"} => errors # <<>>
CachedTold ==
    \A f \in Functions : cache[f] # NoEntry /\ ValueOf(cache[f]) = Err => errors # <<>>
ErrInv == FunctionsHaveBlocks(bundle) => Told /\ CachedTold

\* The Withs on the stack, each at its height.
Withs(s) == {[at |-> i, target |-> s[i].target, old |-> s[i].old] :
             i \in {j \in DOMAIN s : s[j].kind = "with"}}
\* The lowest With of a document remembers what the run started with; without
\* one the local still holds it.
Restorable(ws, fr, l, n) ==
    /\ (\A w \in ws : w.target # l) => fr[l] = n
    /\ \A w \in ws : w.target = l /\ (\A v \in ws : v.target = l => w.at <= v.at)
                     => w.old = n
DocInv ==
    DocumentsApart(bundle) =>
        \A l \in Documents :
             /\ entry[1].nodes[l] \in Node \cup {Null}
             /\ Restorable(Withs(stack), frame, l, entry[1].nodes[l])

-----------------------------------------------------------------------------
(***************************************************************************)
(* What a step does to the nodes and to the locals.                        *)
(***************************************************************************)

\* A node that is nested in no other.
Whole(n) == heap[n].steps = <<>> /\ heap[n].root = n

\* No node is forgotten or changed; or a statement fills the node of its target,
\* which changes that node alone if it is nested in no other.
NodesKept ==
    /\ Len(heap) \in Nat /\ Len(heap') \in Nat /\ Len(heap) <= Len(heap')
    /\ \A n \in Node : heap'[n] = heap[n]
NodeFilled ==
    /\ Len(heap) \in Nat /\ Len(heap') = Len(heap)
    /\ AtStatement /\ Stmt.type \in Fillers /\ frame[Stmt.target] \in Node
    /\ \A n \in Node :
         /\ heap'[n].value \in {heap[n].value} \/ heap'[n].value # Err
         /\ Whole(frame[Stmt.target]) /\ n # frame[Stmt.target] => heap'[n].value = heap[n].value
         /\ heap'[n].steps = heap[n].steps
         /\ heap[n].steps = <<>> => heap'[n].root = heap[n].root
\* The documents stay where they are.
LocalsApart == DocumentsApart(bundle) => \A l \in Documents : frame'[l] = frame[l]

LEMMA ApartFacts ==
    ASSUME Inv
    PROVE  /\ Builders(bundle) \subseteq Locals
           /\ DocumentsApart(bundle) => /\ Documents \subseteq Locals
                                        /\ Documents \cap Builders(bundle) = {}
           /\ Len(heap) \in Nat /\ frame \in [Locals -> Node \cup {Null}]
<1>1. ASSUME NEW s \in StatementsOf(bundle)
      PROVE  s.target \in Locals
  <2>1. Verified(bundle)
    BY BundlesVerified DEF Inv
  <2> QED  BY <2>1 DEF StatementsOf, Verified, StatementOK, Locals
<1>2. Len(heap) \in Nat
  BY IsSeqDomain DEF Inv, MemoryOK
<1> QED  BY <1>1, <1>2 DEF Builders, DocumentsApart, Locals, Inv, MemoryOK

LEMMA StatementApart ==
    ASSUME Inv, AtStatement
    PROVE  /\ Stmt \in StatementsOf(bundle)
           /\ Stmt.type \in Fillers => Stmt.target \in Builders(bundle)
<1>1. /\ IsSeq(stack) /\ Len(stack) \in Nat /\ Len(stack) > 0
      /\ Activation(Top, bundle, Node) /\ Top.kind = "block"
  BY TopFacts DEF AtStatement, Running
<1>2. Top.block \in DOMAIN bundle.blocks /\ Top.pc \in Nat \ {0}
  BY <1>1 DEF Activation
<1>3. Verified(bundle)
  BY BundlesVerified DEF Inv
<1>4. IsSeq(Body(Top.block))
  BY <1>2, <1>3 DEF Verified, Body
<1>5. Top.pc \in DOMAIN bundle.blocks[Top.block]
  BY <1>2, <1>4, IsSeqDomain DEF AtStatement, Body
<1>6. Stmt \in StatementsOf(bundle)
  BY <1>2, <1>5 DEF Stmt, Body, StatementsOf
<1> QED  BY <1>6 DEF Builders, Fillers

LEMMA KeepsSame ==
    ASSUME Inv, UNCHANGED <<frame, heap>>
    PROVE  NodesKept /\ LocalsApart
BY ApartFacts DEF NodesKept, LocalsApart

LEMMA KeepsPush ==
    ASSUME Inv, NEW l \in Locals, NEW node, heap' = Append(heap, node),
           frame' = [frame EXCEPT ![l] = Len(heap) + 1],
           DocumentsApart(bundle) => l \notin Documents
    PROVE  NodesKept /\ LocalsApart
<1>1. /\ Len(heap') = Len(heap) + 1
      /\ \A i \in 1..Len(heap) : heap'[i] = heap[i]
  BY PushIsSeq DEF Inv, MemoryOK
<1> QED  BY <1>1, ApartFacts DEF NodesKept, LocalsApart, Node

LEMMA KeepsNew ==
    ASSUME Inv, NEW l \in Locals, NEW v, WriteValue(l, v),
           DocumentsApart(bundle) => l \notin Documents
    PROVE  NodesKept /\ LocalsApart
<1>1. CASE v = Undef
  <2>1. heap' = heap /\ frame' = [frame EXCEPT ![l] = Null]
    BY <1>1 DEF WriteValue, WriteNode
  <2> QED  BY <2>1, ApartFacts DEF NodesKept, LocalsApart
<1>2. CASE v # Undef
  BY <1>2, KeepsPush DEF WriteValue
<1> QED  BY <1>1, <1>2

LEMMA KeepsItem ==
    ASSUME Inv, NEW l \in Locals, NEW n, NEW steps, NEW v, WriteItem(l, n, steps, v),
           DocumentsApart(bundle) => l \notin Documents
    PROVE  NodesKept /\ LocalsApart
BY KeepsPush DEF WriteItem

LEMMA KeepsShared ==
    ASSUME Inv, NEW l \in Locals, NEW n, WriteNode(l, n),
           DocumentsApart(bundle) => l \notin Documents
    PROVE  NodesKept /\ LocalsApart
BY ApartFacts DEF NodesKept, LocalsApart, WriteNode

LEMMA KeepsOperand ==
    ASSUME Inv, NEW l \in Locals, NEW op, WriteOperand(l, op),
           DocumentsApart(bundle) => l \notin Documents
    PROVE  NodesKept /\ LocalsApart
BY KeepsShared, KeepsNew DEF WriteOperand

LEMMA ReplaceKeeps ==
    ASSUME NEW v, NEW steps, NEW x, x # Err
    PROVE  ReplaceAt(v, steps, x) # Err
<1>1. ReplaceAt(v, steps, x) = x \/ \E y : ReplaceAt(v, steps, x) = PutItem(v, steps[1], y)
  BY DEF ReplaceAt
<1>2. \A y : PutItem(v, steps[1], y) # Err
  BY DEF PutItem, Put, Err
<1> QED  BY <1>1, <1>2

LEMMA FillsNode ==
    ASSUME Inv, AtStatement, Stmt.type \in Fillers, NEW v, v # Err, NEW replaced,
           frame[Stmt.target] \in Node, Fill(frame[Stmt.target], v, replaced)
    PROVE  NodeFilled /\ LocalsApart
<1> DEFINE n == frame[Stmt.target]
<1>1. IsSeq(heap) /\ DOMAIN heap = 1..Len(heap) /\ Len(heap) \in Nat
  BY IsSeqDomain DEF Inv, MemoryOK
<1>2. heap' = [m \in DOMAIN heap |-> heap'[m]] /\ frame' = frame
  BY DEF Fill
<1>3. Len(heap') = Len(heap)
  BY <1>1, <1>2, MapIsSeq
<1>4. ASSUME NEW m \in Node
      PROVE  /\ heap'[m].value \in {heap[m].value} \/ heap'[m].value # Err
             /\ Whole(n) /\ m # n => heap'[m].value = heap[m].value
             /\ heap'[m].steps = heap[m].steps
             /\ heap[m].steps = <<>> => heap'[m].root = heap[m].root
  <2>1. heap'[m] = [value |-> IF Around(m, n) THEN ReplaceAt(heap[m].value, StepsBetween(m, n), v)
                                              ELSE heap[m].value,
                    root  |-> IF Inside(m, n, replaced) THEN -stmtCount' ELSE heap[m].root,
                    steps |-> heap[m].steps]
    BY <1>1 DEF Fill, Node
  <2>2. ReplaceAt(heap[m].value, StepsBetween(m, n), v) # Err
    BY ReplaceKeeps
  <2>3. Whole(n) /\ m # n => ~Around(m, n)
    BY DEF Whole, Around
  <2>4. heap[m].steps = <<>> => ~Inside(m, n, replaced)
    BY DEF Inside
  <2> HIDE DEF n
  <2> QED  BY <2>1, <2>2, <2>3, <2>4
<1> QED  BY <1>1, <1>2, <1>3, <1>4 DEF NodeFilled, LocalsApart

LEMMA FillSteps ==
    ASSUME Inv, ObjectInsert \/ Add
    PROVE  (NodesKept \/ NodeFilled) /\ LocalsApart
<1>1. AtStatement /\ Stmt.type \in Fillers
  BY DEF ObjectInsert, Add, Executes, Fillers
<1>2. frame[Stmt.target] \in Node \cup {Null}
  BY <1>1, StatementFacts
<1>3. CASE UNCHANGED <<frame, heap>>
  BY <1>3, KeepsSame
<1>4. CASE ObjectInsert /\ ~UNCHANGED <<frame, heap>>
  <2>1. PICK k, x, replaced :
          /\ Tag(Read(Stmt.target)) = "object"
          /\ Fill(frame[Stmt.target], Put(Read(Stmt.target), k, x), replaced)
    BY <1>4 DEF ObjectInsert, InsertConflict
  <2>2. frame[Stmt.target] \in Node
    BY <1>2, <2>1 DEF Read, ValueOf, Undef, Tag
  <2>3. Put(Read(Stmt.target), k, x) # Err
    BY DEF Put, Err
  <2> QED  BY <1>1, <2>1, <2>2, <2>3, FillsNode
<1>5. CASE Add /\ ~UNCHANGED <<frame, heap>>
  <2> DEFINE n == frame[Stmt.target]
             x == Unpack(Stmt.op0)
  <2>1. n \in Node /\ Fill(n, Added(heap[n].value, x), {}) /\ x # Undef
    BY <1>2, <1>5 DEF Add
  <2>2. Tag(heap[n].value) \in {"array", "set"}
    BY <1>5, <2>1, ApartFacts DEF Add, Executes, Malforms, Fills, Node, Null
  <2>3. Added(heap[n].value, x) # Err
    BY <2>2 DEF Added, Err
  <2> QED  BY <1>1, <2>1, <2>3, FillsNode
<1> QED  BY <1>3, <1>4, <1>5

LEMMA StraightMemory ==
    ASSUME Inv, Straight
    PROVE  (NodesKept \/ NodeFilled) /\ LocalsApart
<1>0. AtStatement => /\ Stmt.target \in Locals /\ Stmt \in StatementsOf(bundle)
                     /\ Stmt.type \in Fillers => Stmt.target \in Builders(bundle)
  BY StatementFacts, StatementApart
<1>1. CASE Make \/ MeasureLen \/ ResetLocal \/ DotStmt
  <2>1. /\ AtStatement
        /\ Stmt.type \in {"MakeObject", "MakeArray", "MakeSet", "MakeNull", "MakeNumberRef",
                          "MakeNumberInt", "AssignInt", "Len", "ResetLocal", "Dot"}
        /\ \/ UNCHANGED <<frame, heap>>
           \/ \E v : WriteValue(Stmt.target, v)
           \/ \E n, steps, v : WriteItem(Stmt.target, n, steps, v)
    BY <1>1 DEF Make, MeasureLen, ResetLocal, DotStmt, Executes, WriteValue
  <2>2. DocumentsApart(bundle) => Stmt.target \notin Documents
    BY <1>0, <2>1 DEF DocumentsApart
  <2> QED  BY <1>0, <2>1, <2>2, KeepsSame, KeepsNew, KeepsItem
<1>2. CASE AssignVar \/ AssignVarOnce \/ ObjectMerge
  <2>1. /\ AtStatement /\ Stmt.type \in {"AssignVar", "AssignVarOnce", "ObjectMerge"}
        /\ \/ UNCHANGED <<frame, heap>>
           \/ \E v : WriteValue(Stmt.target, v)
           \/ WriteOperand(Stmt.target, Stmt.op0)
    BY <1>2 DEF AssignVar, AssignVarOnce, ObjectMerge, Executes
  <2>2. DocumentsApart(bundle) => Stmt.target \notin Documents
    BY <1>0, <2>1 DEF DocumentsApart
  <2> QED  BY <1>0, <2>1, <2>2, KeepsSame, KeepsNew, KeepsOperand
<1>3. CASE ObjectInsert \/ Add
  BY <1>3, FillSteps
<1>4. CASE Tests
  BY <1>4, KeepsSame DEF Tests, Test
<1>5. CASE \/ ResultSetAdd \/ ReturnLocal \/ BreakStmt \/ DynamicUndefined
           \/ Timeout \/ RawOperand \/ FillMalformed
  BY <1>5, KeepsSame DEF ResultSetAdd, ReturnLocal, BreakStmt, DynamicUndefined, Timeout,
      RawOperand, Throw, FillMalformed
<1> QED  BY <1>1, <1>2, <1>3, <1>4, <1>5 DEF Straight

LEMMA TopLaidOut ==
    ASSUME Inv, StackLaidOut(stack, bundle)
    PROVE  LaidOut(Top, bundle)
BY TopFacts, IsSeqDomain DEF StackLaidOut

LEMMA ScanMemory ==
    ASSUME Inv, StackLaidOut(stack, bundle), ScanNext
    PROVE  NodesKept /\ LocalsApart
<1>1. PICK x, y : /\ heap' = heap \o <<x, y>>
                  /\ frame' = [frame EXCEPT ![Top.key] = Len(heap) + 1,
                                            ![Top.value] = Len(heap) + 2]
  BY DEF ScanNext, ScannedNodes
<1>2. /\ Top.key \in Locals /\ Top.value \in Locals
      /\ DocumentsApart(bundle) => Top.key \notin Documents /\ Top.value \notin Documents
  BY TopFacts, TopLaidOut DEF ScanNext, Running, Activation, Locals, LaidOut
<1>3. IsSeq(heap) /\ Len(heap) \in Nat /\ DOMAIN heap = 1..Len(heap)
  BY IsSeqDomain DEF Inv, MemoryOK
<1>4. Len(heap') = Len(heap) + 2 /\ \A n \in 1..Len(heap) : heap'[n] = heap[n]
  <2> DEFINE S == {heap[i] : i \in DOMAIN heap} \cup {x, y}
  <2>1. heap \in Seq(S) /\ <<x, y>> \in Seq(S) /\ Len(<<x, y>>) = 2
    BY <1>3 DEF IsSeq
  <2> HIDE DEF S
  <2> QED  BY <1>1, <1>3, <2>1, ConcatProperties
<1> QED  BY <1>1, <1>2, <1>3, <1>4, ApartFacts DEF NodesKept, LocalsApart, Node

LEMMA BlocksMemory ==
    ASSUME Inv, StackLaidOut(stack, bundle), Blocks, ~WithStmt, ~WithDone
    PROVE  NodesKept /\ LocalsApart
<1>1. CASE ScanNext
  BY <1>1, ScanMemory
<1>2. CASE UNCHANGED <<frame, heap>>
  BY <1>2, KeepsSame
<1>3. CASE ~ScanNext
  <2>1. UNCHANGED <<frame, heap>>
    BY <1>3 DEF Blocks, PlanNext, PlanDone, NestNext, NestDone, BlockAdvance, BlockEnd,
        BlockExit, BlockBreak, BlockStmt, NotStmt, NotDone, WithCrash, ScanStmt, ScanThrow,
        ScanDone, NextBlock, Throw
  <2> QED  BY <1>2, <2>1
<1> QED  BY <1>1, <1>3

LEMMA DoCallMemory ==
    ASSUME Inv, NEW base, NEW f, NEW args, NEW target \in Locals,
           DocumentsApart(bundle) => target \notin Documents \cup Builders(bundle),
           DoCall(base, f, args, target)
    PROVE  NodesKept /\ LocalsApart
<1>1. \/ UNCHANGED <<frame, heap>>
      \/ \E v : WriteValue(target, v)
      \/ \E n : WriteNode(target, n)
  BY DEF DoCall, Throw
<1> QED  BY <1>1, KeepsSame, KeepsNew, KeepsShared

LEMMA CallsMemory ==
    ASSUME Inv, StackLaidOut(stack, bundle), Calls
    PROVE  NodesKept /\ LocalsApart
<1>1. CASE CallStmt \/ DynamicCall
  <2>1. /\ AtStatement /\ Stmt.type \in {"Call", "CallDynamic"}
        /\ \E base, f, args : DoCall(base, f, args, Stmt.target)
    BY <1>1 DEF CallStmt, DynamicCall, Executes
  <2>2. /\ Stmt.target \in Locals
        /\ DocumentsApart(bundle) => Stmt.target \notin Documents \cup Builders(bundle)
    BY <2>1, StatementFacts, StatementApart DEF DocumentsApart
  <2> QED  BY <2>1, <2>2, DoCallMemory
<1>2. CASE BindParam
  <2> DEFINE ps == bundle.functions[Top.func].params
  <2>1. /\ Top.kind = "bind" /\ Top.next <= Len(ps)
        /\ UNCHANGED <<frame, heap>> \/ \E op : WriteOperand(ps[Top.next], op)
    BY <1>2 DEF BindParam, Running, Throw
  <2>2. Top.func \in Functions /\ Top.next \in Nat \ {0, 1, 2}
    BY <2>1, TopFacts DEF Activation, Functions
  <2>3. ps \in Seq(Locals)
    BY <2>2, FunctionFacts DEF FunctionOK, Locals
  <2>4. Top.next \in DOMAIN ps /\ ps[Top.next] \in Locals /\ Top.next > 2
    BY <2>1, <2>2, <2>3
  <2>5. DocumentsApart(bundle) => ps[Top.next] \notin Documents \cup Builders(bundle)
    BY <2>2, <2>4 DEF DocumentsApart, Functions
  <2> HIDE DEF ps
  <2> QED  BY <2>1, <2>4, <2>5, KeepsSame, KeepsOperand
<1>3. CASE CallReturn \/ DynamicDone
  <2>1. /\ Top.kind \in {"call", "dynamic"}
        /\ \/ UNCHANGED <<frame, heap>>
           \/ \E n : WriteNode(Top.target, n)
           \/ \E n, steps, v : WriteItem(Top.target, n, steps, v)
    BY <1>3 DEF CallReturn, DynamicDone, Running
  <2>2. /\ Top.target \in Locals
        /\ DocumentsApart(bundle) => Top.target \notin Documents \cup Builders(bundle)
    BY <2>1, TopFacts, TopLaidOut DEF Activation, LaidOut, Locals
  <2> QED  BY <2>1, <2>2, KeepsSame, KeepsShared, KeepsItem
<1>4. CASE EnterFunction \/ CallNext \/ CallNoBlocks \/ CallFail
  BY <1>4, KeepsSame DEF EnterFunction, CallNext, NextBlock, CallNoBlocks, CallFail
<1> QED  BY <1>1, <1>2, <1>3, <1>4 DEF Calls

LEMMA StepMemory ==
    ASSUME Inv, StackLaidOut(stack, bundle), [Next]_vars, ~WithStmt, ~WithDone
    PROVE  (NodesKept \/ NodeFilled) /\ LocalsApart
<1>1. CASE UNCHANGED vars
  <2>1. UNCHANGED <<frame, heap>>
    BY <1>1 DEF vars
  <2> QED  BY <2>1, KeepsSame
<1> QED  BY <1>1, StraightMemory, BlocksMemory, CallsMemory DEF Next

-----------------------------------------------------------------------------
(***************************************************************************)
(* What a step does to the activations.                                    *)
(***************************************************************************)
LEMMA Pushed ==
    ASSUME NEW s, IsSeq(s), NEW b, StackLaidOut(s, b), NEW a, LaidOut(a, b)
    PROVE  /\ IsSeq(Append(s, a)) /\ StackLaidOut(Append(s, a), b)
           /\ Withs(Append(s, a)) =
                IF a.kind = "with"
                THEN Withs(s) \cup {[at |-> Len(s) + 1, target |-> a.target, old |-> a.old]}
                ELSE Withs(s)
<1> DEFINE t == Append(s, a)
<1>1. /\ IsSeq(t) /\ Len(s) \in Nat /\ DOMAIN s = 1..Len(s)
      /\ DOMAIN t = 1..(Len(s) + 1)
      /\ \A i \in 1..Len(s) : t[i] = s[i]
      /\ t[Len(s) + 1] = a
  BY PushIsSeq, IsSeqDomain
<1> HIDE DEF t
<1>2. StackLaidOut(t, b)
  BY <1>1 DEF StackLaidOut
<1>3. {j \in DOMAIN t : t[j].kind = "with"} =
        IF a.kind = "with" THEN {j \in DOMAIN s : s[j].kind = "with"} \cup {Len(s) + 1}
                           ELSE {j \in DOMAIN s : s[j].kind = "with"}
  BY <1>1
<1>4. Withs(t) =
        IF a.kind = "with"
        THEN Withs(s) \cup {[at |-> Len(s) + 1, target |-> a.target, old |-> a.old]}
        ELSE Withs(s)
  BY <1>1, <1>3 DEF Withs
<1> QED  BY <1>1, <1>2, <1>4 DEF t

LEMMA Popped ==
    ASSUME Inv, StackLaidOut(stack, bundle)
    PROVE  /\ IsSeq(Below) /\ StackLaidOut(Below, bundle)
           /\ Withs(Below) = {w \in Withs(stack) : w.at # Len(stack)}
           /\ Top.kind # "with" => Withs(Below) = Withs(stack)
<1>1. /\ IsSeq(stack) /\ Len(stack) \in Nat /\ Len(stack) > 0
      /\ DOMAIN stack = 1..Len(stack) /\ Top = stack[Len(stack)]
  BY TopFacts, IsSeqDomain
<1>2. /\ IsSeq(Below) /\ DOMAIN Below = 1..(Len(stack) - 1)
      /\ \A i \in 1..(Len(stack) - 1) : Below[i] = stack[i]
  BY <1>1, PopIsSeq, IsSeqDomain DEF Below
<1>3. StackLaidOut(Below, bundle)
  BY <1>1, <1>2 DEF StackLaidOut
<1>4. {j \in DOMAIN Below : Below[j].kind = "with"} =
        {j \in DOMAIN stack : stack[j].kind = "with"} \ {Len(stack)}
  BY <1>1, <1>2
<1>5. Withs(Below) = {w \in Withs(stack) : w.at # Len(stack)}
  BY <1>1, <1>2, <1>4 DEF Withs
<1>6. Top.kind # "with" => \A w \in Withs(stack) : w.at # Len(stack)
  BY <1>1 DEF Withs
<1> QED  BY <1>2, <1>3, <1>5, <1>6

LEMMA Entered ==
    ASSUME NEW base, IsSeq(base), StackLaidOut(base, bundle), NEW b, EnterBlock(base, b)
    PROVE  StackLaidOut(stack', bundle) /\ Withs(stack') = Withs(base)
<1> DEFINE a == [kind |-> "block", block |-> b, pc |-> 1]
<1>1. stack' = base \/ stack' = Append(base, a)
  BY DEF EnterBlock
<1>2. LaidOut(a, bundle) /\ a.kind # "with"
  BY DEF LaidOut
<1> HIDE DEF a
<1> QED  BY <1>1, <1>2, Pushed

\* No With begins or ends.
StackKept == StackLaidOut(stack', bundle) /\ Withs(stack') = Withs(stack)

LEMMA ReplacedBase ==
    ASSUME Inv, StackLaidOut(stack, bundle), Top.kind # "with",
           NEW a, LaidOut(a, bundle), a.kind # "with"
    PROVE  /\ IsSeq(Append(Below, a)) /\ StackLaidOut(Append(Below, a), bundle)
           /\ Withs(Append(Below, a)) = Withs(stack)
BY Popped, Pushed

LEMMA NextBlockStack ==
    ASSUME Inv, StackLaidOut(stack, bundle), NEW kind \in {"plan", "nest", "call"}, NEW codes,
           NextBlock(kind, codes)
    PROVE  StackKept
<1> DEFINE a == [Top EXCEPT !.next = @ + 1]
<1>1. Top.kind = kind /\ EnterBlock(Append(Below, a), Top.blocks[Top.next])
  BY DEF NextBlock, Running
<1>2. a.kind = kind /\ LaidOut(a, bundle)
  <2>1. CASE kind \in {"plan", "nest"}
    BY <1>1, <2>1, TopFacts DEF Activation, LaidOut
  <2>2. CASE kind = "call"
    BY <1>1, <2>2, TopFacts, TopLaidOut DEF Activation, LaidOut
  <2> QED  BY <2>1, <2>2
<1> HIDE DEF a
<1> QED  BY <1>1, <1>2, ReplacedBase, Entered DEF StackKept

LEMMA BlocksStack ==
    ASSUME Inv, StackLaidOut(stack, bundle), Blocks, ~WithStmt, ~WithDone
    PROVE  StackKept
<1>0. IsSeq(stack)
  BY TopFacts
<1>1. CASE PlanNext \/ NestNext
  BY <1>1, NextBlockStack DEF PlanNext, NestNext
<1>2. CASE PlanDone \/ WithCrash \/ ScanThrow
  BY <1>2 DEF PlanDone, WithCrash, ScanThrow, Throw, StackKept
<1>3. CASE NestDone \/ BlockEnd \/ BlockExit \/ BlockBreak \/ NotDone \/ ScanDone
  <2>1. stack' = Below /\ Top.kind # "with"
    BY <1>3 DEF NestDone, BlockEnd, BlockExit, BlockBreak, NotDone, ScanDone, Return, Running
  <2> QED  BY <2>1, Popped DEF StackKept
<1>4. CASE BlockAdvance
  <2> DEFINE a == [Top EXCEPT !.pc = @ + 1]
  <2>1. Top.kind = "block" /\ stack' = Append(Below, a)
    BY <1>4 DEF BlockAdvance, Running
  <2>2. a.kind = "block" /\ LaidOut(a, bundle)
    BY <2>1, TopFacts DEF Activation, LaidOut
  <2> HIDE DEF a
  <2> QED  BY <2>1, <2>2, ReplacedBase DEF StackKept
<1>5. CASE BlockStmt
  <2> DEFINE a == [kind |-> "nest", blocks |-> Stmt.blocks, next |-> 1]
  <2>1. stack' = Append(stack, a) /\ a.kind # "with" /\ LaidOut(a, bundle)
    BY <1>5 DEF BlockStmt, LaidOut
  <2> HIDE DEF a
  <2> QED  BY <1>0, <2>1, Pushed DEF StackKept
<1>6. CASE NotStmt
  <2> DEFINE a == [kind |-> "not"]
  <2>1. /\ EnterBlock(Append(stack, a), Stmt.blocks[1]) /\ a.kind # "with"
        /\ LaidOut(a, bundle)
    BY <1>6 DEF NotStmt, LaidOut
  <2> HIDE DEF a
  <2> QED  BY <1>0, <2>1, Pushed, Entered DEF StackKept
<1>7. CASE ScanStmt
  <2> DEFINE a == [kind |-> "scan", source |-> frame[Stmt.target], seen |-> {},
                   key |-> Stmt.op0[2], value |-> Stmt.op1[2], block |-> Stmt.blocks[1]]
  <2>1. /\ stack' = stack \/ stack' = Append(stack, a)
        /\ AtStatement /\ Stmt.type = "Scan"
    BY <1>7 DEF ScanStmt, Completes, Executes
  <2>2. a.kind # "with" /\ LaidOut(a, bundle)
    BY <2>1, StatementApart DEF LaidOut, DocumentsApart
  <2> HIDE DEF a
  <2> QED  BY <1>0, <2>1, <2>2, Pushed DEF StackKept
<1>8. CASE ScanNext
  <2>1. PICK k : EnterBlock(Append(Below, [Top EXCEPT !.seen = @ \cup {k}]), Top.block)
    BY <1>8 DEF ScanNext
  <2> DEFINE a == [Top EXCEPT !.seen = @ \cup {k}]
  <2>2. Top.kind = "scan"
    BY <1>8 DEF ScanNext, Running
  <2>3. a.kind = "scan" /\ a.key = Top.key /\ a.value = Top.value
    <3>1. Top = [kind |-> "scan", source |-> Top.source, seen |-> Top.seen,
                 key |-> Top.key, value |-> Top.value, block |-> Top.block]
      BY <2>2, TopFacts DEF Activation
    <3> QED  BY <2>2, <3>1
  <2>4. EnterBlock(Append(Below, a), Top.block)
    BY <2>1
  <2> HIDE DEF a
  <2>5. LaidOut(a, bundle)
    BY <2>2, <2>3, TopLaidOut DEF LaidOut
  <2> QED  BY <2>2, <2>3, <2>4, <2>5, ReplacedBase, Entered DEF StackKept
<1> QED  BY <1>1, <1>2, <1>3, <1>4, <1>5, <1>6, <1>7, <1>8 DEF Blocks

LEMMA DoCallStack ==
    ASSUME Inv, NEW base, IsSeq(base), StackLaidOut(base, bundle),
           StackLaidOut(stack, bundle), Withs(base) = Withs(stack),
           NEW f, NEW args, NEW target,
           DocumentsApart(bundle) => target \notin Documents \cup Builders(bundle),
           DoCall(base, f, args, target)
    PROVE  StackKept
<1> DEFINE a == [kind |-> "bind", func |-> f, args |-> args, next |-> 3,
                 target |-> target]
<1>1. stack' = stack \/ stack' = base \/ stack' = Append(base, a)
  BY DEF DoCall, Throw
<1>2. LaidOut(a, bundle) /\ a.kind # "with"
  BY DEF LaidOut
<1> HIDE DEF a
<1> QED  BY <1>1, <1>2, Pushed DEF StackKept

LEMMA CallsStack ==
    ASSUME Inv, StackLaidOut(stack, bundle), Calls
    PROVE  StackKept
<1>0. IsSeq(stack)
  BY TopFacts
<1>1. CASE CallStmt \/ DynamicCall
  <2>1. AtStatement /\ Stmt.type \in {"Call", "CallDynamic"}
    BY <1>1 DEF CallStmt, DynamicCall, Executes
  <2>2. DocumentsApart(bundle) => Stmt.target \notin Documents \cup Builders(bundle)
    BY <2>1, StatementApart DEF DocumentsApart
  <2>3. CASE CallStmt
    BY <1>0, <2>2, <2>3, DoCallStack DEF CallStmt
  <2>4. CASE DynamicCall
    <3>1. PICK i \in Prefixes(Stmt) :
            DoCall(Append(stack, [kind |-> "dynamic", target |-> Stmt.target,
                                  path |-> SubSeq(Stmt.path, i + 1, Len(Stmt.path))]),
                   PrefixName(Stmt, i), Stmt.args, Stmt.target)
      BY <2>4 DEF DynamicCall
    <3> DEFINE a == [kind |-> "dynamic", target |-> Stmt.target,
                     path |-> SubSeq(Stmt.path, i + 1, Len(Stmt.path))]
    <3>2. /\ a.kind # "with" /\ LaidOut(a, bundle)
          /\ DoCall(Append(stack, a), PrefixName(Stmt, i), Stmt.args, Stmt.target)
      BY <2>2, <3>1 DEF LaidOut
    <3> HIDE DEF a
    <3> QED  BY <1>0, <2>2, <3>2, Pushed, DoCallStack
  <2> QED  BY <1>1, <2>3, <2>4
<1>2. CASE BindParam
  <2> DEFINE a == [Top EXCEPT !.next = @ + 1]
  <2>1. Top.kind = "bind" /\ (stack' = stack \/ stack' = Append(Below, a))
    BY <1>2 DEF BindParam, Running, Throw
  <2>2. a.kind = "bind" /\ a.target = Top.target
    <3>1. Top = [kind |-> "bind", func |-> Top.func, args |-> Top.args,
                 next |-> Top.next, target |-> Top.target]
      BY <2>1, TopFacts DEF Activation
    <3> QED  BY <2>1, <3>1
  <2> HIDE DEF a
  <2>3. LaidOut(a, bundle)
    BY <2>1, <2>2, TopLaidOut DEF LaidOut
  <2>4. /\ StackLaidOut(Append(Below, a), bundle)
        /\ Withs(Append(Below, a)) = Withs(stack)
    BY <2>1, <2>2, <2>3, ReplacedBase
  <2> QED  BY <2>1, <2>4 DEF StackKept
<1>3. CASE EnterFunction
  <2> DEFINE a == [kind |-> "call", func |-> Top.func,
                   blocks |-> bundle.functions[Top.func].blocks, next |-> 1,
                   target |-> Top.target]
  <2>1. Top.kind = "bind" /\ (stack' = Below \/ stack' = Append(Below, a))
    BY <1>3 DEF EnterFunction, Running, Return
  <2>2. Top.func \in DOMAIN bundle.functions
    BY <2>1, TopFacts DEF Activation
  <2>3. a.kind = "call" /\ LaidOut(a, bundle)
    BY <2>1, <2>2, TopLaidOut DEF LaidOut, FunctionsHaveBlocks
  <2> HIDE DEF a
  <2> QED  BY <2>1, <2>3, Popped, ReplacedBase DEF StackKept
<1>4. CASE CallNext
  BY <1>4, NextBlockStack DEF CallNext
<1>5. CASE CallNoBlocks
  BY <1>5 DEF CallNoBlocks, StackKept
<1>6. CASE CallReturn \/ CallFail \/ DynamicDone
  <2>1. stack' = Below /\ Top.kind # "with"
    BY <1>6 DEF CallReturn, CallFail, DynamicDone, Return, Running
  <2> QED  BY <2>1, Popped DEF StackKept
<1> QED  BY <1>1, <1>2, <1>3, <1>4, <1>5, <1>6 DEF Calls

LEMMA StepStack ==
    ASSUME Inv, StackLaidOut(stack, bundle), [Next]_vars, ~WithStmt, ~WithDone
    PROVE  StackKept
<1>1. CASE Straight
  <2>1. stack' = stack
    BY <1>1 DEF Straight, Make, MeasureLen, Tests, Test, ResetLocal, AssignVar,
        AssignVarOnce, ObjectInsert, ObjectMerge, Add, FillMalformed, DotStmt, ResultSetAdd,
        ReturnLocal, BreakStmt, DynamicUndefined, Timeout, RawOperand, Throw,
        Completes
  <2> QED  BY <2>1 DEF StackKept
<1>2. CASE UNCHANGED vars
  BY <1>2 DEF vars, StackKept
<1> QED  BY <1>1, <1>2, BlocksStack, CallsStack DEF Next

-----------------------------------------------------------------------------
(***************************************************************************)
(* With, begun and ended.                                                  *)
(***************************************************************************)
LEMMA WithBegins ==
    ASSUME Inv, StackLaidOut(stack, bundle), WithStmt
    PROVE  /\ NodesKept /\ StackLaidOut(stack', bundle)
           /\ Withs(stack') = Withs(stack) \cup
                 {[at |-> Len(stack) + 1, target |-> Stmt.target, old |-> frame[Stmt.target]]}
           /\ \A l \in Locals \ {Stmt.target} : frame'[l] = frame[l]
           /\ DocumentsApart(bundle) => Stmt.target \notin Builders(bundle)
<1> DEFINE a == [kind |-> "with", target |-> Stmt.target, old |-> frame[Stmt.target]]
<1>1. /\ AtStatement /\ Stmt.type = "With"
      /\ EnterBlock(Append(stack, a), Stmt.blocks[1])
      /\ WriteOperand(Stmt.target, Stmt.op0) \/ \E v : WriteValue(Stmt.target, v)
  BY DEF WithStmt, Executes
<1>2. /\ Stmt.target \in Locals
      /\ DocumentsApart(bundle) => Stmt.target \notin Builders(bundle)
  BY <1>1, StatementFacts, StatementApart DEF DocumentsApart
<1>3. /\ a.kind = "with" /\ LaidOut(a, bundle)
      /\ a.target = Stmt.target /\ a.old = frame[Stmt.target]
  BY <1>2 DEF LaidOut
<1>4. \/ \E n : WriteNode(Stmt.target, n)
      \/ \E v : WriteValue(Stmt.target, v)
  BY <1>1 DEF WriteOperand
<1>5. NodesKept /\ \A l \in Locals \ {Stmt.target} : frame'[l] = frame[l]
  <2>1. IsSeq(heap) /\ Len(heap) \in Nat /\ frame \in [Locals -> Node \cup {Null}]
    BY ApartFacts DEF Inv, MemoryOK
  <2>2. CASE \E n : WriteNode(Stmt.target, n)
    BY <1>2, <2>1, <2>2 DEF WriteNode, NodesKept
  <2>3. CASE \E node : heap' = Append(heap, node)
                       /\ frame' = [frame EXCEPT ![Stmt.target] = Len(heap) + 1]
    BY <1>2, <2>1, <2>3, PushIsSeq DEF NodesKept, Node
  <2> QED  BY <1>4, <2>2, <2>3 DEF WriteValue
<1> HIDE DEF a
<1> QED  BY <1>1, <1>2, <1>3, <1>5, TopFacts, Pushed, Entered

LEMMA WithEnds ==
    ASSUME Inv, StackLaidOut(stack, bundle), WithDone
    PROVE  /\ NodesKept /\ StackLaidOut(stack', bundle)
           /\ Withs(stack') = {w \in Withs(stack) : w.at # Len(stack)}
           /\ [at |-> Len(stack), target |-> Top.target, old |-> Top.old] \in Withs(stack)
           /\ Top.target \in Locals /\ frame' = [frame EXCEPT ![Top.target] = Top.old]
           /\ DocumentsApart(bundle) => Top.target \notin Builders(bundle)
<1>1. /\ Top.kind = "with" /\ stack' = Below /\ heap' = heap
      /\ frame' = [frame EXCEPT ![Top.target] = Top.old]
  BY DEF WithDone, Running, Return, WriteNode
<1>2. Top.target \in Locals
  BY <1>1, TopFacts DEF Activation, Locals
<1>3. [at |-> Len(stack), target |-> Top.target, old |-> Top.old] \in Withs(stack)
  BY <1>1, TopFacts, IsSeqDomain DEF Withs
<1> QED  BY <1>1, <1>2, <1>3, Popped, TopLaidOut, ApartFacts DEF NodesKept, LaidOut

-----------------------------------------------------------------------------
(***************************************************************************)
(* Errors.                                                                 *)
(***************************************************************************)
LEMMA AddErrorTells ==
    ASSUME Inv, NEW kind, AddError(kind)
    PROVE  errors' # <<>>
<1>1. IsSeq(errors) /\ Len(errors) \in Nat
  BY SeqIsSeq DEF Inv, ControlOK
<1>2. Len(errors') = Len(errors) + 1
  BY <1>1, PushIsSeq DEF AddError
<1> QED  BY <1>1, <1>2, EmptySeq

\* A code that EnterBlock returns is new and told.
LEMMA EnterTold ==
    ASSUME Inv, NEW base, NEW b, EnterBlock(base, b)
    PROVE  Told' /\ (errors # <<>> => errors' # <<>>)
BY AddErrorTells DEF EnterBlock, Told

LEMMA DoCallTold ==
    ASSUME Inv, Told, CachedTold,
           NEW base, NEW f, NEW args, NEW target, DoCall(base, f, args, target)
    PROVE  Told' /\ (errors # <<>> => errors' # <<>>)
<1>1. CASE Throw
  BY <1>1 DEF Throw, Told
<1>2. CASE \/ \E kind : AddError(kind)
           \/ code' \in {"Continue", "None"} /\ UNCHANGED errors
  BY <1>2, AddErrorTells DEF Told
<1>3. CASE /\ f \in Functions /\ cache[f] # NoEntry /\ UNCHANGED errors
           /\ code' = IF ValueOf(cache[f]) = Err THEN "Error" ELSE "Continue"
  BY <1>3 DEF Told, CachedTold
<1> QED  BY <1>1, <1>2, <1>3 DEF DoCall, CacheHit

LEMMA ToldStep ==
    ASSUME Inv, StackLaidOut(stack, bundle), FunctionsHaveBlocks(bundle),
           Told, CachedTold, [Next]_vars
    PROVE  Told' /\ (errors # <<>> => errors' # <<>>)
<1>1. CASE \E base, b : EnterBlock(base, b)
  BY <1>1, EnterTold
<1>2. CASE UNCHANGED <<code, errors>>
  BY <1>2 DEF Told
<1>3. CASE \E kind : AddError(kind)
  BY <1>3, AddErrorTells DEF Told
<1>4. CASE /\ UNCHANGED errors
           /\ code' \in {code, "None", "Continue", "Undefined", "Return", "Break"}
  BY <1>4 DEF Told
<1>5. CASE Straight
  <2>1. CASE Tests
    BY <1>4, <2>1 DEF Tests, Test, Completes
  <2>2. CASE ~Tests
    <3>1. \/ \E kind : AddError(kind)
          \/ UNCHANGED errors /\ code' \in {code, "Continue", "Undefined", "Return", "Break"}
      BY <1>5, <2>2 DEF Straight, Make, MeasureLen, ResetLocal, AssignVar, AssignVarOnce,
          ObjectInsert, ObjectMerge, Add, FillMalformed, DotStmt, ResultSetAdd, ReturnLocal, BreakStmt,
          DynamicUndefined, Timeout, RawOperand, Throw, Completes
    <3> QED  BY <1>3, <1>4, <3>1
  <2> QED  BY <2>1, <2>2
<1>6. CASE Blocks
  <2>1. CASE PlanNext \/ NestNext \/ NotStmt \/ WithStmt \/ ScanNext
    <3>1. \E base, b : EnterBlock(base, b)
      BY <2>1 DEF PlanNext, NestNext, NextBlock, NotStmt, WithStmt, ScanNext
    <3> QED  BY <1>1, <3>1
  <2>2. CASE \/ PlanDone \/ NestDone \/ BlockAdvance \/ BlockEnd \/ BlockExit
             \/ BlockBreak \/ BlockStmt \/ NotDone \/ WithCrash \/ WithDone
             \/ ScanStmt \/ ScanThrow \/ ScanDone
    <3>1. /\ UNCHANGED errors
          /\ code' \in {code, "None", "Continue", "Undefined", "Return", "Break"}
      BY <2>2 DEF PlanDone, NestDone, BlockAdvance, BlockEnd, BlockExit, BlockBreak,
          BlockStmt, NotDone, WithCrash, WithDone, ScanStmt, ScanThrow, ScanDone,
          Throw, Completes, Return
    <3> QED  BY <1>4, <3>1
  <2> QED  BY <1>6, <2>1, <2>2 DEF Blocks
<1>7. CASE Calls
  <2>1. CASE CallStmt \/ DynamicCall
    <3>1. \E base, f, args, target : DoCall(base, f, args, target)
      BY <2>1 DEF CallStmt, DynamicCall
    <3> QED  BY <3>1, DoCallTold
  <2>2. CASE CallNext
    <3>1. \E base, b : EnterBlock(base, b)
      BY <2>2 DEF CallNext, NextBlock
    <3> QED  BY <1>1, <3>1
  <2>3. CASE CallNoBlocks
    <3>1. Top.kind = "call" /\ Top.blocks = <<>>
      BY <2>3 DEF CallNoBlocks, Running
    <3> QED  BY <3>1, TopLaidOut DEF LaidOut
  <2>4. CASE BindParam \/ EnterFunction \/ CallReturn \/ CallFail \/ DynamicDone
    <3>1. \/ \E kind : AddError(kind)
          \/ /\ UNCHANGED errors
             /\ code' \in {code, "None", "Continue", "Undefined", "Return", "Break"}
      BY <2>4 DEF BindParam, EnterFunction, CallReturn, CallFail, DynamicDone, Throw, Return
    <3> QED  BY <1>3, <1>4, <3>1
  <2> QED  BY <1>7, <2>1, <2>2, <2>3, <2>4 DEF Calls
<1>8. CASE UNCHANGED vars
  BY <1>2, <1>8 DEF vars
<1> QED  BY <1>5, <1>6, <1>7, <1>8 DEF Next

LEMMA CacheChange ==
    ASSUME Inv, [Next]_vars
    PROVE  cache' = cache \/ CallReturn
<1>1. CASE Straight
  BY <1>1 DEF Straight, Make, MeasureLen, Tests, Test, ResetLocal, AssignVar,
      AssignVarOnce, ObjectInsert, ObjectMerge, Add, FillMalformed, DotStmt, ResultSetAdd,
      ReturnLocal, BreakStmt, DynamicUndefined, Timeout, RawOperand, Throw, Completes
<1>2. CASE Blocks
  BY <1>2 DEF Blocks, PlanNext, PlanDone, NestNext, NestDone, BlockAdvance, BlockEnd,
      BlockExit, BlockBreak, BlockStmt, NotStmt, NotDone, WithStmt, WithCrash, WithDone,
      ScanStmt, ScanThrow, ScanNext, ScanDone, NextBlock, Throw, Completes
<1>3. CASE Calls
  BY <1>3 DEF Calls, CallStmt, BindParam, EnterFunction, CallNext, CallNoBlocks,
      CallFail, DynamicCall, DynamicDone, NextBlock, DoCall, Throw
<1>4. CASE UNCHANGED vars
  BY <1>4 DEF vars
<1> QED  BY <1>1, <1>2, <1>3, <1>4 DEF Next

LEMMA BundleSame ==
    ASSUME [Next]_vars
    PROVE  bundle' = bundle
<1>1. CASE Straight
  BY <1>1 DEF Straight, Make, MeasureLen, Tests, Test, ResetLocal, AssignVar,
      AssignVarOnce, ObjectInsert, ObjectMerge, Add, FillMalformed, DotStmt, ResultSetAdd,
      ReturnLocal, BreakStmt, DynamicUndefined, Timeout, RawOperand, Throw, Completes
<1>2. CASE Blocks
  BY <1>2 DEF Blocks, PlanNext, PlanDone, NestNext, NestDone, BlockAdvance, BlockEnd,
      BlockExit, BlockBreak, BlockStmt, NotStmt, NotDone, WithStmt, WithCrash, WithDone,
      ScanStmt, ScanThrow, ScanNext, ScanDone, NextBlock, Throw, Completes
<1>3. CASE Calls
  BY <1>3 DEF Calls, CallStmt, BindParam, EnterFunction, CallNext, CallNoBlocks,
      CallReturn, CallFail, DynamicCall, DynamicDone, NextBlock, DoCall, Throw
<1>4. CASE UNCHANGED vars
  BY <1>4 DEF vars
<1> QED  BY <1>1, <1>2, <1>3, <1>4 DEF Next

\* No node that is not an error becomes one, not even while a With begins or ends.
LEMMA NoNewErr ==
    ASSUME Inv, StackLaidOut(stack, bundle), [Next]_vars,
           NEW n \in Node \cup {Null}, ValueOf(n)' = Err
    PROVE  ValueOf(n) = Err
<1>1. CASE n = Null
  BY <1>1 DEF ValueOf
<1>2. CASE n \in Node
  <2>1. heap'[n].value = heap[n].value \/ heap'[n].value # Err
    BY <1>2, StepMemory, WithBegins, WithEnds DEF NodesKept, NodeFilled
  <2>2. n # Null
    BY <1>2, ApartFacts DEF Node, Null
  <2> QED  BY <2>1, <2>2 DEF ValueOf
<1> QED  BY <1>1, <1>2

LEMMA CachedToldStep ==
    ASSUME Inv, StackLaidOut(stack, bundle), CachedTold, [Next]_vars,
           errors # <<>> => errors' # <<>>
    PROVE  CachedTold'
<1>0. Functions' = Functions /\ cache \in [Functions -> Node \cup {Null, NoEntry}]
  BY BundleSame DEF Functions, Inv, MemoryOK
<1>1. SUFFICES ASSUME NEW f \in Functions, cache'[f] # NoEntry, ValueOf(cache[f])' = Err
               PROVE  errors' # <<>>
  BY <1>0 DEF CachedTold
<1>2. CASE cache'[f] = cache[f]
  <2>1. cache[f] \in Node \cup {Null}
    BY <1>0, <1>1, <1>2
  <2>2. ValueOf(cache[f]) = Err
    <3>1. PICK n \in Node \cup {Null} : n = cache[f]
      BY <2>1
    <3>2. ValueOf(n)' = Err
      BY <1>1, <1>2, <3>1 DEF ValueOf
    <3> QED  BY <3>1, <3>2, NoNewErr
  <2> QED  BY <1>1, <1>2, <2>2 DEF CachedTold
<1>3. CASE cache'[f] # cache[f]
  <2> DEFINE n == frame[bundle.functions[Top.func].result]
  <2>1. CallReturn
    BY <1>3, CacheChange
  <2>2. /\ heap' = heap
        /\ cache' = cache \/ cache' = [cache EXCEPT ![Top.func] = n]
        /\ ValueOf(n) = Err => AddError("function result")
    BY <2>1 DEF CallReturn, WriteNode
  <2>3. cache'[f] = n
    BY <1>0, <1>3, <2>2
  <2>4. ValueOf(n) = Err
    BY <1>1, <2>2, <2>3 DEF ValueOf
  <2> QED  BY <2>2, <2>4, AddErrorTells
<1> QED  BY <1>2, <1>3

LEMMA StepLaidOut ==
    ASSUME Inv, StackLaidOut(stack, bundle), [Next]_vars
    PROVE  StackLaidOut(stack', bundle')
BY BundleSame, StepStack, WithBegins, WithEnds DEF StackKept

LEMMA InitLaidOut ==
    ASSUME Init
    PROVE  StackLaidOut(stack, bundle) /\ Withs(stack) = {}
<1> DEFINE a == [kind |-> "plan", blocks |-> bundle.plan, next |-> 1]
<1>1. a.kind = "plan" /\ stack = <<a>>
  BY DEF Init
<1> HIDE DEF a
<1>2. DOMAIN stack = {1} /\ stack[1] = a
  BY <1>1
<1> QED  BY <1>1, <1>2 DEF StackLaidOut, LaidOut, Withs

ErrorsInv == Inv /\ StackLaidOut(stack, bundle) /\ ErrInv

LEMMA StepErrors ==
    ASSUME ErrorsInv, [Next]_vars
    PROVE  ErrorsInv'
<1>1. Inv' /\ StackLaidOut(stack', bundle') /\ bundle' = bundle
  BY StepInv, StepLaidOut, BundleSame DEF ErrorsInv
<1>2. ASSUME FunctionsHaveBlocks(bundle)
      PROVE  Told' /\ CachedTold'
  BY <1>2, ToldStep, CachedToldStep DEF ErrorsInv, ErrInv
<1> QED  BY <1>1, <1>2 DEF ErrorsInv, ErrInv

LEMMA InitErrors ==
    ASSUME Init
    PROVE  ErrorsInv
<1>1. Told /\ CachedTold
  BY DEF Init, Told, CachedTold, NoEntry
<1> QED  BY <1>1, InitInv, InitLaidOut DEF ErrorsInv, ErrInv

\* In a bundle whose functions have blocks, an Error or a Timeout never travels
\* without an error that was recorded, through caches, calls, negations, scans
\* and Withs: a cached error was recorded when it was cached, and no existing
\* node becomes an error (run_call, run_block and whoever calls them).
THEOREM ErrorsCorrect == Spec => [](FunctionsHaveBlocks(bundle) => ErrorsRecorded)
<1>1. Init => ErrorsInv
  BY InitErrors
<1>2. ErrorsInv /\ [Next]_vars => ErrorsInv'
  BY StepErrors
<1>3. ErrorsInv => (FunctionsHaveBlocks(bundle) => ErrorsRecorded)
  BY DEF ErrorsInv, ErrInv, Told, ErrorsRecorded
<1> QED  BY <1>1, <1>2, <1>3, PTL DEF Spec

-----------------------------------------------------------------------------
(***************************************************************************)
(* Documents.                                                              *)
(***************************************************************************)
LEMMA WithsFacts ==
    ASSUME Inv
    PROVE  /\ Len(stack) \in Nat
           /\ \A w \in Withs(stack) :
                /\ w.at \in 1..Len(stack)
                /\ w = [at |-> w.at, target |-> stack[w.at].target, old |-> stack[w.at].old]
BY TopFacts, IsSeqDomain DEF Withs

LEMMA BeginRestorable ==
    ASSUME Inv, StackLaidOut(stack, bundle), WithStmt, NEW l \in Locals, NEW n,
           Restorable(Withs(stack), frame, l, n)
    PROVE  Restorable(Withs(stack'), frame', l, n)
<1> DEFINE d == [at |-> Len(stack) + 1, target |-> Stmt.target, old |-> frame[Stmt.target]]
<1>1. /\ Withs(stack') = Withs(stack) \cup {d}
      /\ l # Stmt.target => frame'[l] = frame[l]
      /\ d.at = Len(stack) + 1 /\ d.target = Stmt.target /\ d.old = frame[Stmt.target]
  BY WithBegins
<1>2. \A w \in Withs(stack) : ~(d.at <= w.at)
  BY <1>1, WithsFacts
<1> HIDE DEF d
<1>3. (\A w \in Withs(stack') : w.target # l) => frame'[l] = n
  BY <1>1 DEF Restorable
<1>4. ASSUME NEW w \in Withs(stack'), w.target = l,
             \A v \in Withs(stack') : v.target = l => w.at <= v.at
      PROVE  w.old = n
  <2>1. CASE w = d
    <3>1. \A v \in Withs(stack) : v.target # l
      BY <1>1, <1>2, <1>4, <2>1
    <3> QED  BY <1>1, <1>4, <2>1, <3>1 DEF Restorable
  <2>2. CASE w \in Withs(stack)
    BY <1>1, <1>4, <2>2 DEF Restorable
  <2> QED  BY <1>1, <2>1, <2>2
<1> QED  BY <1>3, <1>4 DEF Restorable

LEMMA EndRestorable ==
    ASSUME Inv, StackLaidOut(stack, bundle), WithDone, NEW l \in Locals, NEW n,
           Restorable(Withs(stack), frame, l, n)
    PROVE  Restorable(Withs(stack'), frame', l, n)
<1> DEFINE d == [at |-> Len(stack), target |-> Top.target, old |-> Top.old]
<1>1. /\ Withs(stack') = {w \in Withs(stack) : w.at # Len(stack)} /\ d \in Withs(stack)
      /\ Top.target \in Locals /\ frame' = [frame EXCEPT ![Top.target] = Top.old]
      /\ d.at = Len(stack) /\ d.target = Top.target /\ d.old = Top.old
  BY WithEnds
<1>2. \A w \in Withs(stack) : w.at <= Len(stack) /\ (w.at = Len(stack) => w = d)
  <2>1. Top = stack[Len(stack)]
    BY TopFacts
  <2> QED  BY <2>1, WithsFacts
<1>3. Len(stack) \in Nat /\ \A w \in Withs(stack) : w.at \in 1..Len(stack)
  BY WithsFacts
<1> HIDE DEF d
<1>4. ASSUME \A w \in Withs(stack') : w.target # l
      PROVE  frame'[l] = n
  <2>1. CASE d.target = l
    <3>1. \A v \in Withs(stack) : v.target = l => v = d
      BY <1>1, <1>2, <1>4
    <3>2. d.old = n
      BY <1>1, <1>3, <2>1, <3>1 DEF Restorable
    <3> QED  BY <1>1, <2>1, <3>2, ApartFacts
  <2>2. CASE d.target # l
    <3>1. \A v \in Withs(stack) : v.target # l
      BY <1>1, <1>2, <1>4, <2>2
    <3> QED  BY <1>1, <2>2, <3>1, ApartFacts DEF Restorable
  <2> QED  BY <2>1, <2>2
<1>5. ASSUME NEW w \in Withs(stack'), w.target = l,
             \A v \in Withs(stack') : v.target = l => w.at <= v.at
      PROVE  w.old = n
  <2>1. \A v \in Withs(stack) : v.target = l => w.at <= v.at
    BY <1>1, <1>2, <1>3, <1>5
  <2> QED  BY <1>1, <1>5, <2>1 DEF Restorable
<1> QED  BY <1>4, <1>5 DEF Restorable

LEMMA StepRestorable ==
    ASSUME Inv, StackLaidOut(stack, bundle), [Next]_vars, DocumentsApart(bundle),
           NEW l \in Documents, NEW n, Restorable(Withs(stack), frame, l, n)
    PROVE  Restorable(Withs(stack'), frame', l, n)
<1>1. l \in Locals
  BY ApartFacts
<1>2. CASE WithStmt
  BY <1>1, <1>2, BeginRestorable
<1>3. CASE WithDone
  BY <1>1, <1>3, EndRestorable
<1>4. CASE ~WithStmt /\ ~WithDone
  <2>1. frame'[l] = frame[l] /\ Withs(stack') = Withs(stack)
    BY <1>4, StepMemory, StepStack DEF LocalsApart, StackKept
  <2> QED  BY <2>1 DEF Restorable
<1> QED  BY <1>2, <1>3, <1>4

\* Nodes that exist go on to exist.
LEMMA NodesStay ==
    ASSUME Inv, StackLaidOut(stack, bundle), [Next]_vars, NEW n \in Node
    PROVE  n \in Node'
<1>1. Len(heap) \in Nat /\ Len(heap') \in Nat /\ Len(heap) <= Len(heap')
  BY StepMemory, WithBegins, WithEnds DEF NodesKept, NodeFilled
<1> QED  BY <1>1 DEF Node

\* The entry of the run is never replaced.
LEMMA EntryStays ==
    ASSUME Inv, [TraceNext]_traceVars
    PROVE  entry'[1] = entry[1]
<1>1. CASE TraceNext
  <2>1. Inv'
    BY <1>1, StepInv DEF TraceNext
  <2>2. Len(stack) \in Nat /\ Len(stack) > 0 /\ Len(stack)' \in Nat /\ Len(stack') > 0
    BY <2>1, TopFacts, IsSeqDomain DEF Inv, StackOK
  <2> QED  BY <1>1, <2>2 DEF TraceNext
<1>2. CASE UNCHANGED traceVars
  BY <1>2 DEF traceVars
<1> QED  BY <1>1, <1>2

LEMMA StepDocInv ==
    ASSUME Inv, StackLaidOut(stack, bundle), DocInv, [TraceNext]_traceVars
    PROVE  DocInv'
<1>1. [Next]_vars
  BY DEF TraceNext, traceVars
<1>2. bundle' = bundle /\ entry'[1] = entry[1]
  BY <1>1, BundleSame, EntryStays
<1>3. ASSUME DocumentsApart(bundle), NEW l \in Documents
      PROVE  /\ entry[1].nodes[l] \in Node' \cup {Null}
             /\ Restorable(Withs(stack'), frame', l, entry[1].nodes[l])
  BY <1>1, <1>3, NodesStay, StepRestorable DEF DocInv
<1> QED  BY <1>2, <1>3 DEF DocInv

LEMMA InitDocuments ==
    ASSUME TraceInit
    PROVE  DocInv
<1>1. Init /\ entry[1] = Snapshot
  BY DEF TraceInit
<1>2. Inv /\ Withs(stack) = {}
  BY <1>1, InitInv, InitLaidOut
<1>3. ASSUME DocumentsApart(bundle), NEW l \in Documents
      PROVE  /\ entry[1].nodes[l] \in Node \cup {Null}
             /\ Restorable(Withs(stack), frame, l, entry[1].nodes[l])
  <2>1. entry[1].nodes = frame /\ frame[l] \in Node \cup {Null}
    BY <1>1, <1>2, <1>3, ApartFacts DEF Snapshot
  <2> QED  BY <1>2, <2>1 DEF Restorable
<1> QED  BY <1>3 DEF DocInv
=============================================================================
