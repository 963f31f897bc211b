------------------------ MODULE DependencyGraphProofs ------------------------
(***************************************************************************)
(* Theorems about DependencyGraph, for every body: the indices stay in     *)
(* range, nothing is visited before what it needs, and the sort of a graph *)
(* ends only when nothing in it is ready.                                  *)
(***************************************************************************)
EXTENDS DependencyGraph, SequenceTheorems, FiniteSetTheorems, TLAPS

Rank(S, i) == Cardinality({j \in S : j < i})

(***************************************************************************)
(* Every rank below the size of a set of indices is taken by one element.  *)
(***************************************************************************)
LEMMA RankTaken ==
    ASSUME NEW m \in Nat, NEW S \in SUBSET (1..m)
    PROVE  /\ IsFiniteSet(S) /\ Cardinality(S) \in Nat
           /\ \A i \in S : Rank(S, i) \in 0..Cardinality(S) - 1
           /\ \A k \in 1..Cardinality(S) : \E i \in S : Rank(S, i) = k - 1
           /\ \A i, j \in S : Rank(S, i) = Rank(S, j) => i = j
<1> DEFINE n == Cardinality(S)
           Below(i) == {j \in S : j < i}
<1>0. IsFiniteSet(1..m)
  BY FS_Interval
<1>1. IsFiniteSet(S) /\ n \in Nat
  BY <1>0, FS_Subset, FS_CardinalityType
<1>2. \A i \in S : Rank(S, i) \in 0..n - 1
  <2> SUFFICES ASSUME NEW i \in S PROVE Rank(S, i) \in 0..n - 1
    OBVIOUS
  <2>1. Below(i) \in SUBSET S /\ Below(i) # S
    OBVIOUS
  <2>2. IsFiniteSet(Below(i)) /\ Cardinality(Below(i)) <= n /\ Cardinality(Below(i)) # n
    BY <1>1, <2>1, FS_Subset
  <2>3. Cardinality(Below(i)) \in Nat
    BY <2>2, FS_CardinalityType
  <2> QED BY <1>1, <2>2, <2>3 DEF Rank
<1>3. \A i, j \in S : i < j => Rank(S, i) < Rank(S, j)
  <2> SUFFICES ASSUME NEW i \in S, NEW j \in S, i < j
               PROVE  Rank(S, i) < Rank(S, j)
    OBVIOUS
  <2>0. i \in Int /\ j \in Int /\ \A k \in S : k \in Int /\ (k < i => k < j)
    OBVIOUS
  <2>01. ~(i < i)
    BY <2>0
  <2>02. \A k : k \in Below(i) => k \in Below(j)
    BY <2>0
  <2>1. Below(i) \in SUBSET Below(j) /\ i \in Below(j) /\ i \notin Below(i)
    BY <2>01, <2>02
  <2>2. IsFiniteSet(Below(j))
    BY <1>1, FS_Subset
  <2>3. Cardinality(Below(i)) <= Cardinality(Below(j)) /\ Cardinality(Below(i)) # Cardinality(Below(j))
    BY <2>1, <2>2, FS_Subset
  <2> QED BY <1>1, <1>2, <2>3 DEF Rank
<1>4. \A i, j \in S : Rank(S, i) = Rank(S, j) => i = j
  <2> SUFFICES ASSUME NEW i \in S, NEW j \in S, Rank(S, i) = Rank(S, j), i # j
               PROVE  FALSE
    OBVIOUS
  <2>1. i < j \/ j < i
    OBVIOUS
  <2> QED BY <1>2, <1>3, <2>1, <1>1
<1> DEFINE f == [i \in S |-> Rank(S, i) + 1]
<1>5. f \in Injection(S, 1..n)
  <2>1. f \in [S -> 1..n]
    BY <1>1, <1>2
  <2>2. \A i, j \in S : f[i] = f[j] => i = j
    BY <1>1, <1>2, <1>4
  <2> QED BY <2>1, <2>2 DEF Injection, IsInjective
<1>6. IsFiniteSet(1..n) /\ Cardinality(1..n) = n
  BY <1>1, FS_Interval
<1>7. f \in Surjection(S, 1..n)
  BY <1>5, <1>6, FS_Injection
<1>8. \A k \in 1..n : \E i \in S : Rank(S, i) = k - 1
  <2> SUFFICES ASSUME NEW k \in 1..n PROVE \E i \in S : Rank(S, i) = k - 1
    OBVIOUS
  <2>1. PICK i \in S : f[i] = k
    BY <1>7 DEF Surjection
  <2> QED BY <1>1, <1>2, <2>1
<1> QED BY <1>1, <1>2, <1>4, <1>8

(***************************************************************************)
(* InOrder lists a set of indices: its elements, all of them.              *)
(***************************************************************************)
LEMMA InOrderLists ==
    ASSUME NEW m \in Nat, NEW S \in SUBSET (1..m)
    PROVE  /\ InOrder(S) \in Seq(S) /\ InOrder(S) \in Seq(1..m)
           /\ \A i \in S : \E k \in DOMAIN InOrder(S) : InOrder(S)[k] = i
<1> DEFINE n == Cardinality(S)
           P(k, i) == Rank(S, i) = k - 1
<1>1. /\ n \in Nat
      /\ \A i \in S : Rank(S, i) \in 0..n - 1
      /\ \A k \in 1..n : \E i \in S : P(k, i)
      /\ \A i, j \in S : Rank(S, i) = Rank(S, j) => i = j
  BY RankTaken
<1>2. InOrder(S) = [k \in 1..n |-> CHOOSE i \in S : P(k, i)]
  BY DEF InOrder, Rank
<1>3. \A k \in 1..n : InOrder(S)[k] \in S /\ P(k, InOrder(S)[k])
  BY <1>1, <1>2
<1>4. InOrder(S) \in Seq(S) /\ DOMAIN InOrder(S) = 1..n
  BY <1>1, <1>2, <1>3
<1>5. ASSUME NEW i \in S
      PROVE  \E k \in 1..n : InOrder(S)[k] = i
  <2>1. Rank(S, i) + 1 \in 1..n /\ P(Rank(S, i) + 1, i)
    BY <1>1
  <2> QED BY <1>1, <1>3, <2>1
<1>6. InOrder(S) \in Seq(1..m)
  BY <1>4, SeqMonotonic
<1> QED BY <1>4, <1>5, <1>6

(* What a sequence lists.                                                  *)
Entries(s) == {s[k] : k \in DOMAIN s}

LEMMA OrderEntries ==
    ASSUME NEW m \in Nat, NEW S \in SUBSET (1..m)
    PROVE  Entries(InOrder(S)) = S
<1>1. /\ InOrder(S) \in Seq(S)
      /\ \A i \in S : \E k \in DOMAIN InOrder(S) : InOrder(S)[k] = i
  BY InOrderLists
<1>2. \A k \in DOMAIN InOrder(S) : InOrder(S)[k] \in S
  BY <1>1
<1> QED BY <1>1, <1>2 DEF Entries

(***************************************************************************)
(* A set of indices that is not empty has a largest element.               *)
(***************************************************************************)
LEMMA LargestExists ==
    ASSUME NEW m \in Nat, NEW S \in SUBSET (1..m), S # {}
    PROVE  \E i \in S : \A j \in S : j <= i
<1> DEFINE n == Cardinality(S)
<1>1. IsFiniteSet(S) /\ n \in Nat
  BY RankTaken
<1>2. n > 0
  BY <1>1, FS_EmptySet
<1>3. PICK i \in S : Rank(S, i) = n - 1
  BY <1>1, <1>2, RankTaken
<1> DEFINE B == {j \in S : j < i}
<1>4. IsFiniteSet(B) /\ i \notin B /\ B \cup {i} \in SUBSET S
  BY <1>1, FS_Subset
<1>5. Cardinality(B \cup {i}) = n
  <2>1. Cardinality(B) = n - 1
    BY <1>3 DEF Rank
  <2>2. Cardinality(B \cup {i}) = Cardinality(B) + 1
    BY <1>4, FS_AddElement
  <2> QED BY <1>1, <2>1, <2>2
<1>6. B \cup {i} = S
  BY <1>1, <1>4, <1>5, FS_Subset
<1> QED BY <1>6

-----------------------------------------------------------------------------
(***************************************************************************)
(* Terms, literals and calls are what they are said to be.                 *)
(***************************************************************************)
LEMMA VarFacts ==
    /\ NoVar \in Vars
    /\ \A k \in Nat : <<"fresh", k>> \in Vars
    /\ \A v \in Vars : /\ Val(v) \in Names /\ Empty(v) \in Names
                      /\ <<v, "array">> \in Names /\ <<v, "object">> \in Names
    /\ \A vs \in SUBSET Vars : Vals(vs) \in SUBSET Names
    /\ \A name \in Names : name[1] \in Vars
<1>1. NoVar \in Vars /\ \A k \in Nat : <<"fresh", k>> \in Vars
  BY DEF Vars
<1>2. ASSUME NEW v \in Vars
      PROVE  /\ Val(v) \in Names /\ Empty(v) \in Names
             /\ <<v, "array">> \in Names /\ <<v, "object">> \in Names
  BY DEF Val, Empty, Names
<1>3. ASSUME NEW vs \in SUBSET Vars PROVE Vals(vs) \in SUBSET Names
  BY <1>2 DEF Vals
<1>4. \A name \in Names : name[1] \in Vars
  BY DEF Names
<1> QED BY <1>1, <1>2, <1>3, <1>4

LEMMA OperandTyped ==
    ASSUME NEW t \in Operands
    PROVE  /\ t.kind \in TermKinds /\ t.var \in Vars
           /\ t.elems \in Seq(Operands) /\ t.keys \in Seq(Operands)
           /\ t.unify \in SUBSET Vars /\ t.locals \in SUBSET Vars
           /\ t.kind = "object" => Len(t.keys) = Len(t.elems)
<1>1. CASE t \in Terms
  <2>1. t.elems \in Seq(Terms) /\ t.keys \in Seq(Terms)
    BY <1>1, TermsWellFormed
  <2>2. t.elems \in Seq(Operands) /\ t.keys \in Seq(Operands)
    BY <2>1, SeqMonotonic DEF Operands
  <2>3. Locals \subseteq Vars /\ NoVar \in Vars
    BY DEF Vars
  <2> QED BY <1>1, <2>2, <2>3, TermsWellFormed
<1>2. CASE t \in VarTerms
  <2>1. /\ t.kind = "var" /\ t.var \in Vars /\ t.elems = <<>> /\ t.keys = <<>>
        /\ t.unify = {} /\ t.locals \in SUBSET Vars
    BY <1>2 DEF VarTerms
  <2> QED BY <2>1 DEF TermKinds
<1>3. CASE t = NoTerm
  BY <1>3, VarFacts DEF NoTerm, TermKinds
<1> QED BY <1>1, <1>2, <1>3 DEF Operands

LEMMA VarTermTyped ==
    ASSUME NEW v \in Vars
    PROVE  VarTerm(v) \in Operands /\ NoTerm \in Operands
BY DEF VarTerm, VarTerms, Operands

LEMMA LitTyped ==
    ASSUME NEW kind \in Declarations \cup Emitted, NEW in \in SUBSET Names,
           NEW out \in SUBSET Names, NEW l \in Operands, NEW r \in Operands
    PROVE  /\ Lit(kind, in, out, l, r) \in Literal
           /\ \A n \in Nat : [Lit(kind, in, out, l, r) EXCEPT !.n = n] \in Literal
           /\ \A k \in Operands : [Lit(kind, in, out, l, r) EXCEPT !.key = k] \in Literal
BY VarTermTyped, VarFacts DEF Lit, Literal

LEMMA LiteralsTyped ==
    ASSUME NEW v \in Vars, NEW l \in Operands, NEW r \in Operands
    PROVE  /\ Local(v) \in Literal /\ Capture(v) \in Literal
           /\ Assign(v, l) \in Literal /\ Equals(l, r) \in Literal
<1>1. l.locals \in SUBSET Vars /\ r.locals \in SUBSET Vars
  BY OperandTyped
<1>2. /\ Vals(l.locals) \in SUBSET Names /\ Vals(l.locals \cup r.locals) \in SUBSET Names
      /\ Val(v) \in Names /\ Empty(v) \in Names
  BY <1>1, VarFacts
<1>3. VarTerm(v) \in Operands /\ NoTerm \in Operands
  BY VarTermTyped
<1>4. Local(v) \in Literal
  BY <1>2, <1>3, LitTyped DEF Local, Declarations
<1>5. Capture(v) \in Literal
  BY <1>2, <1>3, LitTyped DEF Capture, Declarations
<1>6. Assign(v, l) \in Literal
  BY <1>2, <1>3, LitTyped DEF Assign, Emitted
<1>7. Equals(l, r) \in Literal
  BY <1>2, <1>3, LitTyped DEF Equals, Emitted
<1> QED BY <1>4, <1>5, <1>6, <1>7

LEMMA ElementLiteralsTyped ==
    ASSUME NEW v \in Vars, NEW src \in Vars, NEW k \in Operands, NEW n \in Nat
    PROVE  /\ IsArray(v, n) \in Literal /\ IsObject(v, n) \in Literal
           /\ FromArray(v, src, n) \in Literal /\ FromObject(v, src, k) \in Literal
<1>1. k.locals \in SUBSET Vars
  BY OperandTyped
<1>2. /\ Vals(k.locals) \in SUBSET Names
      /\ Val(v) \in Names /\ Empty(v) \in Names
      /\ <<v, "array">> \in Names /\ <<v, "object">> \in Names
      /\ <<src, "array">> \in Names /\ <<src, "object">> \in Names
  BY <1>1, VarFacts
<1>3. VarTerm(v) \in Operands /\ VarTerm(src) \in Operands /\ NoTerm \in Operands
  BY VarTermTyped
<1>4. IsArray(v, n) \in Literal /\ IsObject(v, n) \in Literal
  BY <1>2, <1>3, LitTyped DEF IsArray, IsObject, Emitted
<1>5. FromArray(v, src, n) \in Literal
  BY <1>2, <1>3, LitTyped DEF FromArray, Emitted
<1>6. FromObject(v, src, k) \in Literal
  BY <1>2, <1>3, LitTyped DEF FromObject, Emitted
<1> QED BY <1>4, <1>5, <1>6

LEMMA CallTyped ==
    ASSUME NEW fn \in {"unify", "match"}, NEW l \in Operands, NEW r \in Operands,
           NEW top \in BOOLEAN
    PROVE  Call(fn, l, r, top) \in Calls
BY VarTermTyped, VarFacts DEF Call, Calls

LEMMA AssignTyped ==
    ASSUME NEW v \in Vars, NEW l \in Operands, NEW r \in Operands
    PROVE  AddAssign(v, r) \in Seq(Literal) /\ Give(v, l, r) \in Seq(Literal)
<1>1. Local(v) \in Literal /\ Assign(v, r) \in Literal /\ Equals(l, r) \in Literal
  BY LiteralsTyped
<1>2. AddAssign(v, r) \in Seq(Literal)
  BY <1>1 DEF AddAssign
<1> QED BY <1>1, <1>2 DEF Give

-----------------------------------------------------------------------------
(***************************************************************************)
(* The invariant behind TypeOK: the sort has not begun while literals are  *)
(* added; a body that keeps its order has one literal per node, behind     *)
(* those of the scope; once the captures are added every name has a        *)
(* producer.                                                               *)
(***************************************************************************)
Building == phase \in {"locals", "nodes", "resolve", "captures"}

Untouched ==
    /\ xs = 0 /\ graph = {} /\ graphs = <<>>
    /\ frontier = <<>> /\ trail = <<>> /\ bound = {} /\ ordered = <<>>

Placed ==
    /\ phase = "locals" => pos = 0
    /\ phase = "locals" \/ NeedsSort \/ Len(lits) >= Len(body.locals) + pos
    /\ phase \in {"locals", "nodes"} \/ pos = Len(body.nodes)

Produced == phase \in {"graphs", "sort"} => Unproduced = {}

TInv == TypeOK /\ (Building => Untouched) /\ Placed /\ Produced

LEMMA InitTInv == Init => TInv
<1> SUFFICES ASSUME Init PROVE TInv
  OBVIOUS
<1>1. body \in Body
  BY BodiesWellFormed DEF Init
<1>2. NoTerm \in Operands
  BY DEF Operands
<1> QED
  BY <1>1, <1>2 DEF Init, TInv, TypeOK, Untouched, Placed, Produced, Pair, Body, Building

(* Steps of the constructor leave the sort alone.                          *)
LEMMA AddRuleLocalsTInv == TInv /\ AddRuleLocals => TInv'
<1> SUFFICES ASSUME TInv, AddRuleLocals PROVE TInv'
  OBVIOUS
<1> USE DEF TInv, AddRuleLocals, Building
<1>1. body \in Body /\ lits' \in Seq(Literal) /\ Untouched
  BY DEF TypeOK, Body
<1>2. TypeOK'
  BY <1>1 DEF TypeOK, Untouched, building, sorting
<1>3. Untouched'
  BY <1>1 DEF Untouched, sorting
<1>4. Placed'
  BY <1>1, <1>2 DEF Placed, building, Body, TypeOK
<1> QED BY <1>2, <1>3, <1>4 DEF Produced

LEMMA AddNodeTInv == TInv /\ AddNode => TInv'
<1> SUFFICES ASSUME TInv, AddNode PROVE TInv'
  OBVIOUS
<1> USE DEF TInv, AddNode, Building
<1> DEFINE node == body.nodes[pos + 1]
<1>1. /\ body \in Body /\ body.nodes \in Seq(Node) /\ pos + 1 \in 1..Len(body.nodes)
      /\ pos' = pos + 1
  BY DEF TypeOK, Body
<1>2. node \in Node
  BY <1>1
<1>3. node.lit \in Literal /\ node.unify \in BOOLEAN
  BY <1>2 DEF Node
<1>4. [l |-> node.lit.lhs, r |-> node.lit.rhs] \in Pair
  BY <1>3 DEF Literal, Pair
<1>5. /\ lits' \in Seq(Literal) /\ queue' \in Seq(Pair)
      /\ Len(queue') >= Len(queue) /\ Len(lits') >= Len(lits)
      /\ node.unify \/ Len(lits') = Len(lits) + 1
  <2>1. lits \in Seq(Literal) /\ queue \in Seq(Pair)
    BY DEF TypeOK
  <2>2. CASE node.unify
    <3>1. queue' = Append(queue, [l |-> node.lit.lhs, r |-> node.lit.rhs]) /\ lits' = lits
      BY <2>2
    <3> HIDE DEF AddNode, node
    <3> QED BY <2>1, <2>2, <3>1, <1>4
  <2>3. CASE ~node.unify
    <3>1. lits' = Append(lits, node.lit) /\ queue' = queue
      BY <2>3
    <3> HIDE DEF AddNode, node
    <3> QED BY <2>1, <2>3, <3>1, <1>3
  <2> QED BY <2>2, <2>3
<1>6. Untouched /\ Untouched'
  BY DEF Untouched, sorting
<1>7. TypeOK'
  BY <1>1, <1>5, <1>6 DEF TypeOK, Untouched, sorting
<1>8. node.unify => NeedsSort
  BY <1>1 DEF NeedsSort
<1>9. Placed'
  BY <1>1, <1>5, <1>8, <1>7 DEF Placed, NeedsSort, TypeOK, Body
<1> QED BY <1>6, <1>7, <1>9 DEF Produced

(* One more literal, in a phase of the constructor that keeps its place.   *)
LEMMA AppendTInv ==
    ASSUME TInv, phase \in {"nodes", "captures"}, UNCHANGED <<phase, building, sorting>>,
           NEW l \in Literal, lits' = Append(lits, l)
    PROVE  TInv'
<1> USE DEF TInv, Building
<1>1. lits' \in Seq(Literal) /\ Len(lits') = Len(lits) + 1
  BY DEF TypeOK
<1>2. Untouched /\ Untouched'
  BY DEF Untouched, sorting
<1>3. TypeOK'
  BY <1>1, <1>2 DEF TypeOK, Untouched, building, sorting
<1>4. Placed'
  BY <1>1, <1>3 DEF Placed, NeedsSort, building, TypeOK, Body
<1> QED BY <1>2, <1>3, <1>4 DEF Produced

LEMMA CaptureTInv ==
    ASSUME TInv, AddExternalCapture \/ AddCapture PROVE TInv'
<1>1. CASE AddExternalCapture
  <2>1. PICK v \in External : lits' = Append(lits, Capture(v))
    BY <1>1 DEF AddExternalCapture
  <2>2. v \in Vars
    BY <2>1 DEF External, ExternalTo, TInv, TypeOK, Body
  <2>3. Capture(v) \in Literal
    BY <2>2, LiteralsTyped, VarTermTyped
  <2>4. phase = "nodes" /\ UNCHANGED <<phase, building, sorting>>
    BY <1>1 DEF AddExternalCapture
  <2> QED BY <2>1, <2>3, <2>4, AppendTInv
<1>2. CASE AddCapture
  <2>1. PICK name \in Unproduced :
          lits' = Append(lits, CASE name[2] = "empty" -> Local(name[1])
                              [] name[2] = "val"   -> Capture(name[1])
                              [] OTHER -> Lit("Capture", {}, {name}, NoTerm, NoTerm))
    BY <1>2 DEF AddCapture
  <2>2. name \in Names
    <3>1. PICK i \in 1..Len(lits) : name \in lits[i].in
      BY <2>1 DEF Unproduced
    <3>2. lits \in Seq(Literal)
      BY DEF TInv, TypeOK
    <3>3. lits[i] \in Literal
      BY <3>2
    <3> QED BY <3>1, <3>3 DEF Literal
  <2>3. name[1] \in Vars
    BY <2>2, VarFacts
  <2>4. /\ Local(name[1]) \in Literal /\ Capture(name[1]) \in Literal
        /\ Lit("Capture", {}, {name}, NoTerm, NoTerm) \in Literal
    BY <2>2, <2>3, LiteralsTyped, VarTermTyped, LitTyped DEF Declarations
  <2>5. phase = "captures" /\ UNCHANGED <<phase, building, sorting>>
    BY <1>2 DEF AddCapture
  <2>6. CASE name[2] = "empty"
    BY <2>1, <2>4, <2>5, <2>6, AppendTInv
  <2>7. CASE name[2] = "val"
    BY <2>1, <2>4, <2>5, <2>7, AppendTInv
  <2>8. CASE name[2] # "empty" /\ name[2] # "val"
    BY <2>1, <2>4, <2>5, <2>8, AppendTInv
  <2> QED BY <2>6, <2>7, <2>8
<1> QED BY <1>1, <1>2

(* Steps that change only where the constructor is.                        *)
LEMMA ConstructorTInv ==
    ASSUME TInv, NodesAdded \/ StartRound \/ EndResolve \/ Pop \/ CapturesAdded
    PROVE  TInv'
<1> USE DEF TInv, Building
<1>1. Untouched
  BY DEF NodesAdded, StartRound, EndResolve, Pop, CapturesAdded, Resolving
<1>2. lits' = lits /\ body' = body /\ pos' = pos /\ lits \in Seq(Literal)
  BY DEF NodesAdded, StartRound, EndResolve, Pop, CapturesAdded, building, TypeOK
<1>3. NeedsSort' <=> NeedsSort
  BY <1>2 DEF NeedsSort
<1>4. CASE NodesAdded
  BY <1>1, <1>2, <1>3, <1>4 DEF NodesAdded, TypeOK, Untouched, Placed, Produced, building, sorting
<1>5. CASE StartRound
  BY <1>1, <1>2, <1>3, <1>5
     DEF StartRound, Resolving, TypeOK, Untouched, Placed, Produced, sorting
<1>6. CASE EndResolve
  BY <1>1, <1>2, <1>3, <1>6
     DEF EndResolve, Resolving, TypeOK, Untouched, Placed, Produced, building, sorting
<1>7. CASE Pop
  <2>1. queue # <<>> /\ queue \in Seq(Pair)
    BY <1>7 DEF Pop, TypeOK
  <2>2. Head(queue) \in Pair /\ Tail(queue) \in Seq(Pair) /\ Len(Tail(queue)) = Len(queue) - 1
    BY <2>1
  <2> DEFINE call == Call("unify", Head(queue).l, Head(queue).r, TRUE)
  <2>3. call \in Calls
    BY <2>2, CallTyped DEF Pair
  <2>4. work' \in Seq(Calls)
    <3>1. work' = <<call>>
      BY <1>7 DEF Pop
    <3> HIDE DEF call
    <3> QED BY <3>1, <2>3
  <2>5. round' \in 0..Len(queue')
    BY <1>7, <2>2, <2>1 DEF Pop, TypeOK
  <2>6. TypeOK'
    BY <1>1, <1>2, <1>7, <2>2, <2>4, <2>5 DEF Pop, TypeOK, Untouched, sorting
  <2> QED BY <1>1, <1>2, <1>3, <1>7, <2>6
          DEF Pop, TypeOK, Untouched, Placed, Produced, sorting
<1>8. CASE CapturesAdded
  <2>1. Unproduced' = Unproduced
    BY <1>2 DEF Unproduced, IsAssigned, Producers
  <2> QED BY <1>1, <1>2, <1>3, <1>8, <2>1
          DEF CapturesAdded, TypeOK, Untouched, Placed, Produced, building
<1> QED BY <1>4, <1>5, <1>6, <1>7, <1>8

-----------------------------------------------------------------------------
(***************************************************************************)
(* A call that adds literals and makes calls of the right type.            *)
(***************************************************************************)
LEMMA ResultTInv ==
    ASSUME TInv, phase = "resolve", work # <<>>, NEW add \in Seq(Literal),
           NEW calls \in Seq(Calls), NEW new \in Nat, NEW fail \in BOOLEAN,
           Result(add, calls, new, fail)
    PROVE  TInv'
<1> USE DEF TInv, Building, Result
<1>1. /\ lits \in Seq(Literal) /\ work \in Seq(Calls) /\ queue \in Seq(Pair)
      /\ current \in Pair /\ fresh \in Nat /\ dropped \in Nat /\ round \in 0..Len(queue)
  BY DEF TypeOK
<1>2. Tail(work) \in Seq(Calls)
  BY <1>1
<1>3. /\ lits' \in Seq(Literal) /\ Len(lits') >= Len(lits)
      /\ work' \in Seq(Calls) /\ fresh' \in Nat
  <2>1. lits' = lits \o add /\ work' = calls \o Tail(work) /\ fresh' = fresh + new
    OBVIOUS
  <2> HIDE DEF Result
  <2> QED BY <1>1, <1>2, <2>1
<1>4. queue' \in Seq(Pair) /\ Len(queue') >= Len(queue) /\ dropped' \in Nat
  <2>1. queue' \in {queue, Append(queue, current)} /\ dropped' \in {dropped, dropped + 1}
    OBVIOUS
  <2>2. Append(queue, current) \in Seq(Pair) /\ Len(Append(queue, current)) = Len(queue) + 1
    BY <1>1
  <2>3. queue' \in Seq(Pair) /\ Len(queue') >= Len(queue)
    BY <1>1, <2>1, <2>2
  <2>4. dropped' \in Nat
    BY <1>1, <2>1
  <2> QED BY <2>3, <2>4
<1>5. Untouched /\ Untouched'
  BY DEF Untouched, sorting
<1>6. TypeOK'
  BY <1>1, <1>3, <1>4, <1>5 DEF TypeOK, Untouched, sorting
<1>7. Placed'
  BY <1>3, <1>6 DEF Placed, NeedsSort, TypeOK, Body
<1> QED BY <1>5, <1>6, <1>7 DEF Produced

(* What is at hand in a call.                                              *)
LEMMA CallFacts ==
    ASSUME TInv, NEW fn, Calling(fn)
    PROVE  /\ phase = "resolve" /\ work # <<>> /\ Head(work) \in Calls
           /\ Head(work).l \in Operands /\ Head(work).r \in Operands
           /\ Head(work).key \in Operands /\ Head(work).n \in Nat
           /\ Head(work).top \in BOOLEAN
           /\ fresh \in Nat /\ Fresh \in Vars
<1>1. Head(work) \in Calls
  BY DEF Calling, TInv, TypeOK
<1>2. fresh \in Nat
  BY DEF TInv, TypeOK
<1> QED BY <1>1, <1>2, VarFacts DEF Calling, Calls, Fresh

LEMMA EmptySeqs == <<>> \in Seq(Literal) /\ <<>> \in Seq(Calls)
OBVIOUS

LEMMA SucceedTInv ==
    ASSUME TInv, NEW fn, Calling(fn), NEW add \in Seq(Literal), Succeed(add)
    PROVE  TInv'
BY CallFacts, EmptySeqs, ResultTInv DEF Succeed

LEMMA FailTInv ==
    ASSUME TInv, NEW fn, Calling(fn), Fail
    PROVE  TInv'
BY CallFacts, EmptySeqs, ResultTInv DEF Fail

LEMMA EqualsTInv ==
    ASSUME TInv, NEW fn, Calling(fn), NEW l \in Operands, NEW r \in Operands,
           Succeed(<<Equals(l, r)>>)
    PROVE  TInv'
<1>1. Equals(l, r) \in Literal
  BY LiteralsTyped, VarFacts
<1>2. <<Equals(l, r)>> \in Seq(Literal)
  BY <1>1
<1> QED BY <1>2, SucceedTInv

LEMMA GiveTInv ==
    ASSUME TInv, NEW fn, Calling(fn), NEW l \in Operands, NEW r \in Operands,
           Succeed(Give(l.var, l, r))
    PROVE  TInv'
<1>1. Give(l.var, l, r) \in Seq(Literal)
  BY AssignTyped, OperandTyped
<1> QED BY <1>1, SucceedTInv

LEMMA MatchTInv ==
    ASSUME TInv, NEW fn, Calling(fn), NEW t \in Operands, NEW e \in Operands,
           MatchVar(t, e.var) \/ MatchFresh(t, e)
    PROVE  TInv'
<1>1. /\ e.var \in Vars /\ Fresh \in Vars /\ Head(work).top \in BOOLEAN
      /\ phase = "resolve" /\ work # <<>>
  BY CallFacts, OperandTyped
<1>2. VarTerm(e.var) \in Operands /\ VarTerm(Fresh) \in Operands
  BY <1>1, VarTermTyped
<1> DEFINE c1 == Call("match", t, VarTerm(e.var), Head(work).top)
           c2 == Call("match", t, VarTerm(Fresh), Head(work).top)
<1>3. c1 \in Calls /\ c2 \in Calls
  BY <1>1, <1>2, CallTyped
<1>4. <<c1>> \in Seq(Calls) /\ <<c2>> \in Seq(Calls)
  <2> HIDE DEF c1, c2
  <2> QED BY <1>3
<1>5. AddAssign(Fresh, e) \in Seq(Literal)
  BY <1>1, AssignTyped
<1>6. CASE MatchVar(t, e.var)
  BY <1>1, <1>4, <1>6, EmptySeqs, ResultTInv DEF MatchVar
<1>7. CASE MatchFresh(t, e)
  BY <1>1, <1>4, <1>5, <1>7, ResultTInv DEF MatchFresh
<1> QED BY <1>6, <1>7

(* Calls on elements of two terms.                                         *)
LEMMA ElementCallsTyped ==
    ASSUME NEW l \in Operands, NEW r \in Operands, NEW m \in Nat,
           NEW is \in Seq(1..Len(l.elems)), NEW js \in [DOMAIN is -> 1..Len(r.elems)]
    PROVE  ElementCalls(l, r, is, js) \in Seq(Calls)
<1>1. l.elems \in Seq(Operands) /\ r.elems \in Seq(Operands)
  BY OperandTyped
<1> DEFINE pairwise(k) == Call("unify", l.elems[is[k]], r.elems[js[k]], FALSE)
<1>2. ASSUME NEW k \in DOMAIN is PROVE pairwise(k) \in Calls
  <2>1. l.elems[is[k]] \in Operands /\ r.elems[js[k]] \in Operands
    BY <1>1
  <2> QED BY <2>1, CallTyped
<1>3. DOMAIN is = 1..Len(is) /\ Len(is) \in Nat
  OBVIOUS
<1>4. ElementCalls(l, r, is, js) = [k \in DOMAIN is |-> pairwise(k)]
  BY DEF ElementCalls
<1> HIDE DEF pairwise
<1> QED BY <1>2, <1>3, <1>4

LEMMA ElementsTyped ==
    ASSUME NEW c \in Calls, NEW fn \in {"fromarray", "fromobject"},
           fn = "fromobject" => c.l.kind = "object"
    PROVE  Elements(fn, c) \in Seq(Calls)
<1>1. c.l \in Operands /\ c.r \in Operands
  BY DEF Calls
<1>2. /\ c.l.elems \in Seq(Operands) /\ c.l.keys \in Seq(Operands)
      /\ c.l.kind = "object" => Len(c.l.keys) = Len(c.l.elems)
  BY <1>1, OperandTyped
<1> DEFINE turn(k) ==
      [fn |-> fn, l |-> c.l.elems[k], r |-> c.r, n |-> k - 1, top |-> FALSE,
       key |-> IF fn = "fromobject" THEN c.l.keys[k] ELSE NoTerm]
<1>3. ASSUME NEW k \in 1..Len(c.l.elems) PROVE turn(k) \in Calls
  <2>1. c.l.elems[k] \in Operands /\ k - 1 \in Nat
    BY <1>2
  <2>2. (IF fn = "fromobject" THEN c.l.keys[k] ELSE NoTerm) \in Operands
    BY <1>2 DEF Operands
  <2> QED BY <1>1, <2>1, <2>2 DEF Calls
<1>4. Elements(fn, c) = [k \in 1..Len(c.l.elems) |-> turn(k)]
  BY DEF Elements
<1>5. Len(c.l.elems) \in Nat
  BY <1>2
<1> HIDE DEF turn
<1> QED BY <1>3, <1>4, <1>5

LEMMA ThrowTInv ==
    ASSUME TInv, phase = "resolve", Throw PROVE TInv'
<1>1. /\ UNCHANGED <<lits, building, sorting>> /\ phase' = "threw" /\ Untouched
  BY DEF Throw, TInv, Building
<1>2. TypeOK'
  BY <1>1 DEF TInv, TypeOK, building, sorting
<1>3. Placed'
  BY <1>1 DEF TInv, Placed, NeedsSort, building
<1> QED BY <1>1, <1>2, <1>3 DEF TInv, Building, Produced

(***************************************************************************)
(* Every call of an add_* function keeps the invariant.                    *)
(***************************************************************************)
LEMMA AddTermsTInv ==
    ASSUME TInv, AddUnifyVars \/ AddUnifyVarTerm \/ AddTermsVar \/ AddTermsCompr
                 \/ AddTermsEquals \/ AddExprsUnsupported
    PROVE  TInv'
<1> DEFINE l == Head(work).l
           r == Head(work).r
<1>1. Calling("unify")
  BY DEF AddUnifyVars, AddUnifyVarTerm, AddTermsVar, AddTermsCompr, AddTermsEquals,
         AddExprsUnsupported
<1>2. l \in Operands /\ r \in Operands
  BY <1>1, CallFacts
<1>3. \A s \in Sides : s[1] \in Operands /\ s[2] \in Operands
  BY <1>2 DEF Sides
<1>4. CASE AddUnifyVars
  <2>1. Succeed(Give(r.var, r, l)) \/ Succeed(Give(l.var, l, r)) \/ Fail
    BY <1>4 DEF AddUnifyVars
  <2> HIDE DEF l, r
  <2> QED BY <1>1, <1>2, <2>1, GiveTInv, FailTInv
<1>5. CASE AddUnifyVarTerm
  <2>1. PICK s \in Sides : \/ Succeed(Give(s[1].var, s[1], s[2]))
                            \/ MatchVar(s[2], s[1].var) \/ Fail
    BY <1>5 DEF AddUnifyVarTerm
  <2> QED BY <1>1, <1>3, <2>1, GiveTInv, MatchTInv, FailTInv
<1>6. CASE AddTermsVar
  <2>1. \/ MatchVar(r, l.var) \/ MatchVar(l, r.var)
        \/ MatchFresh(r, l) \/ MatchFresh(l, r)
    BY <1>6 DEF AddTermsVar
  <2> HIDE DEF l, r
  <2> QED BY <1>1, <1>2, <2>1, MatchTInv
<1>7. CASE AddTermsCompr
  <2>1. PICK s \in Sides : MatchFresh(s[1], s[2])
    BY <1>7 DEF AddTermsCompr
  <2> QED BY <1>1, <1>3, <2>1, MatchTInv
<1>8. CASE AddTermsEquals
  <2>1. Succeed(<<Equals(l, r)>>)
    BY <1>8 DEF AddTermsEquals
  <2> HIDE DEF l, r
  <2> QED BY <1>1, <1>2, <2>1, EqualsTInv
<1>9. CASE AddExprsUnsupported
  BY <1>1, <1>9, FailTInv DEF AddExprsUnsupported
<1> QED BY <1>4, <1>5, <1>6, <1>7, <1>8, <1>9

LEMMA AddTermExprTInv == TInv /\ AddTermExpr => TInv'
<1> SUFFICES ASSUME TInv, AddTermExpr PROVE TInv'
  OBVIOUS
<1>1. Calling("unify")
  BY DEF AddTermExpr
<1>2. /\ Head(work).l \in Operands /\ Head(work).r \in Operands /\ Fresh \in Vars
      /\ phase = "resolve" /\ work # <<>>
  BY <1>1, CallFacts
<1>3. PICK s \in Sides :
        LET t == s[1]  e == s[2] IN
          \/ Fail \/ Succeed(Give(t.var, t, e)) \/ Succeed(<<Equals(t, e)>>)
          \/ Result(AddAssign(Fresh, t) \o <<Equals(e, VarTerm(Fresh))>>, <<>>, 1, FALSE)
          \/ MatchFresh(t, e)
  BY DEF AddTermExpr
<1> DEFINE t == s[1]
           e == s[2]
<1>4. t \in Operands /\ e \in Operands
  BY <1>2, <1>3 DEF Sides
<1>5. AddAssign(Fresh, t) \o <<Equals(e, VarTerm(Fresh))>> \in Seq(Literal)
  <2>1. AddAssign(Fresh, t) \in Seq(Literal)
    BY <1>2, <1>4, AssignTyped
  <2>2. Equals(e, VarTerm(Fresh)) \in Literal
    BY <1>2, <1>4, VarTermTyped, LiteralsTyped
  <2> QED BY <2>1, <2>2
<1>6. CASE Result(AddAssign(Fresh, t) \o <<Equals(e, VarTerm(Fresh))>>, <<>>, 1, FALSE)
  BY <1>2, <1>5, <1>6, EmptySeqs, ResultTInv
<1>7. CASE Fail \/ Succeed(Give(t.var, t, e)) \/ Succeed(<<Equals(t, e)>>)
           \/ MatchFresh(t, e)
  <2> HIDE DEF t, e
  <2> QED BY <1>1, <1>4, <1>7, FailTInv, GiveTInv, EqualsTInv, MatchTInv
<1> QED BY <1>3, <1>6, <1>7

LEMMA AddArrayArrayTInv == TInv /\ AddArrayArray => TInv'
<1> SUFFICES ASSUME TInv, AddArrayArray PROVE TInv'
  OBVIOUS
<1> DEFINE l == Head(work).l
           r == Head(work).r
           all == [k \in 1..Len(l.elems) |-> k]
<1>1. Calling("unify")
  BY DEF AddArrayArray
<1>2. l \in Operands /\ r \in Operands /\ phase = "resolve" /\ work # <<>>
  BY <1>1, CallFacts
<1>3. Len(l.elems) \in Nat /\ Len(r.elems) \in Nat
  BY <1>2, OperandTyped
<1>4. \/ Throw \/ Succeed(<<Equals(l, r)>>)
      \/ Len(r.elems) >= Len(l.elems)
         /\ Result(<<>>, ElementCalls(l, r, all, all), 0, FALSE)
  <2>1. CASE Len(r.elems) < Len(l.elems)
    BY <2>1 DEF AddArrayArray
  <2>2. CASE ~(Len(r.elems) < Len(l.elems))
    <3>1. Len(r.elems) >= Len(l.elems)
      BY <1>3, <2>2
    <3>2. Succeed(<<Equals(l, r)>>) \/ Result(<<>>, ElementCalls(l, r, all, all), 0, FALSE)
      BY <2>2, ZenonT(30) DEF AddArrayArray
    <3> QED BY <3>1, <3>2
  <2> QED BY <2>1, <2>2
<1>5. CASE Len(r.elems) >= Len(l.elems)
           /\ Result(<<>>, ElementCalls(l, r, all, all), 0, FALSE)
  <2>1. all \in Seq(1..Len(l.elems)) /\ all \in [DOMAIN all -> 1..Len(r.elems)]
    BY <1>3, <1>5
  <2>2. ElementCalls(l, r, all, all) \in Seq(Calls)
    <3> HIDE DEF l, r, all
    <3> QED BY <1>2, <1>3, <2>1, ElementCallsTyped
  <2> QED BY <1>2, <1>5, <2>2, EmptySeqs, ResultTInv
<1>6. CASE Throw \/ Succeed(<<Equals(l, r)>>)
  <2> HIDE DEF l, r
  <2> QED BY <1>1, <1>2, <1>6, ThrowTInv, EqualsTInv
<1> QED BY <1>4, <1>5, <1>6

LEMMA AddObjectObjectTInv == TInv /\ AddObjectObject => TInv'
<1> SUFFICES ASSUME TInv, AddObjectObject PROVE TInv'
  OBVIOUS
<1> DEFINE l == Head(work).l
           r == Head(work).r
           items == 1..Len(l.elems)
           there == items \cap 1..Len(r.elems)
           match(i) == {j \in there : r.keys[j] = l.keys[i]}
           S == {i \in items : match(i) # {}}
           matched == InOrder(S)
           with == [k \in DOMAIN matched |-> CHOOSE j \in match(matched[k]) : TRUE]
<1>1. Calling("unify")
  BY DEF AddObjectObject
<1>2. l \in Operands /\ r \in Operands /\ phase = "resolve" /\ work # <<>>
  BY <1>1, CallFacts
<1>3. Len(l.elems) \in Nat /\ Len(r.elems) \in Nat
  BY <1>2, OperandTyped
<1>4. \/ Fail \/ Throw \/ Succeed(<<Equals(l, r)>>)
      \/ \E leftover \in BOOLEAN :
           Result(<<>>, ElementCalls(l, r, matched, with), 0, leftover)
  BY DEF AddObjectObject
<1>5. CASE \E leftover \in BOOLEAN :
             Result(<<>>, ElementCalls(l, r, matched, with), 0, leftover)
  <2>1. matched \in Seq(S) /\ matched \in Seq(1..Len(l.elems))
    BY <1>3, InOrderLists
  <2>2. ASSUME NEW k \in DOMAIN matched PROVE with[k] \in 1..Len(r.elems)
    <3>1. matched[k] \in S
      <4> HIDE DEF matched, S
      <4> QED BY <2>1
    <3> QED BY <3>1
  <2>3. with \in [DOMAIN matched -> 1..Len(r.elems)]
    BY <2>2
  <2>4. ElementCalls(l, r, matched, with) \in Seq(Calls)
    <3> HIDE DEF l, r, matched, with
    <3> QED BY <1>2, <1>3, <2>1, <2>3, ElementCallsTyped
  <2> QED BY <1>2, <1>5, <2>4, EmptySeqs, ResultTInv
<1>6. CASE Fail \/ Throw \/ Succeed(<<Equals(l, r)>>)
  <2> HIDE DEF l, r
  <2> QED BY <1>1, <1>2, <1>6, FailTInv, ThrowTInv, EqualsTInv
<1> QED BY <1>4, <1>5, <1>6

LEMMA MatchStepTInv ==
    ASSUME TInv, MatchVariable \/ MatchEquals \/ MatchArray \/ MatchObject
                 \/ MatchUnsupported
    PROVE  TInv'
<1> DEFINE c == Head(work)
<1>1. Calling("match")
  BY DEF MatchVariable, MatchEquals, MatchArray, MatchObject, MatchUnsupported
<1>2. /\ c.l \in Operands /\ c.r \in Operands /\ c \in Calls
      /\ phase = "resolve" /\ work # <<>>
  BY <1>1, CallFacts
<1>3. c.r.var \in Vars /\ Len(c.l.elems) \in Nat
  BY <1>2, OperandTyped
<1>4. CASE MatchVariable
  <2>1. Succeed(Give(c.l.var, c.l, c.r))
    BY <1>4 DEF MatchVariable
  <2> QED BY <1>1, <1>2, <2>1, GiveTInv
<1>5. CASE MatchEquals
  <2>1. Succeed(<<Equals(c.l, c.r)>>)
    BY <1>5 DEF MatchEquals
  <2> QED BY <1>1, <1>2, <2>1, EqualsTInv
<1>6. CASE MatchArray \/ MatchObject
  <2> DEFINE a1 == IsArray(c.r.var, Len(c.l.elems))
             a2 == IsObject(c.r.var, Len(c.l.elems))
  <2>1. \/ Result(<<a1>>, Elements("fromarray", c), 0, FALSE)
        \/ c.l.kind = "object" /\ Result(<<a2>>, Elements("fromobject", c), 0, FALSE)
    BY <1>6 DEF MatchArray, MatchObject
  <2>2. a1 \in Literal /\ a2 \in Literal
    BY <1>2, <1>3, ElementLiteralsTyped
  <2>3. <<a1>> \in Seq(Literal) /\ <<a2>> \in Seq(Literal)
    <3> HIDE DEF a1, a2
    <3> QED BY <2>2
  <2>4. /\ Elements("fromarray", c) \in Seq(Calls)
        /\ c.l.kind = "object" => Elements("fromobject", c) \in Seq(Calls)
    BY <1>2, ElementsTyped
  <2> HIDE DEF a1, a2, c
  <2> QED BY <1>2, <2>1, <2>3, <2>4, ResultTInv
<1>7. CASE MatchUnsupported
  BY <1>1, <1>7, FailTInv DEF MatchUnsupported
<1> QED BY <1>4, <1>5, <1>6, <1>7

LEMMA AddElementTInv == TInv /\ AddElement => TInv'
<1> SUFFICES ASSUME TInv, AddElement PROVE TInv'
  OBVIOUS
<1> DEFINE c == Head(work)
           from == IF c.fn = "fromarray" THEN FromArray(Fresh, c.r.var, c.n)
                                         ELSE FromObject(Fresh, c.r.var, c.key)
           next == Call("match", c.l, VarTerm(Fresh), FALSE)
<1>1. PICK fn : Calling(fn)
  BY DEF AddElement
<1>2. /\ c.l \in Operands /\ c.r \in Operands /\ c.key \in Operands /\ c.n \in Nat
      /\ Fresh \in Vars /\ phase = "resolve" /\ work # <<>>
  BY <1>1, CallFacts
<1>3. c.r.var \in Vars
  BY <1>2, OperandTyped
<1>4. from \in Literal /\ Local(Fresh) \in Literal
  BY <1>2, <1>3, ElementLiteralsTyped, LiteralsTyped
<1>5. next \in Calls
  BY <1>2, VarTermTyped, CallTyped
<1>6. Result(<<Local(Fresh), from>>, <<next>>, 1, FALSE)
  BY DEF AddElement
<1> HIDE DEF from, next
<1>7. <<Local(Fresh), from>> \in Seq(Literal) /\ <<next>> \in Seq(Calls)
  BY <1>4, <1>5
<1> QED BY <1>2, <1>6, <1>7, ResultTInv

LEMMA ResolveCallTInv == TInv /\ ResolveCall => TInv'
BY AddTermsTInv, AddTermExprTInv, AddArrayArrayTInv, AddObjectObjectTInv, MatchStepTInv,
   AddElementTInv DEF ResolveCall

-----------------------------------------------------------------------------
(* A step that leaves the literals, the queue and the calls alone keeps    *)
(* everything but what it assigns.                                         *)
LEMMA AddCaptureTInv == TInv /\ AddCapture => TInv'
<1> SUFFICES ASSUME TInv, AddCapture PROVE TInv'
  OBVIOUS
<1> USE DEF TInv, AddCapture, Building
<1>1. lits \in Seq(Literal)
  BY DEF TypeOK
<1>2. PICK name \in Unproduced :
        lits' = Append(lits, CASE name[2] = "empty" -> Local(name[1])
                               [] name[2] = "val"   -> Capture(name[1])
                               [] OTHER -> Lit("Capture", {}, {name}, NoTerm, NoTerm))
  OBVIOUS
<1>3. name \in Names
  <2>1. PICK i \in 1..Len(lits) : name \in lits[i].in
    BY <1>2 DEF Unproduced
  <2>2. lits[i] \in Literal
    BY <1>1, <2>1
  <2> QED BY <2>1, <2>2 DEF Literal
<1>4. name[1] \in Vars
  BY <1>3, VarFacts
<1>5. /\ Local(name[1]) \in Literal /\ Capture(name[1]) \in Literal
      /\ Lit("Capture", {}, {name}, NoTerm, NoTerm) \in Literal
  <2>1. {name} \in SUBSET Names /\ {} \in SUBSET Names /\ NoTerm \in Operands
    BY <1>3, VarTermTyped, VarFacts
  <2> QED BY <1>4, <2>1, LiteralsTyped, VarTermTyped, LitTyped DEF Declarations
<1>6. PICK new \in Literal : lits' = Append(lits, new)
  BY <1>2, <1>5
<1>7. lits' \in Seq(Literal) /\ Len(lits') = Len(lits) + 1
  <2> HIDE DEF AddCapture
  <2> QED BY <1>1, <1>6
<1>8. Untouched /\ Untouched'
  BY DEF Untouched, sorting
<1>9. TypeOK'
  BY <1>7, <1>8 DEF TypeOK, Untouched, building
<1>10. Placed'
  <2>1. body \in Body /\ body' = body /\ pos' = pos
    BY DEF TypeOK, building
  <2>2. NeedsSort' = NeedsSort
    BY <2>1 DEF NeedsSort
  <2>3. Len(lits) \in Nat /\ Len(body.locals) \in Nat /\ pos \in Nat
    BY <1>1, <2>1 DEF Body, TypeOK
  <2> QED BY <1>7, <2>1, <2>2, <2>3 DEF Placed
<1> QED BY <1>8, <1>9, <1>10 DEF Produced

(***************************************************************************)
(* Once every name has a producer, find_graphs follows an edge only to a   *)
(* literal that exists.                                                    *)
(***************************************************************************)
LEMMA NeighboursInRange ==
    ASSUME TInv, phase \in {"graphs", "sort"}
    PROVE  \A i \in 1..Len(lits) : Neighbours(i) \subseteq 1..Len(lits)
<1>1. lits \in Seq(Literal) /\ Len(lits) \in Nat /\ Unproduced = {}
  BY DEF TInv, TypeOK, Produced
<1> SUFFICES ASSUME NEW i \in 1..Len(lits) PROVE Neighbours(i) \subseteq 1..Len(lits)
  OBVIOUS
<1>2. \A name : Consumers(name) \subseteq 1..Len(lits)
  BY DEF Consumers
<1>3. ASSUME NEW name \in lits[i].in PROVE InEdge(name) \in 1..Len(lits)
  <2>1. Producers(name) # {}
    BY <1>1 DEF Unproduced, IsAssigned
  <2>2. Producers(name) \in SUBSET (1..Len(lits))
    BY DEF Producers
  <2>3. \E j \in Producers(name) : \A k \in Producers(name) : k <= j
    <3> HIDE DEF Producers
    <3> QED BY <1>1, <2>1, <2>2, LargestExists
  <2>4. InEdge(name) \in Producers(name)
    BY <2>3 DEF InEdge
  <2> QED BY <2>2, <2>4
<1>4. /\ \A name \in lits[i].in : Consumers(name) \cup {InEdge(name)} \subseteq 1..Len(lits)
      /\ \A name \in lits[i].out : Consumers(name) \subseteq 1..Len(lits)
  BY <1>2, <1>3
<1> QED BY <1>4 DEF Neighbours

(* What the steps of find_graphs and of the sort keep.                     *)
LEMMA SortingTInv ==
    ASSUME TInv, UNCHANGED <<lits, building>>, phase # "locals",
           phase' \notin {"locals", "nodes", "resolve", "captures"},
           phase' \in {"graphs", "sort", "done", "error", "threw"},
           pos = Len(body.nodes),
           phase' \in {"graphs", "sort"} => Unproduced = {},
           xs' \in 0..Len(lits), graph' \subseteq 1..Len(lits),
           graphs' \in Seq(SUBSET (1..Len(lits))),
           frontier' \in Seq(1..Len(lits)), trail' \in Seq(1..Len(lits)),
           bound' \subseteq Names, ordered' \in Seq(1..Len(lits))
    PROVE  TInv'
<1>1. TypeOK /\ Placed
  BY DEF TInv
<1>2. UNCHANGED <<body, pos, queue, round, size, current, work, fresh, dropped>>
  BY DEF building
<1>3. TypeOK'
  BY <1>1, <1>2 DEF TypeOK
<1>4. Unproduced' = Unproduced /\ NeedsSort' = NeedsSort
  BY <1>2 DEF Unproduced, NeedsSort, IsAssigned, Producers
<1>5. Placed'
  BY <1>1, <1>2, <1>4 DEF Placed
<1> QED BY <1>3, <1>4, <1>5 DEF TInv, Building, Produced

LEMMA SortedTypes ==
    ASSUME TInv
    PROVE  /\ lits \in Seq(Literal) /\ Len(lits) \in Nat
           /\ xs \in 0..Len(lits) /\ graph \subseteq 1..Len(lits)
           /\ graphs \in Seq(SUBSET (1..Len(lits)))
           /\ frontier \in Seq(1..Len(lits)) /\ trail \in Seq(1..Len(lits))
           /\ bound \subseteq Names /\ ordered \in Seq(1..Len(lits))
           /\ phase \notin {"locals", "nodes"} => pos = Len(body.nodes)
           /\ phase \in {"graphs", "sort"} => Unproduced = {}
           /\ \A i \in 1..Len(lits) : lits[i].in \subseteq Names /\ lits[i].out \subseteq Names
<1>1. lits \in Seq(Literal)
  BY DEF TInv, TypeOK
<1>2. \A i \in 1..Len(lits) : lits[i] \in Literal
  BY <1>1
<1>3. \A i \in 1..Len(lits) : lits[i].in \subseteq Names /\ lits[i].out \subseteq Names
  BY <1>2 DEF Literal
<1>4. /\ phase \notin {"locals", "nodes"} => pos = Len(body.nodes)
      /\ phase \in {"graphs", "sort"} => Unproduced = {}
  BY DEF TInv, Placed, Produced
<1> QED BY <1>1, <1>3, <1>4 DEF TInv, TypeOK

LEMMA GraphsTInv ==
    ASSUME TInv, CapturesAdded \/ StartGraph \/ GrowGraph \/ CloseGraph
    PROVE  TInv'
<1>1. CASE CapturesAdded
  BY <1>1, SortedTypes, SortingTInv DEF CapturesAdded
<1>2. CASE StartGraph
  BY <1>2, SortedTypes, SortingTInv DEF StartGraph
<1>3. CASE GrowGraph
  <2>1. Reached \subseteq 1..Len(lits)
    BY <1>3, SortedTypes, NeighboursInRange DEF GrowGraph, Reached
  <2> QED BY <1>3, <2>1, SortedTypes, SortingTInv DEF GrowGraph
<1>4. CASE CloseGraph
  <2>1. Append(graphs, graph) \in Seq(SUBSET (1..Len(lits)))
    BY SortedTypes
  <2> QED BY <1>4, <2>1, SortedTypes, SortingTInv DEF CloseGraph
<1> QED BY <1>1, <1>2, <1>3, <1>4

LEMMA OutcomeTInv ==
    ASSUME TInv, KeepOrder \/ ReportCycle \/ StartSort \/ Sorted
    PROVE  TInv'
<1>1. CASE KeepOrder
  <2> DEFINE kept == [k \in 1..Len(body.nodes) |-> Len(body.locals) + k]
  <2>1. body \in Body /\ Len(lits) >= Len(body.locals) + Len(body.nodes)
    BY <1>1, SortedTypes DEF TInv, TypeOK, Placed, KeepOrder
  <2>2. Len(body.locals) \in Nat /\ Len(body.nodes) \in Nat
    BY <2>1 DEF Body
  <2>3. \A k \in 1..Len(body.nodes) : Len(body.locals) + k \in 1..Len(lits)
    <3>1. Len(lits) \in Nat
      BY SortedTypes
    <3>2. \A a, b, n \in Nat : n >= a + b => \A k \in 1..b : a + k \in 1..n
      OBVIOUS
    <3>3. Len(lits) >= Len(body.locals) + Len(body.nodes)
      BY <2>1
    <3> QED BY <2>2, <3>1, <3>2, <3>3
  <2>4. kept \in Seq(1..Len(lits))
    BY <2>2, <2>3
  <2> QED BY <1>1, <2>4, SortedTypes, SortingTInv DEF KeepOrder
<1>2. CASE ReportCycle
  BY <1>2, SortedTypes, SortingTInv DEF ReportCycle, sorting
<1>3. CASE StartSort
  BY <1>3, SortedTypes, SortingTInv DEF StartSort, sorting
<1>4. CASE Sorted
  BY <1>4, SortedTypes, SortingTInv DEF Sorted, sorting
<1> QED BY <1>1, <1>2, <1>3, <1>4

(***************************************************************************)
(* The queue of topological_sort holds literals that exist.                *)
(***************************************************************************)
Waits(new, names) ==
  {i \in 1..Len(lits) : lits[i].in \cap new # {} /\ lits[i].in \subseteq names}

LEMMA ReadyInRange ==
    ASSUME TInv, NEW new, NEW names
    PROVE  /\ Ready(new, names) \in Seq(1..Len(lits))
           /\ Entries(Ready(new, names)) = Waits(new, names)
<1>1. /\ Waits(new, names) \in SUBSET (1..Len(lits)) /\ Len(lits) \in Nat
      /\ Ready(new, names) = InOrder(Waits(new, names))
  BY SortedTypes DEF Ready, Waits
<1>2. InOrder(Waits(new, names)) \in Seq(1..Len(lits))
  BY <1>1, InOrderLists
<1>3. Entries(InOrder(Waits(new, names))) = Waits(new, names)
  BY <1>1, OrderEntries
<1> QED BY <1>1, <1>2, <1>3

LEMMA NextGraphTInv == TInv /\ NextGraph => TInv'
<1> SUFFICES ASSUME TInv, NextGraph PROVE TInv'
  OBVIOUS
<1>1. PICK k \in DOMAIN graphs :
        /\ graph' = graphs[k]
        /\ graphs' = [j \in 1..Len(graphs) - 1 |-> graphs[IF j < k THEN j ELSE j + 1]]
        /\ frontier' = InOrder({i \in graphs[k] : lits[i].in = {}})
  BY DEF NextGraph
<1> DEFINE Index == 1..Len(lits)
<1>2. graphs \in Seq(SUBSET Index) /\ Len(lits) \in Nat
  BY SortedTypes
<1>3. graph' \subseteq Index
  <2> HIDE DEF Index
  <2> QED BY <1>1, <1>2
<1>4. graphs' \in Seq(SUBSET Index)
  <2>1. Len(graphs) \in Nat /\ Len(graphs) - 1 \in Nat /\ DOMAIN graphs = 1..Len(graphs)
    <3> HIDE DEF Index
    <3> QED BY <1>1, <1>2
  <2>2. ASSUME NEW j \in 1..Len(graphs) - 1
        PROVE  graphs[IF j < k THEN j ELSE j + 1] \in SUBSET Index
    <3>1. (IF j < k THEN j ELSE j + 1) \in 1..Len(graphs)
      BY <2>1
    <3> HIDE DEF Index
    <3> QED BY <1>2, <3>1
  <2> HIDE DEF Index
  <2> QED BY <1>1, <2>1, <2>2
<1>5. frontier' \in Seq(Index)
  <2> DEFINE S == {i \in graphs[k] : lits[i].in = {}}
  <2>1. S \in SUBSET Index
    BY <1>1, <1>3
  <2> HIDE DEF S
  <2>2. InOrder(S) \in Seq(Index)
    BY <1>2, <2>1, InOrderLists
  <2> QED BY <1>1, <2>2 DEF S
<1>6. trail' = <<>> /\ bound' = {} /\ phase = "sort" /\ UNCHANGED <<phase, lits, building, xs, ordered>>
  BY DEF NextGraph
<1> QED BY <1>3, <1>4, <1>5, <1>6, SortedTypes, SortingTInv

LEMMA TraverseTInv ==
    ASSUME TInv, SkipLiteral \/ GraphSorted
    PROVE  TInv'
<1>1. CASE SkipLiteral
  <2>1. Tail(frontier) \in Seq(1..Len(lits))
    BY <1>1, SortedTypes DEF SkipLiteral
  <2> QED BY <1>1, <2>1, SortedTypes, SortingTInv DEF SkipLiteral
<1>2. CASE GraphSorted
  BY <1>2, SortedTypes, SortingTInv DEF GraphSorted
<1> QED BY <1>1, <1>2

(* What a visit appends to the queue.                                      *)
LEMMA VisitFrontier ==
    ASSUME TInv, VisitLiteral
    PROVE  LET i == Head(frontier)  out == lits[i].out  names == bound \cup out IN
           /\ i \in 1..Len(lits) /\ frontier # <<>> /\ Tail(frontier) \in Seq(1..Len(lits))
           /\ \/ out = {} /\ frontier' = Tail(frontier)
              \/ \E name \in out :
                   frontier' = Tail(frontier) \o Ready({name}, names)
                                              \o Ready(out \ {name}, names)
           /\ frontier' \in Seq(1..Len(lits))
<1> DEFINE i == Head(frontier)
           out == lits[i].out
           names == bound \cup out
           Index == 1..Len(lits)
<1>1. frontier \in Seq(Index) /\ frontier # <<>>
  BY SortedTypes DEF VisitLiteral
<1>2. i \in Index /\ Tail(frontier) \in Seq(Index)
  <2> HIDE DEF Index
  <2> QED BY <1>1
<1>3. \/ out = {} /\ frontier' = Tail(frontier)
      \/ \E name \in out :
           frontier' = Tail(frontier) \o Ready({name}, names) \o Ready(out \ {name}, names)
  BY DEF VisitLiteral
<1>4. \A new : Ready(new, names) \in Seq(Index)
  BY ReadyInRange
<1>5. frontier' \in Seq(Index)
  <2> HIDE DEF Index, out, names
  <2>1. \A name : Tail(frontier) \o Ready({name}, names) \o Ready(out \ {name}, names) \in Seq(Index)
    BY <1>2, <1>4
  <2> QED BY <1>2, <1>3, <2>1
<1> QED BY <1>1, <1>2, <1>3, <1>5

LEMMA VisitTInv == TInv /\ VisitLiteral => TInv'
<1> SUFFICES ASSUME TInv, VisitLiteral PROVE TInv'
  OBVIOUS
<1> DEFINE i == Head(frontier)
<1>1. i \in 1..Len(lits) /\ frontier' \in Seq(1..Len(lits))
  BY VisitFrontier
<1>2. lits[i].out \subseteq Names
  BY <1>1, SortedTypes
<1>3. /\ trail' = Append(trail, i) /\ bound' = bound \cup lits[i].out
      /\ ordered' = ordered \/ ordered' = Append(ordered, i)
      /\ phase = "sort" /\ UNCHANGED <<phase, lits, building, xs, graph, graphs>>
  BY DEF VisitLiteral
<1> HIDE DEF i
<1>4. trail' \in Seq(1..Len(lits)) /\ ordered' \in Seq(1..Len(lits))
  <2> DEFINE Index == 1..Len(lits)
  <2>1. trail \in Seq(Index) /\ ordered \in Seq(Index) /\ i \in Index
    BY <1>1, SortedTypes
  <2> HIDE DEF Index
  <2>2. trail' \in Seq(Index) /\ ordered' \in Seq(Index)
    BY <1>3, <2>1
  <2> QED BY <2>2 DEF Index
<1> QED BY <1>1, <1>2, <1>3, <1>4, SortedTypes, SortingTInv

(***************************************************************************)
(* What the steps before find_graphs leave alone.                          *)
(***************************************************************************)
Resolve(phaseAfter) == phase = "resolve" /\ phase' = phaseAfter /\ UNCHANGED sorting

LEMMA ResolveCallKeeps ==
    ResolveCall => Resolve("resolve") \/ Resolve("threw")
<1> SUFFICES ASSUME ResolveCall PROVE Resolve("resolve") \/ Resolve("threw")
  OBVIOUS
<1>1. \A add, calls, new, fail : Result(add, calls, new, fail) =>
        phase' = phase /\ UNCHANGED sorting
  BY DEF Result
<1>2. Throw => phase' = "threw" /\ UNCHANGED sorting
  BY DEF Throw
<1>3. \A fn : Calling(fn) => phase = "resolve"
  BY DEF Calling
<1>4. CASE AddUnifyVars \/ AddUnifyVarTerm \/ AddTermsVar \/ AddTermsCompr
           \/ AddTermsEquals \/ AddExprsUnsupported \/ MatchVariable \/ MatchEquals
           \/ MatchArray \/ MatchObject \/ MatchUnsupported \/ AddElement
  BY <1>1, <1>3, <1>4
     DEF AddUnifyVars, AddUnifyVarTerm, AddTermsVar, AddTermsCompr, AddTermsEquals,
         AddExprsUnsupported, MatchVariable, MatchEquals, MatchArray, MatchObject,
         MatchUnsupported, AddElement, Succeed, Fail, MatchVar, MatchFresh, Resolve
<1>5. CASE AddTermExpr
  BY <1>1, <1>3, <1>5 DEF AddTermExpr, Succeed, Fail, MatchFresh, Resolve
<1>6. CASE AddArrayArray \/ AddObjectObject
  BY <1>1, <1>2, <1>3, <1>6 DEF AddArrayArray, AddObjectObject, Succeed, Fail, Resolve
<1> QED BY <1>4, <1>5, <1>6 DEF ResolveCall

LEMMA BuildingKeeps ==
    ASSUME TInv,
           \/ AddRuleLocals \/ AddNode \/ AddExternalCapture \/ NodesAdded \/ StartRound
           \/ Pop \/ ResolveCall \/ EndResolve \/ AddCapture \/ CapturesAdded
    PROVE  Untouched /\ phase' # "sort" /\ UNCHANGED <<frontier, trail, bound>>
<1>1. CASE ResolveCall
  BY <1>1, ResolveCallKeeps DEF Resolve, sorting, TInv, Building
<1>2. CASE AddRuleLocals \/ AddNode \/ AddExternalCapture \/ NodesAdded \/ StartRound
           \/ Pop \/ EndResolve \/ AddCapture \/ CapturesAdded
  BY <1>2 DEF AddRuleLocals, AddNode, AddExternalCapture, NodesAdded, StartRound, Pop,
              Resolving, EndResolve, AddCapture, CapturesAdded, sorting, TInv, Building
<1> QED BY <1>1, <1>2

LEMMA BuildingTInv ==
    ASSUME TInv,
           \/ AddRuleLocals \/ AddNode \/ AddExternalCapture \/ NodesAdded \/ StartRound
           \/ Pop \/ ResolveCall \/ EndResolve \/ AddCapture \/ CapturesAdded
    PROVE  TInv'
BY AddRuleLocalsTInv, AddNodeTInv, CaptureTInv, ConstructorTInv, ResolveCallTInv,
   AddCaptureTInv, GraphsTInv

LEMMA NextTInv == TInv /\ [Next]_vars => TInv'
<1> SUFFICES ASSUME TInv, [Next]_vars PROVE TInv'
  OBVIOUS
<1>1. CASE UNCHANGED vars \/ Finished
  BY <1>1 DEF vars, building, sorting, Finished, TInv, TypeOK, Building, Untouched, Placed,
              Produced, NeedsSort, Unproduced, IsAssigned, Producers
<1>2. CASE Next /\ ~Finished
  BY <1>2, BuildingTInv, GraphsTInv, OutcomeTInv, NextGraphTInv, TraverseTInv, VisitTInv
     DEF Next
<1> QED BY <1>1, <1>2

(***************************************************************************)
(* For every set of bodies: the literals, the queues and the indices into  *)
(* m_literals that the graph keeps stay well formed.                       *)
(***************************************************************************)
THEOREM TypeCorrect == Spec => []TypeOK
<1>1. TInv => TypeOK
  BY DEF TInv
<1> QED BY <1>1, InitTInv, NextTInv, PTL DEF Spec

-----------------------------------------------------------------------------
(***************************************************************************)
(* The invariant of topological_sort: what is bound was produced by a      *)
(* literal already visited, what waits in the queue has all it needs, and  *)
(* what has all it needs was visited or waits in the queue.                *)
(***************************************************************************)
NotBegun == phase = "graphs" => frontier = <<>> /\ trail = <<>> /\ bound = {}

BoundTraced ==
  \A name \in bound : \E j \in DOMAIN trail : name \in lits[trail[j]].out

FrontierReady == \A i \in Entries(frontier) : lits[i].in \subseteq bound

NoneForgotten ==
  phase = "sort" =>
    \A i \in graph : lits[i].in \subseteq bound
                      => i \in Seen \cup Entries(frontier)

SortInv == NotBegun /\ BoundTraced /\ FrontierReady /\ NoneForgotten /\ OrderedBeforeUse

(* Before the sort, and when a graph begins, nothing was visited.          *)
LEMMA QuietSort ==
    ASSUME frontier' = <<>>, trail' = <<>>, bound' = {},
           phase' = "sort" => graph' = {}
    PROVE  SortInv'
BY DEF SortInv, NotBegun, BoundTraced, FrontierReady, NoneForgotten, OrderedBeforeUse, Entries

(* What the queue lists after a removal and after additions.                *)
LEMMA HeadTailEntries ==
    ASSUME NEW S, NEW s \in Seq(S), s # <<>>
    PROVE  /\ Entries(s) = {Head(s)} \cup Entries(Tail(s))
           /\ Head(s) \in S /\ Tail(s) \in Seq(S)
<1>1. /\ Len(s) \in Nat /\ Len(s) > 0 /\ DOMAIN s = 1..Len(s) /\ Head(s) = s[1]
      /\ DOMAIN Tail(s) = 1..Len(s) - 1 /\ \A n \in 1..Len(s) - 1 : Tail(s)[n] = s[n + 1]
  OBVIOUS
<1>2. ASSUME NEW k \in 1..Len(s), k # 1
      PROVE  \E n \in 1..Len(s) - 1 : Tail(s)[n] = s[k]
  <2>1. k - 1 \in 1..Len(s) - 1 /\ (k - 1) + 1 = k
    BY <1>1, <1>2
  <2>2. Tail(s)[k - 1] = s[(k - 1) + 1]
    BY <1>1, <2>1
  <2> QED BY <2>1, <2>2
<1>3. ASSUME NEW n \in 1..Len(s) - 1
      PROVE  \E k \in 1..Len(s) : s[k] = Tail(s)[n]
  <2>1. n + 1 \in 1..Len(s)
    BY <1>1
  <2> QED BY <1>1, <2>1
<1>4. 1 \in 1..Len(s)
  BY <1>1
<1>5. Entries(s) \subseteq {Head(s)} \cup Entries(Tail(s))
  <2> SUFFICES ASSUME NEW k \in 1..Len(s) PROVE s[k] \in {Head(s)} \cup Entries(Tail(s))
    BY <1>1 DEF Entries
  <2>1. CASE k = 1
    BY <1>1, <2>1
  <2>2. CASE k # 1
    <3>1. PICK n \in 1..Len(s) - 1 : Tail(s)[n] = s[k]
      BY <1>2, <2>2
    <3>2. Tail(s)[n] \in Entries(Tail(s))
      BY <1>1 DEF Entries
    <3> QED BY <3>1, <3>2
  <2> QED BY <2>1, <2>2
<1>6. Entries(Tail(s)) \subseteq Entries(s)
  BY <1>1, <1>3 DEF Entries
<1>7. Head(s) \in Entries(s)
  BY <1>1, <1>4 DEF Entries
<1>8. Head(s) \in S /\ Tail(s) \in Seq(S)
  OBVIOUS
<1> QED BY <1>5, <1>6, <1>7, <1>8

LEMMA ConcatEntries ==
    ASSUME NEW S, NEW s \in Seq(S), NEW t \in Seq(S)
    PROVE  s \o t \in Seq(S) /\ Entries(s \o t) = Entries(s) \cup Entries(t)
<1> DEFINE c == s \o t
<1>1. /\ Len(s) \in Nat /\ Len(t) \in Nat /\ c \in Seq(S)
      /\ DOMAIN s = 1..Len(s) /\ DOMAIN t = 1..Len(t)
      /\ DOMAIN c = 1..Len(s) + Len(t)
      /\ \A k \in 1..Len(s) + Len(t) : c[k] = IF k <= Len(s) THEN s[k] ELSE t[k - Len(s)]
  OBVIOUS
<1> HIDE DEF c
<1>2. ASSUME NEW k \in DOMAIN c PROVE c[k] \in Entries(s) \cup Entries(t)
  <2>1. CASE k <= Len(s)
    <3>1. k \in 1..Len(s)
      BY <1>1, <2>1
    <3> QED BY <1>1, <2>1, <3>1 DEF Entries
  <2>2. CASE ~(k <= Len(s))
    <3>1. k - Len(s) \in 1..Len(t)
      BY <1>1, <2>2
    <3>2. c[k] = t[k - Len(s)]
      BY <1>1, <2>2
    <3> QED BY <1>1, <3>1, <3>2 DEF Entries
  <2> QED BY <2>1, <2>2
<1>3. ASSUME NEW n \in DOMAIN s PROVE s[n] \in Entries(c)
  <2>1. n \in 1..Len(s) + Len(t) /\ n <= Len(s)
    BY <1>1
  <2> QED BY <1>1, <2>1 DEF Entries
<1>4. ASSUME NEW n \in DOMAIN t PROVE t[n] \in Entries(c)
  <2>1. n + Len(s) \in 1..Len(s) + Len(t) /\ ~(n + Len(s) <= Len(s)) /\ (n + Len(s)) - Len(s) = n
    BY <1>1
  <2>2. c[n + Len(s)] = t[n]
    BY <1>1, <2>1
  <2> QED BY <1>1, <2>1, <2>2 DEF Entries
<1>5. Entries(c) = Entries(s) \cup Entries(t)
  <2>1. Entries(c) \subseteq Entries(s) \cup Entries(t)
    BY <1>2 DEF Entries
  <2>2. Entries(s) \subseteq Entries(c)
    BY <1>3 DEF Entries
  <2>3. Entries(t) \subseteq Entries(c)
    BY <1>4 DEF Entries
  <2> QED BY <2>1, <2>2, <2>3
<1> QED BY <1>1, <1>5 DEF c

LEMMA NextGraphSortInv == TInv /\ NextGraph => SortInv'
<1> SUFFICES ASSUME TInv, NextGraph PROVE SortInv'
  OBVIOUS
<1>1. PICK k \in DOMAIN graphs :
        graph' = graphs[k] /\ frontier' = InOrder({i \in graphs[k] : lits[i].in = {}})
  BY DEF NextGraph
<1> DEFINE S == {i \in graphs[k] : lits[i].in = {}}
<1>2. Len(lits) \in Nat /\ S \in SUBSET (1..Len(lits))
  <2> DEFINE I == 1..Len(lits)
  <2>1. graphs \in Seq(SUBSET I)
    BY SortedTypes
  <2>2. graphs[k] \in SUBSET I
    <3> HIDE DEF I
    <3> QED BY <2>1
  <2> QED BY <2>2, SortedTypes
<1>3. Entries(frontier') = S
  <2> HIDE DEF S
  <2>1. Entries(InOrder(S)) = S
    BY <1>2, OrderEntries
  <2> QED BY <1>1, <2>1 DEF S
<1>4. trail' = <<>> /\ bound' = {} /\ phase' = "sort" /\ lits' = lits
  BY DEF NextGraph
<1>5. FrontierReady'
  BY <1>3, <1>4 DEF FrontierReady, Entries
<1>6. NoneForgotten'
  BY <1>1, <1>3, <1>4 DEF NoneForgotten, Entries
<1> QED BY <1>4, <1>5, <1>6 DEF SortInv, NotBegun, BoundTraced, OrderedBeforeUse

LEMMA SkipSortInv == TInv /\ SortInv /\ SkipLiteral => SortInv'
<1> SUFFICES ASSUME TInv, SortInv, SkipLiteral PROVE SortInv'
  OBVIOUS
<1>1. /\ frontier # <<>> /\ Head(frontier) \in Seen /\ frontier' = Tail(frontier)
      /\ UNCHANGED <<phase, lits, graph, trail, bound>>
  BY DEF SkipLiteral
<1>2. Entries(frontier) = {Head(frontier)} \cup Entries(frontier')
  BY <1>1, SortedTypes, HeadTailEntries
<1>3. Entries(frontier)' = Entries(frontier') /\ Seen' = Seen
  BY <1>1 DEF Entries, Seen
<1>4. FrontierReady'
  BY <1>1, <1>2, <1>3 DEF SortInv, FrontierReady
<1>5. NoneForgotten'
  BY <1>1, <1>2, <1>3 DEF SortInv, NoneForgotten
<1> QED BY <1>1, <1>4, <1>5 DEF SortInv, NotBegun, BoundTraced, OrderedBeforeUse

(* After a visit the queue lists what it did and what the visit completes.  *)
LEMMA VisitEntries ==
    ASSUME TInv, VisitLiteral
    PROVE  LET i == Head(frontier)  out == lits[i].out  names == bound \cup out IN
           /\ Entries(frontier) = {i} \cup Entries(Tail(frontier))
           /\ Entries(frontier') = Entries(Tail(frontier)) \cup Waits(out, names)
<1> DEFINE I == 1..Len(lits)
           v == Head(frontier)
           out == lits[v].out
           names == bound \cup out
           rest == Tail(frontier)
<1>1. v \in I /\ frontier # <<>> /\ rest \in Seq(I) /\ frontier \in Seq(I)
  BY VisitFrontier, SortedTypes
<1>2. Entries(frontier) = {v} \cup Entries(rest)
  BY <1>1, SortedTypes, HeadTailEntries
<1>3. Entries(frontier') = Entries(rest) \cup Waits(out, names)
  <2> HIDE DEF rest, out, names, I
  <2>1. CASE out = {} /\ frontier' = rest
    BY <2>1 DEF Waits
  <2>2. CASE \E name \in out :
               frontier' = rest \o Ready({name}, names) \o Ready(out \ {name}, names)
    <3>1. PICK name \in out :
            frontier' = rest \o Ready({name}, names) \o Ready(out \ {name}, names)
      BY <2>2
    <3> DEFINE a == Ready({name}, names)
               b == Ready(out \ {name}, names)
    <3>2. /\ a \in Seq(I) /\ Entries(a) = Waits({name}, names)
          /\ b \in Seq(I) /\ Entries(b) = Waits(out \ {name}, names)
      BY ReadyInRange DEF I
    <3>3. Waits(out, names) = Waits({name}, names) \cup Waits(out \ {name}, names)
      BY DEF Waits
    <3> HIDE DEF a, b
    <3>4. rest \o a \in Seq(I) /\ Entries(rest \o a) = Entries(rest) \cup Entries(a)
      BY <1>1, <3>2, ConcatEntries
    <3> DEFINE p == rest \o a
    <3>5. p \in Seq(I) /\ Entries(p) = Entries(rest) \cup Entries(a)
      BY <3>4
    <3>6. frontier' = p \o b
      BY <3>1 DEF a, b
    <3> HIDE DEF p
    <3>7. Entries(p \o b) = Entries(p) \cup Entries(b)
      <4>1. p \in Seq(I) /\ b \in Seq(I)
        BY <3>2, <3>5
      <4> QED BY <4>1, ConcatEntries
    <3> QED BY <3>2, <3>3, <3>5, <3>6, <3>7
  <2>3. \/ out = {} /\ frontier' = rest
        \/ \E name \in out : frontier' = rest \o Ready({name}, names) \o Ready(out \ {name}, names)
    BY VisitFrontier DEF rest, out, names
  <2> QED BY <2>1, <2>2, <2>3
<1> QED BY <1>2, <1>3

LEMMA VisitSortInv == TInv /\ SortInv /\ VisitLiteral => SortInv'
<1> SUFFICES ASSUME TInv, SortInv, VisitLiteral PROVE SortInv'
  OBVIOUS
<1> DEFINE I == 1..Len(lits)
           v == Head(frontier)
           out == lits[v].out
           names == bound \cup out
           rest == Tail(frontier)
<1>1. /\ phase = "sort" /\ UNCHANGED <<phase, lits, graph>>
      /\ trail' = Append(trail, v) /\ bound' = names
  BY DEF VisitLiteral
<1>2. /\ v \in I /\ frontier # <<>> /\ rest \in Seq(I) /\ frontier \in Seq(I) /\ trail \in Seq(I)
      /\ Len(trail) \in Nat
  BY VisitFrontier, SortedTypes
<1>3. Entries(frontier) = {v} \cup Entries(rest)
  BY VisitEntries
<1>4. lits[v].in \subseteq bound
  BY <1>3 DEF SortInv, FrontierReady
<1>5. /\ Len(trail') = Len(trail) + 1 /\ trail'[Len(trail) + 1] = v
      /\ DOMAIN trail = 1..Len(trail) /\ DOMAIN trail' = 1..Len(trail) + 1
      /\ \A j \in 1..Len(trail) : trail'[j] = trail[j]
  <2> HIDE DEF I, v
  <2> QED BY <1>1, <1>2
<1>6. BoundTraced'
  <2> SUFFICES ASSUME NEW name \in names
               PROVE  \E j \in DOMAIN trail' : name \in lits[trail'[j]].out
    BY <1>1 DEF BoundTraced
  <2>1. CASE name \in out
    <3>1. Len(trail) + 1 \in DOMAIN trail'
      BY <1>2, <1>5
    <3> QED BY <1>5, <2>1, <3>1
  <2>2. CASE name \in bound
    <3>1. PICK j \in DOMAIN trail : name \in lits[trail[j]].out
      BY <2>2 DEF SortInv, BoundTraced
    <3>2. j \in DOMAIN trail' /\ trail'[j] = trail[j]
      BY <1>2, <1>5
    <3> QED BY <3>1, <3>2
  <2> QED BY <2>1, <2>2
<1>7. OrderedBeforeUse'
  <2> SUFFICES ASSUME NEW k \in DOMAIN trail', NEW name \in lits[trail'[k]].in
               PROVE  \E j \in 1..(k - 1) : name \in lits[trail'[j]].out
    BY <1>1 DEF OrderedBeforeUse
  <2>1. k \in 1..Len(trail) \/ k = Len(trail) + 1
    BY <1>2, <1>5
  <2>2. CASE k \in 1..Len(trail)
    <3>1. name \in lits[trail[k]].in
      BY <1>5, <2>2
    <3>2. PICK j \in 1..(k - 1) : name \in lits[trail[j]].out
      BY <1>5, <2>2, <3>1 DEF SortInv, OrderedBeforeUse
    <3>3. j \in 1..Len(trail)
      BY <1>2, <2>2, <3>2
    <3> QED BY <1>5, <3>2, <3>3
  <2>3. CASE k = Len(trail) + 1
    <3>1. name \in bound
      BY <1>4, <1>5, <2>3
    <3>2. PICK j \in DOMAIN trail : name \in lits[trail[j]].out
      BY <3>1 DEF SortInv, BoundTraced
    <3>3. j \in 1..(k - 1) /\ trail'[j] = trail[j]
      BY <1>2, <1>5, <2>3
    <3> QED BY <3>2, <3>3
  <2> QED BY <2>1, <2>2, <2>3
<1>8. Entries(frontier') = Entries(rest) \cup Waits(out, names)
  BY VisitEntries
<1>9. Entries(frontier)' = Entries(frontier') /\ Seen \cup {v} \subseteq Seen'
  <2>1. Len(trail) + 1 \in DOMAIN trail' /\ \A j \in 1..Len(trail) : j \in DOMAIN trail'
    BY <1>2, <1>5
  <2>2. v \in Seen'
    BY <1>5, <2>1 DEF Seen
  <2>3. \A j \in Seen : j \in Seen'
    BY <1>5, <2>1 DEF Seen
  <2> QED BY <2>2, <2>3 DEF Entries
<1>10. FrontierReady'
  <2>1. \A i \in Entries(rest) : lits[i].in \subseteq names
    BY <1>3 DEF SortInv, FrontierReady
  <2>2. \A i \in Waits(out, names) : lits[i].in \subseteq names
    BY DEF Waits
  <2> QED BY <1>1, <1>8, <1>9, <2>1, <2>2 DEF FrontierReady
<1>11. NoneForgotten'
  <2> SUFFICES ASSUME NEW i \in graph, lits[i].in \subseteq names
               PROVE  i \in Seen' \cup Entries(frontier')
    BY <1>1, <1>9 DEF NoneForgotten
  <2>1. CASE lits[i].in \subseteq bound
    BY <1>1, <1>3, <1>8, <1>9, <2>1 DEF SortInv, NoneForgotten
  <2>2. CASE ~(lits[i].in \subseteq bound)
    <3>1. i \in 1..Len(lits)
      BY SortedTypes
    <3>2. i \in Waits(out, names)
      BY <2>2, <3>1 DEF Waits
    <3> QED BY <1>8, <3>2
  <2> QED BY <2>1, <2>2
<1> QED BY <1>1, <1>6, <1>7, <1>10, <1>11 DEF SortInv, NotBegun

LEMMA NextSortInv == TInv /\ SortInv /\ [Next]_vars => SortInv'
<1> SUFFICES ASSUME TInv, SortInv, [Next]_vars PROVE SortInv'
  OBVIOUS
<1>1. CASE UNCHANGED vars \/ Finished
  BY <1>1 DEF vars, sorting, building, Finished, SortInv, NotBegun, BoundTraced, FrontierReady,
              NoneForgotten, OrderedBeforeUse, Seen, Entries
<1>2. CASE \/ AddRuleLocals \/ AddNode \/ AddExternalCapture \/ NodesAdded \/ StartRound
           \/ Pop \/ ResolveCall \/ EndResolve \/ AddCapture \/ CapturesAdded
  BY <1>2, BuildingKeeps, QuietSort DEF Untouched
<1>3. CASE StartGraph \/ GrowGraph \/ CloseGraph \/ KeepOrder \/ ReportCycle \/ StartSort
  BY <1>3, QuietSort
     DEF StartGraph, GrowGraph, CloseGraph, KeepOrder, ReportCycle, StartSort, sorting,
         SortInv, NotBegun
<1>4. CASE GraphSorted \/ Sorted
  BY <1>4 DEF GraphSorted, Sorted, sorting, SortInv, NotBegun, BoundTraced, FrontierReady,
              NoneForgotten, OrderedBeforeUse, Entries, Seen
<1> QED
  BY <1>1, <1>2, <1>3, <1>4, NextGraphSortInv, SkipSortInv, VisitSortInv DEF Next

LEMMA SortInvariant == Spec => [](TInv /\ SortInv)
<1>1. Init => TInv /\ SortInv
  BY InitTInv DEF Init, SortInv, NotBegun, BoundTraced, FrontierReady, NoneForgotten,
                  OrderedBeforeUse, Entries
<1> QED BY <1>1, NextTInv, NextSortInv, PTL DEF Spec

(***************************************************************************)
(* For every set of bodies, whatever the terms: topological_sort visits a  *)
(* literal only after literals that produce every name it uses.            *)
(***************************************************************************)
THEOREM OrderCorrect == Spec => []OrderedBeforeUse
<1>1. TInv /\ SortInv => OrderedBeforeUse
  BY DEF SortInv
<1> QED BY <1>1, SortInvariant, PTL

(***************************************************************************)
(* For every set of bodies: when the queue of topological_sort is empty,   *)
(* each literal of the graph was visited or waits for a name that no       *)
(* visited literal produces.                                               *)
(***************************************************************************)
THEOREM NoneSkippedCorrect == Spec => []NoneSkipped
<1>1. TInv /\ SortInv => NoneSkipped
  BY DEF SortInv, NoneForgotten, NoneSkipped, Entries
<1> QED BY <1>1, SortInvariant, PTL
-----------------------------------------------------------------------------
(***************************************************************************)
(* The literals a body is turned into.  Each name has one producer, but    *)
(* for the marks of IsArray and IsObject, whose producers test the same    *)
(* variable; what the constructor assigns is neither taken from outside    *)
(* nor named like a fresh variable still to come.                          *)
(***************************************************************************)
Marks == {"array", "object"}
OutNames(s) == UNION {s[i].out : i \in DOMAIN s}

OnceIn(s) ==
  \A i, j \in DOMAIN s : i # j =>
    \A name \in s[i].out \cap s[j].out :
      name[2] \in Marks /\ Val(name[1]) \in s[i].in \cap s[j].in

MarksTested(s) ==
  \A i \in DOMAIN s : \A name \in s[i].out : name[2] \in Marks => Val(name[1]) \in s[i].in

FreshBelow(s, n) ==
  \A name \in OutNames(s) : name[1] \in {"fresh"} \X Nat /\ name[2] \notin Marks => name[1][2] < n

NoneTaken(s) ==
  \A i \in DOMAIN s : s[i].kind \in Emitted => \A v \in External : Val(v) \notin s[i].out

Fine(s, n) == OnceIn(s) /\ MarksTested(s) /\ FreshBelow(s, n) /\ NoneTaken(s)

(* While the nodes are added: who produces a name.                         *)
FromBody ==
  \A name \in OutNames(lits) :
    \/ name \in Declared(body)
    \/ \E k \in PlainNodes(body) : k <= pos /\ name \in GivenBy(body, k)
    \/ pos = Len(body.nodes) /\ \E v \in External : name = Val(v) /\ Captured(v)

(* A body that is not sorted is emitted as it came.                        *)
KeptPlain ==
  ~NeedsSort => \A i \in 1..Len(body.locals) + pos : \A v \in External : Val(v) \notin lits[i].out

NamesInv ==
  phase # "locals" =>
    /\ OnceIn(lits) /\ NoneTaken(lits) /\ KeptPlain
    /\ phase \in {"nodes", "resolve"} => Fine(lits, fresh)
    /\ phase = "nodes" => FromBody
    /\ phase # "nodes" => \A v \in External : Captured(v)

(***************************************************************************)
(* The subgraphs share no literal, each holds all the neighbours of what   *)
(* is in it, and the sort of one stays inside it.                          *)
(***************************************************************************)
Closed(g) == \A i \in g : Neighbours(i) \subseteq g

GraphsApart ==
  /\ \A k \in DOMAIN graphs : Closed(graphs[k]) /\ graph \cap graphs[k] = {}
  /\ \A j, k \in DOMAIN graphs : j # k => graphs[j] \cap graphs[k] = {}

SortInside ==
  phase = "sort" =>
    /\ Closed(graph) /\ Entries(frontier) \subseteq graph
    /\ Entries(ordered) \cap graph \subseteq Seen
    /\ \A k \in DOMAIN graphs : Entries(ordered) \cap graphs[k] = {}

OrderedOnce ==
  /\ \A j, k \in DOMAIN ordered : j # k => ordered[j] # ordered[k]
  /\ \A k \in DOMAIN ordered : \A v \in External : Val(v) \notin lits[ordered[k]].out
  /\ phase = "graphs" => ordered = <<>>

GraphInv == (phase \in {"graphs", "sort"} => GraphsApart) /\ SortInside /\ OrderedOnce

(* What the names of variables have in common.                             *)
LEMMA NameFacts ==
    ASSUME NEW v
    PROVE  /\ Val(v)[1] = v /\ Val(v)[2] = "val" /\ Empty(v)[1] = v /\ Empty(v)[2] = "empty"
           /\ <<v, "array">>[1] = v /\ <<v, "array">>[2] = "array"
           /\ <<v, "object">>[1] = v /\ <<v, "object">>[2] = "object"
           /\ \A u : Val(u) = Val(v) => u = v
BY DEF Val, Empty

(***************************************************************************)
(* A literal that gives no name twice, and is not a mistake of the kinds   *)
(* excluded above, can be added.                                           *)
(***************************************************************************)
LEMMA AddFine ==
    ASSUME NEW s \in Seq(Literal), NEW n \in Nat, NEW m \in Nat, n <= m, Fine(s, n),
           NEW l \in Literal,
           \A name \in l.out : name[2] \in Marks => Val(name[1]) \in l.in,
           \A name \in l.out : name[2] \notin Marks => name \notin OutNames(s),
           \A name \in l.out : name[1] \in {"fresh"} \X Nat /\ name[2] \notin Marks
                                 => name[1][2] < m,
           l.kind \in Emitted => \A v \in External : Val(v) \notin l.out
    PROVE  /\ Append(s, l) \in Seq(Literal) /\ Fine(Append(s, l), m)
           /\ OutNames(Append(s, l)) = OutNames(s) \cup l.out
<1> DEFINE t == Append(s, l)
           k == Len(s) + 1
<1>1. /\ t \in Seq(Literal) /\ Len(s) \in Nat /\ DOMAIN s = 1..Len(s) /\ DOMAIN t = 1..k
      /\ t[k] = l /\ \A i \in 1..Len(s) : t[i] = s[i]
  OBVIOUS
<1>2. \A i \in DOMAIN t : i = k \/ (i \in DOMAIN s /\ t[i] = s[i])
  BY <1>1
<1>3. k \in DOMAIN t /\ \A i \in DOMAIN s : i \in DOMAIN t
  BY <1>1
<1> HIDE DEF t, k
<1>4. OutNames(t) = OutNames(s) \cup l.out
  <2>1. \A name \in OutNames(t) : name \in OutNames(s) \cup l.out
    BY <1>1, <1>2 DEF OutNames
  <2>2. \A name \in OutNames(s) \cup l.out : name \in OutNames(t)
    BY <1>1, <1>2, <1>3 DEF OutNames
  <2> QED BY <2>1, <2>2
<1>5. OnceIn(t)
  <2> SUFFICES ASSUME NEW i \in DOMAIN t, NEW j \in DOMAIN t, i # j,
                      NEW name \in t[i].out \cap t[j].out
               PROVE  name[2] \in Marks /\ Val(name[1]) \in t[i].in \cap t[j].in
    BY DEF OnceIn
  <2>1. CASE i = k
    <3>1. j \in DOMAIN s /\ t[j] = s[j] /\ name \in s[j].out /\ name \in l.out
      BY <1>1, <1>2, <2>1
    <3>2. name \in OutNames(s)
      BY <3>1 DEF OutNames
    <3> QED BY <1>1, <2>1, <3>1, <3>2 DEF Fine, MarksTested
  <2>2. CASE j = k
    <3>1. i \in DOMAIN s /\ t[i] = s[i] /\ name \in s[i].out /\ name \in l.out
      BY <1>1, <1>2, <2>2
    <3>2. name \in OutNames(s)
      BY <3>1 DEF OutNames
    <3> QED BY <1>1, <2>2, <3>1, <3>2 DEF Fine, MarksTested
  <2>3. CASE i # k /\ j # k
    BY <1>2, <2>3 DEF Fine, OnceIn
  <2> QED BY <2>1, <2>2, <2>3
<1>6. MarksTested(t)
  BY <1>1, <1>2 DEF Fine, MarksTested
<1>7. FreshBelow(t, m)
  <2> SUFFICES ASSUME NEW name \in OutNames(s), name[1] \in {"fresh"} \X Nat, name[2] \notin Marks
               PROVE  name[1][2] < m
    BY <1>4 DEF FreshBelow
  <2>1. name[1][2] < n /\ name[1][2] \in Nat
    BY DEF Fine, FreshBelow
  <2> QED BY <2>1
<1>8. NoneTaken(t)
  BY <1>1, <1>2 DEF Fine, NoneTaken
<1> QED BY <1>1, <1>4, <1>5, <1>6, <1>7, <1>8 DEF Fine, t

(* A literal that produces nothing.                                        *)
LEMMA AddIdle ==
    ASSUME NEW s \in Seq(Literal), NEW n \in Nat, Fine(s, n), NEW l \in Literal, l.out = {}
    PROVE  /\ Append(s, l) \in Seq(Literal) /\ Fine(Append(s, l), n)
           /\ OutNames(Append(s, l)) = OutNames(s)
<1>1. n <= n
  OBVIOUS
<1>2. Append(s, l) \in Seq(Literal) /\ Fine(Append(s, l), n)
      /\ OutNames(Append(s, l)) = OutNames(s) \cup l.out
  BY <1>1, AddFine
<1> QED BY <1>2

(* A fresh variable is new to all that was made before.                    *)
LEMMA FreshUnknown ==
    ASSUME NEW s, NEW n \in Nat, FreshBelow(s, n)
    PROVE  /\ Val(<<"fresh", n>>) \notin OutNames(s)
           /\ Empty(<<"fresh", n>>) \notin OutNames(s)
           /\ <<"fresh", n>> \notin Locals
<1> DEFINE f == <<"fresh", n>>
<1>1. f \in {"fresh"} \X Nat /\ f[2] = n /\ ~(n < n)
  OBVIOUS
<1>2. f \notin Locals
  BY <1>1, FreshIsNew
<1>3. /\ Val(f)[1] = f /\ Val(f)[2] \notin Marks /\ Empty(f)[1] = f /\ Empty(f)[2] \notin Marks
  BY NameFacts DEF Marks
<1> HIDE DEF f
<1>4. Val(f) \notin OutNames(s) /\ Empty(f) \notin OutNames(s)
  BY <1>1, <1>3 DEF FreshBelow
<1> QED BY <1>2, <1>4 DEF f

(* A variable a body takes from outside is one of its own.                 *)
LEMMA ExternalLocal == ASSUME TInv PROVE External \subseteq Locals
<1> SUFFICES ASSUME NEW v \in External PROVE v \in Locals
  OBVIOUS
<1>1. PICK k \in DOMAIN body.nodes : v \in UnifyVarsOf(body.nodes[k].lit)
  BY DEF External, ExternalTo
<1>2. body.nodes \in Seq(Node)
  BY DEF TInv, TypeOK, Body
<1>3. body.nodes[k].lit \in Literal
  <2>1. body.nodes[k] \in Node
    BY <1>2
  <2> QED BY <2>1 DEF Node
<1>4. \A t \in Operands : t.unify \subseteq Locals
  BY TermsWellFormed DEF Operands, VarTerms, NoTerm
<1> QED BY <1>1, <1>3, <1>4 DEF UnifyVarsOf, Literal

(***************************************************************************)
(* add_assign: the declaration, if there is none, and the assignment.      *)
(***************************************************************************)
LEMMA AssignFine ==
    ASSUME TInv, Fine(lits, fresh), NEW v \in Vars, NEW e \in Operands, NEW m \in Nat,
           fresh <= m, Val(v) \notin OutNames(lits), v \notin External,
           v \in {"fresh"} \X Nat => v[2] < m
    PROVE  LET s == lits \o AddAssign(v, e) IN
             s \in Seq(Literal) /\ Fine(s, m)
<1> DEFINE d == Local(v)
           a == Assign(v, e)
           known == Append(lits, d)
<1>1. d \in Literal /\ a \in Literal /\ lits \in Seq(Literal) /\ fresh \in Nat
  BY LiteralsTyped DEF TInv, TypeOK
<1>2. d.out = {Empty(v)} /\ a.out = {Val(v)} /\ d.kind \notin Emitted
  BY DEF Local, Assign, Lit, Emitted
<1>3. \A u \in External : Val(u) # Val(v)
  BY NameFacts
<1>4. /\ Val(v)[1] = v /\ Val(v)[2] \notin Marks /\ Empty(v)[1] = v /\ Empty(v)[2] \notin Marks
      /\ Val(v) # Empty(v)
  BY NameFacts DEF Marks, Val, Empty
<1>5. \A name \in a.out : name[2] \notin Marks /\ name[1] = v
  BY <1>2, <1>4
<1>6. \A name \in d.out : name[2] \notin Marks /\ name[1] = v
  BY <1>2, <1>4
<1>7. IsAssigned(Empty(v)) <=> Empty(v) \in OutNames(lits)
  <2>1. DOMAIN lits = 1..Len(lits)
    BY <1>1
  <2> QED BY <2>1 DEF IsAssigned, Producers, OutNames
<1>8. /\ a.kind \in Emitted => \A u \in External : Val(u) \notin a.out
  BY <1>2, <1>3
<1> HIDE DEF d, a
<1>9. CASE IsAssigned(Empty(v))
  <2>1. lits \o AddAssign(v, e) = Append(lits, a)
    <3>1. AddAssign(v, e) = <<a>>
      BY <1>9, <1>1 DEF AddAssign, a
    <3> QED BY <1>1, <3>1
  <2>2. \A name \in a.out : name \notin OutNames(lits)
    BY <1>2
  <2> QED BY <1>1, <1>2, <1>5, <1>8, <2>1, <2>2, AddFine
<1>10. CASE ~IsAssigned(Empty(v))
  <2>1. lits \o AddAssign(v, e) = Append(known, a)
    <3>1. AddAssign(v, e) = <<d>> \o <<a>>
      BY <1>10 DEF AddAssign, d, a
    <3>2. \A s \in Seq(Literal) : s \o (<<d>> \o <<a>>) = Append(Append(s, d), a)
      BY <1>1
    <3> QED BY <1>1, <3>1, <3>2
  <2>2. \A name \in d.out : name \notin OutNames(lits)
    BY <1>2, <1>7, <1>10
  <2>3. known \in Seq(Literal) /\ Fine(known, m) /\ OutNames(known) = OutNames(lits) \cup d.out
    BY <1>1, <1>2, <1>6, <2>2, AddFine
  <2>4. \A name \in a.out : name \notin OutNames(known)
    BY <1>2, <1>4, <2>3
  <2> HIDE DEF known
  <2>5. m <= m
    OBVIOUS
  <2> QED BY <1>1, <1>2, <1>5, <1>8, <2>1, <2>3, <2>4, <2>5, AddFine
<1> QED BY <1>9, <1>10

(***************************************************************************)
(* Every call of an add_* function adds literals of these forms.           *)
(***************************************************************************)
Adds(add, new) ==
  \/ add = <<>> /\ new = 0
  \/ \E l, r \in Operands : add = <<Equals(l, r)>> /\ new = 0
  \/ \E l, r \in Operands : IsVar(l) /\ add = Give(l.var, l, r) /\ new = 0
  \/ \E e \in Operands : add = AddAssign(Fresh, e) /\ new = 1
  \/ \E e, l, r \in Operands : add = AddAssign(Fresh, e) \o <<Equals(l, r)>> /\ new = 1
  \/ \E v \in Vars, n \in Nat : add \in {<<IsArray(v, n)>>, <<IsObject(v, n)>>} /\ new = 0
  \/ \E v \in Vars, n \in Nat, k \in Operands :
       add \in {<<Local(Fresh), FromArray(Fresh, v, n)>>, <<Local(Fresh), FromObject(Fresh, v, k)>>}
       /\ new = 1

Added == \E add, calls, new, fail : Adds(add, new) /\ Result(add, calls, new, fail)

LEMMA SucceedAdds == ASSUME NEW add, Adds(add, 0), Succeed(add) PROVE Added
BY DEF Added, Succeed

LEMMA FailAdds == ASSUME Fail PROVE Added
BY DEF Added, Fail, Adds

LEMMA EqualsAdds ==
    ASSUME NEW l \in Operands, NEW r \in Operands, Succeed(<<Equals(l, r)>>) PROVE Added
<1>1. Adds(<<Equals(l, r)>>, 0)
  BY DEF Adds
<1> QED BY <1>1, SucceedAdds

LEMMA GiveAdds ==
    ASSUME NEW l \in Operands, NEW r \in Operands, IsVar(l), Succeed(Give(l.var, l, r))
    PROVE  Added
<1>1. Adds(Give(l.var, l, r), 0)
  BY DEF Adds
<1> QED BY <1>1, SucceedAdds

LEMMA MatchAdds ==
    ASSUME NEW t, NEW v, NEW e \in Operands, MatchVar(t, v) \/ MatchFresh(t, e)
    PROVE  Added
<1>1. Adds(<<>>, 0) /\ Adds(AddAssign(Fresh, e), 1)
  BY DEF Adds
<1>2. CASE MatchVar(t, v)
  BY <1>1, <1>2 DEF MatchVar, Added
<1>3. CASE MatchFresh(t, e)
  BY <1>1, <1>3 DEF MatchFresh, Added
<1> QED BY <1>2, <1>3

LEMMA TermsAdd ==
    ASSUME TInv, AddUnifyVars \/ AddUnifyVarTerm \/ AddTermsVar \/ AddTermsCompr
                 \/ AddTermsEquals \/ AddExprsUnsupported
    PROVE  Added
<1> DEFINE l == Head(work).l
           r == Head(work).r
<1>1. Calling("unify")
  BY DEF AddUnifyVars, AddUnifyVarTerm, AddTermsVar, AddTermsCompr, AddTermsEquals,
         AddExprsUnsupported
<1>2. l \in Operands /\ r \in Operands
  BY <1>1, CallFacts
<1>3. \A s \in Sides : s[1] \in Operands /\ s[2] \in Operands
  BY <1>2 DEF Sides
<1>4. CASE AddUnifyVars
  <2>1. IsVar(l) /\ IsVar(r) /\ (Succeed(Give(r.var, r, l)) \/ Succeed(Give(l.var, l, r)) \/ Fail)
    BY <1>4 DEF AddUnifyVars
  <2> HIDE DEF l, r
  <2> QED BY <1>2, <2>1, GiveAdds, FailAdds
<1>5. CASE AddUnifyVarTerm
  <2>1. PICK s \in Sides : /\ IsVar(s[1])
                            /\ \/ Succeed(Give(s[1].var, s[1], s[2]))
                               \/ MatchVar(s[2], s[1].var) \/ Fail
    BY <1>5 DEF AddUnifyVarTerm
  <2> QED BY <1>3, <2>1, GiveAdds, MatchAdds, FailAdds
<1>6. CASE AddTermsVar
  <2>1. \/ MatchVar(r, l.var) \/ MatchVar(l, r.var)
        \/ MatchFresh(r, l) \/ MatchFresh(l, r)
    BY <1>6 DEF AddTermsVar
  <2> HIDE DEF l, r
  <2> QED BY <1>2, <2>1, MatchAdds
<1>7. CASE AddTermsCompr
  <2>1. PICK s \in Sides : MatchFresh(s[1], s[2])
    BY <1>7 DEF AddTermsCompr
  <2> QED BY <1>3, <2>1, MatchAdds
<1>8. CASE AddTermsEquals
  <2>1. Succeed(<<Equals(l, r)>>)
    BY <1>8 DEF AddTermsEquals
  <2> HIDE DEF l, r
  <2> QED BY <1>2, <2>1, EqualsAdds
<1>9. CASE AddExprsUnsupported
  BY <1>9, FailAdds DEF AddExprsUnsupported
<1> QED BY <1>4, <1>5, <1>6, <1>7, <1>8, <1>9

LEMMA TermExprAdds == ASSUME TInv, AddTermExpr PROVE Added
<1>1. Calling("unify")
  BY DEF AddTermExpr
<1>2. Head(work).l \in Operands /\ Head(work).r \in Operands /\ Fresh \in Vars
  BY <1>1, CallFacts
<1>3. PICK s \in Sides :
        LET t == s[1]  e == s[2] IN
          \/ Fail \/ (IsVar(t) /\ Succeed(Give(t.var, t, e))) \/ Succeed(<<Equals(t, e)>>)
          \/ Result(AddAssign(Fresh, t) \o <<Equals(e, VarTerm(Fresh))>>, <<>>, 1, FALSE)
          \/ MatchFresh(t, e)
  BY DEF AddTermExpr
<1> DEFINE t == s[1]
           e == s[2]
<1>4. t \in Operands /\ e \in Operands /\ VarTerm(Fresh) \in Operands
  BY <1>2, <1>3, VarTermTyped DEF Sides
<1> HIDE DEF t, e
<1>5. CASE Result(AddAssign(Fresh, t) \o <<Equals(e, VarTerm(Fresh))>>, <<>>, 1, FALSE)
  <2>1. Adds(AddAssign(Fresh, t) \o <<Equals(e, VarTerm(Fresh))>>, 1)
    BY <1>4 DEF Adds
  <2> QED BY <1>5, <2>1 DEF Added
<1> QED BY <1>3, <1>4, <1>5, FailAdds, GiveAdds, EqualsAdds, MatchAdds DEF t, e

LEMMA PairsAdd == ASSUME TInv, AddArrayArray \/ AddObjectObject PROVE Throw \/ Added
<1> DEFINE l == Head(work).l
           r == Head(work).r
<1>1. Calling("unify")
  BY DEF AddArrayArray, AddObjectObject
<1>2. l \in Operands /\ r \in Operands
  BY <1>1, CallFacts
<1>3. \/ Throw \/ Fail \/ Succeed(<<Equals(l, r)>>)
      \/ \E calls, fail : Result(<<>>, calls, 0, fail)
  <2>1. CASE AddArrayArray
    <3>1. \/ Throw \/ Succeed(<<Equals(l, r)>>)
          \/ \E calls : Result(<<>>, calls, 0, FALSE)
      BY <2>1, ZenonT(60) DEF AddArrayArray
    <3> QED BY <3>1
  <2>2. CASE AddObjectObject
    <3>1. \/ Throw \/ Fail \/ Succeed(<<Equals(l, r)>>)
          \/ \E calls, fail : Result(<<>>, calls, 0, fail)
      BY <2>2 DEF AddObjectObject
    <3> QED BY <3>1
  <2> QED BY <2>1, <2>2
<1> HIDE DEF l, r
<1>4. Adds(<<>>, 0)
  BY DEF Adds
<1>5. (\E calls, fail : Result(<<>>, calls, 0, fail)) => Added
  BY <1>4 DEF Added
<1> QED BY <1>2, <1>3, <1>5, FailAdds, EqualsAdds

LEMMA MatchStepAdds ==
    ASSUME TInv, MatchVariable \/ MatchEquals \/ MatchArray \/ MatchObject
                 \/ MatchUnsupported
    PROVE  Added
<1> DEFINE c == Head(work)
<1>1. Calling("match")
  BY DEF MatchVariable, MatchEquals, MatchArray, MatchObject, MatchUnsupported
<1>2. c.l \in Operands /\ c.r \in Operands
  BY <1>1, CallFacts
<1>3. c.r.var \in Vars /\ Len(c.l.elems) \in Nat
  BY <1>2, OperandTyped
<1>4. CASE MatchVariable
  <2>1. IsVar(c.l) /\ Succeed(Give(c.l.var, c.l, c.r))
    BY <1>4 DEF MatchVariable
  <2> HIDE DEF c
  <2> QED BY <1>2, <2>1, GiveAdds
<1>5. CASE MatchEquals
  <2>1. Succeed(<<Equals(c.l, c.r)>>)
    BY <1>5 DEF MatchEquals
  <2> HIDE DEF c
  <2> QED BY <1>2, <2>1, EqualsAdds
<1>6. CASE MatchArray \/ MatchObject
  <2> DEFINE a1 == IsArray(c.r.var, Len(c.l.elems))
             a2 == IsObject(c.r.var, Len(c.l.elems))
  <2>1. Adds(<<a1>>, 0) /\ Adds(<<a2>>, 0)
    BY <1>3 DEF Adds
  <2>2. \/ Result(<<a1>>, Elements("fromarray", c), 0, FALSE)
        \/ Result(<<a2>>, Elements("fromobject", c), 0, FALSE)
    BY <1>6 DEF MatchArray, MatchObject
  <2> HIDE DEF a1, a2, c
  <2> QED BY <2>1, <2>2 DEF Added
<1>7. CASE MatchUnsupported
  BY <1>7, FailAdds DEF MatchUnsupported
<1> QED BY <1>4, <1>5, <1>6, <1>7

LEMMA ElementAdds == ASSUME TInv, AddElement PROVE Added
<1> DEFINE c == Head(work)
<1>1. PICK fn : Calling(fn)
  BY DEF AddElement
<1>2. c.r \in Operands /\ c.key \in Operands /\ c.n \in Nat
  BY <1>1, CallFacts
<1>3. c.r.var \in Vars
  BY <1>2, OperandTyped
<1> DEFINE a1 == <<Local(Fresh), FromArray(Fresh, c.r.var, c.n)>>
           a2 == <<Local(Fresh), FromObject(Fresh, c.r.var, c.key)>>
<1>4. Adds(a1, 1) /\ Adds(a2, 1)
  BY <1>2, <1>3 DEF Adds
<1>5. \E calls : Result(a1, calls, 1, FALSE) \/ Result(a2, calls, 1, FALSE)
  BY DEF AddElement
<1> HIDE DEF a1, a2
<1> QED BY <1>4, <1>5 DEF Added

LEMMA ResolveAdds == ASSUME TInv, ResolveCall PROVE phase = "resolve" /\ (Throw \/ Added)
<1>1. phase = "resolve"
  BY ResolveCallKeeps DEF Resolve
<1>2. Throw \/ Added
  BY TermsAdd, TermExprAdds, PairsAdd, MatchStepAdds, ElementAdds DEF ResolveCall
<1> QED BY <1>1, <1>2

(***************************************************************************)
(* Literals of these forms keep the names apart.                           *)
(***************************************************************************)
LEMMA ResultFine ==
    ASSUME TInv, Fine(lits, fresh), \A v \in External : Val(v) \in OutNames(lits),
           NEW add, NEW new, Adds(add, new)
    PROVE  lits \o add \in Seq(Literal) /\ Fine(lits \o add, fresh + new)
<1> DEFINE s == lits \o add
<1>0. /\ lits \in Seq(Literal) /\ fresh \in Nat /\ Fresh = <<"fresh", fresh>>
      /\ fresh + 0 = fresh /\ fresh + 1 \in Nat /\ fresh <= fresh + 1 /\ fresh <= fresh
      /\ DOMAIN lits = 1..Len(lits)
  BY DEF TInv, TypeOK, Fresh
<1>1. /\ Val(Fresh) \notin OutNames(lits) /\ Empty(Fresh) \notin OutNames(lits)
      /\ Fresh \notin External /\ Fresh \in Vars /\ Fresh[2] < fresh + 1
      /\ Fresh[1] = "fresh"
  BY <1>0, FreshUnknown, ExternalLocal, VarFacts DEF Fine
<1>2. ASSUME NEW l \in Operands, NEW r \in Operands
      PROVE  Equals(l, r) \in Literal /\ Equals(l, r).out = {}
  <2>1. Equals(l, r) \in Literal
    BY VarFacts, LiteralsTyped
  <2> QED BY <2>1 DEF Equals, Lit
<1>3. CASE add = <<>> /\ new = 0
  <2>1. lits \o <<>> = lits
    BY <1>0
  <2> QED BY <1>0, <1>3, <2>1
<1>4. CASE \E l, r \in Operands : add = <<Equals(l, r)>> /\ new = 0
  <2>1. PICK l, r \in Operands : add = <<Equals(l, r)>> /\ new = 0
    BY <1>4
  <2> DEFINE q == Equals(l, r)
  <2>2. q \in Literal /\ q.out = {}
    BY <1>2
  <2> HIDE DEF q
  <2>3. lits \o <<q>> = Append(lits, q)
    BY <1>0, <2>2
  <2> QED BY <1>0, <2>1, <2>2, <2>3, AddIdle DEF q
<1>5. CASE \E l, r \in Operands : IsVar(l) /\ add = Give(l.var, l, r) /\ new = 0
  <2>1. PICK l, r \in Operands : IsVar(l) /\ add = Give(l.var, l, r) /\ new = 0
    BY <1>5
  <2>2. CASE IsAssigned(Val(l.var))
    BY <1>4, <2>1, <2>2 DEF Give
  <2>3. CASE ~IsAssigned(Val(l.var))
    <3>1. add = AddAssign(l.var, r)
      BY <2>1, <2>3 DEF Give
    <3>2. Val(l.var) \notin OutNames(lits)
      BY <2>3, <1>0 DEF IsAssigned, Producers, OutNames
    <3>3. l.var \in Vars /\ l.var \in Locals /\ l.var \notin {"fresh"} \X Nat
      <4>1. l.kind = "unify"
        BY <2>1 DEF IsVar
      <4>2. l \in Terms
        BY <4>1 DEF Operands, VarTerms, NoTerm
      <4>3. l.var \in Locals
        BY <4>1, <4>2, TermsWellFormed
      <4> QED BY <4>3, FreshIsNew, OperandTyped
    <3>4. l.var \notin External
      BY <3>2
    <3> QED BY <1>0, <2>1, <3>1, <3>2, <3>3, <3>4, AssignFine
  <2> QED BY <2>2, <2>3
<1>6. ASSUME NEW e \in Operands
      PROVE  /\ lits \o AddAssign(Fresh, e) \in Seq(Literal)
             /\ Fine(lits \o AddAssign(Fresh, e), fresh + 1)
  BY <1>0, <1>1, AssignFine
<1>7. CASE \E e \in Operands : add = AddAssign(Fresh, e) /\ new = 1
  BY <1>6, <1>7
<1>8. CASE \E e, l, r \in Operands : add = AddAssign(Fresh, e) \o <<Equals(l, r)>> /\ new = 1
  <2>1. PICK e, l, r \in Operands : add = AddAssign(Fresh, e) \o <<Equals(l, r)>> /\ new = 1
    BY <1>8
  <2> DEFINE q == Equals(l, r)
             a == AddAssign(Fresh, e)
             w == lits \o a
  <2>2. q \in Literal /\ q.out = {} /\ w \in Seq(Literal) /\ Fine(w, fresh + 1)
        /\ a \in Seq(Literal)
    BY <1>1, <1>2, <1>6, AssignTyped
  <2>3. lits \o (a \o <<q>>) = Append(w, q)
    <3> HIDE DEF q, a
    <3> QED BY <1>0, <2>2
  <2> HIDE DEF q, w
  <2>4. Append(w, q) \in Seq(Literal) /\ Fine(Append(w, q), fresh + 1)
    BY <1>0, <2>2, AddIdle
  <2> QED BY <2>1, <2>3, <2>4 DEF q
<1>9. CASE \E v \in Vars, n \in Nat : add \in {<<IsArray(v, n)>>, <<IsObject(v, n)>>} /\ new = 0
  <2>1. PICK v \in Vars, n \in Nat : add \in {<<IsArray(v, n)>>, <<IsObject(v, n)>>} /\ new = 0
    BY <1>9
  <2>2. PICK t \in {IsArray(v, n), IsObject(v, n)} : add = <<t>>
    BY <2>1
  <2>3. /\ t \in Literal /\ t.in = {Val(v)}
        /\ t.out = {<<v, "array">>} \/ t.out = {<<v, "object">>}
    BY <2>2, ElementLiteralsTyped, VarTermTyped, VarFacts DEF IsArray, IsObject, Lit
  <2>4. \A name \in t.out : name[1] = v /\ name[2] \in Marks
    BY <2>3, NameFacts DEF Marks
  <2>5. \A u \in External : Val(u) \notin t.out
    BY <2>4, NameFacts DEF Marks
  <2>6. lits \o <<t>> = Append(lits, t)
    BY <1>0, <2>3
  <2>7. Append(lits, t) \in Seq(Literal) /\ Fine(Append(lits, t), fresh)
    BY <1>0, <2>3, <2>4, <2>5, AddFine
  <2> QED BY <1>0, <2>1, <2>2, <2>6, <2>7
<1>10. CASE \E v \in Vars, n \in Nat, k \in Operands :
              add \in {<<Local(Fresh), FromArray(Fresh, v, n)>>,
                       <<Local(Fresh), FromObject(Fresh, v, k)>>} /\ new = 1
  <2>1. PICK v \in Vars, n \in Nat, k \in Operands :
              add \in {<<Local(Fresh), FromArray(Fresh, v, n)>>,
                       <<Local(Fresh), FromObject(Fresh, v, k)>>} /\ new = 1
    BY <1>10
  <2> DEFINE d == Local(Fresh)
  <2>2. PICK t \in {FromArray(Fresh, v, n), FromObject(Fresh, v, k)} : add = <<d, t>>
    BY <2>1
  <2>3. t \in Literal /\ t.out = {Val(Fresh)} /\ d \in Literal /\ d.out = {Empty(Fresh)}
        /\ d.kind \notin Emitted
    <3>1. t \in Literal /\ d \in Literal
      BY <1>1, <2>2, ElementLiteralsTyped, LiteralsTyped
    <3>2. t.out = {Val(Fresh)}
      BY <2>2 DEF FromArray, FromObject, Lit
    <3>3. d.out = {Empty(Fresh)} /\ d.kind \notin Emitted
      BY DEF Local, Lit, Emitted
    <3> HIDE DEF d
    <3> QED BY <3>1, <3>2, <3>3
  <2>4. /\ Val(Fresh)[1] = Fresh /\ Val(Fresh)[2] \notin Marks
        /\ Empty(Fresh)[1] = Fresh /\ Empty(Fresh)[2] \notin Marks /\ Val(Fresh) # Empty(Fresh)
    BY NameFacts DEF Marks, Val, Empty
  <2>5. \A u \in External : Val(u) # Val(Fresh)
    BY <1>1, NameFacts
  <2> HIDE DEF d
  <2> DEFINE known == Append(lits, d)
  <2>6. lits \o <<d, t>> = Append(known, t)
    <3>1. \A x, y \in Literal : lits \o <<x, y>> = Append(Append(lits, x), y)
      BY <1>0
    <3> QED BY <2>3, <3>1
  <2>7. known \in Seq(Literal) /\ Fine(known, fresh + 1) /\ OutNames(known) = OutNames(lits) \cup d.out
    <3>1. \A name \in d.out : name[2] \notin Marks /\ name \notin OutNames(lits) /\ name[1] = Fresh
      BY <1>1, <2>3, <2>4
    <3> QED BY <1>0, <1>1, <2>3, <3>1, AddFine
  <2>8. Val(Fresh) \notin OutNames(known)
    BY <1>1, <2>3, <2>4, <2>7
  <2> HIDE DEF known
  <2>9. fresh + 1 <= fresh + 1
    BY <1>0
  <2>10. Append(known, t) \in Seq(Literal) /\ Fine(Append(known, t), fresh + 1)
    BY <1>0, <1>1, <2>3, <2>4, <2>5, <2>7, <2>8, <2>9, AddFine
  <2> QED BY <2>1, <2>2, <2>6, <2>10
<1> QED BY <1>3, <1>4, <1>5, <1>7, <1>8, <1>9, <1>10 DEF Adds

LEMMA AddsTyped == ASSUME TInv, NEW add, NEW new, Adds(add, new) PROVE add \in Seq(Literal)
<1>1. Fresh \in Vars /\ NoVar \in Vars
  BY VarFacts DEF TInv, TypeOK, Fresh
<1>2. CASE \E l, r \in Operands : add = <<Equals(l, r)>>
  <2>1. PICK t \in Literal : add = <<t>>
    BY <1>1, <1>2, LiteralsTyped
  <2> QED BY <2>1
<1>3. CASE \E l, r \in Operands : add = Give(l.var, l, r)
  BY <1>3, AssignTyped, OperandTyped
<1>4. CASE \E e \in Operands : add = AddAssign(Fresh, e)
  BY <1>1, <1>4, AssignTyped
<1>5. CASE \E e, l, r \in Operands : add = AddAssign(Fresh, e) \o <<Equals(l, r)>>
  <2>1. PICK a \in Seq(Literal), t \in Literal : add = a \o <<t>>
    BY <1>1, <1>5, LiteralsTyped, AssignTyped
  <2> QED BY <2>1
<1>6. CASE \E v \in Vars, n \in Nat : add \in {<<IsArray(v, n)>>, <<IsObject(v, n)>>}
  <2>1. PICK t \in Literal : add = <<t>>
    BY <1>6, VarTermTyped, ElementLiteralsTyped
  <2> QED BY <2>1
<1>7. CASE \E v \in Vars, n \in Nat, k \in Operands :
             add \in {<<Local(Fresh), FromArray(Fresh, v, n)>>, <<Local(Fresh), FromObject(Fresh, v, k)>>}
  <2>1. Local(Fresh) \in Literal
    BY <1>1, VarTermTyped, LiteralsTyped
  <2>2. PICK t \in Literal : add = <<Local(Fresh), t>>
    BY <1>1, <1>7, ElementLiteralsTyped
  <2> QED BY <2>1, <2>2
<1>8. CASE add = <<>>
  BY <1>8, EmptySeqs
<1> QED BY <1>2, <1>3, <1>4, <1>5, <1>6, <1>7, <1>8 DEF Adds

(***************************************************************************)
(* Every step keeps the names apart.                                       *)
(***************************************************************************)
LEMMA PlainGives ==
    ASSUME NamesApart(body), NEW name,
           name \in Declared(body) \/ \E k \in PlainNodes(body) : name \in GivenBy(body, k)
    PROVE  /\ name \in Locals \X {"val", "empty"} /\ name[2] \notin Marks
           /\ name[1] \notin {"fresh"} \X Nat /\ \A v \in External : Val(v) # name
<1>1. name \in Declared(body) \cup UNION {GivenBy(body, k) : k \in PlainNodes(body)}
  OBVIOUS
<1>2. name \in Locals \X {"val", "empty"} /\ \A v \in External : Val(v) # name
  BY <1>1 DEF NamesApart, External
<1> QED BY <1>2, FreshIsNew DEF Marks

LEMMA RulesNames == ASSUME TInv, NamesApart(body), AddRuleLocals PROVE NamesInv'
<1> DEFINE s == body.locals
<1>1. /\ lits' = s /\ phase' = "nodes" /\ body' = body /\ pos' = pos /\ fresh' = fresh
      /\ pos = 0 /\ s \in Seq(Literal) /\ DOMAIN s = 1..Len(s) /\ Len(s) \in Nat
  BY DEF AddRuleLocals, building, TInv, Placed, TypeOK, Body
<1>2. OutNames(s) = Declared(body)
  BY DEF OutNames, Declared
<1>3. \A i \in DOMAIN s : \A name \in s[i].out :
        name[2] \notin Marks /\ name[1] \notin {"fresh"} \X Nat /\ \A v \in External : Val(v) # name
  BY <1>2, PlainGives DEF OutNames
<1>4. Fine(s, fresh)
  <2>1. OnceIn(s)
    BY DEF NamesApart, OnceIn
  <2>2. MarksTested(s) /\ NoneTaken(s)
    BY <1>3 DEF MarksTested, NoneTaken
  <2>3. FreshBelow(s, fresh)
    BY <1>2, PlainGives DEF FreshBelow
  <2> QED BY <2>1, <2>2, <2>3 DEF Fine
<1>5. Fine(lits, fresh)'
  BY <1>1, <1>4 DEF Fine, OnceIn, MarksTested, FreshBelow, NoneTaken, OutNames, External
<1>6. FromBody'
  BY <1>1, <1>2 DEF FromBody, OutNames
<1>7. KeptPlain'
  <2>1. \A i \in 1..Len(s) + 0 : i \in DOMAIN s
    BY <1>1
  <2> QED BY <1>1, <1>3, <2>1 DEF KeptPlain, External
<1> QED BY <1>1, <1>5, <1>6, <1>7 DEF NamesInv, Fine

LEMMA NodeNames == ASSUME TInv, NamesApart(body), NamesInv, AddNode PROVE NamesInv'
<1> DEFINE node == body.nodes[pos + 1]
           k == pos + 1
<1>1. /\ phase = "nodes" /\ phase' = "nodes" /\ body' = body /\ pos' = k /\ fresh' = fresh
      /\ lits \in Seq(Literal) /\ fresh \in Nat /\ pos \in Nat /\ k \in DOMAIN body.nodes
      /\ pos # Len(body.nodes) /\ node \in Node
  BY DEF AddNode, TInv, TypeOK, Body
<1>2. node.lit \in Literal
  BY <1>1 DEF Node
<1>3. /\ node.unify => lits' = lits
      /\ ~node.unify => lits' = Append(lits, node.lit)
  BY DEF AddNode
<1>4. Fine(lits, fresh) /\ FromBody /\ KeptPlain
  BY <1>1 DEF NamesInv
<1>5. \A name \in OutNames(lits) :
        name \in Declared(body) \/ \E j \in PlainNodes(body) : j < k /\ name \in GivenBy(body, j)
  <2> SUFFICES ASSUME NEW name \in OutNames(lits)
               PROVE  name \in Declared(body)
                      \/ \E j \in PlainNodes(body) : j < k /\ name \in GivenBy(body, j)
    OBVIOUS
  <2>1. name \in Declared(body) \/ \E j \in PlainNodes(body) : j <= pos /\ name \in GivenBy(body, j)
    BY <1>1, <1>4 DEF FromBody
  <2>2. \A j \in PlainNodes(body) : j <= pos => j < k
    BY <1>1 DEF PlainNodes, TInv, TypeOK, Body
  <2> QED BY <2>1, <2>2
<1>6. ~node.unify => k \in PlainNodes(body) /\ GivenBy(body, k) = node.lit.out
  BY <1>1 DEF PlainNodes, GivenBy
<1>7. /\ lits' \in Seq(Literal) /\ Fine(lits', fresh)
      /\ OutNames(lits') \subseteq OutNames(lits) \cup
           (IF node.unify THEN {} ELSE node.lit.out)
  <2>1. CASE node.unify
    BY <1>1, <1>3, <1>4, <2>1
  <2>2. CASE ~node.unify
    <3>1. \A name \in node.lit.out : /\ name[2] \notin Marks /\ name[1] \notin {"fresh"} \X Nat
                                     /\ \A v \in External : Val(v) # name
      BY <1>6, <2>2, PlainGives
    <3>2. \A name \in node.lit.out : name \notin OutNames(lits)
      <4> SUFFICES ASSUME NEW name \in node.lit.out, name \in OutNames(lits) PROVE FALSE
        OBVIOUS
      <4>1. name \notin Declared(body)
        BY <1>6, <2>2 DEF NamesApart
      <4>2. \A j \in PlainNodes(body) : j # k => name \notin GivenBy(body, j)
        BY <1>6, <2>2 DEF NamesApart
      <4>3. PICK j \in PlainNodes(body) : j < k /\ name \in GivenBy(body, j)
        BY <1>5, <4>1
      <4>4. j # k
        BY <1>1, <4>3
      <4> QED BY <4>2, <4>3, <4>4
    <3>3. fresh <= fresh
      BY <1>1
    <3> HIDE DEF node
    <3>4. Append(lits, node.lit) \in Seq(Literal) /\ Fine(Append(lits, node.lit), fresh)
          /\ OutNames(Append(lits, node.lit)) = OutNames(lits) \cup node.lit.out
      BY <1>1, <1>2, <1>4, <3>1, <3>2, <3>3, AddFine
    <3> QED BY <1>3, <2>2, <3>4
  <2> QED BY <2>1, <2>2
<1>8. \A name \in OutNames(lits') :
        name \in Declared(body) \/ \E j \in PlainNodes(body) : j <= k /\ name \in GivenBy(body, j)
  <2> SUFFICES ASSUME NEW name \in OutNames(lits')
               PROVE  name \in Declared(body)
                      \/ \E j \in PlainNodes(body) : j <= k /\ name \in GivenBy(body, j)
    OBVIOUS
  <2>1. \A j \in PlainNodes(body) : j < k => j <= k
    BY <1>1 DEF PlainNodes, TInv, TypeOK, Body
  <2>2. CASE name \in OutNames(lits)
    BY <1>5, <2>1, <2>2
  <2>3. CASE ~node.unify /\ name \in node.lit.out
    <3>1. k <= k
      BY <1>1
    <3> QED BY <1>6, <2>3, <3>1
  <2> QED BY <1>7, <2>2, <2>3
<1>9. FromBody'
  BY <1>1, <1>8 DEF FromBody, OutNames
<1>10. KeptPlain'
  <2>1. \A i \in 1..Len(lits') : \A v \in External : Val(v) \notin lits'[i].out
    <3> SUFFICES ASSUME NEW i \in 1..Len(lits'), NEW v \in External, Val(v) \in lits'[i].out
                 PROVE  FALSE
      OBVIOUS
    <3>1. Val(v) \in OutNames(lits')
      BY <1>7 DEF OutNames
    <3> QED BY <1>8, <3>1, PlainGives
  <2>2. ~NeedsSort' => \A i \in 1..Len(body.locals) + k : i \in 1..Len(lits')
    <3>1. TInv'
      BY AddNodeTInv
    <3>2. ~NeedsSort' => Len(lits') >= Len(body.locals) + k
      BY <1>1, <3>1 DEF TInv, Placed
    <3>3. Len(lits') \in Nat /\ Len(body.locals) \in Nat
      BY <1>7 DEF TInv, TypeOK, Body
    <3>4. k \in Nat
      BY <1>1
    <3>5. \A a, b, n \in Nat : n >= a + b => \A i \in 1..a + b : i \in 1..n
      OBVIOUS
    <3> HIDE DEF k
    <3> QED BY <3>2, <3>3, <3>4, <3>5
  <2> QED BY <1>1, <2>1, <2>2 DEF KeptPlain, External
<1>11. Fine(lits, fresh)'
  BY <1>1, <1>7 DEF Fine, OnceIn, MarksTested, FreshBelow, NoneTaken, OutNames, External
<1> QED BY <1>1, <1>9, <1>10, <1>11 DEF NamesInv, Fine

(* A body that is not sorted keeps its first literals.                     *)
LEMMA PrefixKept ==
    ASSUME TInv, KeptPlain, NEW add \in Seq(Literal), lits' = lits \o add,
           body' = body, pos' = pos, phase # "locals"
    PROVE  KeptPlain' /\ \A v \in External : Captured(v) => Captured(v)'
<1>1. /\ lits \in Seq(Literal) /\ Len(lits) \in Nat /\ NeedsSort' = NeedsSort
      /\ Len(body.locals) \in Nat /\ pos \in Nat
      /\ Len(lits') = Len(lits) + Len(add) /\ Len(add) \in Nat
  BY DEF TInv, TypeOK, Body, NeedsSort
<1>2. \A i \in 1..Len(lits) : lits'[i] = lits[i] /\ i \in 1..Len(lits')
  BY <1>1
<1>3. ~NeedsSort => \A i \in 1..Len(body.locals) + pos : i \in 1..Len(lits)
  <2>1. ~NeedsSort => Len(lits) >= Len(body.locals) + pos
    BY DEF TInv, Placed
  <2> QED BY <1>1, <2>1
<1>4. KeptPlain'
  BY <1>1, <1>2, <1>3 DEF KeptPlain, External
<1>5. \A v \in External : Captured(v) => Captured(v)'
  BY <1>2 DEF Captured
<1> QED BY <1>4, <1>5

(* One more declaration of a name nobody produces.                         *)
LEMMA DeclareOnce ==
    ASSUME NEW s \in Seq(Literal), NEW l \in Literal, OnceIn(s), NoneTaken(s),
           l.kind \notin Emitted, l.out \cap OutNames(s) = {}
    PROVE  OnceIn(Append(s, l)) /\ NoneTaken(Append(s, l))
<1> DEFINE t == Append(s, l)
           k == Len(s) + 1
<1>1. /\ t \in Seq(Literal) /\ Len(s) \in Nat /\ DOMAIN s = 1..Len(s) /\ DOMAIN t = 1..k
      /\ t[k] = l /\ \A i \in 1..Len(s) : t[i] = s[i]
  OBVIOUS
<1>2. \A i \in DOMAIN t : i = k \/ (i \in DOMAIN s /\ t[i] = s[i])
  BY <1>1
<1> HIDE DEF t, k
<1>3. \A i \in DOMAIN s : s[i].out \cap l.out = {}
  BY DEF OutNames
<1>4. OnceIn(t)
  <2> SUFFICES ASSUME NEW i \in DOMAIN t, NEW j \in DOMAIN t, i # j,
                      NEW name \in t[i].out \cap t[j].out
               PROVE  name[2] \in Marks /\ Val(name[1]) \in t[i].in \cap t[j].in
    BY DEF OnceIn
  <2>1. i # k /\ j # k
    BY <1>1, <1>2, <1>3
  <2> QED BY <1>2, <2>1 DEF OnceIn
<1>5. NoneTaken(t)
  BY <1>1, <1>2 DEF NoneTaken
<1> QED BY <1>4, <1>5 DEF t

LEMMA OutOfLits == ASSUME TInv, NEW name PROVE name \in OutNames(lits) <=> Producers(name) # {}
<1>1. DOMAIN lits = 1..Len(lits)
  BY DEF TInv, TypeOK
<1> QED BY <1>1 DEF OutNames, Producers

LEMMA ExternalNames ==
    ASSUME TInv, NamesApart(body), NamesInv, AddExternalCapture PROVE NamesInv'
<1>1. PICK v \in External : ~Captured(v) /\ lits' = Append(lits, Capture(v))
  BY DEF AddExternalCapture
<1> DEFINE l == Capture(v)
<1>2. /\ phase = "nodes" /\ phase' = "nodes" /\ body' = body /\ pos' = pos /\ fresh' = fresh
      /\ pos = Len(body.nodes) /\ lits \in Seq(Literal) /\ fresh \in Nat
  BY DEF AddExternalCapture, building, TInv, TypeOK
<1>3. v \in Locals /\ v \in Vars /\ v \notin {"fresh"} \X Nat
  BY ExternalLocal, FreshIsNew DEF Vars
<1>4. l \in Literal /\ l.out = {Val(v)} /\ l.kind \notin Emitted
  <2>1. NoTerm \in Operands /\ l \in Literal
    BY <1>3, VarTermTyped, LiteralsTyped
  <2> QED BY <2>1 DEF Capture, Lit, Emitted
<1>5. Fine(lits, fresh) /\ FromBody /\ KeptPlain
  BY <1>2 DEF NamesInv
<1>6. Val(v) \notin OutNames(lits)
  <2> SUFFICES ASSUME Val(v) \in OutNames(lits) PROVE FALSE
    OBVIOUS
  <2>1. PICK u \in External : Val(v) = Val(u) /\ Captured(u)
    BY PlainGives, <1>5 DEF FromBody
  <2> QED BY <1>1, <2>1, NameFacts
<1>7. Val(v)[1] = v /\ Val(v)[2] \notin Marks
  BY NameFacts DEF Marks
<1> HIDE DEF l
<1>8. \A name \in l.out : name = Val(v) /\ name[1] = v /\ name[2] \notin Marks /\ name \notin OutNames(lits)
  BY <1>4, <1>6, <1>7
<1>9. fresh <= fresh
  BY <1>2
<1>10. /\ lits' \in Seq(Literal) /\ Fine(lits', fresh)
       /\ OutNames(lits') = OutNames(lits) \cup {Val(v)}
  <2>1. Append(lits, l) \in Seq(Literal) /\ Fine(Append(lits, l), fresh)
        /\ OutNames(Append(lits, l)) = OutNames(lits) \cup l.out
    BY <1>2, <1>3, <1>4, <1>5, <1>8, <1>9, AddFine
  <2> QED BY <1>1, <1>4, <2>1 DEF l
<1>11. lits' = lits \o <<l>> /\ <<l>> \in Seq(Literal)
  <2>1. lits' = Append(lits, l)
    BY <1>1 DEF l
  <2> QED BY <1>2, <1>4, <2>1
<1>12. KeptPlain' /\ \A u \in External : Captured(u) => Captured(u)'
  BY <1>2, <1>5, <1>11, PrefixKept
<1>13. Captured(v)'
  <2>1. Len(lits) + 1 \in 1..Len(lits') /\ lits'[Len(lits) + 1] = l
    BY <1>1, <1>2, <1>4 DEF l
  <2> QED BY <2>1 DEF Captured, l
<1>14. FromBody'
  <2>1. \A name \in OutNames(lits') :
          \/ name \in Declared(body)
          \/ \E k \in PlainNodes(body) : k <= pos /\ name \in GivenBy(body, k)
          \/ pos = Len(body.nodes) /\ \E u \in External : name = Val(u) /\ Captured(u)'
    BY <1>2, <1>5, <1>10, <1>12, <1>13 DEF FromBody
  <2> QED BY <1>2, <2>1 DEF FromBody, OutNames, External
<1>15. Fine(lits, fresh)'
  BY <1>2, <1>10 DEF Fine, OnceIn, MarksTested, FreshBelow, NoneTaken, OutNames, External
<1> QED BY <1>2, <1>12, <1>14, <1>15 DEF NamesInv, Fine

LEMMA ResolveNames ==
    ASSUME TInv, NamesApart(body), NamesInv, ResolveCall PROVE NamesInv'
<1>1. phase = "resolve" /\ (Throw \/ Added)
  BY ResolveAdds
<1>2. /\ Fine(lits, fresh) /\ KeptPlain /\ OnceIn(lits) /\ NoneTaken(lits)
      /\ \A v \in External : Captured(v)
  BY <1>1 DEF NamesInv
<1>3. \A v \in External : Val(v) \in OutNames(lits)
  <2> SUFFICES ASSUME NEW v \in External PROVE Val(v) \in OutNames(lits)
    OBVIOUS
  <2>1. PICK i \in 1..Len(lits) : lits[i] = Capture(v)
    BY <1>2 DEF Captured
  <2>2. Val(v) \in Capture(v).out
    BY DEF Capture, Lit
  <2> QED BY <2>1, <2>2, OutOfLits DEF Producers
<1>4. CASE Throw
  BY <1>1, <1>2, <1>4
     DEF Throw, building, NamesInv, KeptPlain, NeedsSort, OnceIn, NoneTaken, Captured, External
<1>5. CASE Added
  <2>1. PICK add, calls, new, fail : Adds(add, new) /\ Result(add, calls, new, fail)
    BY <1>5 DEF Added
  <2>2. /\ lits' = lits \o add /\ fresh' = fresh + new /\ phase' = phase /\ body' = body /\ pos' = pos
    BY <2>1 DEF Result
  <2>3. lits' \in Seq(Literal) /\ Fine(lits', fresh')
    BY <1>2, <1>3, <2>1, <2>2, ResultFine
  <2>4. add \in Seq(Literal)
    BY <2>1, AddsTyped
  <2>5. KeptPlain' /\ \A v \in External : Captured(v) => Captured(v)'
    BY <1>1, <1>2, <2>2, <2>4, PrefixKept
  <2>6. Fine(lits, fresh)'
    BY <2>2, <2>3 DEF Fine, OnceIn, MarksTested, FreshBelow, NoneTaken, OutNames, External
  <2> QED BY <1>1, <1>2, <2>2, <2>5, <2>6 DEF NamesInv, Fine, External
<1> QED BY <1>1, <1>4, <1>5

LEMMA CaptureNames ==
    ASSUME TInv, NamesApart(body), NamesInv, AddCapture PROVE NamesInv'
<1>1. PICK name \in Unproduced :
        lits' = Append(lits, CASE name[2] = "empty" -> Local(name[1])
                               [] name[2] = "val"   -> Capture(name[1])
                               [] OTHER -> Lit("Capture", {}, {name}, NoTerm, NoTerm))
  BY DEF AddCapture
<1>2. /\ phase = "captures" /\ phase' = phase /\ body' = body /\ pos' = pos
      /\ lits \in Seq(Literal)
  BY DEF AddCapture, building, TInv, TypeOK
<1>3. name \in Names /\ name \notin OutNames(lits) /\ name[1] \in Vars
  <2>1. PICK i \in 1..Len(lits) : name \in lits[i].in
    BY <1>1 DEF Unproduced
  <2>2. name \in Names
    BY <2>1, SortedTypes
  <2> QED BY <1>1, <2>2, OutOfLits, VarFacts DEF Unproduced
<1>4. PICK l \in Literal : lits' = Append(lits, l) /\ l.kind \notin Emitted /\ l.out = {name}
  <2>1. /\ Local(name[1]) \in Literal /\ Capture(name[1]) \in Literal
        /\ Lit("Capture", {}, {name}, NoTerm, NoTerm) \in Literal
    <3>1. {name} \in SUBSET Names /\ {} \in SUBSET Names /\ NoTerm \in Operands
      BY <1>3, VarTermTyped, VarFacts
    <3> QED BY <1>3, <3>1, LiteralsTyped, LitTyped DEF Declarations
  <2>2. /\ Local(name[1]).out = {Empty(name[1])} /\ Local(name[1]).kind = "Local"
        /\ Capture(name[1]).out = {Val(name[1])} /\ Capture(name[1]).kind = "Capture"
        /\ Lit("Capture", {}, {name}, NoTerm, NoTerm).out = {name}
        /\ Lit("Capture", {}, {name}, NoTerm, NoTerm).kind = "Capture"
    BY DEF Local, Capture, Lit
  <2>3. /\ name[2] = "empty" => name = Empty(name[1])
        /\ name[2] = "val" => name = Val(name[1])
    BY <1>3 DEF Names, Empty, Val
  <2>4. "Local" \notin Emitted /\ "Capture" \notin Emitted
    BY DEF Emitted
  <2>5. CASE name[2] = "empty"
    BY <1>1, <2>1, <2>2, <2>3, <2>4, <2>5
  <2>6. CASE name[2] = "val"
    BY <1>1, <2>1, <2>2, <2>3, <2>4, <2>6
  <2>7. CASE name[2] # "empty" /\ name[2] # "val"
    BY <1>1, <2>1, <2>2, <2>4, <2>7
  <2> QED BY <2>5, <2>6, <2>7
<1>5. OnceIn(lits) /\ NoneTaken(lits) /\ KeptPlain /\ \A v \in External : Captured(v)
  BY <1>2 DEF NamesInv
<1>6. OnceIn(lits') /\ NoneTaken(lits')
  BY <1>2, <1>3, <1>4, <1>5, DeclareOnce
<1>7. lits' = lits \o <<l>> /\ <<l>> \in Seq(Literal)
  BY <1>2, <1>4
<1>8. KeptPlain' /\ \A v \in External : Captured(v) => Captured(v)'
  BY <1>2, <1>5, <1>7, PrefixKept
<1>9. OnceIn(lits)' /\ NoneTaken(lits)' /\ External' = External
  BY <1>2, <1>6 DEF OnceIn, NoneTaken, External
<1> QED BY <1>2, <1>5, <1>8, <1>9 DEF NamesInv

(* Steps that add no literal.                                              *)
LEMMA QuietNames ==
    ASSUME TInv, NamesInv, UNCHANGED <<lits, body, pos, fresh>>, phase # "locals",
           phase' # "locals",
           phase' \in {"nodes", "resolve"} => phase \in {"nodes", "resolve"},
           phase' = "nodes" => phase = "nodes",
           phase = "nodes" /\ phase' # "nodes" => \A v \in External : Captured(v)
    PROVE  NamesInv'
BY DEF NamesInv, KeptPlain, NeedsSort, Fine, OnceIn, MarksTested, FreshBelow, NoneTaken, OutNames,
       FromBody, Captured, External

LEMMA NextNames ==
    ASSUME TInv, NamesApart(body), NamesInv, [Next]_vars PROVE NamesInv'
<1>1. CASE phase = "locals" /\ ~AddRuleLocals
  <2>1. phase' = phase
    BY <1>1, ResolveAdds
       DEF Next, Calling, AddNode, AddExternalCapture, NodesAdded, StartRound, Resolving,
           Pop, EndResolve, AddCapture, CapturesAdded, StartGraph, GrowGraph, CloseGraph, KeepOrder,
           ReportCycle, StartSort, NextGraph, SkipLiteral, VisitLiteral, GraphSorted, Sorted,
           Finished, vars
  <2> QED BY <1>1, <2>1 DEF NamesInv
<1>2. CASE phase # "locals" /\ (NodesAdded \/ StartRound \/ Pop \/ EndResolve \/ CapturesAdded)
  BY <1>2, QuietNames DEF NodesAdded, StartRound, Resolving, Pop, EndResolve, CapturesAdded, building
<1>3. CASE phase # "locals" /\ (StartGraph \/ GrowGraph \/ CloseGraph \/ KeepOrder \/ ReportCycle
                                \/ StartSort \/ NextGraph \/ SkipLiteral \/ VisitLiteral
                                \/ GraphSorted \/ Sorted)
  BY <1>3, QuietNames
     DEF StartGraph, GrowGraph, CloseGraph, KeepOrder, ReportCycle, StartSort, NextGraph,
         SkipLiteral, VisitLiteral, GraphSorted, Sorted, building
<1>4. CASE phase # "locals" /\ (UNCHANGED vars \/ Finished)
  BY <1>4, QuietNames DEF Finished, vars, building
<1>5. CASE AddRuleLocals
  BY <1>5, RulesNames
<1>6. CASE AddNode \/ AddExternalCapture \/ ResolveCall \/ AddCapture
  BY <1>6, NodeNames, ExternalNames, ResolveNames, CaptureNames
<1> QED BY <1>1, <1>2, <1>3, <1>4, <1>5, <1>6 DEF Next

(***************************************************************************)
(* find_graphs knows only the last producer of a name.  As two producers   *)
(* of a name test the same variable, the neighbours of a literal are       *)
(* neighbours of its neighbours all the same: who has a neighbour in a     *)
(* closed set is in it.                                                    *)
(***************************************************************************)
LEMMA BackNeighbour ==
    ASSUME TInv, phase \in {"graphs", "sort"}, OnceIn(lits), NEW g, Closed(g),
           g \subseteq 1..Len(lits), NEW i \in 1..Len(lits), NEW j \in g, j \in Neighbours(i)
    PROVE  i \in g
<1>1. /\ lits \in Seq(Literal) /\ Len(lits) \in Nat /\ DOMAIN lits = 1..Len(lits)
      /\ Unproduced = {}
  BY SortedTypes
<1>2. ASSUME NEW h \in 1..Len(lits), NEW name \in lits[h].in
      PROVE  InEdge(name) \in 1..Len(lits) /\ name \in lits[InEdge(name)].out
  <2>1. Producers(name) # {}
    BY <1>1 DEF Unproduced
  <2>2. Producers(name) \in SUBSET (1..Len(lits))
    BY DEF Producers
  <2>3. \E p \in Producers(name) : \A k \in Producers(name) : k <= p
    <3> HIDE DEF Producers
    <3> QED BY <1>1, <2>1, <2>2, LargestExists
  <2>4. InEdge(name) \in Producers(name)
    BY <2>3 DEF InEdge
  <2> QED BY <2>4 DEF Producers
<1>3. ASSUME NEW h \in g, NEW name \in lits[h].in \cup lits[h].out
      PROVE  \A k \in 1..Len(lits) : name \in lits[k].in => k \in g
  BY DEF Closed, Neighbours, Consumers
<1>4. CASE \E name \in lits[i].in : j \in Consumers(name)
  BY <1>3, <1>4 DEF Consumers
<1>5. CASE \E name \in lits[i].in : j = InEdge(name)
  BY <1>2, <1>3, <1>5
<1>6. CASE \E name \in lits[i].out : j \in Consumers(name)
  <2>1. PICK name \in lits[i].out : name \in lits[j].in
    BY <1>6 DEF Consumers
  <2> DEFINE p == InEdge(name)
  <2>2. p \in 1..Len(lits) /\ name \in lits[p].out
    BY <1>2, <2>1
  <2>3. p \in g
    BY <2>1 DEF Closed, Neighbours
  <2> HIDE DEF p
  <2>4. CASE p # i
    <3>1. Val(name[1]) \in lits[i].in \cap lits[p].in
      BY <1>1, <2>1, <2>2, <2>4 DEF OnceIn
    <3> QED BY <1>3, <2>3, <3>1
  <2> QED BY <2>3, <2>4
<1> QED BY <1>4, <1>5, <1>6 DEF Neighbours

(***************************************************************************)
(* Every step keeps the subgraphs apart and the order without repetition.  *)
(***************************************************************************)
LEMMA BuildingGraphs ==
    ASSUME TInv,
           \/ AddRuleLocals \/ AddNode \/ AddExternalCapture \/ NodesAdded \/ StartRound
           \/ Pop \/ ResolveCall \/ EndResolve \/ AddCapture \/ CapturesAdded
    PROVE  GraphInv'
<1>1. graphs' = <<>> /\ ordered' = <<>> /\ phase' # "sort"
  <2>1. CASE ResolveCall
    BY <2>1, ResolveCallKeeps DEF Resolve, sorting, TInv, Building, Untouched
  <2>2. CASE AddRuleLocals \/ AddNode \/ AddExternalCapture \/ NodesAdded \/ StartRound
             \/ Pop \/ EndResolve \/ AddCapture \/ CapturesAdded
    BY <2>2 DEF AddRuleLocals, AddNode, AddExternalCapture, NodesAdded, StartRound, Pop,
                Resolving, EndResolve, AddCapture, CapturesAdded, sorting, TInv, Building,
                Untouched
  <2> QED BY <2>1, <2>2
<1> QED BY <1>1 DEF GraphInv, GraphsApart, SortInside, OrderedOnce

LEMMA FindGraphs ==
    ASSUME TInv, OnceIn(lits), GraphInv, StartGraph \/ GrowGraph \/ CloseGraph
    PROVE  GraphInv'
<1> DEFINE I == 1..Len(lits)
<1>1. /\ phase = "graphs" /\ phase' = phase /\ lits' = lits /\ ordered' = ordered
      /\ graphs \in Seq(SUBSET I) /\ graph \subseteq I /\ GraphsApart /\ OrderedOnce
  BY SortedTypes DEF StartGraph, GrowGraph, CloseGraph, GraphInv
<1>2. SortInside' /\ OrderedOnce'
  BY <1>1 DEF SortInside, OrderedOnce, External, StartGraph, GrowGraph, CloseGraph, building
<1>3. \A k \in DOMAIN graphs : graphs[k] \subseteq I
  BY <1>1
<1>4. \A g : Closed(g)' <=> Closed(g)
  BY <1>1 DEF Closed, Neighbours, Consumers, InEdge, Producers
<1>5. CASE StartGraph
  <2>1. graphs' = graphs /\ graph' = IF xs \in Visited THEN {} ELSE {xs}
    BY <1>5 DEF StartGraph
  <2>2. \A k \in DOMAIN graphs : graph' \cap graphs[k] = {}
    BY <2>1 DEF Visited
  <2> QED BY <1>1, <1>2, <1>4, <2>1, <2>2 DEF GraphInv, GraphsApart
<1>6. CASE GrowGraph
  <2>1. graphs' = graphs /\ graph' = Reached
    BY <1>6 DEF GrowGraph
  <2>2. ASSUME NEW k \in DOMAIN graphs, NEW j \in Reached, j \in graphs[k]
        PROVE  FALSE
    <3>1. j \notin graph
      BY <1>1, <2>2 DEF GraphsApart
    <3>2. PICK i \in graph : j \in Neighbours(i)
      BY <3>1 DEF Reached
    <3>3. i \in 1..Len(lits) /\ Closed(graphs[k]) /\ graphs[k] \subseteq 1..Len(lits)
      BY <1>1, <1>3 DEF GraphsApart
    <3>4. i \in graphs[k]
      BY <1>1, <2>2, <3>2, <3>3, BackNeighbour
    <3> QED BY <1>1, <3>4 DEF GraphsApart
  <2> QED BY <1>1, <1>2, <1>4, <2>1, <2>2 DEF GraphInv, GraphsApart
<1>7. CASE CloseGraph
  <2>1. graphs' = Append(graphs, graph) /\ graph' = {} /\ Reached = graph
    BY <1>7 DEF CloseGraph
  <2>2. Closed(graph)
    BY <2>1 DEF Closed, Reached
  <2> DEFINE n == Len(graphs) + 1
  <2>3. /\ DOMAIN graphs' = 1..n /\ graphs'[n] = graph /\ DOMAIN graphs = 1..Len(graphs)
        /\ \A k \in 1..n : k = n \/ (k \in DOMAIN graphs /\ graphs'[k] = graphs[k])
    <3> HIDE DEF I
    <3> QED BY <1>1, <2>1
  <2> HIDE DEF n
  <2>4. \A k \in DOMAIN graphs' : Closed(graphs'[k]) /\ graph' \cap graphs'[k] = {}
    BY <1>1, <2>1, <2>2, <2>3 DEF GraphsApart
  <2>5. \A j, k \in DOMAIN graphs' : j # k => graphs'[j] \cap graphs'[k] = {}
    BY <1>1, <2>3 DEF GraphsApart
  <2> QED BY <1>1, <1>2, <1>4, <2>4, <2>5 DEF GraphInv, GraphsApart
<1> QED BY <1>5, <1>6, <1>7

(* A body that keeps its order, and one that is not sorted.                *)
LEMMA KeepGraphs ==
    ASSUME TInv, SortInv, KeptPlain, GraphInv, KeepOrder \/ ReportCycle \/ StartSort \/ Sorted
    PROVE  GraphInv'
<1>1. CASE KeepOrder
  <2>1. /\ phase' = "done" /\ lits' = lits /\ body' = body /\ pos = Len(body.nodes)
        /\ ~NeedsSort /\ Len(body.locals) \in Nat /\ Len(body.nodes) \in Nat
        /\ ordered' = [k \in 1..Len(body.nodes) |-> Len(body.locals) + k]
    BY <1>1, SortedTypes DEF KeepOrder, building, TInv, TypeOK, Body
  <2>2. \A j, k \in DOMAIN ordered' : j # k => ordered'[j] # ordered'[k]
    BY <2>1
  <2>3. \A k \in DOMAIN ordered' : ordered'[k] \in 1..Len(body.locals) + pos
    <3>1. \A a, b \in Nat : \A k \in 1..b : a + k \in 1..a + b
      OBVIOUS
    <3>2. \A k \in DOMAIN ordered' : k \in 1..Len(body.nodes) /\ ordered'[k] = Len(body.locals) + k
      BY <2>1
    <3> QED BY <2>1, <3>1, <3>2
  <2>4. \A k \in DOMAIN ordered' : \A v \in External : Val(v) \notin lits[ordered'[k]].out
    BY <2>1, <2>3 DEF KeptPlain
  <2> QED BY <2>1, <2>2, <2>4 DEF GraphInv, SortInside, OrderedOnce, External
<1>2. CASE ReportCycle \/ Sorted
  BY <1>2 DEF ReportCycle, Sorted, sorting, building, GraphInv, SortInside, OrderedOnce, External
<1>3. CASE StartSort
  <2>1. /\ phase = "graphs" /\ phase' = "sort" /\ UNCHANGED <<lits, sorting, body>>
        /\ graph = {} /\ frontier = <<>> /\ ordered = <<>> /\ GraphsApart /\ OrderedOnce
    BY <1>3 DEF StartSort, building, SortInv, NotBegun, GraphInv, OrderedOnce
  <2>2. GraphsApart'
    BY <2>1 DEF GraphsApart, sorting, Closed, Neighbours, Consumers, InEdge, Producers
  <2>3. SortInside'
    BY <2>1 DEF SortInside, sorting, Closed, Entries
  <2>4. OrderedOnce'
    BY <2>1 DEF OrderedOnce, sorting
  <2> QED BY <2>2, <2>3, <2>4 DEF GraphInv
<1> QED BY <1>1, <1>2, <1>3

LEMMA NextGraphs ==
    ASSUME TInv, GraphInv, NextGraph PROVE GraphInv'
<1>1. PICK k \in DOMAIN graphs :
        /\ graph' = graphs[k]
        /\ graphs' = [j \in 1..Len(graphs) - 1 |-> graphs[IF j < k THEN j ELSE j + 1]]
        /\ frontier' = InOrder({i \in graphs[k] : lits[i].in = {}})
  BY DEF NextGraph
<1> DEFINE I == 1..Len(lits)
           at(j) == IF j < k THEN j ELSE j + 1
<1>2. /\ phase = "sort" /\ phase' = phase /\ UNCHANGED <<lits, ordered, body>> /\ trail' = <<>>
      /\ graphs \in Seq(SUBSET I) /\ Len(lits) \in Nat /\ GraphsApart /\ SortInside /\ OrderedOnce
  BY SortedTypes DEF NextGraph, building, GraphInv
<1>3. /\ Len(graphs) \in Nat /\ DOMAIN graphs = 1..Len(graphs) /\ k \in 1..Len(graphs)
      /\ graphs[k] \in SUBSET I
  <2> HIDE DEF I
  <2> QED BY <1>1, <1>2
<1>4. \A g : Closed(g)' <=> Closed(g)
  BY <1>2 DEF Closed, Neighbours, Consumers, InEdge, Producers
<1>5. \A j \in DOMAIN graphs' : at(j) \in DOMAIN graphs /\ at(j) # k /\ graphs'[j] = graphs[at(j)]
  <2>1. \A j \in 1..Len(graphs) - 1 : at(j) \in 1..Len(graphs) /\ at(j) # k
    BY <1>3
  <2> QED BY <1>1, <1>3, <2>1
<1>6. \A i, j \in DOMAIN graphs' : i # j => at(i) # at(j)
  <2>1. \A i, j \in 1..Len(graphs) - 1 : i # j => at(i) # at(j)
    BY <1>3
  <2> QED BY <1>1, <2>1
<1> HIDE DEF at
<1>7. GraphsApart'
  <2>1. \A j \in DOMAIN graphs' : Closed(graphs'[j]) /\ graph' \cap graphs'[j] = {}
    BY <1>1, <1>2, <1>5 DEF GraphsApart
  <2>2. \A i, j \in DOMAIN graphs' : i # j => graphs'[i] \cap graphs'[j] = {}
    BY <1>2, <1>5, <1>6 DEF GraphsApart
  <2> QED BY <1>4, <2>1, <2>2 DEF GraphsApart
<1>8. Entries(frontier') \subseteq graph'
  <2> DEFINE S == {i \in graphs[k] : lits[i].in = {}}
  <2>1. S \in SUBSET (1..Len(lits)) /\ S \subseteq graphs[k]
    BY <1>3
  <2> HIDE DEF S
  <2>2. Entries(InOrder(S)) = S
    BY <1>2, <2>1, OrderEntries
  <2> QED BY <1>1, <2>1, <2>2 DEF S
<1>9. SortInside'
  <2>1. Entries(ordered)' = Entries(ordered) /\ Entries(frontier)' = Entries(frontier')
    BY <1>2 DEF Entries
  <2>2. Closed(graph') /\ Entries(ordered) \cap graph' = {}
    BY <1>1, <1>2 DEF GraphsApart, SortInside
  <2>3. \A j \in DOMAIN graphs' : Entries(ordered) \cap graphs'[j] = {}
    BY <1>2, <1>5 DEF SortInside
  <2> QED BY <1>4, <1>8, <2>1, <2>2, <2>3 DEF SortInside
<1>10. OrderedOnce'
  BY <1>2 DEF OrderedOnce, External
<1> QED BY <1>7, <1>9, <1>10 DEF GraphInv

LEMMA TraverseGraphs ==
    ASSUME TInv, GraphInv, SkipLiteral \/ GraphSorted PROVE GraphInv'
<1>1. /\ phase = "sort" /\ phase' = phase /\ UNCHANGED <<lits, ordered, body, trail, graphs>>
      /\ GraphsApart /\ SortInside /\ OrderedOnce /\ Seen' = Seen
      /\ Entries(ordered)' = Entries(ordered) /\ Entries(frontier)' = Entries(frontier')
  BY DEF SkipLiteral, GraphSorted, building, GraphInv, Seen, Entries
<1>2. \A g : Closed(g)' <=> Closed(g)
  BY <1>1 DEF Closed, Neighbours, Consumers, InEdge, Producers
<1>3. OrderedOnce'
  BY <1>1 DEF OrderedOnce, External
<1>4. CASE SkipLiteral
  <2>1. graph' = graph /\ Entries(frontier') \subseteq Entries(frontier)
    <3>1. frontier # <<>> /\ frontier' = Tail(frontier) /\ graph' = graph
      BY <1>4 DEF SkipLiteral
    <3> QED BY <3>1, SortedTypes, HeadTailEntries
  <2>2. GraphsApart'
    BY <1>1, <1>2, <2>1 DEF GraphsApart
  <2>3. SortInside'
    BY <1>1, <1>2, <2>1 DEF SortInside
  <2> QED BY <1>3, <2>2, <2>3 DEF GraphInv
<1>5. CASE GraphSorted
  <2>1. graph' = {} /\ frontier' = <<>>
    BY <1>5 DEF GraphSorted
  <2>2. GraphsApart'
    BY <1>1, <1>2, <2>1 DEF GraphsApart
  <2>3. SortInside'
    BY <1>1, <2>1 DEF SortInside, Closed, Entries
  <2> QED BY <1>3, <2>2, <2>3 DEF GraphInv
<1> QED BY <1>4, <1>5

LEMMA VisitGraphs ==
    ASSUME TInv, NoneTaken(lits), GraphInv, VisitLiteral PROVE GraphInv'
<1> DEFINE I == 1..Len(lits)
           v == Head(frontier)
           out == lits[v].out
           names == bound \cup out
<1>1. /\ phase = "sort" /\ phase' = phase /\ UNCHANGED <<lits, body, graph, graphs>>
      /\ trail' = Append(trail, v) /\ v \notin Seen
      /\ ordered' = IF lits[v].kind \in Declarations THEN ordered ELSE Append(ordered, v)
      /\ GraphsApart /\ SortInside /\ OrderedOnce
  BY DEF VisitLiteral, building, GraphInv
<1>2. /\ v \in I /\ trail \in Seq(I) /\ ordered \in Seq(I) /\ lits \in Seq(Literal)
      /\ graph \subseteq I
  BY VisitFrontier, SortedTypes
<1>3. /\ Entries(frontier) = {v} \cup Entries(Tail(frontier))
      /\ Entries(frontier') = Entries(Tail(frontier)) \cup Waits(out, names)
  BY VisitEntries
<1>4. v \in graph /\ Entries(Tail(frontier)) \subseteq graph
  BY <1>1, <1>3 DEF SortInside
<1>5. Waits(out, names) \subseteq graph
  <2> SUFFICES ASSUME NEW i \in Waits(out, names) PROVE i \in graph
    OBVIOUS
  <2>1. PICK name \in out : name \in lits[i].in
    BY DEF Waits
  <2>2. i \in Neighbours(v)
    BY <2>1 DEF Waits, Neighbours, Consumers
  <2> QED BY <1>1, <1>4, <2>2 DEF SortInside, Closed
<1>6. Entries(trail') = Entries(trail) \cup {v} /\ Seen' = Seen \cup {v}
  <2> HIDE DEF I, v
  <2>1. trail' = trail \o <<v>> /\ <<v>> \in Seq(I)
    BY <1>1, <1>2
  <2>2. Entries(<<v>>) = {v}
    BY DEF Entries
  <2>3. Entries(trail \o <<v>>) = Entries(trail) \cup Entries(<<v>>)
    BY <1>2, <2>1, ConcatEntries
  <2> QED BY <2>1, <2>2, <2>3 DEF Entries, Seen
<1>7. v \notin Entries(ordered)
  BY <1>1, <1>4 DEF SortInside
<1>8. lits[v].kind \notin Declarations => \A u \in External : Val(u) \notin lits[v].out
  <2>1. lits[v] \in Literal /\ v \in DOMAIN lits
    BY <1>2
  <2> QED BY <2>1 DEF Literal, NoneTaken
<1>9. /\ Entries(ordered') \subseteq Entries(ordered) \cup {v}
      /\ \A j, k \in DOMAIN ordered' : j # k => ordered'[j] # ordered'[k]
      /\ \A k \in DOMAIN ordered' : \A u \in External : Val(u) \notin lits[ordered'[k]].out
  <2>1. CASE lits[v].kind \in Declarations
    BY <1>1, <2>1 DEF OrderedOnce
  <2>2. CASE lits[v].kind \notin Declarations
    <3> DEFINE n == Len(ordered) + 1
    <3>1. /\ DOMAIN ordered' = 1..n /\ ordered'[n] = v
          /\ \A k \in 1..n : k = n \/ (k \in DOMAIN ordered /\ ordered'[k] = ordered[k])
      <4>1. ordered' = Append(ordered, v)
        BY <1>1, <2>2
      <4> HIDE DEF I, v
      <4> QED BY <1>2, <4>1
    <3> HIDE DEF n, v
    <3>2. \A k \in DOMAIN ordered : ordered[k] # v
      BY <1>7 DEF Entries
    <3>3. Entries(ordered') \subseteq Entries(ordered) \cup {v}
      BY <3>1 DEF Entries
    <3>4. \A j, k \in DOMAIN ordered' : j # k => ordered'[j] # ordered'[k]
      BY <1>1, <3>1, <3>2 DEF OrderedOnce
    <3>5. \A k \in DOMAIN ordered' : \A u \in External : Val(u) \notin lits[ordered'[k]].out
      BY <1>1, <1>8, <2>2, <3>1 DEF OrderedOnce
    <3> QED BY <3>3, <3>4, <3>5
  <2> QED BY <2>1, <2>2
<1>10. \A g : Closed(g)' <=> Closed(g)
  BY <1>1 DEF Closed, Neighbours, Consumers, InEdge, Producers
<1>11. GraphsApart'
  BY <1>1, <1>10 DEF GraphsApart
<1>12. SortInside'
  <2>1. Entries(ordered)' = Entries(ordered') /\ Entries(frontier)' = Entries(frontier')
    BY DEF Entries
  <2>2. \A k \in DOMAIN graphs : Entries(ordered') \cap graphs[k] = {}
    BY <1>1, <1>4, <1>9 DEF SortInside, GraphsApart
  <2>3. Entries(ordered') \cap graph \subseteq Seen \cup {v}
    BY <1>1, <1>9 DEF SortInside
  <2> QED BY <1>1, <1>3, <1>4, <1>5, <1>6, <1>10, <2>1, <2>2, <2>3 DEF SortInside
<1>13. OrderedOnce'
  BY <1>1, <1>9 DEF OrderedOnce, External
<1> QED BY <1>11, <1>12, <1>13 DEF GraphInv

LEMMA NextGraphInv ==
    ASSUME TInv, SortInv, NamesInv, GraphInv, [Next]_vars PROVE GraphInv'
<1>1. phase \in {"graphs", "sort"} => OnceIn(lits) /\ NoneTaken(lits) /\ KeptPlain
  BY DEF NamesInv
<1>2. CASE UNCHANGED vars \/ Finished
  BY <1>2 DEF vars, building, sorting, Finished, GraphInv, GraphsApart, SortInside, OrderedOnce,
              Closed, Neighbours, Consumers, InEdge, Producers, Entries, Seen, External
<1>3. CASE StartGraph \/ GrowGraph \/ CloseGraph
  BY <1>1, <1>3, FindGraphs DEF StartGraph, GrowGraph, CloseGraph
<1>4. CASE KeepOrder \/ ReportCycle \/ StartSort \/ Sorted
  BY <1>1, <1>4, KeepGraphs DEF KeepOrder, ReportCycle, StartSort, Sorted
<1>5. CASE NextGraph \/ SkipLiteral \/ GraphSorted
  BY <1>5, NextGraphs, TraverseGraphs
<1>6. CASE VisitLiteral
  BY <1>1, <1>6, VisitGraphs DEF VisitLiteral
<1> QED BY <1>2, <1>3, <1>4, <1>5, <1>6, BuildingGraphs DEF Next

(***************************************************************************)
(* The body never changes, so what is asked of it holds throughout.        *)
(***************************************************************************)
OrderInv == NamesApart(body) => NamesInv /\ GraphInv

LEMMA BodyKept == TInv /\ [Next]_vars => body' = body
<1> SUFFICES ASSUME TInv, [Next]_vars PROVE body' = body
  OBVIOUS
<1>1. CASE ResolveCall
  BY <1>1, ResolveAdds DEF Throw, Added, Result, building
<1>2. CASE ~ResolveCall
  BY <1>2
     DEF Next, AddRuleLocals, AddNode, AddExternalCapture, NodesAdded, StartRound, Pop, EndResolve,
         AddCapture, CapturesAdded, StartGraph, GrowGraph, CloseGraph, KeepOrder, ReportCycle,
         StartSort, NextGraph, SkipLiteral, VisitLiteral, GraphSorted, Sorted, Finished, vars,
         building
<1> QED BY <1>1, <1>2

LEMMA OrderInvariant == Spec => [](TInv /\ SortInv /\ OrderInv)
<1>1. Init => OrderInv
  BY DEF Init, OrderInv, NamesInv, GraphInv, SortInside, OrderedOnce
<1>2. TInv /\ SortInv /\ OrderInv /\ [Next]_vars => OrderInv'
  BY BodyKept, NextNames, NextGraphInv DEF OrderInv
<1> QED BY <1>1, <1>2, SortInvariant, NextTInv, NextSortInv, PTL DEF Spec

(***************************************************************************)
(* For every body whose scope and literals name nothing twice, however the *)
(* unifications and the queue go: topological_sort and the order kept of   *)
(* an unsorted body emit no literal twice, and no two emitted literals     *)
(* give a variable its value (find_graphs, add_assign).                    *)
(***************************************************************************)
THEOREM BoundOnceCorrect == Spec => [](NamesApart(body) => BoundOnce)
<1>1. TInv /\ OrderInv => (NamesApart(body) => BoundOnce)
  <2> SUFFICES ASSUME TInv, OrderInv, NamesApart(body) PROVE BoundOnce
    OBVIOUS
  <2>1. OrderedOnce /\ (phase # "locals" => OnceIn(lits))
    BY DEF OrderInv, GraphInv, NamesInv
  <2>2. phase = "locals" => ordered = <<>>
    BY DEF TInv, Building, Untouched
  <2>3. lits \in Seq(Literal) /\ ordered \in Seq(1..Len(lits))
    BY SortedTypes
  <2>4. DOMAIN lits = 1..Len(lits) /\ \A k \in DOMAIN ordered : ordered[k] \in 1..Len(lits)
    BY <2>3
  <2>5. phase = "locals" => DOMAIN ordered = {}
    BY <2>2
  <2>6. "val" \notin Marks
    BY DEF Marks
  <2> QED BY <2>1, <2>4, <2>5, <2>6 DEF BoundOnce, OrderedOnce, OnceIn
<1> QED BY <1>1, OrderInvariant, PTL

(***************************************************************************)
(* For every such body: no emitted literal gives a value to a variable     *)
(* that add_external_captures took from the enclosing scope.               *)
(***************************************************************************)
THEOREM CaptureCorrect == Spec => [](NamesApart(body) => CaptureNeverAssigned)
<1>1. TInv /\ OrderInv => (NamesApart(body) => CaptureNeverAssigned)
  BY DEF OrderInv, GraphInv, OrderedOnce, CaptureNeverAssigned
<1> QED BY <1>1, OrderInvariant, PTL
=============================================================================
