---------------------------- MODULE RegoVMSharing ----------------------------
(***************************************************************************)
(* Theorems about what the locals of RegoVM share.  In a bundle that is    *)
(* laid out as RegoVMLayout says, a container is changed only while one    *)
(* local holds it, so a cached result is final, and input and data stay    *)
(* what they are; and although all functions write one frame, a call       *)
(* leaves its caller's locals, and the nodes they hold, as they were.      *)
(***************************************************************************)
EXTENDS RegoVMProofs, RegoVMLayout, WellFoundedInduction

(***************************************************************************)
(* What an activation keeps under construction while what it runs is on    *)
(* top of it, and when it runs itself after c was returned to it; and the  *)
(* locals whose nodes it and all it runs may hand on.                      *)
(***************************************************************************)
Live(a, b, lay) ==
    CASE a.kind = "block" -> Kept(lay, a.block, a.pc)
      [] a.kind \in {"plan", "nest"} -> UNION {lay.open[a.blocks[i]][1] : i \in DOMAIN a.blocks}
      [] a.kind = "scan" -> lay.open[a.block][1]
      [] a.kind = "call" -> IF a.next > 2 THEN Throughout(b, lay, a.func) ELSE {}
      [] OTHER -> {}
LiveTop(a, c, b, lay) ==
    CASE a.kind = "block" /\ c = "None" -> lay.open[a.block][a.pc]
      [] a.kind = "block" /\ c = "Continue" -> lay.open[a.block][a.pc + 1]
      [] a.kind = "call" /\ c \in {"Continue", "Undefined"} -> Throughout(b, lay, a.func)
      [] OTHER -> Live(a, b, lay)
Lending(a, b, lay) ==
    CASE a.kind = "block" -> lay.lends[a.block]
      [] a.kind \in {"plan", "nest"} -> UNION {lay.lends[a.blocks[i]] : i \in DOMAIN a.blocks}
      [] a.kind = "scan" -> lay.lends[a.block]
      [] a.kind = "call" -> lay.gives[a.func]
      [] a.kind = "bind" -> lay.gives[a.func] \cup UNION {LocalOf(a.args[i]) : i \in DOMAIN a.args}
      [] OTHER -> {}

\* What an activation was given by the statement or the function it runs.
Planned(a, b, lay) ==
    /\ Lending(a, b, lay) \cap Private(b) = {}
    /\ a.kind \in {"plan", "nest", "scan"} => Live(a, b, lay) \cap Lending(a, b, lay) = {}
    /\ a.kind = "call" => a.blocks = b.functions[a.func].blocks
    /\ a.kind = "block" => a.pc <= Len(b.blocks[a.block]) + 1
    /\ a.kind = "bind" => \A i \in DOMAIN a.args : \A m \in Moves(b) : m[1] \notin LocalOf(a.args[i])
    /\ a.kind \in {"call", "bind", "dynamic", "with"} => a.target \notin Builders(b)
    /\ a.kind = "scan" => a.key \notin Builders(b) /\ a.value \notin Builders(b)

\* An activation a and the one on top of it, x.
Over(a, x, b) ==
    /\ a.kind = "block" => /\ a.pc <= Len(b.blocks[a.block])
                           /\ b.blocks[a.block][a.pc].type \in Nesters
    /\ a.kind = "call" => a.next > 1 /\ x.kind = "block" /\ x.block = a.blocks[a.next - 1]
    /\ a.kind # "bind"

\* Nothing above an activation hands on what it keeps under construction, and
\* no function is evaluated, outside of With, that has a cached result.
StackOpen(s, ca, b, lay) ==
    /\ \A k \in DOMAIN s : Planned(s[k], b, lay)
    /\ \A k \in DOMAIN s : \A i \in 1..(k - 1) : Live(s[i], b, lay) \cap Lending(s[k], b, lay) = {}
    /\ \A k \in 1..(Len(s) - 1) : Over(s[k], s[k + 1], b)
    /\ \A k \in DOMAIN s : s[k].kind \in {"call", "bind"} =>
          (\E j \in 1..(k - 1) : s[j].kind = "with") \/ ca[s[k].func] = NoEntry

CodeFits(a, c, b) ==
    /\ c # "Timeout"
    /\ a.kind = "block" /\ c # "None" =>
          /\ a.pc <= Len(b.blocks[a.block])
          /\ c # "Continue" => b.blocks[a.block][a.pc].type # "ResetLocal"
    /\ a.kind = "call" /\ c = "None" => a.next = 1
    /\ a.kind = "bind" => c = "None"

\* All that is under construction: what the activations keep below the last
\* one, or all activations, and what the last one does.
Under(s, b, lay) == UNION {Live(s[i], b, lay) : i \in DOMAIN s}
Held(s, c, b, lay) ==
    (UNION {Live(s[i], b, lay) : i \in 1..(Len(s) - 1)}) \cup LiveTop(s[Len(s)], c, b, lay)

Opened(s, c, ca, b, lay) == /\ StackOpen(s, ca, b, lay) /\ CodeFits(s[Len(s)], c, b)
                            /\ Held(s, c, b, lay) \subseteq Builders(b)

-----------------------------------------------------------------------------
(***************************************************************************)
(* Pushing and popping.                                                    *)
(***************************************************************************)
LEMMA LastOf ==
    ASSUME NEW s, IsSeq(s), Len(s) > 0, NEW b, NEW lay
    PROVE  \E front : /\ Under(s, b, lay) = front \cup Live(s[Len(s)], b, lay)
                      /\ \A c : Held(s, c, b, lay) = front \cup LiveTop(s[Len(s)], c, b, lay)
<1> DEFINE front == UNION {Live(s[i], b, lay) : i \in 1..(Len(s) - 1)}
<1>1. DOMAIN s = 1..(Len(s) - 1) \cup {Len(s)}
  <2>1. Len(s) \in Nat /\ DOMAIN s = 1..Len(s)
    BY IsSeqDomain
  <2> QED  BY <2>1
<1>2. Under(s, b, lay) = front \cup Live(s[Len(s)], b, lay)
  BY <1>1 DEF Under
<1>3. \A c : Held(s, c, b, lay) = front \cup LiveTop(s[Len(s)], c, b, lay)
  BY DEF Held
<1> HIDE DEF front
<1> QED  BY <1>2, <1>3

LEMMA OpenPush ==
    ASSUME NEW s, IsSeq(s), NEW ca, NEW b, NEW lay, StackOpen(s, ca, b, lay),
           NEW a, Planned(a, b, lay),
           Under(s, b, lay) \cap Lending(a, b, lay) = {},
           Len(s) > 0 => Over(s[Len(s)], a, b),
           a.kind \in {"call", "bind"} =>
               (\E j \in DOMAIN s : s[j].kind = "with") \/ ca[a.func] = NoEntry
    PROVE  /\ IsSeq(Append(s, a)) /\ StackOpen(Append(s, a), ca, b, lay)
           /\ Len(Append(s, a)) > 0 /\ Append(s, a)[Len(Append(s, a))] = a
           /\ Under(Append(s, a), b, lay) = Under(s, b, lay) \cup Live(a, b, lay)
           /\ \A c : Held(Append(s, a), c, b, lay) = Under(s, b, lay) \cup LiveTop(a, c, b, lay)
           /\ \A j \in DOMAIN s : Append(s, a)[j] = s[j] /\ j \in DOMAIN Append(s, a)
<1> DEFINE t == Append(s, a)
           n == Len(s)
<1>1. /\ IsSeq(t) /\ n \in Nat /\ DOMAIN s = 1..n
      /\ DOMAIN t = 1..(n + 1) /\ Len(t) = n + 1
      /\ \A i \in 1..n : t[i] = s[i]
      /\ t[n + 1] = a
  BY PushIsSeq, IsSeqDomain
<1> HIDE DEF t, n
<1>2. /\ \A i \in DOMAIN s : Live(t[i], b, lay) = Live(s[i], b, lay)
      /\ \A i \in DOMAIN s : Live(s[i], b, lay) \subseteq Under(s, b, lay)
  BY <1>1 DEF Under
<1>3. ASSUME NEW k \in DOMAIN t
      PROVE  /\ Planned(t[k], b, lay)
             /\ \A i \in 1..(k - 1) : Live(t[i], b, lay) \cap Lending(t[k], b, lay) = {}
             /\ t[k].kind \in {"call", "bind"} =>
                  (\E j \in 1..(k - 1) : t[j].kind = "with") \/ ca[t[k].func] = NoEntry
  <2>1. CASE k = n + 1
    <3>1. 1..(k - 1) = DOMAIN s /\ t[k] = a
      BY <1>1, <2>1
    <3>2. \A i \in DOMAIN s : t[i] = s[i]
      BY <1>1
    <3> QED  BY <1>2, <3>1, <3>2
  <2>2. CASE k \in 1..n
    <3>1. t[k] = s[k] /\ k \in DOMAIN s /\ \A i \in 1..(k - 1) : t[i] = s[i]
      BY <1>1, <2>2
    <3>2. /\ Planned(s[k], b, lay)
          /\ \A i \in 1..(k - 1) : Live(s[i], b, lay) \cap Lending(s[k], b, lay) = {}
          /\ s[k].kind \in {"call", "bind"} =>
                (\E j \in 1..(k - 1) : s[j].kind = "with") \/ ca[s[k].func] = NoEntry
      BY <3>1 DEF StackOpen
    <3> QED  BY <3>1, <3>2
  <2> QED  BY <1>1, <2>1, <2>2
<1>4. ASSUME NEW k \in 1..(Len(t) - 1)
      PROVE  Over(t[k], t[k + 1], b)
  <2>1. CASE k = n
    BY <1>1, <2>1 DEF n
  <2>2. CASE k \in 1..(n - 1)
    <3>1. t[k] = s[k] /\ t[k + 1] = s[k + 1]
      BY <1>1, <2>2
    <3> QED  BY <2>2, <3>1 DEF StackOpen, n
  <2> QED  BY <1>1, <2>1, <2>2
<1>5. StackOpen(t, ca, b, lay)
  BY <1>3, <1>4 DEF StackOpen
<1>6. Under(t, b, lay) = Under(s, b, lay) \cup Live(a, b, lay)
  <2>1. DOMAIN t = DOMAIN s \cup {n + 1}
    BY <1>1
  <2> QED  BY <1>1, <1>2, <2>1 DEF Under
<1>7. \A c : Held(t, c, b, lay) = Under(s, b, lay) \cup LiveTop(a, c, b, lay)
  <2>1. 1..(Len(t) - 1) = DOMAIN s /\ t[Len(t)] = a
    BY <1>1
  <2> QED  BY <1>2, <2>1 DEF Under, Held
<1> QED  BY <1>1, <1>5, <1>6, <1>7 DEF t

LEMMA OpenPop ==
    ASSUME Inv, NEW lay, StackOpen(stack, cache, bundle, lay)
    PROVE  /\ IsSeq(Below) /\ StackOpen(Below, cache, bundle, lay)
           /\ Len(Below) = Len(stack) - 1 /\ (Top.kind # "plan" => Len(Below) > 0)
           /\ Planned(Top, bundle, lay)
           /\ Under(Below, bundle, lay) \cap Lending(Top, bundle, lay) = {}
           /\ Len(Below) > 0 => Over(Below[Len(Below)], Top, bundle)
           /\ Under(stack, bundle, lay) = Under(Below, bundle, lay) \cup Live(Top, bundle, lay)
           /\ \A c : Held(stack, c, bundle, lay) =
                        Under(Below, bundle, lay) \cup LiveTop(Top, c, bundle, lay)
           /\ Top.kind \in {"call", "bind"} =>
                 (\E j \in DOMAIN Below : Below[j].kind = "with") \/ cache[Top.func] = NoEntry
           /\ \A i \in DOMAIN Below : Below[i] = stack[i] /\ i \in DOMAIN stack
<1> DEFINE n == Len(stack)
<1>1. /\ IsSeq(stack) /\ n \in Nat /\ n > 0 /\ DOMAIN stack = 1..n /\ Top = stack[n]
      /\ Top.kind # "plan" => n > 1
  BY TopFacts, IsSeqDomain
<1>2. /\ IsSeq(Below) /\ Len(Below) = n - 1 /\ DOMAIN Below = 1..(n - 1)
      /\ \A i \in 1..(n - 1) : Below[i] = stack[i]
  BY <1>1, PopIsSeq, IsSeqDomain DEF Below
<1> HIDE DEF n
<1>3. StackOpen(Below, cache, bundle, lay)
  <2>1. ASSUME NEW k \in DOMAIN Below
        PROVE  /\ Planned(Below[k], bundle, lay)
               /\ \A i \in 1..(k - 1) : Live(Below[i], bundle, lay) \cap Lending(Below[k], bundle, lay) = {}
               /\ Below[k].kind \in {"call", "bind"} =>
                    (\E j \in 1..(k - 1) : Below[j].kind = "with") \/ cache[Below[k].func] = NoEntry
    <3>1. Below[k] = stack[k] /\ k \in DOMAIN stack /\ \A i \in 1..(k - 1) : Below[i] = stack[i]
      BY <1>1, <1>2
    <3> QED  BY <3>1 DEF StackOpen
  <2>2. ASSUME NEW k \in 1..(Len(Below) - 1)
        PROVE  Over(Below[k], Below[k + 1], bundle)
    <3>1. Below[k] = stack[k] /\ Below[k + 1] = stack[k + 1] /\ k \in 1..(n - 1)
      BY <1>1, <1>2
    <3> QED  BY <3>1 DEF StackOpen, n
  <2> QED  BY <2>1, <2>2 DEF StackOpen
<1>4. Len(Below) > 0 => Over(Below[Len(Below)], Top, bundle)
  <2>1. Len(Below) > 0 => n - 1 \in 1..(n - 1) /\ Below[Len(Below)] = stack[n - 1] /\ Top = stack[n - 1 + 1]
    BY <1>1, <1>2
  <2> QED  BY <2>1 DEF StackOpen, n
<1>5. /\ Planned(Top, bundle, lay)
      /\ \A i \in 1..(n - 1) : Live(stack[i], bundle, lay) \cap Lending(Top, bundle, lay) = {}
      /\ Top.kind \in {"call", "bind"} =>
             (\E j \in 1..(n - 1) : stack[j].kind = "with") \/ cache[Top.func] = NoEntry
  <2>1. n \in DOMAIN stack
    BY <1>1
  <2> QED  BY <1>1, <2>1 DEF StackOpen
<1>6. Under(Below, bundle, lay) = UNION {Live(stack[i], bundle, lay) : i \in 1..(n - 1)}
  BY <1>2 DEF Under
<1>7. Under(stack, bundle, lay) = Under(Below, bundle, lay) \cup Live(Top, bundle, lay)
  <2>1. DOMAIN stack = 1..(n - 1) \cup {n}
    BY <1>1
  <2> QED  BY <1>1, <1>6, <2>1 DEF Under
<1>8. \A c : Held(stack, c, bundle, lay) =
                Under(Below, bundle, lay) \cup LiveTop(Top, c, bundle, lay)
  BY <1>1, <1>6 DEF Held, n
<1>9. Under(Below, bundle, lay) \cap Lending(Top, bundle, lay) = {}
  BY <1>5, <1>6
<1> QED  BY <1>1, <1>2, <1>3, <1>4, <1>5, <1>7, <1>8, <1>9 DEF n

\* run_block is called on block x by the last activation of s.
LEMMA OpenEnter ==
    ASSUME NEW s, IsSeq(s), Len(s) > 0, NEW ca, NEW b, NEW lay, StackOpen(s, ca, b, lay),
           NEW x, EnterBlock(s, x), Under(s, b, lay) \subseteq Builders(b),
           lay.lends[x] \cap Private(b) = {}, lay.lends[x] \cap Under(s, b, lay) = {},
           lay.open[x][1] \subseteq Under(s, b, lay),
           Over(s[Len(s)], [kind |-> "block", block |-> x, pc |-> 1], b),
           s[Len(s)].kind \notin {"block", "bind"}, Len(b.blocks[x]) \in Nat
    PROVE  /\ Opened(stack', code', ca, b, lay)
           /\ Held(stack', code', b, lay) \subseteq Under(s, b, lay)
<1>1. CASE stack' = s /\ code' = "Error"
  <2>1. LiveTop(s[Len(s)], "Error", b, lay) = Live(s[Len(s)], b, lay)
    BY DEF LiveTop
  <2>2. Held(s, "Error", b, lay) = Under(s, b, lay)
    BY <2>1, LastOf
  <2>3. CodeFits(s[Len(s)], "Error", b)
    BY DEF CodeFits
  <2> QED  BY <1>1, <2>2, <2>3 DEF Opened
<1>2. CASE stack' = Append(s, [kind |-> "block", block |-> x, pc |-> 1]) /\ code' = "None"
  <2> DEFINE a == [kind |-> "block", block |-> x, pc |-> 1]
  <2>1. a.kind = "block" /\ a.block = x /\ a.pc = 1
    OBVIOUS
  <2>2. stack' = Append(s, a) /\ Over(s[Len(s)], a, b)
    BY <1>2
  <2> HIDE DEF a
  <2>3. /\ Lending(a, b, lay) = lay.lends[x]
        /\ LiveTop(a, "None", b, lay) = lay.open[x][1]
    BY <2>1 DEF Lending, LiveTop
  <2>4. Planned(a, b, lay) /\ CodeFits(a, "None", b)
    BY <2>1, <2>3 DEF Planned, CodeFits
  <2>5. /\ StackOpen(stack', ca, b, lay) /\ stack'[Len(stack')] = a
        /\ Held(stack', "None", b, lay) = Under(s, b, lay) \cup lay.open[x][1]
    BY <2>1, <2>2, <2>3, <2>4, OpenPush
  <2> QED  BY <1>2, <2>4, <2>5 DEF Opened
<1> QED  BY <1>1, <1>2 DEF EnterBlock

-----------------------------------------------------------------------------
(***************************************************************************)
(* At a statement.                                                         *)
(***************************************************************************)
Laid(lay) == /\ Inv /\ BuildsApart(bundle, lay)
             /\ Opened(stack, code, cache, bundle, lay)
Holding(lay) == Held(stack, code, bundle, lay)
\* What is under construction when the statement ends.
After(lay) == Under(Below, bundle, lay) \cup lay.open[Top.block][Top.pc + 1]

LEMMA BlockTyped ==
    ASSUME Inv, Top.kind = "block"
    PROVE  /\ Top.block \in DOMAIN bundle.blocks /\ Top.pc \in Nat \ {0}
           /\ IsSeq(Body(Top.block)) /\ Body(Top.block) = bundle.blocks[Top.block]
           /\ Len(Body(Top.block)) \in Nat /\ DOMAIN Body(Top.block) = 1..Len(Body(Top.block))
<1>1. Top.block \in DOMAIN bundle.blocks /\ Top.pc \in Nat \ {0}
  BY TopFacts DEF Activation
<1>2. IsSeq(Body(Top.block))
  BY <1>1, BundlesVerified DEF Inv, Verified, Body
<1> QED  BY <1>1, <1>2, IsSeqDomain DEF Body

LEMMA StatementLaid ==
    ASSUME NEW lay, Laid(lay), AtStatement
    PROVE  /\ Top.kind = "block" /\ code = "None" /\ Stmt = bundle.blocks[Top.block][Top.pc]
           /\ Stmt \in StatementsOf(bundle) /\ StatementOK(Stmt, bundle)
           /\ StatementOpen(bundle, lay, Top.block, Top.pc)
           /\ Lent(Stmt) \subseteq lay.lends[Top.block]
           /\ \A i \in DOMAIN Stmt.blocks : lay.lends[Stmt.blocks[i]] \subseteq lay.lends[Top.block]
           /\ \A f \in Callees(bundle, Stmt) : lay.gives[f] \subseteq lay.lends[Top.block]
           /\ lay.lends[Top.block] \cap Private(bundle) = {}
           /\ Top.pc \in Nat \ {0} /\ Top.pc <= Len(bundle.blocks[Top.block])
           /\ lay.open[Top.block][Top.pc + 1] \subseteq Builders(bundle)
<1>1. Inv /\ LendsKnown(bundle, lay) /\ BlocksOpen(bundle, lay)
  BY DEF Laid, BuildsApart
<1>2. Top.kind = "block" /\ code = "None" /\ Top.pc <= Len(Body(Top.block))
  BY DEF AtStatement, Running
<1>3. /\ Top.block \in DOMAIN bundle.blocks /\ Body(Top.block) = bundle.blocks[Top.block]
      /\ Top.pc \in DOMAIN bundle.blocks[Top.block] /\ Stmt = bundle.blocks[Top.block][Top.pc]
      /\ Top.pc + 1 \in 1..(Len(bundle.blocks[Top.block]) + 1) /\ Top.pc \in Nat \ {0}
  BY <1>1, <1>2, BlockTyped DEF Stmt
<1>4. Stmt \in StatementsOf(bundle) /\ StatementOK(Stmt, bundle)
  BY <1>1, StatementApart, StatementFacts
<1>5. /\ StatementOpen(bundle, lay, Top.block, Top.pc)
      /\ lay.open[Top.block][Top.pc + 1] \subseteq Builders(bundle)
  BY <1>1, <1>3 DEF BlocksOpen
<1> QED  BY <1>1, <1>2, <1>3, <1>4, <1>5 DEF LendsKnown

LEMMA AtStatementHeld ==
    ASSUME NEW lay, Laid(lay), AtStatement
    PROVE  /\ Holding(lay) = Under(Below, bundle, lay) \cup lay.open[Top.block][Top.pc]
           /\ Under(stack, bundle, lay) =
                Under(Below, bundle, lay) \cup Kept(lay, Top.block, Top.pc)
           /\ Under(stack, bundle, lay) \subseteq After(lay)
           /\ After(lay) \subseteq Builders(bundle)
           /\ \A l \in After(lay) : l \in Holding(lay) \/ (Stmt.type \in Makers /\ l = Stmt.target)
           /\ After(lay) \cap Lent(Stmt) = {}
           /\ Under(Below, bundle, lay) \cap lay.lends[Top.block] = {}
<1>1. /\ Top.kind = "block" /\ code = "None" /\ Inv
      /\ StackOpen(stack, cache, bundle, lay) /\ Holding(lay) \subseteq Builders(bundle)
  BY StatementLaid DEF Laid, Opened, Holding
<1>2. /\ Under(Below, bundle, lay) \cap Lending(Top, bundle, lay) = {}
      /\ Under(stack, bundle, lay) = Under(Below, bundle, lay) \cup Live(Top, bundle, lay)
      /\ Holding(lay) = Under(Below, bundle, lay) \cup LiveTop(Top, code, bundle, lay)
  BY <1>1, OpenPop DEF Holding
<1>3. /\ Live(Top, bundle, lay) = Kept(lay, Top.block, Top.pc)
      /\ LiveTop(Top, code, bundle, lay) = lay.open[Top.block][Top.pc]
      /\ Lending(Top, bundle, lay) = lay.lends[Top.block]
  BY <1>1 DEF Live, LiveTop, Lending
<1>4. /\ \A l \in lay.open[Top.block][Top.pc + 1] \ lay.open[Top.block][Top.pc] :
            Stmt.type \in Makers /\ l = Stmt.target
      /\ lay.open[Top.block][Top.pc + 1] \cap Lent(Stmt) = {}
  BY StatementLaid DEF StatementOpen
<1>5. Lent(Stmt) \subseteq lay.lends[Top.block]
      /\ lay.open[Top.block][Top.pc + 1] \subseteq Builders(bundle)
  BY StatementLaid
<1> QED  BY <1>1, <1>2, <1>3, <1>4, <1>5 DEF After, Kept

\* Opened after a step at a statement.
Proceeds(lay) == /\ Opened(stack', code', cache, bundle, lay)
                 /\ Held(stack', code', bundle, lay) \subseteq After(lay)

\* A statement that runs no block and no function.
LEMMA StraightProceeds ==
    ASSUME NEW lay, Laid(lay), AtStatement, stack' = stack,
           code' \in Codes \ {"Timeout"}, Stmt.type = "ResetLocal" => code' = "Continue"
    PROVE  Proceeds(lay)
<1>1. Inv /\ StackOpen(stack, cache, bundle, lay) /\ Top = stack[Len(stack)]
  BY TopFacts DEF Laid, Opened
<1>2. /\ Top.kind = "block" /\ Stmt = bundle.blocks[Top.block][Top.pc]
      /\ Top.pc <= Len(bundle.blocks[Top.block]) /\ code' # "None"
  BY StatementLaid DEF Codes
<1>3. CodeFits(Top, code', bundle)
  BY <1>2 DEF CodeFits
<1>4. LiveTop(Top, code', bundle, lay) \subseteq lay.open[Top.block][Top.pc + 1]
  BY <1>2 DEF LiveTop, Live, Kept
<1>5. Held(stack, code', bundle, lay) =
        Under(Below, bundle, lay) \cup LiveTop(Top, code', bundle, lay)
  BY <1>1, OpenPop
<1>6. Held(stack, code', bundle, lay) \subseteq After(lay)
  BY <1>4, <1>5 DEF After
<1> QED  BY <1>1, <1>3, <1>6, AtStatementHeld DEF Proceeds, Opened

\* What a statement may push, and what is then under construction.
LEMMA StatementPushes ==
    ASSUME NEW lay, Laid(lay), AtStatement, Stmt.type \in Nesters,
           NEW a, Planned(a, bundle, lay),
           Kept(lay, Top.block, Top.pc) \cap Lending(a, bundle, lay) = {},
           Lending(a, bundle, lay) \subseteq lay.lends[Top.block],
           a.kind \in {"call", "bind"} =>
               (\E j \in DOMAIN stack : stack[j].kind = "with") \/ cache[a.func] = NoEntry
    PROVE  /\ IsSeq(Append(stack, a)) /\ StackOpen(Append(stack, a), cache, bundle, lay)
           /\ Len(Append(stack, a)) > 0 /\ Append(stack, a)[Len(Append(stack, a))] = a
           /\ Under(Append(stack, a), bundle, lay)
                = Under(stack, bundle, lay) \cup Live(a, bundle, lay)
           /\ \A c : Held(Append(stack, a), c, bundle, lay)
                = Under(stack, bundle, lay) \cup LiveTop(a, c, bundle, lay)
           /\ \A j \in DOMAIN stack : Append(stack, a)[j] = stack[j] /\ j \in DOMAIN Append(stack, a)
<1>1. Inv /\ StackOpen(stack, cache, bundle, lay) /\ Top = stack[Len(stack)] /\ IsSeq(stack)
  BY TopFacts DEF Laid, Opened
<1>2. Under(stack, bundle, lay) \cap Lending(a, bundle, lay) = {}
  BY AtStatementHeld
<1>3. Over(stack[Len(stack)], a, bundle)
  BY <1>1, StatementLaid DEF Over
<1> QED  BY <1>1, <1>2, <1>3, OpenPush

\* A statement that pushes one activation.
LEMMA PushProceeds ==
    ASSUME NEW lay, Laid(lay), AtStatement, Stmt.type \in Nesters,
           NEW a, Planned(a, bundle, lay), a.kind \in {"nest", "scan"},
           Kept(lay, Top.block, Top.pc) \cap Lending(a, bundle, lay) = {},
           Lending(a, bundle, lay) \subseteq lay.lends[Top.block],
           Live(a, bundle, lay) \subseteq Kept(lay, Top.block, Top.pc),
           stack' = Append(stack, a), code' = code
    PROVE  Proceeds(lay)
<1>1. code' = "None"
  BY StatementLaid
<1>2. LiveTop(a, "None", bundle, lay) = Live(a, bundle, lay) /\ CodeFits(a, "None", bundle)
  BY DEF LiveTop, CodeFits
<1>3. /\ StackOpen(stack', cache, bundle, lay) /\ stack'[Len(stack')] = a
      /\ Held(stack', "None", bundle, lay) = Under(stack, bundle, lay) \cup Live(a, bundle, lay)
  BY <1>2, StatementPushes
<1>4. Held(stack', "None", bundle, lay) \subseteq Under(stack, bundle, lay)
  BY <1>3, AtStatementHeld
<1> QED  BY <1>1, <1>2, <1>3, <1>4, AtStatementHeld DEF Proceeds, Opened

\* A Not or a With: its activation and the block it runs.
LEMMA NestProceeds ==
    ASSUME NEW lay, Laid(lay), AtStatement, Stmt.type \in {"Not", "With"},
           NEW a, a.kind \in {"not", "with"}, a.kind = "with" => a.target \notin Builders(bundle),
           EnterBlock(Append(stack, a), Stmt.blocks[1])
    PROVE  Proceeds(lay)
<1> DEFINE x == Stmt.blocks[1]
           s == Append(stack, a)
<1>1. Lending(a, bundle, lay) = {} /\ Live(a, bundle, lay) = {} /\ Planned(a, bundle, lay)
  BY DEF Lending, Live, Planned
<1>2. /\ IsSeq(s) /\ StackOpen(s, cache, bundle, lay) /\ Len(s) > 0 /\ s[Len(s)] = a
      /\ Under(s, bundle, lay) = Under(stack, bundle, lay)
  <2>1. Stmt.type \in Nesters /\ a.kind \notin {"call", "bind"}
    BY DEF Nesters
  <2>2. /\ Kept(lay, Top.block, Top.pc) \cap Lending(a, bundle, lay) = {}
        /\ Lending(a, bundle, lay) \subseteq lay.lends[Top.block]
    BY <1>1
  <2>3. /\ IsSeq(s) /\ StackOpen(s, cache, bundle, lay) /\ Len(s) > 0 /\ s[Len(s)] = a
        /\ Under(s, bundle, lay) = Under(stack, bundle, lay) \cup Live(a, bundle, lay)
    BY <1>1, <2>1, <2>2, StatementPushes
  <2> QED  BY <1>1, <2>3
<1>3. 1 \in DOMAIN Stmt.blocks /\ x \in DOMAIN bundle.blocks
  BY StatementLaid DEF StatementOK
<1>4. /\ lay.open[x][1] \subseteq Kept(lay, Top.block, Top.pc)
      /\ Kept(lay, Top.block, Top.pc) \cap lay.lends[x] = {}
      /\ lay.lends[x] \subseteq lay.lends[Top.block]
      /\ lay.lends[Top.block] \cap Private(bundle) = {}
  BY <1>3, StatementLaid DEF StatementOpen
<1>5. /\ Under(s, bundle, lay) \subseteq After(lay) /\ After(lay) \subseteq Builders(bundle)
      /\ lay.lends[x] \cap Under(s, bundle, lay) = {}
      /\ lay.open[x][1] \subseteq Under(s, bundle, lay)
  BY <1>2, <1>4, AtStatementHeld
<1>6. Over(s[Len(s)], [kind |-> "block", block |-> x, pc |-> 1], bundle)
  BY <1>2 DEF Over
<1>7. Len(bundle.blocks[x]) \in Nat
  BY <1>3, BundlesVerified, IsSeqDomain DEF Laid, Inv, Verified
<1>8. EnterBlock(s, x)
  OBVIOUS
<1> HIDE DEF s, x
<1>9. /\ Opened(stack', code', cache, bundle, lay)
      /\ Held(stack', code', bundle, lay) \subseteq Under(s, bundle, lay)
  BY <1>2, <1>4, <1>5, <1>6, <1>7, <1>8, OpenEnter
<1> QED  BY <1>5, <1>9 DEF Proceeds

LEMMA WithOnStack ==
    ASSUME Inv, withCount # 0
    PROVE  \E j \in DOMAIN stack : stack[j].kind = "with"
<1>1. DOMAIN stack = 1..Len(stack) /\ withCount = Count(stack, "with", Len(stack))
  BY TopFacts, IsSeqDomain DEF CountersOK
<1>2. ~(\E j \in DOMAIN stack : stack[j].kind = "with") =>
        {i \in 1..Len(stack) : stack[i].kind = "with"} = {}
  BY <1>1
<1> QED  BY <1>1, <1>2, FS_EmptySet DEF Count

\* run_call, in a caller whose activations are `base'.
LEMMA DoCallProceeds ==
    ASSUME NEW lay, Laid(lay), AtStatement, Stmt.type \in {"Call", "CallDynamic"},
           NEW f, Stmt.type = "Call" => f = Stmt.func,
           NEW base, IsSeq(base), StackOpen(base, cache, bundle, lay), Len(base) > 0,
           Under(base, bundle, lay) = Under(stack, bundle, lay),
           \A j \in DOMAIN stack : base[j] = stack[j] /\ j \in DOMAIN base,
           base = stack \/ base[Len(base)].kind = "dynamic",
           DoCall(base, f, Stmt.args, Stmt.target)
    PROVE  Proceeds(lay) \/ UNCHANGED <<stack, code, frame, cache>>
<1> DEFINE a == [kind |-> "bind", func |-> f, args |-> Stmt.args, next |-> 3,
                 target |-> Stmt.target]
<1>1. \/ UNCHANGED <<stack, code, frame, cache>>
      \/ stack' = base /\ code' \in {"Error", "Continue"}
      \/ /\ f \in Functions /\ ~CacheHit(f)
         /\ stack' = Append(base, a) /\ code' = "None"
  BY DEF DoCall, Throw
<1>2. a.kind = "bind" /\ a.func = f /\ a.args = Stmt.args /\ a.target = Stmt.target
  OBVIOUS
<1> HIDE DEF a
<1>3. CASE stack' = base /\ code' \in {"Error", "Continue"}
  <2>1. CASE base = stack
    BY <1>3, <2>1, StraightProceeds DEF Codes
  <2>2. CASE base[Len(base)].kind = "dynamic"
    <3>1. /\ Live(base[Len(base)], bundle, lay) = {}
          /\ \A c : LiveTop(base[Len(base)], c, bundle, lay) = {}
      BY <2>2 DEF Live, LiveTop
    <3>2. Held(base, code', bundle, lay) = Under(base, bundle, lay)
      BY <3>1, LastOf
    <3>3. CodeFits(base[Len(base)], code', bundle)
      BY <1>3, <2>2 DEF CodeFits
    <3> QED  BY <1>3, <3>2, <3>3, AtStatementHeld DEF Proceeds, Opened
  <2> QED  BY <2>1, <2>2
<1>4. CASE /\ f \in Functions /\ ~CacheHit(f)
           /\ stack' = Append(base, a) /\ code' = "None"
  <2>1. f \in Callees(bundle, Stmt)
    BY <1>4 DEF Callees, Functions
  <2>2. /\ Lending(a, bundle, lay) = lay.gives[f] \cup Lent(Stmt)
        /\ Live(a, bundle, lay) = {} /\ LiveTop(a, "None", bundle, lay) = {}
    BY <1>2 DEF Lending, Lent, Live, LiveTop
  <2>3. /\ lay.gives[f] \subseteq lay.lends[Top.block] /\ Lent(Stmt) \subseteq lay.lends[Top.block]
        /\ Kept(lay, Top.block, Top.pc) \cap lay.gives[f] = {}
    BY <2>1, StatementLaid DEF StatementOpen
  <2>4. Lending(a, bundle, lay) \cap Private(bundle) = {}
    BY <2>2, <2>3, StatementLaid
  <2>5. Under(base, bundle, lay) \cap Lending(a, bundle, lay) = {}
    <3>1. Under(stack, bundle, lay) \cap Lent(Stmt) = {}
      BY AtStatementHeld
    <3>2. Under(stack, bundle, lay) \cap lay.gives[f] = {}
      BY <2>3, AtStatementHeld
    <3> QED  BY <2>2, <3>1, <3>2
  <2>6. Planned(a, bundle, lay)
    <3>1. a.target \notin Builders(bundle)
      BY <1>2, StatementLaid DEF Laid, BuildsApart, DocumentsApart
    <3>2. \A i \in DOMAIN a.args : \A m \in Moves(bundle) : m[1] \notin LocalOf(a.args[i])
      <4>1. \A i \in DOMAIN a.args : LocalOf(a.args[i]) \subseteq Lent(Stmt)
        BY <1>2 DEF Lent
      <4>2. \A m \in Moves(bundle) : m[1] \notin Lent(Stmt)
        BY StatementLaid DEF Laid, BuildsApart, MovesFinal, IsMove
      <4> QED  BY <4>1, <4>2
    <3> QED  BY <1>2, <2>4, <3>1, <3>2 DEF Planned
  <2>7. Over(base[Len(base)], a, bundle)
    <3>1. CASE base = stack
      BY <3>1, TopFacts, StatementLaid DEF Over, Laid, Nesters
    <3>2. CASE base[Len(base)].kind = "dynamic"
      BY <3>2 DEF Over
    <3> QED  BY <3>1, <3>2
  <2>8. (\E j \in DOMAIN base : base[j].kind = "with") \/ cache[a.func] = NoEntry
    BY <1>2, <1>4, WithOnStack DEF CacheHit, Laid
  <2>9. /\ StackOpen(stack', cache, bundle, lay) /\ stack'[Len(stack')] = a
        /\ Held(stack', "None", bundle, lay) = Under(base, bundle, lay)
    <3> DEFINE s == Append(base, a)
    <3>1. /\ StackOpen(s, cache, bundle, lay) /\ s[Len(s)] = a
          /\ Held(s, "None", bundle, lay)
               = Under(base, bundle, lay) \cup LiveTop(a, "None", bundle, lay)
      BY <2>5, <2>6, <2>7, <2>8, OpenPush
    <3> HIDE DEF s
    <3>2. stack' = s
      BY <1>4 DEF s
    <3> QED  BY <2>2, <3>1, <3>2
  <2>10. CodeFits(a, "None", bundle)
    BY <1>2 DEF CodeFits
  <2> QED  BY <1>4, <2>9, <2>10, AtStatementHeld DEF Proceeds, Opened
<1> QED  BY <1>1, <1>3, <1>4

LEMMA ScanProceeds ==
    ASSUME NEW lay, Laid(lay), ScanStmt
    PROVE  Proceeds(lay)
<1> DEFINE a == [kind |-> "scan", source |-> frame[Stmt.target], seen |-> {},
                 key |-> Stmt.op0[2], value |-> Stmt.op1[2], block |-> Stmt.blocks[1]]
<1>1. AtStatement /\ Stmt.type = "Scan"
  BY DEF ScanStmt, Executes
<1>2. CASE stack' = stack /\ code' = "Undefined"
  BY <1>1, <1>2, StraightProceeds DEF Codes
<1>3. CASE stack' = Append(stack, a) /\ code' = code
  <2>1. /\ a.kind = "scan" /\ a.key = Stmt.op0[2] /\ a.value = Stmt.op1[2]
        /\ a.block = Stmt.blocks[1] /\ stack' = Append(stack, a)
    BY <1>3
  <2> HIDE DEF a
  <2>2. 1 \in DOMAIN Stmt.blocks
    BY <1>1, StatementLaid DEF StatementOK
  <2>3. /\ lay.open[a.block][1] \subseteq Kept(lay, Top.block, Top.pc)
        /\ Kept(lay, Top.block, Top.pc) \cap lay.lends[a.block] = {}
        /\ lay.lends[a.block] \subseteq lay.lends[Top.block]
        /\ lay.lends[Top.block] \cap Private(bundle) = {}
    BY <1>1, <2>1, <2>2, StatementLaid DEF StatementOpen
  <2>4. Lending(a, bundle, lay) = lay.lends[a.block] /\ Live(a, bundle, lay) = lay.open[a.block][1]
    BY <2>1 DEF Lending, Live
  <2>5. a.key \notin Builders(bundle) /\ a.value \notin Builders(bundle)
    BY <1>1, <2>1, StatementLaid DEF Laid, BuildsApart, DocumentsApart
  <2>6. Planned(a, bundle, lay)
    BY <2>1, <2>3, <2>4, <2>5 DEF Planned
  <2> QED  BY <1>1, <1>3, <2>1, <2>3, <2>4, <2>6, PushProceeds DEF Nesters
<1> QED  BY <1>2, <1>3 DEF ScanStmt, Completes

LEMMA BlockStmtProceeds ==
    ASSUME NEW lay, Laid(lay), BlockStmt
    PROVE  Proceeds(lay)
<1> DEFINE a == [kind |-> "nest", blocks |-> Stmt.blocks, next |-> 1]
<1>1. /\ AtStatement /\ Stmt.type = "Block"
      /\ stack' = Append(stack, a) /\ code' = code
      /\ a.kind = "nest" /\ a.blocks = Stmt.blocks
  BY DEF BlockStmt, Executes
<1> HIDE DEF a
<1>2. ASSUME NEW i \in DOMAIN a.blocks
      PROVE  /\ lay.open[a.blocks[i]][1] \subseteq Kept(lay, Top.block, Top.pc)
             /\ Kept(lay, Top.block, Top.pc) \cap lay.lends[a.blocks[i]] = {}
             /\ lay.lends[a.blocks[i]] \subseteq lay.lends[Top.block]
  BY <1>1, <1>2, StatementLaid DEF StatementOpen
<1>3. /\ Lending(a, bundle, lay) = UNION {lay.lends[a.blocks[i]] : i \in DOMAIN a.blocks}
      /\ Live(a, bundle, lay) = UNION {lay.open[a.blocks[i]][1] : i \in DOMAIN a.blocks}
  BY <1>1 DEF Lending, Live
<1>4. /\ Lending(a, bundle, lay) \subseteq lay.lends[Top.block]
      /\ Live(a, bundle, lay) \subseteq Kept(lay, Top.block, Top.pc)
      /\ Kept(lay, Top.block, Top.pc) \cap Lending(a, bundle, lay) = {}
  BY <1>2, <1>3
<1>5. lay.lends[Top.block] \cap Private(bundle) = {}
  BY <1>1, StatementLaid
<1>6. Planned(a, bundle, lay)
  BY <1>1, <1>4, <1>5 DEF Planned
<1> QED  BY <1>1, <1>4, <1>6, PushProceeds DEF Nesters

\* Every statement that does not stop the machine.
LEMMA StatementProceeds ==
    ASSUME NEW lay, Laid(lay), AtStatement, Next, stmtCount' < StmtLimit
    PROVE  Proceeds(lay) \/ UNCHANGED <<stack, code, frame, cache>>
<1>0. Inv /\ Top.kind = "block" /\ code = "None" /\ ~(Top.pc > Len(Body(Top.block)))
      /\ status = "running"
  <2>1. Inv /\ Top.kind = "block" /\ code = "None" /\ status = "running"
        /\ Top.pc <= Len(Body(Top.block))
    BY DEF Laid, AtStatement, Running
  <2> QED  BY <2>1, BlockTyped
<1>1. CASE Timeout
  <2>1. stmtCount \in Nat /\ StmtLimit \in Nat
    BY <1>0, LimitsAssumption DEF Inv, ControlOK
  <2> QED  BY <1>1, <2>1 DEF Timeout, LimitReached
<1>2. CASE RawOperand \/ WithCrash \/ ScanThrow \/ FillMalformed
  BY <1>2 DEF RawOperand, WithCrash, ScanThrow, FillMalformed, Throw
<1>3. CASE ResetLocal
  BY <1>3, StraightProceeds DEF ResetLocal, Completes, Codes
<1>4. CASE Straight /\ ~Timeout /\ ~RawOperand /\ ~ResetLocal /\ ~FillMalformed
  <2>1. CASE Tests
    <3>1. /\ stack' = stack /\ code' \in {"Continue", "Undefined"}
          /\ Stmt.type # "ResetLocal"
      BY <2>1 DEF Tests, Test, Completes, Executes
    <3> QED  BY <3>1, StraightProceeds DEF Codes
  <2>2. CASE ~Tests
    <3>1. /\ stack' = stack /\ code' \in {"Continue", "Undefined", "Error", "Return", "Break"}
          /\ Stmt.type # "ResetLocal"
      BY <1>4, <2>2 DEF Straight, Make, MeasureLen, AssignVar, AssignVarOnce, ObjectInsert,
          ObjectMerge, Add, DotStmt, ResultSetAdd, ReturnLocal, BreakStmt,
          DynamicUndefined, Completes, Executes
    <3> QED  BY <3>1, StraightProceeds DEF Codes
  <2> QED  BY <2>1, <2>2
<1>5. CASE BlockStmt \/ ScanStmt
  BY <1>5, BlockStmtProceeds, ScanProceeds
<1>6. CASE NotStmt
  <2> DEFINE a == [kind |-> "not"]
  <2>1. a.kind = "not" /\ Stmt.type = "Not" /\ EnterBlock(Append(stack, a), Stmt.blocks[1])
    BY <1>6 DEF NotStmt, Executes
  <2> HIDE DEF a
  <2> QED  BY <2>1, NestProceeds
<1>7. CASE WithStmt
  <2> DEFINE a == [kind |-> "with", target |-> Stmt.target, old |-> frame[Stmt.target]]
  <2>1. /\ a.kind = "with" /\ a.target = Stmt.target /\ Stmt.type = "With"
        /\ EnterBlock(Append(stack, a), Stmt.blocks[1])
    BY <1>7 DEF WithStmt, Executes
  <2> HIDE DEF a
  <2>2. a.target \notin Builders(bundle)
    BY <2>1, StatementLaid DEF Laid, BuildsApart, DocumentsApart
  <2> QED  BY <2>1, <2>2, NestProceeds
<1>8. CASE CallStmt
  <2>1. /\ Stmt.type = "Call" /\ DoCall(stack, Stmt.func, Stmt.args, Stmt.target)
        /\ IsSeq(stack) /\ Len(stack) > 0 /\ StackOpen(stack, cache, bundle, lay)
    BY <1>0, <1>8, TopFacts DEF CallStmt, Executes, Laid, Opened
  <2> QED  BY <2>1, DoCallProceeds
<1>9. CASE DynamicCall
  <2>1. /\ Stmt.type = "CallDynamic"
        /\ \E i \in Prefixes(Stmt) :
             DoCall(Append(stack, [kind |-> "dynamic", target |-> Stmt.target,
                                   path |-> SubSeq(Stmt.path, i + 1, Len(Stmt.path))]),
                    PrefixName(Stmt, i), Stmt.args, Stmt.target)
    BY <1>9 DEF DynamicCall, Executes
  <2>2. PICK i \in Prefixes(Stmt) :
             DoCall(Append(stack, [kind |-> "dynamic", target |-> Stmt.target,
                                   path |-> SubSeq(Stmt.path, i + 1, Len(Stmt.path))]),
                    PrefixName(Stmt, i), Stmt.args, Stmt.target)
    BY <2>1
  <2> DEFINE a == [kind |-> "dynamic", target |-> Stmt.target,
                   path |-> SubSeq(Stmt.path, i + 1, Len(Stmt.path))]
             base == Append(stack, a)
  <2>3. a.kind = "dynamic" /\ a.target = Stmt.target
    OBVIOUS
  <2>4. DoCall(base, PrefixName(Stmt, i), Stmt.args, Stmt.target)
    BY <2>2
  <2> HIDE DEF a
  <2>5. a.target \notin Builders(bundle)
    BY <2>1, <2>3, StatementLaid DEF Laid, BuildsApart, DocumentsApart
  <2>6. Lending(a, bundle, lay) = {} /\ Live(a, bundle, lay) = {} /\ Planned(a, bundle, lay)
    BY <2>3, <2>5 DEF Lending, Live, Planned
  <2>7. /\ IsSeq(base) /\ StackOpen(base, cache, bundle, lay) /\ Len(base) > 0
        /\ base[Len(base)] = a
        /\ Under(base, bundle, lay) = Under(stack, bundle, lay)
        /\ \A j \in DOMAIN stack : base[j] = stack[j] /\ j \in DOMAIN base
    <3>1. Stmt.type \in Nesters /\ a.kind \notin {"call", "bind"}
      BY <2>1, <2>3 DEF Nesters
    <3>2. /\ Kept(lay, Top.block, Top.pc) \cap Lending(a, bundle, lay) = {}
          /\ Lending(a, bundle, lay) \subseteq lay.lends[Top.block]
      BY <2>6
    <3>3. /\ IsSeq(base) /\ StackOpen(base, cache, bundle, lay) /\ Len(base) > 0
          /\ base[Len(base)] = a
          /\ Under(base, bundle, lay) = Under(stack, bundle, lay) \cup Live(a, bundle, lay)
          /\ \A j \in DOMAIN stack : base[j] = stack[j] /\ j \in DOMAIN base
      BY <2>6, <3>1, <3>2, StatementPushes
    <3> QED  BY <2>6, <3>3
  <2> HIDE DEF base
  <2> QED  BY <2>1, <2>3, <2>4, <2>7, DoCallProceeds
<1>10. CASE Blocks /\ ~(BlockStmt \/ NotStmt \/ WithStmt \/ WithCrash \/ ScanStmt \/ ScanThrow)
  BY <1>0, <1>10 DEF Blocks, PlanNext, PlanDone, NestNext, NestDone, BlockAdvance, BlockEnd,
      BlockExit, BlockBreak, NotDone, WithDone, ScanNext, ScanDone, NextBlock, Running
<1>11. CASE Calls /\ ~CallStmt /\ ~DynamicCall
  BY <1>0, <1>11 DEF Calls, BindParam, EnterFunction, CallNext, CallNoBlocks, CallReturn,
      CallFail, DynamicDone, NextBlock, Running
<1> QED  BY <1>0, <1>1, <1>2, <1>3, <1>4, <1>5, <1>6, <1>7, <1>8, <1>9, <1>10, <1>11 DEF Next

-----------------------------------------------------------------------------
(***************************************************************************)
(* Between statements.                                                     *)
(***************************************************************************)
\* Opened after a step between two statements.
Settles(lay) == /\ Opened(stack', code', cache, bundle, lay)
                /\ Held(stack', code', bundle, lay) \subseteq Holding(lay)

LEMMA HoldingBelow ==
    ASSUME NEW lay, Laid(lay)
    PROVE  /\ Holding(lay) = Under(Below, bundle, lay) \cup LiveTop(Top, code, bundle, lay)
           /\ Holding(lay) \subseteq Builders(bundle)
           /\ CodeFits(Top, code, bundle)
BY TopFacts, OpenPop DEF Laid, Opened, Holding

\* The block on top of a call's second block finds the result open.
LEMMA FirstBlockLeaves ==
    ASSUME NEW lay, Laid(lay), NEW f \in Functions, Top.kind = "block",
           Top.block = bundle.functions[f].blocks[1],
           \/ code = "None" /\ Top.pc > Len(Body(Top.block))
           \/ code = "Undefined"
    PROVE  Throughout(bundle, lay, f) \subseteq LiveTop(Top, code, bundle, lay)
<1> DEFINE rs == Throughout(bundle, lay, f)
           n == Len(bundle.blocks[Top.block])
<1>1. Inv /\ ResultsOpen(bundle, lay) /\ Planned(Top, bundle, lay) /\ CodeFits(Top, code, bundle)
  BY OpenPop, HoldingBelow DEF Laid, BuildsApart, Opened
<1>2. /\ Top.pc \in Nat \ {0} /\ n \in Nat /\ Top.pc <= n + 1
      /\ Body(Top.block) = bundle.blocks[Top.block]
  BY <1>1, BlockTyped DEF Planned
<1>3. rs # {} => /\ n > 0 /\ bundle.blocks[Top.block][1].type = "ResetLocal"
                 /\ \A j \in 2..(n + 1) : rs \subseteq lay.open[Top.block][j]
  BY <1>1 DEF ResultsOpen, Functions
<1> HIDE DEF rs, n
<1>4. CASE rs # {} /\ code = "None" /\ Top.pc > n
  <2>1. Top.pc \in 2..(n + 1)
    BY <1>2, <1>3, <1>4
  <2>2. LiveTop(Top, code, bundle, lay) = lay.open[Top.block][Top.pc]
    BY <1>4 DEF LiveTop
  <2> QED  BY <1>3, <1>4, <2>1, <2>2 DEF rs
<1>5. CASE rs # {} /\ code = "Undefined"
  <2>1. Top.pc <= n /\ bundle.blocks[Top.block][Top.pc].type # "ResetLocal"
    BY <1>1, <1>5 DEF CodeFits, n
  <2>2. Top.pc \in 2..(n + 1) /\ Top.pc + 1 \in 2..(n + 1)
    BY <1>2, <1>3, <1>5, <2>1
  <2>3. LiveTop(Top, code, bundle, lay)
          = lay.open[Top.block][Top.pc] \cap lay.open[Top.block][Top.pc + 1]
    BY <1>5 DEF LiveTop, Live, Kept
  <2> QED  BY <1>3, <1>5, <2>2, <2>3 DEF rs
<1> QED  BY <1>2, <1>4, <1>5 DEF rs, n

\* The last activation returns.
LEMMA PopSettles ==
    ASSUME NEW lay, Laid(lay), Top.kind # "plan", stack' = Below,
           code' \in Codes \ {"Timeout"},
           Top.kind = "block" =>
               /\ code' = "Continue" => code = "None" /\ Top.pc > Len(Body(Top.block))
               /\ code' = "Undefined" => code = "Undefined"
    PROVE  /\ Settles(lay)
           /\ Top.kind # "block" =>
                Held(stack', code', bundle, lay) \subseteq Under(Below, bundle, lay)
<1> DEFINE x == Below[Len(Below)]
<1>1. /\ Inv /\ BuildsApart(bundle, lay) /\ StackOpen(stack, cache, bundle, lay)
      /\ code' # "None" /\ code' # "Timeout"
  BY DEF Laid, Opened, Codes
<1>2. /\ IsSeq(Below) /\ Len(Below) > 0 /\ StackOpen(Below, cache, bundle, lay)
      /\ Over(x, Top, bundle)
      /\ Len(Below) \in DOMAIN Below /\ Len(Below) \in DOMAIN stack
      /\ x = stack[Len(Below)]
  BY <1>1, OpenPop, IsSeqDomain
<1>3. Activation(x, bundle, Node)
  BY <1>1, <1>2 DEF Inv, StackOK
<1>4. PICK front : /\ Under(Below, bundle, lay) = front \cup Live(x, bundle, lay)
                   /\ \A c : Held(Below, c, bundle, lay) = front \cup LiveTop(x, c, bundle, lay)
  BY <1>2, LastOf
<1> HIDE DEF x
<1>5. CASE x.kind = "block"
  <2>1. /\ x.block \in DOMAIN bundle.blocks /\ x.pc \in Nat \ {0}
        /\ x.pc <= Len(bundle.blocks[x.block])
        /\ bundle.blocks[x.block][x.pc].type \in Nesters
    BY <1>2, <1>3, <1>5 DEF Activation, Over
  <2>2. x.pc \in DOMAIN bundle.blocks[x.block]
    BY <1>1, <2>1, BundlesVerified, IsSeqDomain DEF Inv, Verified
  <2>3. StatementOpen(bundle, lay, x.block, x.pc)
    BY <1>1, <2>1, <2>2 DEF BuildsApart, BlocksOpen
  <2>4. lay.open[x.block][x.pc + 1] \subseteq lay.open[x.block][x.pc]
    BY <2>1, <2>3 DEF StatementOpen, Makers, Nesters
  <2>5. LiveTop(x, code', bundle, lay) \subseteq Live(x, bundle, lay)
    BY <1>1, <1>5, <2>4 DEF LiveTop, Live, Kept
  <2>6. CodeFits(x, code', bundle)
    BY <1>1, <1>5, <2>1 DEF CodeFits, Nesters
  <2> QED  BY <1>1, <1>2, <1>4, <2>5, <2>6, HoldingBelow DEF Settles, Opened, x
<1>6. CASE x.kind = "call"
  <2>1. /\ x.func \in Functions /\ x.next \in Nat /\ x.next > 1 /\ Top.kind = "block"
        /\ Top.block = x.blocks[x.next - 1]
    BY <1>2, <1>3, <1>6 DEF Activation, Over, Functions
  <2>2. x.blocks = bundle.functions[x.func].blocks
    BY <1>2, <1>6 DEF StackOpen, Planned, x
  <2>3. LiveTop(x, code', bundle, lay)
          \subseteq Live(x, bundle, lay) \cup LiveTop(Top, code, bundle, lay)
    <3>1. CASE x.next > 2 \/ code' \notin {"Continue", "Undefined"}
      BY <1>6, <3>1 DEF LiveTop, Live
    <3>2. CASE x.next = 2 /\ code' \in {"Continue", "Undefined"}
      <4>1. Top.block = bundle.functions[x.func].blocks[1]
        BY <2>1, <2>2, <3>2
      <4>2. Throughout(bundle, lay, x.func) \subseteq LiveTop(Top, code, bundle, lay)
        BY <2>1, <3>2, <4>1, FirstBlockLeaves
      <4>3. LiveTop(x, code', bundle, lay) = Throughout(bundle, lay, x.func)
        BY <1>6, <3>2 DEF LiveTop
      <4> QED  BY <4>2, <4>3
    <3> QED  BY <2>1, <3>1, <3>2
  <2>4. CodeFits(x, code', bundle)
    BY <1>1, <1>6 DEF CodeFits
  <2>5. Held(Below, code', bundle, lay) \subseteq Holding(lay)
    BY <1>4, <2>3, HoldingBelow
  <2> QED  BY <1>1, <1>2, <2>1, <2>4, <2>5, HoldingBelow DEF Settles, Opened, x
<1>7. CASE x.kind \notin {"block", "call"}
  <2>1. LiveTop(x, code', bundle, lay) = Live(x, bundle, lay)
    BY <1>7 DEF LiveTop
  <2>2. CodeFits(x, code', bundle)
    BY <1>1, <1>2, <1>7 DEF CodeFits, Over
  <2> QED  BY <1>1, <1>2, <1>4, <2>1, <2>2, HoldingBelow DEF Settles, Opened, x
<1> QED  BY <1>5, <1>6, <1>7

\* The last activation moves on, or makes way for another.
LEMMA ReplaceOpens ==
    ASSUME NEW lay, Laid(lay), NEW a, Planned(a, bundle, lay),
           Lending(a, bundle, lay) \subseteq Lending(Top, bundle, lay),
           Top.kind = "block" => a.kind = "block" /\ a.block = Top.block,
           a.kind \in {"call", "bind"} => Top.kind \in {"call", "bind"} /\ a.func = Top.func
    PROVE  /\ IsSeq(Append(Below, a)) /\ StackOpen(Append(Below, a), cache, bundle, lay)
           /\ Len(Append(Below, a)) > 0 /\ Append(Below, a)[Len(Append(Below, a))] = a
           /\ Under(Append(Below, a), bundle, lay)
                = Under(Below, bundle, lay) \cup Live(a, bundle, lay)
           /\ \A c : Held(Append(Below, a), c, bundle, lay)
                = Under(Below, bundle, lay) \cup LiveTop(a, c, bundle, lay)
<1>1. /\ IsSeq(Below) /\ StackOpen(Below, cache, bundle, lay)
      /\ Under(Below, bundle, lay) \cap Lending(Top, bundle, lay) = {}
      /\ Len(Below) > 0 => Over(Below[Len(Below)], Top, bundle)
      /\ Top.kind \in {"call", "bind"} =>
            (\E j \in DOMAIN Below : Below[j].kind = "with") \/ cache[Top.func] = NoEntry
  BY OpenPop DEF Laid, Opened
<1>2. Len(Below) > 0 => Over(Below[Len(Below)], a, bundle)
  BY <1>1 DEF Over
<1> QED  BY <1>1, <1>2, OpenPush

\* The last activation, as a, runs block x.
LEMMA ReenterSettles ==
    ASSUME NEW lay, Laid(lay), NEW a, Planned(a, bundle, lay),
           a.kind = Top.kind, a.kind \in {"plan", "nest", "scan", "call"},
           Lending(a, bundle, lay) = Lending(Top, bundle, lay),
           a.kind = "call" => a.func = Top.func /\ a.next > 1 /\ a.blocks[a.next - 1] \in DOMAIN bundle.blocks,
           Live(a, bundle, lay) \subseteq LiveTop(Top, code, bundle, lay),
           NEW x \in DOMAIN bundle.blocks, a.kind = "call" => x = a.blocks[a.next - 1],
           lay.open[x][1] \subseteq Live(a, bundle, lay),
           lay.lends[x] \subseteq Lending(a, bundle, lay),
           lay.lends[x] \cap Live(a, bundle, lay) = {},
           EnterBlock(Append(Below, a), x)
    PROVE  Settles(lay)
<1> DEFINE s == Append(Below, a)
<1>1. /\ IsSeq(s) /\ StackOpen(s, cache, bundle, lay) /\ Len(s) > 0 /\ s[Len(s)] = a
      /\ Under(s, bundle, lay) = Under(Below, bundle, lay) \cup Live(a, bundle, lay)
  BY ReplaceOpens
<1>2. Under(s, bundle, lay) \subseteq Holding(lay) /\ Holding(lay) \subseteq Builders(bundle)
  BY <1>1, HoldingBelow
<1>3. lay.lends[x] \cap Under(s, bundle, lay) = {}
  <2>1. Under(Below, bundle, lay) \cap Lending(Top, bundle, lay) = {}
    BY OpenPop DEF Laid, Opened
  <2> QED  BY <1>1, <2>1
<1>4. lay.lends[x] \cap Private(bundle) = {}
  BY DEF Planned
<1>5. Over(s[Len(s)], [kind |-> "block", block |-> x, pc |-> 1], bundle)
  BY <1>1 DEF Over
<1>6. Len(bundle.blocks[x]) \in Nat
  BY BundlesVerified, IsSeqDomain DEF Laid, Inv, Verified
<1>7. EnterBlock(s, x)
  OBVIOUS
<1>8. lay.open[x][1] \subseteq Under(s, bundle, lay)
  BY <1>1
<1> HIDE DEF s
<1>9. /\ Opened(stack', code', cache, bundle, lay)
      /\ Held(stack', code', bundle, lay) \subseteq Under(s, bundle, lay)
  BY <1>1, <1>2, <1>3, <1>4, <1>5, <1>6, <1>7, <1>8, OpenEnter
<1> QED  BY <1>2, <1>9 DEF Settles

\* The loops over blocks.
LEMMA NextBlockSettles ==
    ASSUME NEW lay, Laid(lay), NEW kind \in {"plan", "nest"}, NEW codes, NextBlock(kind, codes)
    PROVE  Settles(lay)
<1> DEFINE a == [Top EXCEPT !.next = @ + 1]
           x == Top.blocks[Top.next]
<1>1. /\ Top.kind = kind /\ Top.next <= Len(Top.blocks) /\ EnterBlock(Append(Below, a), x)
  BY DEF NextBlock, Running
<1>2. /\ Top.blocks \in Seq(DOMAIN bundle.blocks) /\ Top.next \in Nat \ {0}
      /\ a.kind = Top.kind /\ a.blocks = Top.blocks
  BY <1>1, TopFacts DEF Laid, Activation
<1>3. Top.next \in DOMAIN Top.blocks /\ x \in DOMAIN bundle.blocks
  BY <1>1, <1>2
<1> HIDE DEF a
<1>4. Planned(Top, bundle, lay)
  BY OpenPop DEF Laid, Opened
<1>5. /\ Lending(a, bundle, lay) = Lending(Top, bundle, lay)
      /\ Live(a, bundle, lay) = Live(Top, bundle, lay)
      /\ LiveTop(Top, code, bundle, lay) = Live(Top, bundle, lay)
      /\ Live(Top, bundle, lay) = UNION {lay.open[Top.blocks[i]][1] : i \in DOMAIN Top.blocks}
      /\ Lending(Top, bundle, lay) = UNION {lay.lends[Top.blocks[i]] : i \in DOMAIN Top.blocks}
  BY <1>1, <1>2 DEF Lending, Live, LiveTop
<1>6. Planned(a, bundle, lay)
  BY <1>1, <1>2, <1>4, <1>5 DEF Planned
<1>7. /\ lay.open[x][1] \subseteq Live(a, bundle, lay)
      /\ lay.lends[x] \subseteq Lending(a, bundle, lay)
  BY <1>3, <1>5
<1>8. lay.lends[x] \cap Live(a, bundle, lay) = {}
  BY <1>1, <1>2, <1>6, <1>7 DEF Planned
<1> HIDE DEF x
<1> QED  BY <1>1, <1>2, <1>3, <1>5, <1>6, <1>7, <1>8, ReenterSettles

LEMMA CallNextSettles ==
    ASSUME NEW lay, Laid(lay), CallNext
    PROVE  Settles(lay)
<1> DEFINE a == [Top EXCEPT !.next = @ + 1]
           x == Top.blocks[Top.next]
           f == Top.func
           bs == bundle.functions[f].blocks
<1>1. /\ Top.kind = "call" /\ Top.next <= Len(Top.blocks) /\ EnterBlock(Append(Below, a), x)
      /\ code \in {"None", "Continue", "Undefined", "Timeout"}
  BY DEF CallNext, NextBlock, Running
<1>2. /\ Top.blocks \in Seq(DOMAIN bundle.blocks) /\ Top.next \in Nat \ {0}
      /\ a.kind = Top.kind /\ a.blocks = Top.blocks /\ a.func = f /\ a.next = Top.next + 1
      /\ a.target = Top.target /\ f \in Functions
  BY <1>1, TopFacts DEF Laid, Activation, Functions
<1>3. Top.next \in DOMAIN Top.blocks /\ x \in DOMAIN bundle.blocks /\ Len(Top.blocks) \in Nat
  BY <1>1, <1>2
<1> HIDE DEF a, f
<1>4. Planned(Top, bundle, lay) /\ Top.blocks = bs
  BY <1>1, OpenPop DEF Laid, Opened, Planned, f
<1>5. CodeFits(Top, code, bundle)
  BY HoldingBelow
<1>6. /\ Lending(a, bundle, lay) = lay.gives[f] /\ Lending(Top, bundle, lay) = lay.gives[f]
  BY <1>1, <1>2 DEF Lending, f
<1>7. Planned(a, bundle, lay)
  BY <1>1, <1>2, <1>4, <1>6 DEF Planned, f
<1>8. lay.lends[x] \subseteq lay.gives[f]
  BY <1>2, <1>3, <1>4 DEF Laid, BuildsApart, LendsKnown, Functions
<1>9. /\ Live(a, bundle, lay) \subseteq LiveTop(Top, code, bundle, lay)
      /\ lay.open[x][1] \subseteq Live(a, bundle, lay)
      /\ lay.lends[x] \cap Live(a, bundle, lay) = {}
  <2>1. CASE Top.next = 1
    <3>1. Live(a, bundle, lay) = {}
      BY <1>1, <1>2, <2>1 DEF Live
    <3>2. lay.open[x][1] = {}
      BY <1>2, <1>4, <2>1 DEF Laid, BuildsApart, ResultsOpen, Functions
    <3> QED  BY <3>1, <3>2
  <2>2. CASE Top.next > 1
    <3>1. code \in {"Continue", "Undefined"}
      BY <1>1, <1>5, <2>2 DEF CodeFits
    <3>2. /\ Live(a, bundle, lay) = Throughout(bundle, lay, f)
          /\ LiveTop(Top, code, bundle, lay) = Throughout(bundle, lay, f)
      BY <1>1, <1>2, <2>2, <3>1 DEF Live, LiveTop, f
    <3>3. Top.next \in 2..Len(bs)
      BY <1>1, <1>2, <1>3, <1>4, <2>2
    <3>4. lay.open[x][1] \subseteq Throughout(bundle, lay, f)
      BY <1>4, <3>3 DEF Throughout
    <3>5. Throughout(bundle, lay, f) \cap lay.lends[x] = {}
      BY <1>2, <1>4, <3>3 DEF Laid, BuildsApart, ResultsOpen, Functions
    <3> QED  BY <3>2, <3>4, <3>5
  <2> QED  BY <1>2, <2>1, <2>2
<1>10. a.next > 1 /\ a.blocks[a.next - 1] = x
  BY <1>2
<1> HIDE DEF x, bs
<1> QED  BY <1>1, <1>2, <1>3, <1>6, <1>7, <1>8, <1>9, <1>10, ReenterSettles DEF f

LEMMA ScanNextSettles ==
    ASSUME NEW lay, Laid(lay), ScanNext
    PROVE  Settles(lay)
<1>1. PICK k \in ScanKeys : EnterBlock(Append(Below, [Top EXCEPT !.seen = @ \cup {k}]), Top.block)
  BY DEF ScanNext
<1> DEFINE a == [Top EXCEPT !.seen = @ \cup {k}]
<1>2. Top.kind = "scan"
  BY DEF ScanNext, Running
<1>3. /\ a.kind = "scan" /\ a.block = Top.block /\ a.key = Top.key /\ a.value = Top.value
      /\ Top.block \in DOMAIN bundle.blocks
  <2>1. /\ Top = [kind |-> "scan", source |-> Top.source, seen |-> Top.seen,
                  key |-> Top.key, value |-> Top.value, block |-> Top.block]
        /\ Top.block \in DOMAIN bundle.blocks
    BY <1>2, TopFacts DEF Activation, Laid
  <2> QED  BY <1>2, <2>1
<1>4. EnterBlock(Append(Below, a), Top.block)
  BY <1>1
<1> HIDE DEF a
<1>5. Planned(Top, bundle, lay)
  BY OpenPop DEF Laid, Opened
<1>6. /\ Lending(a, bundle, lay) = lay.lends[Top.block]
      /\ Lending(Top, bundle, lay) = lay.lends[Top.block]
      /\ Live(a, bundle, lay) = lay.open[Top.block][1]
      /\ Live(Top, bundle, lay) = lay.open[Top.block][1]
      /\ LiveTop(Top, code, bundle, lay) = lay.open[Top.block][1]
  BY <1>2, <1>3 DEF Lending, Live, LiveTop
<1>7. Planned(a, bundle, lay)
  BY <1>2, <1>3, <1>5, <1>6 DEF Planned
<1>8. lay.lends[Top.block] \cap Live(a, bundle, lay) = {}
  BY <1>3, <1>6, <1>7 DEF Planned
<1> QED  BY <1>2, <1>3, <1>4, <1>6, <1>7, <1>8, ReenterSettles

LEMMA AdvanceSettles ==
    ASSUME NEW lay, Laid(lay), BlockAdvance
    PROVE  Settles(lay)
<1> DEFINE a == [Top EXCEPT !.pc = @ + 1]
<1>1. Top.kind = "block" /\ code = "Continue" /\ stack' = Append(Below, a) /\ code' = "None"
  BY DEF BlockAdvance, Running
<1>2. /\ a.kind = "block" /\ a.block = Top.block /\ a.pc = Top.pc + 1
      /\ Top.pc \in Nat /\ Len(bundle.blocks[Top.block]) \in Nat
  <2>1. /\ Inv /\ Top.block \in DOMAIN bundle.blocks /\ Top.pc \in Nat \ {0}
        /\ Body(Top.block) = bundle.blocks[Top.block] /\ Len(Body(Top.block)) \in Nat
    BY <1>1, BlockTyped DEF Laid
  <2>2. Top \in [kind : {"block"}, block : DOMAIN bundle.blocks, pc : Nat \ {0}]
    BY <1>1, <2>1, TopFacts DEF Activation
  <2> QED  BY <2>1, <2>2
<1> HIDE DEF a
<1>3. Planned(Top, bundle, lay) /\ CodeFits(Top, code, bundle)
  BY OpenPop, HoldingBelow DEF Laid, Opened
<1>4. /\ Lending(a, bundle, lay) = Lending(Top, bundle, lay)
      /\ LiveTop(a, "None", bundle, lay) = LiveTop(Top, code, bundle, lay)
  BY <1>1, <1>2 DEF Lending, LiveTop
<1>5. a.pc <= Len(bundle.blocks[a.block]) + 1
  BY <1>1, <1>2, <1>3 DEF CodeFits
<1>6. Planned(a, bundle, lay) /\ CodeFits(a, "None", bundle)
  BY <1>2, <1>3, <1>4, <1>5 DEF Planned, CodeFits
<1>7. /\ StackOpen(stack', cache, bundle, lay) /\ stack'[Len(stack')] = a
      /\ Held(stack', "None", bundle, lay) = Holding(lay)
  BY <1>1, <1>2, <1>4, <1>6, ReplaceOpens, HoldingBelow
<1> QED  BY <1>1, <1>6, <1>7, HoldingBelow DEF Settles, Opened

\* A parameter is bound, or the function is entered: nothing is on top of the
\* activations below any more that could hand on what they build.
LEMMA CallStepSettles ==
    ASSUME NEW lay, Laid(lay), Top.kind = "bind", NEW a, a.kind \in {"bind", "call"},
           a.func = Top.func, a.target = Top.target,
           a.kind = "bind" => a.args = Top.args,
           a.kind = "call" => a.next = 1 /\ a.blocks = bundle.functions[a.func].blocks,
           stack' = Append(Below, a), code' = code
    PROVE  /\ Settles(lay)
           /\ Held(stack', code', bundle, lay) \subseteq Under(Below, bundle, lay)
<1>1. Planned(Top, bundle, lay) /\ CodeFits(Top, code, bundle)
  BY OpenPop, HoldingBelow DEF Laid, Opened
<1>2. code' = "None"
  BY <1>1 DEF CodeFits
<1>3. /\ Lending(a, bundle, lay) \subseteq Lending(Top, bundle, lay)
      /\ LiveTop(a, "None", bundle, lay) = {}
  BY DEF Lending, LiveTop, Live
<1>4. Planned(a, bundle, lay)
  BY <1>1, <1>3 DEF Planned
<1>5. CodeFits(a, "None", bundle)
  BY DEF CodeFits
<1>6. /\ StackOpen(stack', cache, bundle, lay) /\ stack'[Len(stack')] = a
      /\ Held(stack', "None", bundle, lay) = Under(Below, bundle, lay)
  <2> DEFINE s == Append(Below, a)
  <2>1. /\ StackOpen(s, cache, bundle, lay) /\ s[Len(s)] = a
        /\ Held(s, "None", bundle, lay)
             = Under(Below, bundle, lay) \cup LiveTop(a, "None", bundle, lay)
    BY <1>3, <1>4, ReplaceOpens
  <2>2. stack' = s
    OBVIOUS
  <2> HIDE DEF s
  <2> QED  BY <1>3, <2>1, <2>2
<1> QED  BY <1>2, <1>5, <1>6, HoldingBelow DEF Settles, Opened

LEMMA BindSettles ==
    ASSUME NEW lay, Laid(lay), BindParam \/ EnterFunction
    PROVE  \/ UNCHANGED <<stack, code, frame, cache>>
           \/ /\ Settles(lay)
              /\ Held(stack', code', bundle, lay) \subseteq Under(Below, bundle, lay)
<1>1. Top.kind = "bind" /\ Inv
  BY DEF BindParam, EnterFunction, Running, Laid
<1>2. Top = [kind |-> "bind", func |-> Top.func, args |-> Top.args, next |-> Top.next,
             target |-> Top.target]
  BY <1>1, TopFacts DEF Activation
<1>3. CASE BindParam
  <2> DEFINE a == [Top EXCEPT !.next = @ + 1]
  <2>1. \/ UNCHANGED <<stack, code, frame, cache>>
        \/ stack' = Append(Below, a) /\ code' = code
    BY <1>3 DEF BindParam, Throw
  <2>2. a.kind = "bind" /\ a.func = Top.func /\ a.target = Top.target /\ a.args = Top.args
    BY <1>2
  <2> HIDE DEF a
  <2> QED  BY <1>1, <2>1, <2>2, CallStepSettles
<1>4. CASE EnterFunction
  <2> DEFINE a == [kind |-> "call", func |-> Top.func,
                   blocks |-> bundle.functions[Top.func].blocks, next |-> 1,
                   target |-> Top.target]
  <2>1. \/ stack' = Below /\ code' = "Error"
        \/ stack' = Append(Below, a) /\ code' = code
    BY <1>4 DEF EnterFunction, Return
  <2>2. /\ a.kind = "call" /\ a.func = Top.func /\ a.target = Top.target
        /\ a.next = 1 /\ a.blocks = bundle.functions[a.func].blocks
    OBVIOUS
  <2> HIDE DEF a
  <2>3. CASE stack' = Below /\ code' = "Error"
    BY <1>1, <2>3, PopSettles DEF Codes
  <2>4. CASE stack' = Append(Below, a) /\ code' = code
    BY <1>1, <2>2, <2>4, CallStepSettles
  <2> QED  BY <2>1, <2>3, <2>4
<1> QED  BY <1>3, <1>4

\* Every step between two statements.
LEMMA RestSettles ==
    ASSUME NEW lay, Laid(lay), ~AtStatement, Next
    PROVE  \/ UNCHANGED <<stack, code, frame, cache>>
           \/ /\ Settles(lay)
              /\ CallReturn \/ BindParam =>
                   Held(stack', code', bundle, lay) \subseteq Under(Below, bundle, lay)
<1>0. /\ Inv /\ code \in Codes \cup {"None"} /\ CodeFits(Top, code, bundle)
      /\ Planned(Top, bundle, lay)
  BY HoldingBelow, OpenPop DEF Laid, Opened, Inv, ControlOK
<1>1. CASE Straight \/ BlockStmt \/ NotStmt \/ WithStmt \/ WithCrash \/ ScanStmt
           \/ ScanThrow \/ CallStmt \/ DynamicCall
  BY <1>1 DEF Straight, Make, MeasureLen, Tests, Test, ResetLocal, AssignVar,
      AssignVarOnce, ObjectInsert, ObjectMerge, Add, FillMalformed, DotStmt, ResultSetAdd, ReturnLocal,
      BreakStmt, DynamicUndefined, Timeout, RawOperand, BlockStmt, NotStmt, WithStmt,
      WithCrash, ScanStmt, ScanThrow, CallStmt, DynamicCall, Executes
<1>2. CASE PlanDone \/ (status # "running" /\ UNCHANGED vars)
  BY <1>2 DEF PlanDone, vars
<1>3. CASE PlanNext \/ NestNext
  BY <1>3, NextBlockSettles DEF PlanNext, NestNext, NextBlock, Running, CallReturn, BindParam
<1>4. CASE CallNext
  BY <1>4, CallNextSettles, <1>0 DEF CallNext, NextBlock, Running, CallReturn, BindParam
<1>5. CASE ScanNext
  BY <1>5, ScanNextSettles DEF ScanNext, Running, CallReturn, BindParam
<1>6. CASE BlockAdvance
  BY <1>6, AdvanceSettles DEF BlockAdvance, Running, CallReturn, BindParam
<1>7. CASE BlockEnd \/ BlockExit \/ BlockBreak
  <2>1. /\ Top.kind = "block" /\ stack' = Below
        /\ code' \in Codes \ {"Timeout"}
        /\ code' = "Continue" => code = "None" /\ Top.pc > Len(Body(Top.block))
        /\ code' = "Undefined" => code = "Undefined"
    BY <1>0, <1>7 DEF BlockEnd, BlockExit, BlockBreak, Running, Return, CodeFits, Codes
  <2> QED  BY <2>1, PopSettles DEF CallReturn, BindParam, Running
<1>8. CASE NestDone \/ NotDone \/ WithDone \/ ScanDone \/ CallReturn \/ CallFail \/ DynamicDone
  <2>1. Top.kind \in {"nest", "not", "with", "scan", "call", "dynamic"} /\ stack' = Below
    BY <1>8 DEF NestDone, NotDone, WithDone, ScanDone, CallReturn, CallFail, DynamicDone,
        Running, Return
  <2>2. code' \in Codes \ {"Timeout"}
    BY <1>0, <1>8 DEF NestDone, NotDone, WithDone, ScanDone, CallReturn, CallFail, DynamicDone,
        Running, Return, CodeFits, Codes
  <2> QED  BY <2>1, <2>2, PopSettles
<1>9. CASE BindParam \/ EnterFunction
  BY <1>9, BindSettles
<1>10. CASE CallNoBlocks
  <2>1. Top.kind = "call" /\ Top.blocks = <<>>
    BY <1>10 DEF CallNoBlocks, Running
  <2>2. Top.func \in Functions
    BY <1>0, <2>1, TopFacts DEF Activation, Functions
  <2> QED  BY <1>0, <2>1, <2>2 DEF Planned, Laid, BuildsApart, FunctionsHaveBlocks, Functions
<1> QED  BY <1>1, <1>2, <1>3, <1>4, <1>5, <1>6, <1>7, <1>8, <1>9, <1>10 DEF Next, Blocks, Calls

-----------------------------------------------------------------------------
(***************************************************************************)
(* Who holds a node.                                                       *)
(***************************************************************************)
\* The nodes that are held by another local than l, unless it handed its
\* container on to l, by the cache or by a With.
Olds(s) == {w.old : w \in Withs(s)}
Givers(l) == {m \in Locals : <<m, l>> \in Moves(bundle)}
Exposed(l) == {frame[m] : m \in Locals \ ({l} \cup Givers(l))}
              \cup {cache[f] : f \in Functions} \cup Olds(stack)
Sole(l) == frame[l] = Null \/ (frame[l] \notin Exposed(l) /\ Whole(frame[l]))
Guarded(lay) == \A l \in Private(bundle) \cup Holding(lay) : Sole(l)
\* A node that is nested in no other goes on like that.
WholesStay == \A n \in Node : Whole(n) => heap'[n].steps = <<>> /\ heap'[n].root = n
\* A node that l does not hold unless it is nullptr.
Harmless(l, n) == n = Null \/ n > Len(heap) \/ n \in Exposed(l)

LEMMA WholesKept ==
    ASSUME Inv, StackLaidOut(stack, bundle), [Next]_vars
    PROVE  WholesStay
BY StepMemory, WithBegins, WithEnds DEF NodesKept, NodeFilled, WholesStay, Whole

LEMMA OldsTyped ==
    ASSUME Inv
    PROVE  /\ Olds(stack) \subseteq Node \cup {Null}
           /\ \A l : Exposed(l) \subseteq Node \cup {Null, NoEntry}
           /\ Len(heap) \in Nat /\ frame \in [Locals -> Node \cup {Null}]
<1>1. ASSUME NEW w \in Withs(stack)
      PROVE  w.old \in Node \cup {Null}
  <2>1. /\ w.at \in DOMAIN stack /\ w.old = stack[w.at].old /\ stack[w.at].kind = "with"
    BY <1>1 DEF Withs
  <2>2. Activation(stack[w.at], bundle, Node)
    BY <2>1 DEF Inv, StackOK
  <2> QED  BY <2>1, <2>2 DEF Activation
<1>2. /\ Len(heap) \in Nat /\ frame \in [Locals -> Node \cup {Null}]
      /\ cache \in [Functions -> Node \cup {Null, NoEntry}]
  BY ApartFacts DEF Inv, MemoryOK
<1> QED  BY <1>1, <1>2 DEF Olds, Exposed

LEMMA SoleKept ==
    ASSUME Inv, WholesStay, bundle' = bundle, NEW l \in Locals, Sole(l), frame'[l] = frame[l],
           \A m \in Locals \ {l} : frame'[m] = frame[m] \/ Harmless(l, frame'[m]),
           \A f \in Functions : cache'[f] = cache[f] \/ Harmless(l, cache'[f]),
           \A o \in Olds(stack') : o \in Olds(stack) \/ Harmless(l, o)
    PROVE  Sole(l)'
<1>1. /\ Locals' = Locals /\ Functions' = Functions /\ Givers(l)' = Givers(l)
  BY DEF Locals, Functions, Givers
<1>2. SUFFICES ASSUME frame[l] # Null
               PROVE  /\ frame[l] \notin Exposed(l)'
                      /\ heap'[frame[l]].steps = <<>> /\ heap'[frame[l]].root = frame[l]
  BY DEF Sole, Whole
<1>3. frame[l] \notin Exposed(l) /\ frame[l] \in Node /\ Len(heap) \in Nat
  BY <1>2, OldsTyped DEF Sole
<1>4. \A n : Harmless(l, n) => n # frame[l]
  BY <1>2, <1>3 DEF Harmless, Node
<1>5. \A m \in Locals \ ({l} \cup Givers(l)) : frame'[m] # frame[l]
  BY <1>3, <1>4 DEF Exposed
<1>6. \A f \in Functions : cache'[f] # frame[l]
  BY <1>3, <1>4 DEF Exposed
<1>7. frame[l] \notin Olds(stack')
  BY <1>3, <1>4 DEF Exposed
<1>8. Exposed(l)' = {frame'[m] : m \in Locals \ ({l} \cup Givers(l))}
                    \cup {cache'[f] : f \in Functions} \cup Olds(stack')
  BY <1>1 DEF Exposed, Olds
<1>9. heap'[frame[l]].steps = <<>> /\ heap'[frame[l]].root = frame[l]
  BY <1>2, <1>3 DEF Sole, WholesStay
<1> QED  BY <1>5, <1>6, <1>7, <1>8, <1>9

\* Nothing that matters to l is written.
LEMMA SoleSame ==
    ASSUME Inv, WholesStay, bundle' = bundle, NEW l \in Locals, Sole(l),
           UNCHANGED <<frame, cache>>, Withs(stack') = Withs(stack)
    PROVE  Sole(l)'
BY SoleKept DEF Olds

\* A local other than l is written.
LEMMA SoleOther ==
    ASSUME Inv, WholesStay, bundle' = bundle, NEW l \in Locals, Sole(l),
           NEW t \in Locals \ {l}, NEW n, Harmless(l, n), frame' = [frame EXCEPT ![t] = n],
           \A f \in Functions : cache'[f] = cache[f] \/ Harmless(l, cache'[f]),
           \A o \in Olds(stack') : o \in Olds(stack) \/ Harmless(l, o)
    PROVE  Sole(l)'
<1>1. frame \in [Locals -> Node \cup {Null}]
  BY OldsTyped
<1> QED  BY <1>1, SoleKept

\* l receives a new node, or none.
LEMMA SoleNew ==
    ASSUME Inv, bundle' = bundle, NEW l \in Locals, NEW n,
           n = Null \/ (n > Len(heap) /\ heap'[n].steps = <<>> /\ heap'[n].root = n),
           frame' = [frame EXCEPT ![l] = n], cache' = cache, Withs(stack') = Withs(stack)
    PROVE  Sole(l)'
<1>1. /\ Locals' = Locals /\ Functions' = Functions /\ Givers(l)' = Givers(l)
      /\ Olds(stack)' = Olds(stack)
  BY DEF Locals, Functions, Givers, Olds
<1>2. /\ Len(heap) \in Nat /\ frame \in [Locals -> Node \cup {Null}]
      /\ Exposed(l) \subseteq Node \cup {Null, NoEntry}
  BY OldsTyped
<1>3. frame'[l] = n /\ \A m \in Locals \ {l} : frame'[m] = frame[m]
  BY <1>2
<1>4. Exposed(l)' = Exposed(l)
  BY <1>1, <1>3 DEF Exposed
<1> QED  BY <1>2, <1>3, <1>4 DEF Sole, Whole, Node, Null, NoEntry

\* write_local of a value.
LEMMA SoleValue ==
    ASSUME Inv, WholesStay, bundle' = bundle, NEW l \in Locals, NEW t \in Locals, l = t \/ Sole(l),
           (\E v : WriteValue(t, v)) \/ WriteNode(t, Null),
           cache' = cache, Withs(stack') = Withs(stack)
    PROVE  Sole(l)'
<1>1. Len(heap) \in Nat /\ IsSeq(heap)
  BY OldsTyped DEF Inv, MemoryOK
<1>2. PICK n : /\ n = Null \/ (n > Len(heap) /\ heap'[n].steps = <<>> /\ heap'[n].root = n)
               /\ frame' = [frame EXCEPT ![t] = n]
  <2>1. CASE WriteNode(t, Null)
    BY <2>1 DEF WriteNode
  <2>2. CASE \E v : heap' = Append(heap, NewNode(Len(heap) + 1, v))
                    /\ frame' = [frame EXCEPT ![t] = Len(heap) + 1]
    <3>1. PICK v : heap' = Append(heap, NewNode(Len(heap) + 1, v))
      BY <2>2
    <3> DEFINE m == Len(heap) + 1
    <3>2. heap'[m] = [value |-> v, root |-> m, steps |-> <<>>]
      BY <1>1, <3>1, PushIsSeq DEF NewNode
    <3>3. m > Len(heap) /\ heap'[m].steps = <<>> /\ heap'[m].root = m
      BY <1>1, <3>2
    <3>4. frame' = [frame EXCEPT ![t] = m]
      BY <2>2
    <3> HIDE DEF m
    <3> QED  BY <3>3, <3>4
  <2> QED  BY <2>1, <2>2 DEF WriteValue
<1>3. CASE l = t
  BY <1>2, <1>3, SoleNew
<1>4. CASE l # t
  BY <1>2, <1>4, SoleOther DEF Harmless, Olds
<1> QED  BY <1>3, <1>4

\* l receives the container of the local that hands it on.
LEMMA SoleMoved ==
    ASSUME Inv, WholesStay, bundle' = bundle, MovesFinal(bundle), NEW l \in Locals, NEW q \in Locals,
           <<q, l>> \in Moves(bundle), Sole(q), frame' = [frame EXCEPT ![l] = frame[q]],
           cache' = cache, Withs(stack') = Withs(stack)
    PROVE  Sole(l)'
<1>1. /\ Locals' = Locals /\ Functions' = Functions /\ Givers(l)' = Givers(l)
      /\ Olds(stack)' = Olds(stack)
  BY DEF Locals, Functions, Givers, Olds
<1>2. frame \in [Locals -> Node \cup {Null}]
  BY OldsTyped
<1>3. frame'[l] = frame[q] /\ \A m \in Locals \ {l} : frame'[m] = frame[m]
  BY <1>2
<1>4. Givers(q) = {}
  BY DEF Givers, MovesFinal
<1>5. q \in Givers(l)
  BY DEF Givers
<1>6. Exposed(l)' \subseteq Exposed(q)
  BY <1>1, <1>3, <1>4, <1>5 DEF Exposed
<1>7. frame[q] \in Node /\ Whole(frame[q]) =>
        heap'[frame[q]].steps = <<>> /\ heap'[frame[q]].root = frame[q]
  BY DEF WholesStay
<1> QED  BY <1>2, <1>3, <1>6, <1>7 DEF Sole, Whole

LEMMA HeldHarmless ==
    ASSUME NEW l, NEW q \in Locals, q # l, q \notin Givers(l)
    PROVE  Harmless(l, frame[q])
BY DEF Harmless, Exposed

\* Who hands a container on has made it.
LEMMA MoversBuild ==
    ASSUME NEW lay, BuildsApart(bundle, lay), Inv
    PROVE  \A m \in Moves(bundle) : m[1] \in Builders(bundle)
<1>1. ASSUME NEW s \in StatementsOf(bundle), IsMove(bundle, s)
      PROVE  s.op0[2] \in Builders(bundle)
  <2>1. PICK x \in DOMAIN bundle.blocks : \E j \in DOMAIN bundle.blocks[x] :
                s = bundle.blocks[x][j]
    BY DEF StatementsOf
  <2>2. PICK j \in DOMAIN bundle.blocks[x] : s = bundle.blocks[x][j]
    BY <2>1
  <2>3. s.op0[2] \in lay.open[x][j]
    BY <1>1, <2>2 DEF BuildsApart, BlocksOpen, StatementOpen
  <2>4. j \in 1..(Len(bundle.blocks[x]) + 1)
    BY <2>2, BundlesVerified, IsSeqDomain DEF Inv, Verified
  <2> QED  BY <2>2, <2>3, <2>4 DEF BuildsApart, BlocksOpen
<1> QED  BY <1>1 DEF Moves

LEMMA AtWithDone ==
    ASSUME AtStatement
    PROVE  ~WithDone
BY DEF AtStatement, WithDone, Running

\* What a statement finds at a local whose container is its own.
LEMMA StatementGuarded ==
    ASSUME NEW lay, Laid(lay), Guarded(lay), AtStatement,
           NEW l \in Private(bundle) \cup After(lay)
    PROVE  /\ l \in Locals /\ l \in Builders(bundle) /\ Stmt.target \in Locals
           /\ Sole(l) \/ (Stmt.type \in Makers /\ l = Stmt.target)
           /\ \A q \in Lent(Stmt) : q \in Locals /\ q # l
           /\ ~IsMove(bundle, Stmt) => \A q \in Lent(Stmt) : Harmless(l, frame[q])
<1>1. Inv /\ BuildsApart(bundle, lay)
  BY DEF Laid
<1>2. l \in Builders(bundle) /\ l \notin Lent(Stmt)
  BY AtStatementHeld, StatementLaid DEF Private
<1>3. l \in Locals /\ Stmt.target \in Locals
  BY <1>1, <1>2, ApartFacts, StatementFacts
<1>4. Sole(l) \/ (Stmt.type \in Makers /\ l = Stmt.target)
  BY AtStatementHeld DEF Guarded
<1>5. StatementOK(Stmt, bundle) /\ Stmt \in StatementsOf(bundle)
  BY StatementLaid
<1>6. Lent(Stmt) \subseteq Locals
  BY <1>5 DEF StatementOK, OperandOK, Lent, LocalOf, Locals
<1>7. ASSUME ~IsMove(bundle, Stmt), NEW q \in Lent(Stmt)
      PROVE  Harmless(l, frame[q])
  <2>1. q \notin Givers(l)
    BY <1>1, <1>5, <1>7 DEF BuildsApart, MovesFinal, Givers
  <2> QED  BY <1>2, <1>6, <2>1, HeldHarmless
<1> QED  BY <1>2, <1>3, <1>4, <1>6, <1>7

\* A statement that gives a local the node of its operand, or a new one.
LEMMA GivesSole ==
    ASSUME NEW lay, Laid(lay), Guarded(lay), AtStatement, WholesStay, bundle' = bundle,
           NEW l \in Private(bundle) \cup After(lay), Stmt.type \in {"AssignVar", "AssignVarOnce"},
           WriteOperand(Stmt.target, Stmt.op0), cache' = cache, Withs(stack') = Withs(stack)
    PROVE  Sole(l)'
<1> DEFINE t == Stmt.target
           q == Stmt.op0[2]
<1>1. /\ Inv /\ BuildsApart(bundle, lay) /\ l \in Locals /\ l \in Builders(bundle)
      /\ t \in Locals /\ Sole(l)
      /\ Stmt \in StatementsOf(bundle)
  BY StatementGuarded, StatementLaid DEF Laid, Makers
<1>2. CASE ~IsLocal(Stmt.op0)
  <2>1. \E v : WriteValue(t, v)
    BY <1>2 DEF WriteOperand
  <2> QED  BY <1>1, <2>1, SoleValue
<1>3. CASE IsLocal(Stmt.op0)
  <2>1. q \in Lent(Stmt) /\ frame' = [frame EXCEPT ![t] = frame[q]]
    BY <1>3 DEF Lent, LocalOf, WriteOperand, WriteNode
  <2>2. q \in Locals /\ q # l
    BY <2>1, StatementGuarded
  <2>3. CASE IsMove(bundle, Stmt)
    <3>1. <<q, t>> \in Moves(bundle)
      BY <1>1, <2>3 DEF Moves
    <3>2. CASE l = t
      <4>1. q \in lay.open[Top.block][Top.pc]
        BY <2>3, StatementLaid DEF StatementOpen
      <4>2. Sole(q)
        BY <4>1, AtStatementHeld DEF Guarded
      <4> QED  BY <1>1, <2>1, <2>2, <3>1, <3>2, <4>2, SoleMoved DEF BuildsApart
    <3>3. CASE l # t
      <4>1. q \notin Givers(l)
        <5>1. ASSUME <<q, l>> \in Moves(bundle)
              PROVE  FALSE
          <6>1. <<q, l>>[1] = <<q, t>>[1] => <<q, l>> = <<q, t>>
            BY <1>1, <3>1, <5>1 DEF BuildsApart, MovesFinal
          <6> QED  BY <3>3, <6>1
        <5> QED  BY <5>1 DEF Givers
      <4> QED  BY <1>1, <2>1, <2>2, <3>3, <4>1, HeldHarmless, SoleOther DEF Olds
    <3> QED  BY <3>2, <3>3
  <2>4. CASE ~IsMove(bundle, Stmt)
    <3>1. t \notin Builders(bundle)
      BY <1>1, <1>3, <2>4 DEF IsMove, BuildsApart, DocumentsApart
    <3> QED  BY <1>1, <2>1, <2>4, <3>1, StatementGuarded, SoleOther DEF Olds
  <2> QED  BY <2>3, <2>4
<1> QED  BY <1>2, <1>3

LEMMA WithSole ==
    ASSUME NEW lay, Laid(lay), Guarded(lay), StackLaidOut(stack, bundle), WholesStay, WithStmt,
           NEW l \in Private(bundle) \cup After(lay)
    PROVE  Sole(l)'
<1> DEFINE t == Stmt.target
<1>1. /\ AtStatement /\ Stmt.type = "With" /\ cache' = cache /\ bundle' = bundle
      /\ WriteOperand(t, Stmt.op0) \/ \E v : WriteValue(t, v)
  BY DEF WithStmt, Executes
<1>2. /\ Inv /\ BuildsApart(bundle, lay) /\ l \in Locals /\ l \in Builders(bundle)
      /\ t \in Locals /\ Sole(l) /\ ~IsMove(bundle, Stmt)
  BY <1>1, StatementGuarded, StatementLaid DEF Laid, Makers, IsMove
<1>3. t \notin Builders(bundle)
  BY <1>2, WithBegins DEF BuildsApart
<1>4. t \notin Givers(l)
  <2>1. \A m \in Moves(bundle) : m[1] \in Builders(bundle)
    BY <1>2, MoversBuild
  <2> QED  BY <1>3, <2>1 DEF Givers
<1>5. \A o \in Olds(stack') : o \in Olds(stack) \/ Harmless(l, o)
  <2>1. Withs(stack') = Withs(stack) \cup
                 {[at |-> Len(stack) + 1, target |-> t, old |-> frame[t]]}
    BY <1>2, WithBegins
  <2>2. Harmless(l, frame[t])
    BY <1>2, <1>3, <1>4, HeldHarmless
  <2> QED  BY <2>1, <2>2 DEF Olds
<1>6. PICK n : Harmless(l, n) /\ frame' = [frame EXCEPT ![t] = n]
  <2>1. CASE \E v : WriteValue(t, v)
    <3>1. PICK n : (n = Null \/ n = Len(heap) + 1) /\ frame' = [frame EXCEPT ![t] = n]
      BY <2>1 DEF WriteValue, WriteNode
    <3>2. Len(heap) \in Nat
      BY <1>2, OldsTyped
    <3>3. Harmless(l, n)
      BY <3>1, <3>2 DEF Harmless
    <3> QED  BY <3>1, <3>3
  <2>2. CASE WriteOperand(t, Stmt.op0) /\ IsLocal(Stmt.op0)
    <3>1. Stmt.op0[2] \in Lent(Stmt) /\ frame' = [frame EXCEPT ![t] = frame[Stmt.op0[2]]]
      BY <1>1, <2>2 DEF Lent, LocalOf, WriteOperand, WriteNode
    <3> QED  BY <1>1, <1>2, <3>1, StatementGuarded
  <2> QED  BY <1>1, <2>1, <2>2 DEF WriteOperand
<1> QED  BY <1>1, <1>2, <1>3, <1>5, <1>6, SoleOther

\* Nobody else holds a container that is under construction when a statement
\* has run, or stays with its local.
LEMMA StatementSole ==
    ASSUME NEW lay, Laid(lay), Guarded(lay), StackLaidOut(stack, bundle), AtStatement, Next,
           ~UNCHANGED <<stack, code, frame, cache>>, stmtCount' < StmtLimit,
           NEW l \in Private(bundle) \cup After(lay)
    PROVE  Sole(l)'
<1> DEFINE t == Stmt.target
<1>1. /\ Inv /\ BuildsApart(bundle, lay) /\ l \in Locals /\ l \in Builders(bundle)
      /\ t \in Locals /\ bundle' = bundle
      /\ Sole(l) \/ (Stmt.type \in Makers /\ l = t)
  BY StatementGuarded, BundleSame DEF Laid
<1>2. /\ ~WithStmt /\ ~WithDone => Withs(stack') = Withs(stack)
      /\ WholesStay
  BY <1>1, StepStack, WholesKept DEF StackKept
<1>3. CASE WithStmt
  BY <1>2, <1>3, WithSole
<1>4. CASE ~WithStmt /\ cache' = cache /\ Stmt.type \in Makers
           /\ ((\E v : WriteValue(t, v)) \/ WriteNode(t, Null))
  BY <1>1, <1>2, <1>4, SoleValue, AtWithDone
<1>5. CASE ~WithStmt /\ cache' = cache /\ Sole(l)
           /\ ((\E v : WriteValue(t, v)) \/ WriteNode(t, Null))
  BY <1>1, <1>2, <1>5, SoleValue, AtWithDone
<1>6. CASE ~WithStmt /\ cache' = cache /\ frame' = frame /\ Stmt.type \notin Makers
  BY <1>1, <1>2, <1>6, SoleSame, AtWithDone
<1>7. CASE ~WithStmt /\ cache' = cache /\ WriteOperand(t, Stmt.op0)
           /\ Stmt.type \in {"AssignVar", "AssignVarOnce"}
  BY <1>1, <1>2, <1>7, GivesSole, AtWithDone
<1>8. CASE Make \/ MeasureLen \/ ResetLocal
  <2>1. /\ Stmt.type \in Makers /\ cache' = cache
        /\ (\E v : WriteValue(t, v)) \/ WriteNode(t, Null)
    BY <1>8 DEF Make, MeasureLen, ResetLocal, Completes, Executes, Makers
  <2>2. ~WithStmt
    BY <2>1 DEF WithStmt, Executes, Makers
  <2> QED  BY <1>4, <2>1, <2>2
<1>9. CASE Tests \/ ObjectInsert \/ Add \/ ResultSetAdd \/ ReturnLocal \/ BreakStmt
           \/ DynamicUndefined \/ BlockStmt \/ NotStmt
  <2>1. CASE Tests
    BY <1>6, <2>1 DEF Tests, Test, Completes, Executes, Makers, WithStmt
  <2>2. CASE ObjectInsert \/ Add
    BY <1>6, <2>2 DEF ObjectInsert, Add, Fill, Completes, Executes, Makers, WithStmt
  <2>3. CASE ResultSetAdd \/ ReturnLocal \/ BreakStmt \/ DynamicUndefined \/ BlockStmt \/ NotStmt
    BY <1>6, <2>3 DEF ResultSetAdd, ReturnLocal, BreakStmt, DynamicUndefined, BlockStmt, NotStmt,
        Completes, Executes, Makers, WithStmt
  <2> QED  BY <1>9, <2>1, <2>2, <2>3
<1>10. CASE AssignVar \/ AssignVarOnce
  BY <1>6, <1>7, <1>10 DEF AssignVar, AssignVarOnce, Completes, Executes, Makers, WithStmt
<1>11. CASE DotStmt
  <2>1. /\ Stmt.type = "Dot" /\ cache' = cache /\ ~WithStmt /\ Stmt.type \notin Makers
        /\ frame' = frame \/ frame' = [frame EXCEPT ![t] = Len(heap) + 1]
    BY <1>11 DEF DotStmt, WriteItem, Completes, Executes, Makers, WithStmt
  <2>2. t \notin Builders(bundle)
    BY <1>1, <2>1, StatementLaid DEF BuildsApart, DocumentsApart
  <2>3. Harmless(l, Len(heap) + 1)
    BY <1>1, OldsTyped DEF Harmless
  <2> QED  BY <1>1, <1>2, <1>6, <2>1, <2>2, <2>3, SoleOther, AtWithDone DEF Olds
<1>12. CASE ScanStmt
  BY <1>6, <1>12 DEF ScanStmt, Completes, Executes, Makers, WithStmt
<1>13. CASE CallStmt \/ DynamicCall
  <2>1. /\ Stmt.type \in {"Call", "CallDynamic"} /\ ~WithStmt /\ Stmt.type \notin Makers
        /\ \E base, f, args : DoCall(base, f, args, t)
    BY <1>13 DEF CallStmt, DynamicCall, Executes, WithStmt, Makers
  <2>2. PICK base, f, args : DoCall(base, f, args, t)
    BY <2>1
  <2>3. t \notin Builders(bundle) /\ cache' = cache
    BY <1>1, <2>1, <2>2, StatementLaid DEF BuildsApart, DocumentsApart, DoCall, Throw
  <2>4. \/ frame' = frame
        \/ \E v : WriteValue(t, v)
        \/ f \in Functions /\ WriteNode(t, cache[f])
    BY <2>2 DEF DoCall, Throw
  <2>5. CASE f \in Functions /\ WriteNode(t, cache[f])
    <3>1. Harmless(l, cache[f]) /\ frame' = [frame EXCEPT ![t] = cache[f]] /\ t \in Locals \ {l}
      BY <1>1, <2>3, <2>5 DEF Harmless, Exposed, WriteNode
    <3> QED  BY <1>1, <1>2, <2>1, <2>3, <3>1, SoleOther, AtWithDone DEF Olds
  <2> QED  BY <1>1, <1>5, <1>6, <2>1, <2>3, <2>4, <2>5
<1>14. CASE RawOperand \/ WithCrash \/ ScanThrow \/ FillMalformed
  BY <1>14 DEF RawOperand, WithCrash, ScanThrow, FillMalformed, Throw
<1>15. CASE Timeout
  <2>1. stmtCount \in Nat /\ StmtLimit \in Nat
    BY <1>1, LimitsAssumption DEF Inv, ControlOK
  <2> QED  BY <1>15, <2>1 DEF Timeout, LimitReached
<1>16. CASE (Blocks \/ Calls) /\ ~(BlockStmt \/ NotStmt \/ WithStmt \/ WithCrash \/ ScanStmt
               \/ ScanThrow \/ CallStmt \/ DynamicCall)
  <2>1. Top.kind = "block" /\ code = "None" /\ ~(Top.pc > Len(Body(Top.block)))
    BY <1>1, BlockTyped DEF AtStatement, Running
  <2> QED  BY <1>16, <2>1 DEF Blocks, Calls, PlanNext, PlanDone, NestNext, NestDone, BlockAdvance,
      BlockEnd, BlockExit, BlockBreak, NotDone, WithDone, ScanNext, ScanDone, NextBlock, Running,
      BindParam, EnterFunction, CallNext, CallNoBlocks, CallReturn, CallFail, DynamicDone
<1>17. CASE status # "running" /\ UNCHANGED vars
  BY <1>17 DEF AtStatement, Running
<1>18. CASE ObjectMerge
  <2>1. /\ Stmt.type = "ObjectMerge" /\ cache' = cache /\ ~WithStmt /\ Stmt.type \notin Makers
        /\ WriteOperand(t, Stmt.op0) \/ \E v : WriteValue(t, v)
    BY <1>18 DEF ObjectMerge, Completes, Executes, Makers, WithStmt
  <2>2. t \in Lent(Stmt) /\ LocalOf(Stmt.op0) \subseteq Lent(Stmt) /\ ~IsMove(bundle, Stmt)
    BY <2>1 DEF Lent, IsMove
  <2>3. CASE IsLocal(Stmt.op0) /\ WriteOperand(t, Stmt.op0)
    <3>1. /\ Stmt.op0[2] \in Lent(Stmt)
          /\ frame' = [frame EXCEPT ![t] = frame[Stmt.op0[2]]]
      BY <2>2, <2>3 DEF LocalOf, WriteOperand, WriteNode
    <3>2. t # l /\ Harmless(l, frame[Stmt.op0[2]])
      BY <2>2, <3>1, StatementGuarded
    <3> QED  BY <1>1, <1>2, <2>1, <3>1, <3>2, SoleOther, AtWithDone DEF Olds
  <2> QED  BY <1>1, <1>5, <2>1, <2>3 DEF WriteOperand
<1> QED  BY <1>3, <1>8, <1>9, <1>10, <1>11, <1>12, <1>13, <1>14, <1>15, <1>16, <1>17, <1>18
         DEF Next, Straight

\* A local of a call or of its arguments hands its node on to a local that builds
\* nothing: neither is under construction then.
LEMMA CallGives ==
    ASSUME NEW lay, Laid(lay), Top.kind \in {"bind", "call"},
           NEW l, l \in Private(bundle) \cup Under(Below, bundle, lay),
           NEW q \in Locals, q \in Lending(Top, bundle, lay),
           \A m \in Moves(bundle) : m[1] # q
    PROVE  Harmless(l, frame[q])
<1>1. /\ Under(Below, bundle, lay) \cap Lending(Top, bundle, lay) = {}
      /\ Lending(Top, bundle, lay) \cap Private(bundle) = {}
  BY OpenPop DEF Laid, Opened, Planned
<1>2. q # l /\ q \notin Givers(l)
  BY <1>1 DEF Givers
<1> QED  BY <1>2, HeldHarmless

LEMMA BindSole ==
    ASSUME NEW lay, Laid(lay), WholesStay, BindParam, NEW l \in Locals, l \in Builders(bundle), Sole(l),
           l \in Private(bundle) \cup Under(Below, bundle, lay), bundle' = bundle,
           Withs(stack') = Withs(stack)
    PROVE  Sole(l)'
<1> DEFINE op == Top.args[Top.next]
           t == bundle.functions[Top.func].params[Top.next]
<1>1. /\ Inv /\ BuildsApart(bundle, lay) /\ Top.kind = "bind" /\ cache' = cache
      /\ frame' = frame \/ WriteOperand(t, op)
      /\ Top.next <= Len(bundle.functions[Top.func].params)
  BY DEF Laid, BindParam, Running, Throw
<1>2. /\ Top.func \in Functions /\ Top.next \in Nat \ {0, 1, 2} /\ IsSeq(Top.args)
      /\ Len(Top.args) >= Len(bundle.functions[Top.func].params)
      /\ \A i \in DOMAIN Top.args : OperandOK(Top.args[i], bundle)
  BY <1>1, TopFacts DEF Activation, Functions
<1>3. bundle.functions[Top.func].params \in Seq(Locals)
  BY <1>1, <1>2, FunctionFacts DEF FunctionOK, Locals
<1>4. Top.next \in DOMAIN bundle.functions[Top.func].params /\ Top.next > 2
  BY <1>1, <1>2, <1>3
<1>5. Top.next \in DOMAIN Top.args
  BY <1>1, <1>2, <1>3, IsSeqDomain
<1>6. t \in Locals /\ t \notin Builders(bundle)
  BY <1>1, <1>2, <1>3, <1>4 DEF BuildsApart, DocumentsApart, Functions
<1>7. CASE frame' = frame
  BY <1>1, <1>7, SoleSame
<1>8. CASE WriteOperand(t, op) /\ ~IsLocal(op)
  BY <1>1, <1>6, <1>8, SoleValue DEF WriteOperand
<1>9. CASE WriteOperand(t, op) /\ IsLocal(op)
  <2>1. op[2] \in Locals /\ frame' = [frame EXCEPT ![t] = frame[op[2]]]
    BY <1>2, <1>5, <1>9 DEF OperandOK, Locals, WriteOperand, WriteNode
  <2>2. op[2] \in LocalOf(Top.args[Top.next])
    BY <1>9 DEF LocalOf
  <2>3. op[2] \in Lending(Top, bundle, lay)
    BY <1>1, <1>5, <2>2 DEF Lending
  <2>4. Planned(Top, bundle, lay)
    BY OpenPop DEF Laid, Opened
  <2>5. \A m \in Moves(bundle) : m[1] # op[2]
    BY <1>1, <1>5, <2>2, <2>4 DEF Planned
  <2>6. Harmless(l, frame[op[2]])
    BY <1>1, <2>1, <2>3, <2>5, CallGives
  <2> QED  BY <1>1, <1>6, <2>1, <2>6, SoleOther DEF Olds
<1> QED  BY <1>1, <1>7, <1>8, <1>9

LEMMA ReturnSole ==
    ASSUME NEW lay, Laid(lay), WholesStay, CallReturn, NEW l \in Locals, l \in Builders(bundle), Sole(l),
           l \in Private(bundle) \cup Under(Below, bundle, lay), bundle' = bundle,
           Withs(stack') = Withs(stack)
    PROVE  Sole(l)'
<1> DEFINE q == bundle.functions[Top.func].result
           n == frame[q]
<1>1. /\ Inv /\ BuildsApart(bundle, lay) /\ Top.kind = "call"
      /\ cache' = cache \/ cache' = [cache EXCEPT ![Top.func] = n]
      /\ frame' = [frame EXCEPT ![Top.target] = n]
  BY DEF Laid, CallReturn, Running, WriteNode
<1>2. Top.func \in Functions /\ Top.target \in Locals
  BY <1>1, TopFacts DEF Activation, Functions, Locals
<1>3. q \in Locals
  BY <1>1, <1>2, FunctionFacts DEF FunctionOK, Locals
<1>4. q \in Lending(Top, bundle, lay) /\ \A m \in Moves(bundle) : m[1] # q
  BY <1>1, <1>2 DEF Lending, BuildsApart, LendsKnown, MovesFinal, Functions
<1>5. Harmless(l, n)
  BY <1>1, <1>3, <1>4, CallGives
<1>6. Top.target \notin Builders(bundle)
  BY <1>1, OpenPop DEF Laid, Opened, Planned
<1>7. \A f \in Functions : cache'[f] = cache[f] \/ cache'[f] = n
  <2>1. cache \in [Functions -> Node \cup {Null, NoEntry}]
    BY <1>1 DEF Inv, MemoryOK
  <2> QED  BY <1>1, <2>1
<1> HIDE DEF n
<1> QED  BY <1>1, <1>2, <1>5, <1>6, <1>7, SoleOther DEF Olds

LEMMA ScanSole ==
    ASSUME NEW lay, Laid(lay), WholesStay, ScanNext, NEW l \in Locals, l \in Builders(bundle), Sole(l),
           bundle' = bundle, Withs(stack') = Withs(stack)
    PROVE  Sole(l)'
<1>1. /\ Inv /\ Top.kind = "scan" /\ cache' = cache
      /\ frame' = [frame EXCEPT ![Top.key] = Len(heap) + 1, ![Top.value] = Len(heap) + 2]
  BY DEF Laid, ScanNext, Running
<1>2. Top.key \notin Builders(bundle) /\ Top.value \notin Builders(bundle)
  BY <1>1, OpenPop DEF Laid, Opened, Planned
<1>3. frame \in [Locals -> Node \cup {Null}] /\ Len(heap) \in Nat
  BY <1>1, OldsTyped
<1>4. \A m \in Locals : frame'[m] = frame[m] \/ frame'[m] > Len(heap)
  BY <1>1, <1>3
<1>5. frame'[l] = frame[l]
  BY <1>1, <1>2, <1>3
<1> QED  BY <1>1, <1>4, <1>5, SoleKept DEF Harmless, Olds

LEMMA WithDoneSole ==
    ASSUME NEW lay, Laid(lay), StackLaidOut(stack, bundle), WholesStay, WithDone,
           NEW l \in Locals, l \in Builders(bundle), Sole(l), bundle' = bundle
    PROVE  Sole(l)'
<1>1. /\ Inv /\ BuildsApart(bundle, lay) /\ cache' = cache
  BY DEF Laid, WithDone
<1>2. /\ Withs(stack') \subseteq Withs(stack)
      /\ [at |-> Len(stack), target |-> Top.target, old |-> Top.old] \in Withs(stack)
      /\ Top.target \in Locals /\ frame' = [frame EXCEPT ![Top.target] = Top.old]
      /\ Top.target \notin Builders(bundle)
  BY <1>1, WithEnds DEF BuildsApart
<1>3. Harmless(l, Top.old)
  BY <1>2 DEF Harmless, Exposed, Olds
<1> QED  BY <1>1, <1>2, <1>3, SoleOther DEF Olds

LEMMA RestSole ==
    ASSUME NEW lay, Laid(lay), Guarded(lay), StackLaidOut(stack, bundle), ~AtStatement, Next,
           NEW l \in Private(bundle) \cup Holding(lay),
           CallReturn \/ BindParam => l \in Private(bundle) \cup Under(Below, bundle, lay)
    PROVE  Sole(l)'
<1>1. /\ Inv /\ BuildsApart(bundle, lay) /\ l \in Builders(bundle) /\ l \in Locals
      /\ bundle' = bundle /\ Sole(l)
  BY HoldingBelow, ApartFacts, BundleSame DEF Laid, Private, Guarded
<1>2. ~WithStmt
  BY DEF WithStmt, Executes
<1>3. (~WithDone => Withs(stack') = Withs(stack)) /\ WholesStay
  BY <1>1, <1>2, StepStack, WholesKept DEF StackKept
<1>4. CASE WithDone
  BY <1>1, <1>3, <1>4, WithDoneSole
<1>5. CASE ScanNext
  BY <1>1, <1>3, <1>5, ScanSole DEF ScanNext, WithDone, Running
<1>6. CASE BindParam
  BY <1>1, <1>3, <1>6, BindSole DEF BindParam, WithDone, Running
<1>7. CASE CallReturn
  BY <1>1, <1>3, <1>7, ReturnSole DEF CallReturn, WithDone, Running
<1>8. CASE DynamicDone
  <2>1. /\ Top.kind = "dynamic" /\ cache' = cache
        /\ frame' = frame \/ frame' = [frame EXCEPT ![Top.target] = Len(heap) + 1]
    BY <1>8 DEF DynamicDone, WriteItem, Running
  <2>2. Top.target \in Locals /\ Top.target \notin Builders(bundle)
    BY <1>1, <2>1, TopFacts, TopLaidOut DEF Activation, Locals, LaidOut, BuildsApart
  <2>3. Harmless(l, Len(heap) + 1)
    BY <1>1, OldsTyped DEF Harmless
  <2> QED  BY <1>1, <1>3, <2>1, <2>2, <2>3, SoleSame, SoleOther DEF WithDone, Running, Olds
<1>9. CASE ~(WithDone \/ ScanNext \/ BindParam \/ CallReturn \/ DynamicDone)
  <2>1. ~(Straight \/ BlockStmt \/ NotStmt \/ WithStmt \/ WithCrash \/ ScanStmt
            \/ ScanThrow \/ CallStmt \/ DynamicCall)
    BY DEF Straight, Make, MeasureLen, Tests, Test, ResetLocal, AssignVar,
      AssignVarOnce, ObjectInsert, ObjectMerge, Add, FillMalformed, DotStmt, ResultSetAdd, ReturnLocal,
      BreakStmt, DynamicUndefined, Timeout, RawOperand, BlockStmt, NotStmt, WithStmt,
      WithCrash, ScanStmt, ScanThrow, CallStmt, DynamicCall, Executes
  <2>2. UNCHANGED <<frame, cache>>
    BY <1>9, <2>1 DEF Next, Blocks, Calls, PlanNext, PlanDone, NestNext, NestDone, BlockAdvance,
      BlockEnd, BlockExit, BlockBreak, NotDone, ScanDone, NextBlock,
      EnterFunction, CallNext, CallNoBlocks, CallFail, vars
  <2> QED  BY <1>1, <1>3, <1>9, <2>2, SoleSame
<1> QED  BY <1>4, <1>5, <1>6, <1>7, <1>8, <1>9

-----------------------------------------------------------------------------
(***************************************************************************)
(* The invariant.                                                          *)
(***************************************************************************)
\* The function that returns is on the stack once.
LEMMA ReturnsOnce ==
    ASSUME LimitsInv, Top.kind = "call", NEW k \in DOMAIN Below, Below[k].kind = "call"
    PROVE  Below[k].func # Top.func
<1> DEFINE n == Len(stack)
<1>1. /\ Inv /\ IsSeq(stack) /\ n \in Nat /\ n > 0 /\ Top = stack[n] /\ DOMAIN stack = 1..n
      /\ CountersOK(stack, blockDepth, withCount, callStack)
      /\ IsSeq(callStack) /\ CallsOK
  BY TopFacts, IsSeqDomain DEF LimitsInv
<1>2. k \in 1..(n - 1) /\ Below[k] = stack[k]
  BY <1>1, PopIsSeq, IsSeqDomain DEF Below
<1> DEFINE i == Count(stack, "call", k)
           j == Count(stack, "call", n)
<1>3. /\ callStack[i].name = Below[k].func /\ callStack[j].name = Top.func
      /\ Len(callStack) = j
  BY <1>1, <1>2 DEF CountersOK
<1>4. i <= Count(stack, "call", n - 1) /\ i \in Nat
  BY <1>1, <1>2, CountMonotone, CountNat
<1>5. j = Count(stack, "call", n - 1) + 1
  <2>1. Count(stack, "call", (n - 1) + 1)
          = Count(stack, "call", n - 1) + Bump(stack[(n - 1) + 1], "call")
    BY <1>1, CountNext
  <2>2. (n - 1) + 1 = n /\ Bump(stack[n], "call") = 1
    BY <1>1 DEF Bump
  <2> QED  BY <2>1, <2>2
<1>6. i >= 1 /\ Count(stack, "call", n - 1) \in Nat
  BY <1>1, <1>2, CountPositive, CountNat
<1>7. i \in DOMAIN callStack /\ j \in DOMAIN callStack /\ i # j
  <2>1. DOMAIN callStack = 1..j
    BY <1>1, <1>3, IsSeqDomain
  <2> HIDE DEF i, j
  <2> QED  BY <1>4, <1>5, <1>6, <2>1
<1> QED  BY <1>1, <1>3, <1>7 DEF CallsOK

\* A result is cached only where no call of its function is left on the stack.
LEMMA CacheOpened ==
    ASSUME NEW lay, Laid(lay), LimitsInv, [Next]_vars, Opened(stack', code', cache, bundle, lay)
    PROVE  Opened(stack', code', cache', bundle, lay)
<1>1. CASE cache' = cache
  BY <1>1
<1>2. CASE CallReturn
  <2>1. /\ Top.kind = "call" /\ stack' = Below /\ Inv
        /\ cache' = cache \/ \E n : cache' = [cache EXCEPT ![Top.func] = n]
    BY <1>2 DEF CallReturn, Running, Return, LimitsInv
  <2>2. NoBind(Below) /\ IsSeq(Below)
    BY <2>1, NoBindBelow DEF LimitsInv
  <2>3. ASSUME NEW k \in DOMAIN stack', stack'[k].kind \in {"call", "bind"}
        PROVE  (\E i \in 1..(k - 1) : stack'[i].kind = "with") \/ cache'[stack'[k].func] = NoEntry
    <3>1. stack'[k].kind = "call" /\ stack'[k].func # Top.func
      BY <2>1, <2>2, <2>3, ReturnsOnce DEF NoBind
    <3>2. stack'[k].func \in Functions
      <4>1. k \in DOMAIN stack /\ Below[k] = stack[k]
        BY <2>1, <2>3, OpenPop DEF Laid, Opened
      <4>2. Activation(stack[k], bundle, Node)
        BY <2>1, <4>1 DEF Inv, StackOK
      <4> QED  BY <2>1, <3>1, <4>1, <4>2 DEF Activation, Functions
    <3>3. cache \in [Functions -> Node \cup {Null, NoEntry}]
      BY <2>1 DEF Inv, MemoryOK
    <3>4. cache'[stack'[k].func] = cache[stack'[k].func]
      BY <2>1, <3>1, <3>2, <3>3
    <3>5. (\E i \in 1..(k - 1) : stack'[i].kind = "with") \/ cache[stack'[k].func] = NoEntry
      BY <2>3 DEF Opened, StackOpen
    <3> QED  BY <3>4, <3>5
  <2> QED  BY <2>3 DEF Opened, StackOpen
<1> QED  BY <1>1, <1>2, CacheChange DEF LimitsInv

SharingInv(lay) ==
    /\ LimitsInv /\ Stopping /\ StackLaidOut(stack, bundle) /\ BuildsApart(bundle, lay)
    /\ stmtCount < StmtLimit => Opened(stack, code, cache, bundle, lay) /\ Guarded(lay)

LEMMA SharingStep ==
    ASSUME NEW lay, SharingInv(lay), [Next]_vars
    PROVE  SharingInv(lay)'
<1>1. LimitsInv' /\ Stopping' /\ StackLaidOut(stack', bundle') /\ bundle' = bundle
      /\ Inv /\ LimitsInv
  BY StepLimits, StepStopping, StepLaidOut, BundleSame DEF SharingInv, LimitsInv
<1>2. SUFFICES ASSUME stmtCount' < StmtLimit
               PROVE  Opened(stack', code', cache', bundle, lay) /\ Guarded(lay)'
  BY <1>1 DEF SharingInv
<1>3. stmtCount < StmtLimit
  <2>1. stmtCount \in Nat /\ StmtLimit \in Nat
    BY <1>1, LimitsAssumption DEF Inv, ControlOK
  <2> QED  BY <1>1, <1>2, <2>1, StepCounts
<1>4. Laid(lay) /\ Guarded(lay) /\ StackLaidOut(stack, bundle)
  BY <1>1, <1>3 DEF SharingInv, Laid
<1>5. Private(bundle)' = Private(bundle) /\ Private(bundle) \subseteq Locals
      /\ Holding(lay) \subseteq Locals
  BY <1>1, <1>4, HoldingBelow, ApartFacts DEF Private
<1>6. Holding(lay)' = Held(stack', code', bundle, lay)
  BY <1>1 DEF Holding
<1>7. CASE UNCHANGED <<stack, code, frame, cache>>
  <2>1. Holding(lay)' = Holding(lay)
    BY <1>6, <1>7 DEF Holding
  <2>2. \A l \in Locals : Sole(l) => Sole(l)'
    BY <1>1, <1>4, <1>7, SoleSame, WholesKept
  <2> QED  BY <1>4, <1>5, <1>7, <2>1, <2>2 DEF Guarded, Laid
<1>8. CASE ~UNCHANGED <<stack, code, frame, cache>> /\ AtStatement
  <2>1. Next
    BY <1>8 DEF vars
  <2>2. Proceeds(lay)
    BY <1>2, <1>4, <1>8, <2>1, StatementProceeds
  <2>3. \A l \in Private(bundle) \cup Holding(lay)' : Sole(l)'
    BY <1>2, <1>4, <1>6, <1>8, <2>1, <2>2, StatementSole DEF Proceeds
  <2> QED  BY <1>1, <1>4, <1>5, <2>2, <2>3, CacheOpened DEF Proceeds, Guarded
<1>9. CASE ~UNCHANGED <<stack, code, frame, cache>> /\ ~AtStatement
  <2>1. Next
    BY <1>9 DEF vars
  <2>2. /\ Settles(lay)
        /\ CallReturn \/ BindParam =>
              Held(stack', code', bundle, lay) \subseteq Under(Below, bundle, lay)
    BY <1>4, <1>9, <2>1, RestSettles
  <2>3. \A l \in Private(bundle) \cup Holding(lay)' : Sole(l)'
    BY <1>4, <1>6, <1>9, <2>1, <2>2, RestSole DEF Settles
  <2> QED  BY <1>1, <1>4, <1>5, <2>2, <2>3, CacheOpened DEF Settles, Guarded
<1> QED  BY <1>7, <1>8, <1>9

LEMMA SharingInit ==
    ASSUME NEW lay, Init, BuildsApart(bundle, lay)
    PROVE  SharingInv(lay)
<1> DEFINE a == [kind |-> "plan", blocks |-> bundle.plan, next |-> 1]
<1>1. /\ Inv /\ LimitsInv /\ StackLaidOut(stack, bundle) /\ Withs(stack) = {}
      /\ DepthOK /\ CallsOK /\ BindFresh
  BY InitInv, LimitsInit, InitLaidOut DEF LimitsInv
<1>2. stack = <<a>> /\ a.kind = "plan" /\ a.blocks = bundle.plan /\ code = "None"
  BY DEF Init
<1> HIDE DEF a
<1>3. Len(stack) = 1 /\ DOMAIN stack = {1} /\ stack[1] = a /\ Top = a
  BY <1>2 DEF Top
<1>4. Stopping
  BY <1>2, <1>3 DEF Stopping
<1>5. Live(a, bundle, lay) = {} /\ LiveTop(a, code, bundle, lay) = {}
  <2>1. \A i \in DOMAIN bundle.plan : lay.open[bundle.plan[i]][1] = {}
    BY DEF BuildsApart, BlocksOpen
  <2> QED  BY <1>2, <2>1 DEF Live, LiveTop
<1>6. Planned(a, bundle, lay)
  <2>1. bundle.plan \in Seq(DOMAIN bundle.blocks)
    BY <1>1, BundlesVerified DEF Inv, Verified
  <2>2. \A i \in DOMAIN bundle.plan : lay.lends[bundle.plan[i]] \cap Private(bundle) = {}
    BY <2>1 DEF BuildsApart, LendsKnown
  <2>3. Lending(a, bundle, lay) \cap Private(bundle) = {}
    BY <1>2, <2>2 DEF Lending
  <2> QED  BY <1>2, <1>5, <2>3 DEF Planned
<1>7. Holding(lay) = {}
  BY <1>3, <1>5 DEF Holding, Held
<1>8. Opened(stack, code, cache, bundle, lay)
  <2>1. StackOpen(stack, cache, bundle, lay)
    BY <1>2, <1>3, <1>6 DEF StackOpen
  <2>2. CodeFits(a, code, bundle)
    BY <1>2 DEF CodeFits
  <2> QED  BY <1>3, <1>7, <2>1, <2>2 DEF Opened, Holding
<1>9. ASSUME NEW l \in Private(bundle)
      PROVE  Sole(l)
  <2>1. l \in Locals /\ l \notin Documents
    BY <1>1, ApartFacts DEF BuildsApart, Private
  <2>2. frame[l] = Null
    BY <2>1 DEF Init, Documents
  <2> QED  BY <2>2 DEF Sole
<1> QED  BY <1>1, <1>4, <1>7, <1>8, <1>9 DEF SharingInv, Guarded

\* A statement fills no node that is held apart from the local it fills.
LEMMA NotFilled ==
    ASSUME NEW lay, SharingInv(lay), [Next]_vars, NEW n \in Node,
           AtStatement /\ Stmt.type \in Fillers => n \in Exposed(Stmt.target)
    PROVE  heap'[n].value = heap[n].value
<1>1. /\ Inv /\ LimitsInv /\ Stopping /\ StackLaidOut(stack, bundle)
      /\ stmtCount \in Nat /\ StmtLimit \in Nat /\ DOMAIN heap = Node
  BY LimitsAssumption, IsSeqDomain DEF SharingInv, LimitsInv, Inv, MemoryOK, ControlOK, Node
<1>2. CASE stmtCount >= StmtLimit
  BY <1>1, <1>2, LimitFreezes
<1>3. CASE stmtCount < StmtLimit /\ NodeFilled
  <2>1. Laid(lay) /\ Guarded(lay) /\ AtStatement /\ Stmt.type \in Fillers
    BY <1>1, <1>3 DEF SharingInv, Laid, NodeFilled
  <2>2. Stmt.target \in lay.open[Top.block][Top.pc] \cup Private(bundle)
    BY <2>1, StatementLaid DEF StatementOpen
  <2>3. Sole(Stmt.target)
    BY <2>1, <2>2, AtStatementHeld DEF Guarded
  <2>4. frame[Stmt.target] # Null
    BY <1>3 DEF NodeFilled, Node, Null
  <2>5. Whole(frame[Stmt.target]) /\ n # frame[Stmt.target]
    BY <2>1, <2>3, <2>4 DEF Sole
  <2> QED  BY <1>3, <2>5 DEF NodeFilled
<1>4. CASE NodesKept
  BY <1>4 DEF NodesKept
<1> QED  BY <1>1, <1>2, <1>3, <1>4, StepMemory, WithBegins, WithEnds

\* What the cache holds is not touched.
LEMMA CachedSame ==
    ASSUME NEW lay, SharingInv(lay), [Next]_vars, NEW f \in Functions, cache[f] # NoEntry
    PROVE  cache'[f] = cache[f] /\ ValueOf(cache[f])' = ValueOf(cache[f])
<1>1. /\ Inv /\ LimitsInv /\ Stopping /\ StackLaidOut(stack, bundle)
      /\ cache \in [Functions -> Node \cup {Null, NoEntry}]
      /\ stmtCount \in Nat /\ StmtLimit \in Nat
      /\ DOMAIN heap = Node
  BY LimitsAssumption, IsSeqDomain DEF SharingInv, LimitsInv, Inv, MemoryOK, ControlOK, Node
<1>2. cache'[f] = cache[f]
  <2>1. CASE stmtCount >= StmtLimit
    BY <1>1, <2>1, LimitFreezes
  <2>2. CASE stmtCount < StmtLimit /\ CallReturn
    <3>1. /\ Top.kind = "call" /\ Top.func \in Functions
      BY <1>1, <2>2, TopFacts DEF CallReturn, Running, Activation, Functions
    <3>2. (\E j \in DOMAIN Below : Below[j].kind = "with") \/ cache[Top.func] = NoEntry
      BY <1>1, <2>2, <3>1, OpenPop DEF SharingInv, Opened
    <3>3. cache' = cache \/ (withCount = 0 /\ \E n : cache' = [cache EXCEPT ![Top.func] = n])
      BY <2>2 DEF CallReturn, Caches
    <3>4. ASSUME withCount = 0, NEW j \in DOMAIN Below, Below[j].kind = "with"
          PROVE  FALSE
      <4>1. j \in DOMAIN stack /\ stack[j].kind = "with"
        BY <1>1, <2>2, <3>4, OpenPop DEF SharingInv, Opened
      <4>2. withCount = Count(stack, "with", Len(stack)) /\ DOMAIN stack = 1..Len(stack)
            /\ Len(stack) \in Nat
        BY <1>1, TopFacts, IsSeqDomain DEF CountersOK
      <4>3. Count(stack, "with", Len(stack)) >= 1
        BY <4>1, <4>2, CountPositive
      <4> QED  BY <3>4, <4>2, <4>3
    <3> QED  BY <1>1, <3>1, <3>2, <3>3, <3>4
  <2> QED  BY <1>1, <2>1, <2>2, CacheChange
<1>3. ASSUME NEW n \in Node, n = cache[f]
      PROVE  heap'[n].value = heap[n].value
  <2>1. \A l : n \in Exposed(l)
    BY <1>3 DEF Exposed
  <2> QED  BY <2>1, NotFilled
<1>4. CASE cache[f] = Null
  BY <1>2, <1>4 DEF ValueOf
<1>5. CASE cache[f] \in Node
  BY <1>2, <1>3, <1>5 DEF ValueOf
<1> QED  BY <1>1, <1>2, <1>4, <1>5

\* In a bundle that is laid out as rego_to_bundle lays out its containers, a
\* cached result is final: its entry is never replaced, and no statement that
\* fills a container in place reaches the node it holds, although the function
\* that made it, its caller and every later caller share that node
\* (put_function_result, ArrayAppend, SetAdd, ObjectInsert).
THEOREM CachedCorrect ==
    ASSUME NEW CONSTANT lay
    PROVE  TraceSpec /\ BuildsApart(bundle, lay) => CachedResultsFrozen
<1>1. TraceInit /\ BuildsApart(bundle, lay) => SharingInv(lay)
  BY SharingInit DEF TraceInit
<1>2. SharingInv(lay) /\ [TraceNext]_traceVars => SharingInv(lay)'
  BY SharingStep DEF TraceNext, traceVars
<1>3. SharingInv(lay) /\ [TraceNext]_traceVars =>
        [\A f \in Functions : cache[f] # NoEntry =>
            cache'[f] = cache[f] /\ ValueOf(cache[f])' = ValueOf(cache[f])]_traceVars
  BY CachedSame DEF TraceNext, traceVars
<1> QED  BY <1>1, <1>2, <1>3, PTL DEF TraceSpec, CachedResultsFrozen

(***************************************************************************)
(* Whose text the activations run.                                         *)
(***************************************************************************)
\* Function f of bundle b is the one that activation a belongs to.
RunBy(a, f, b, lay) ==
    /\ f \in DOMAIN b.functions /\ a.kind # "plan"
    /\ a.kind = "block" => a.block \in lay.text[f]
    /\ a.kind = "nest" => \A i \in DOMAIN a.blocks : a.blocks[i] \in lay.text[f]
    /\ a.kind = "scan" => a.block \in lay.text[f] /\ {a.key, a.value} \subseteq Uses(b, lay, f)
    /\ a.kind \in {"with", "dynamic", "call", "bind"} => a.target \in Uses(b, lay, f)

\* So is the function that is called last, whenever one is.
Owned(s, n, a, b, lay) ==
    \A p \in 1..n : s[p].kind = "call" =>
        \E j \in p..n : s[j].kind = "call" /\ RunBy(a, s[j].func, b, lay)
\* A function that is called, or about to be, is one that the functions below
\* it call, and none of these.
Linked(s, n, a, b, lay) ==
    /\ a.kind \in {"call", "bind"} =>
         \A q \in 1..n : s[q].kind = "call" => a.func \in lay.calls[s[q].func] \ {s[q].func}
    /\ a.kind = "call" => a.blocks = b.functions[a.func].blocks
Chained(s, b, lay) ==
    \A k \in DOMAIN s : Owned(s, k - 1, s[k], b, lay) /\ Linked(s, k - 1, s[k], b, lay)

LEMMA ChainPush ==
    ASSUME NEW s, IsSeq(s), NEW b, NEW lay, Chained(s, b, lay),
           NEW a, Owned(s, Len(s), a, b, lay), Linked(s, Len(s), a, b, lay)
    PROVE  IsSeq(Append(s, a)) /\ Chained(Append(s, a), b, lay)
<1> DEFINE t == Append(s, a)
           n == Len(s)
<1>1. /\ IsSeq(t) /\ n \in Nat /\ DOMAIN s = 1..n /\ DOMAIN t = 1..(n + 1)
      /\ \A i \in 1..n : t[i] = s[i]
      /\ t[n + 1] = a
  BY PushIsSeq, IsSeqDomain
<1> HIDE DEF t
<1>2. ASSUME NEW k \in DOMAIN t
      PROVE  Owned(t, k - 1, t[k], b, lay) /\ Linked(t, k - 1, t[k], b, lay)
  <2>1. \A i \in 1..(k - 1) : t[i] = s[i]
    BY <1>1
  <2>2. Owned(s, k - 1, t[k], b, lay) /\ Linked(s, k - 1, t[k], b, lay)
    <3>1. CASE k = n + 1
      BY <1>1, <3>1
    <3>2. CASE k \in 1..n
      BY <1>1, <3>2 DEF Chained
    <3> QED  BY <1>1, <3>1, <3>2
  <2>3. Owned(t, k - 1, t[k], b, lay)
    <3> SUFFICES ASSUME NEW p \in 1..(k - 1), t[p].kind = "call"
                 PROVE  \E j \in p..(k - 1) : t[j].kind = "call" /\ RunBy(t[k], t[j].func, b, lay)
      BY DEF Owned
    <3>1. PICK j \in p..(k - 1) : s[j].kind = "call" /\ RunBy(t[k], s[j].func, b, lay)
      BY <2>1, <2>2 DEF Owned
    <3>2. j \in 1..(k - 1)
      BY <1>1
    <3> QED  BY <2>1, <3>1, <3>2
  <2> QED  BY <2>1, <2>2, <2>3 DEF Linked
<1> QED  BY <1>1, <1>2 DEF Chained, t

LEMMA ChainPop ==
    ASSUME NEW s, IsSeq(s), Len(s) > 0, NEW b, NEW lay, Chained(s, b, lay),
           NEW r, r = SubSeq(s, 1, Len(s) - 1)
    PROVE  /\ IsSeq(r) /\ Len(r) = Len(s) - 1 /\ Chained(r, b, lay)
           /\ \A i \in 1..(Len(s) - 1) : r[i] = s[i]
           /\ Owned(r, Len(r), s[Len(s)], b, lay) /\ Linked(r, Len(r), s[Len(s)], b, lay)
<1> DEFINE n == Len(s) - 1
<1>1. /\ n \in Nat /\ DOMAIN s = 1..(n + 1) /\ Len(s) = n + 1
      /\ IsSeq(r) /\ Len(r) = n /\ DOMAIN r = 1..n
      /\ \A i \in 1..n : r[i] = s[i]
  BY PopIsSeq, IsSeqDomain
<1> HIDE DEF n
<1>2. ASSUME NEW k \in DOMAIN s
      PROVE  Owned(r, k - 1, s[k], b, lay) /\ Linked(r, k - 1, s[k], b, lay)
  <2>1. \A i \in 1..(k - 1) : r[i] = s[i]
    BY <1>1
  <2>2. Owned(s, k - 1, s[k], b, lay) /\ Linked(s, k - 1, s[k], b, lay)
    BY DEF Chained
  <2>3. Owned(r, k - 1, s[k], b, lay)
    <3> SUFFICES ASSUME NEW p \in 1..(k - 1), r[p].kind = "call"
                 PROVE  \E j \in p..(k - 1) : r[j].kind = "call" /\ RunBy(s[k], r[j].func, b, lay)
      BY DEF Owned
    <3>1. PICK j \in p..(k - 1) : s[j].kind = "call" /\ RunBy(s[k], s[j].func, b, lay)
      BY <2>1, <2>2 DEF Owned
    <3>2. j \in 1..(k - 1)
      BY <1>1
    <3> QED  BY <2>1, <3>1, <3>2
  <2> QED  BY <2>1, <2>2, <2>3 DEF Linked
<1>3. Chained(r, b, lay)
  BY <1>1, <1>2 DEF Chained
<1>4. n + 1 \in DOMAIN s /\ (n + 1) - 1 = n
  BY <1>1
<1> QED  BY <1>1, <1>2, <1>3, <1>4

\* The owner is below an activation that is not a call.
LEMMA OwnedUp ==
    ASSUME NEW s, IsSeq(s), NEW b, NEW lay, NEW a, a.kind # "call", NEW x,
           Owned(s, Len(s), x, b, lay)
    PROVE  Owned(Append(s, a), Len(s) + 1, x, b, lay)
<1> DEFINE t == Append(s, a)
           n == Len(s)
<1>1. n \in Nat /\ t[n + 1] = a /\ \A i \in 1..n : t[i] = s[i]
  BY PushIsSeq, IsSeqDomain
<1> HIDE DEF t, n
<1>2. ASSUME NEW p \in 1..(n + 1), t[p].kind = "call"
      PROVE  \E j \in p..(n + 1) : t[j].kind = "call" /\ RunBy(x, t[j].func, b, lay)
  <2>1. p \in 1..n
    BY <1>1, <1>2
  <2>2. PICK j \in p..n : s[j].kind = "call" /\ RunBy(x, s[j].func, b, lay)
    BY <1>1, <1>2, <2>1 DEF Owned, n
  <2>3. j \in 1..n /\ j \in p..(n + 1)
    BY <1>1, <2>1
  <2> QED  BY <1>1, <2>2, <2>3
<1> QED  BY <1>2 DEF Owned, t, n

LEMMA OwnedByCall ==
    ASSUME NEW s, IsSeq(s), NEW b, NEW lay, NEW a, a.kind = "call", NEW x,
           RunBy(x, a.func, b, lay)
    PROVE  Owned(Append(s, a), Len(s) + 1, x, b, lay)
<1> DEFINE t == Append(s, a)
           n == Len(s)
<1>1. n \in Nat /\ t[n + 1] = a
  BY PushIsSeq, IsSeqDomain
<1> HIDE DEF t, n
<1>2. \A p \in 1..(n + 1) : n + 1 \in p..(n + 1)
  BY <1>1
<1> QED  BY <1>1, <1>2 DEF Owned, t, n

LEMMA OwnedSame ==
    ASSUME NEW s, NEW n, NEW b, NEW lay, NEW a, NEW x, Owned(s, n, a, b, lay),
           \A f : RunBy(a, f, b, lay) => RunBy(x, f, b, lay)
    PROVE  Owned(s, n, x, b, lay)
BY DEF Owned

\* The stack of a step: nothing changes below the last activation, which a call
\* does not replace, and what is pushed to be called is pushed by itself.
Grown(t) ==
    /\ IsSeq(t)
    /\ \A q \in 1..(Len(stack) - 1) : q \in DOMAIN t => t[q] = stack[q]
    /\ \A p \in DOMAIN t : t[p].kind \in {"call", "bind"} =>
          /\ p = Len(stack) => Top.kind \in {"call", "bind"}
          /\ p > Len(stack) => UNCHANGED <<frame, heap>>
Continued(t, lay) == Grown(t) /\ Chained(t, bundle, lay)
Nested(t, lay) == Continued(t, lay) /\ Len(t) >= Len(stack)

LEMMA NestedPush ==
    ASSUME Inv, NEW lay, NEW t, Nested(t, lay), NEW a,
           Owned(t, Len(t), a, bundle, lay), Linked(t, Len(t), a, bundle, lay),
           a.kind \in {"call", "bind"} => UNCHANGED <<frame, heap>>
    PROVE  Nested(Append(t, a), lay)
<1> DEFINE u == Append(t, a)
           n == Len(t)
<1>1. /\ IsSeq(t) /\ IsSeq(u) /\ n \in Nat /\ DOMAIN t = 1..n /\ DOMAIN u = 1..(n + 1)
      /\ Len(u) = n + 1 /\ u[n + 1] = a /\ \A i \in 1..n : u[i] = t[i]
  BY PushIsSeq, IsSeqDomain DEF Nested, Continued, Grown
<1>2. Len(stack) \in Nat
  BY TopFacts
<1>3. Chained(u, bundle, lay)
  BY <1>1, ChainPush DEF Nested, Continued
<1> HIDE DEF u, n
<1>4. ASSUME NEW q \in 1..(Len(stack) - 1)
      PROVE  u[q] = stack[q]
  <2>1. q \in 1..n
    BY <1>1, <1>2 DEF Nested, n
  <2> QED  BY <1>1, <2>1 DEF Nested, Continued, Grown
<1>5. ASSUME NEW p \in DOMAIN u, u[p].kind \in {"call", "bind"}
      PROVE  /\ p = Len(stack) => Top.kind \in {"call", "bind"}
             /\ p > Len(stack) => UNCHANGED <<frame, heap>>
  <2>1. CASE p = n + 1
    BY <1>1, <1>2, <1>5, <2>1 DEF Nested, n
  <2>2. CASE p \in 1..n
    BY <1>1, <1>5, <2>2 DEF Nested, Continued, Grown
  <2> QED  BY <1>1, <2>1, <2>2
<1> QED  BY <1>1, <1>2, <1>3, <1>4, <1>5 DEF Nested, Continued, Grown, u, n

LEMMA ContinuedBelow ==
    ASSUME Inv, NEW lay, Chained(stack, bundle, lay)
    PROVE  /\ Nested(stack, lay) /\ Continued(Below, lay)
           /\ Len(Below) = Len(stack) - 1
           /\ \A i \in 1..(Len(stack) - 1) : Below[i] = stack[i]
           /\ Owned(Below, Len(Below), Top, bundle, lay)
           /\ Linked(Below, Len(Below), Top, bundle, lay)
<1>1. IsSeq(stack) /\ Len(stack) \in Nat /\ Len(stack) > 0 /\ Top = stack[Len(stack)]
      /\ DOMAIN stack = 1..Len(stack)
  BY TopFacts, IsSeqDomain
<1>2. /\ IsSeq(Below) /\ Len(Below) = Len(stack) - 1 /\ Chained(Below, bundle, lay)
      /\ \A i \in 1..(Len(stack) - 1) : Below[i] = stack[i]
      /\ Owned(Below, Len(Below), Top, bundle, lay)
      /\ Linked(Below, Len(Below), Top, bundle, lay)
  BY <1>1, ChainPop DEF Below
<1>3. DOMAIN Below = 1..(Len(stack) - 1)
  BY <1>2, IsSeqDomain
<1>4. Grown(stack)
  BY <1>1 DEF Grown
<1>5. Grown(Below)
  BY <1>1, <1>2, <1>3 DEF Grown
<1> QED  BY <1>1, <1>2, <1>4, <1>5 DEF Nested, Continued

\* The last activation is replaced by one that has the same owner.
LEMMA ReplaceContinued ==
    ASSUME Inv, NEW lay, Chained(stack, bundle, lay), NEW a,
           \A f : RunBy(Top, f, bundle, lay) => RunBy(a, f, bundle, lay),
           a.kind \in {"call", "bind"} => Top.kind \in {"call", "bind"} /\ a.func = Top.func,
           a.kind = "call" => a.blocks = bundle.functions[a.func].blocks
    PROVE  /\ Nested(Append(Below, a), lay) /\ Len(Append(Below, a)) = Len(Below) + 1
           /\ Owned(Below, Len(Below), a, bundle, lay)
<1> DEFINE u == Append(Below, a)
           n == Len(stack)
<1>1. /\ IsSeq(Below) /\ Len(Below) = n - 1 /\ n \in Nat /\ n > 0
      /\ Chained(Below, bundle, lay)
      /\ \A i \in 1..(n - 1) : Below[i] = stack[i]
      /\ Owned(Below, Len(Below), Top, bundle, lay)
      /\ Linked(Below, Len(Below), Top, bundle, lay)
  BY ContinuedBelow, TopFacts DEF Continued, Grown
<1>2. Owned(Below, Len(Below), a, bundle, lay)
  BY <1>1, OwnedSame
<1>3. Linked(Below, Len(Below), a, bundle, lay)
  BY <1>1 DEF Linked
<1>4. Chained(u, bundle, lay)
  BY <1>1, <1>2, <1>3, ChainPush
<1>5. /\ IsSeq(u) /\ Len(u) = n /\ DOMAIN u = 1..n /\ u[n] = a
      /\ \A i \in 1..(n - 1) : u[i] = stack[i]
  <2>1. /\ IsSeq(u) /\ Len(u) = (n - 1) + 1 /\ u[(n - 1) + 1] = a
        /\ \A i \in 1..(n - 1) : u[i] = Below[i]
    BY <1>1, PushIsSeq
  <2>2. (n - 1) + 1 = n
    BY <1>1
  <2> HIDE DEF u, n
  <2> QED  BY <1>1, <2>1, <2>2, IsSeqDomain
<1> HIDE DEF u
<1>6. Grown(u)
  BY <1>1, <1>5 DEF Grown
<1> QED  BY <1>1, <1>2, <1>4, <1>5, <1>6 DEF Nested, Continued, u

\* run_block is called on block x, which belongs to the function that runs.
LEMMA EnterContinued ==
    ASSUME Inv, NEW lay, NEW base, Nested(base, lay), NEW x, EnterBlock(base, x),
           Owned(base, Len(base), [kind |-> "block", block |-> x, pc |-> 1], bundle, lay)
    PROVE  Continued(stack', lay)
<1> DEFINE a == [kind |-> "block", block |-> x, pc |-> 1]
<1>1. stack' = base \/ stack' = Append(base, a)
  BY DEF EnterBlock
<1>2. a.kind = "block" /\ Owned(base, Len(base), a, bundle, lay)
  OBVIOUS
<1> HIDE DEF a
<1>3. Linked(base, Len(base), a, bundle, lay)
  BY <1>2 DEF Linked
<1> QED  BY <1>1, <1>2, <1>3, NestedPush DEF Nested

-----------------------------------------------------------------------------
(***************************************************************************)
(* Every step keeps the stack chained.                                     *)
(***************************************************************************)
\* What the function that runs mentions, nests and calls at a statement.
LEMMA StatementText ==
    ASSUME Inv, NEW lay, CallsApart(bundle, lay), AtStatement,
           NEW f, RunBy(Top, f, bundle, lay)
    PROVE  /\ \A i \in DOMAIN Stmt.blocks : Stmt.blocks[i] \in lay.text[f]
           /\ Mentioned(Stmt) \subseteq Uses(bundle, lay, f)
           /\ Stmt.target \in Uses(bundle, lay, f)
           /\ Callees(bundle, Stmt) \subseteq lay.calls[f]
           /\ f \in Functions
<1>1. Top.kind = "block" /\ Top.pc <= Len(Body(Top.block))
  BY DEF AtStatement, Running
<1>2. /\ Top.block \in DOMAIN bundle.blocks /\ Stmt = bundle.blocks[Top.block][Top.pc]
      /\ Top.pc \in DOMAIN bundle.blocks[Top.block]
  BY <1>1, BlockTyped DEF Stmt
<1>3. f \in DOMAIN bundle.functions /\ Top.block \in lay.text[f]
  BY <1>1 DEF RunBy
<1>4. TextsKnown(bundle, lay)
  BY DEF CallsApart
<1>5. \A i \in DOMAIN Stmt.blocks : Stmt.blocks[i] \in lay.text[f]
  BY <1>2, <1>3, <1>4 DEF TextsKnown, TextOf
<1>6. Callees(bundle, Stmt) \subseteq lay.calls[f]
  BY <1>2, <1>3, <1>4 DEF TextsKnown
<1>7. Mentioned(Stmt) \subseteq Uses(bundle, lay, f)
  BY <1>2, <1>3 DEF Uses, UsedIn
<1>8. Stmt.target \in Mentioned(Stmt)
  BY DEF Mentioned
<1> QED  BY <1>3, <1>5, <1>6, <1>7, <1>8 DEF Functions

LEMMA StatementOwned ==
    ASSUME Inv, NEW lay, Chained(stack, bundle, lay), AtStatement,
           NEW x, \A f : RunBy(Top, f, bundle, lay) => RunBy(x, f, bundle, lay)
    PROVE  Owned(stack, Len(stack), x, bundle, lay)
<1> DEFINE n == Len(stack)
<1>1. n \in Nat /\ n > 0 /\ Top = stack[n] /\ DOMAIN stack = 1..n /\ Top.kind = "block"
  BY TopFacts, IsSeqDomain DEF AtStatement, Running
<1>2. Owned(stack, n - 1, Top, bundle, lay)
  BY <1>1 DEF Chained
<1> HIDE DEF n
<1>3. ASSUME NEW p \in 1..n, stack[p].kind = "call"
      PROVE  \E j \in p..n : stack[j].kind = "call" /\ RunBy(x, stack[j].func, bundle, lay)
  <2>1. p \in 1..(n - 1)
    BY <1>1, <1>3
  <2>2. PICK j \in p..(n - 1) : stack[j].kind = "call" /\ RunBy(Top, stack[j].func, bundle, lay)
    BY <1>2, <1>3, <2>1 DEF Owned
  <2>3. j \in p..n
    BY <1>1, <2>1
  <2> QED  BY <2>2, <2>3
<1> QED  BY <1>3 DEF Owned, n

\* The functions on the stack are on the call stack.
LEMMA CallNamed ==
    ASSUME Inv, NEW q \in DOMAIN stack, stack[q].kind = "call"
    PROVE  OnCallStack(stack[q].func)
<1>1. /\ Len(stack) \in Nat /\ DOMAIN stack = 1..Len(stack)
      /\ CountersOK(stack, blockDepth, withCount, callStack) /\ IsSeq(callStack)
  BY TopFacts, IsSeqDomain
<1> DEFINE i == Count(stack, "call", q)
<1>2. callStack[i].name = stack[q].func /\ Len(callStack) = Count(stack, "call", Len(stack))
  BY <1>1 DEF CountersOK
<1>3. i \in Nat /\ i >= 1 /\ i <= Count(stack, "call", Len(stack))
  BY <1>1, CountPositive, CountMonotone, CountNat
<1>4. i \in DOMAIN callStack
  <2>1. DOMAIN callStack = 1..Len(callStack) /\ Len(callStack) \in Nat
    BY <1>1, IsSeqDomain
  <2> HIDE DEF i
  <2> QED  BY <1>2, <1>3, <2>1
<1> QED  BY <1>2, <1>4 DEF OnCallStack

LEMMA CallLinked ==
    ASSUME Inv, NEW lay, CallsApart(bundle, lay), Chained(stack, bundle, lay), AtStatement,
           NEW f \in Callees(bundle, Stmt), ~OnCallStack(f),
           NEW a, a.kind = "bind", a.func = f
    PROVE  Linked(stack, Len(stack), a, bundle, lay)
<1>1. Len(stack) \in Nat /\ DOMAIN stack = 1..Len(stack)
  BY TopFacts, IsSeqDomain
<1>2. ASSUME NEW q \in 1..Len(stack), stack[q].kind = "call"
      PROVE  f \in lay.calls[stack[q].func] \ {stack[q].func}
  <2>1. Owned(stack, Len(stack), Top, bundle, lay)
    BY StatementOwned
  <2>2. PICK j \in q..Len(stack) : stack[j].kind = "call" /\ RunBy(Top, stack[j].func, bundle, lay)
    BY <1>2, <2>1 DEF Owned
  <2>3. j \in 1..Len(stack)
    BY <1>1
  <2>4. f \in lay.calls[stack[j].func]
    BY <2>2, StatementText
  <2>5. f \in lay.calls[stack[q].func]
    <3>1. CASE j = q
      BY <2>4, <3>1
    <3>2. CASE j # q
      <4>1. q \in 1..(j - 1)
        BY <1>1, <2>3, <3>2
      <4>2. stack[j].func \in lay.calls[stack[q].func]
        BY <1>1, <1>2, <2>2, <2>3, <4>1 DEF Chained, Linked
      <4>3. stack[q].func \in DOMAIN bundle.functions
        <5>1. Activation(stack[q], bundle, Node)
          BY <1>1 DEF Inv, StackOK
        <5> QED  BY <1>2, <5>1 DEF Activation
      <4>4. lay.calls[stack[j].func] \subseteq lay.calls[stack[q].func]
        BY <4>2, <4>3 DEF CallsApart, TextsKnown
      <4> QED  BY <2>4, <4>4
    <3> QED  BY <3>1, <3>2
  <2>6. f # stack[q].func
    BY <1>1, <1>2, CallNamed
  <2> QED  BY <2>5, <2>6
<1> QED  BY <1>2 DEF Linked

LEMMA LinkedUp ==
    ASSUME NEW s, IsSeq(s), NEW b, NEW lay, NEW a, a.kind # "call", NEW x,
           Linked(s, Len(s), x, b, lay)
    PROVE  Linked(Append(s, a), Len(s) + 1, x, b, lay)
<1> DEFINE t == Append(s, a)
           n == Len(s)
<1>1. n \in Nat /\ t[n + 1] = a /\ \A i \in 1..n : t[i] = s[i]
  BY PushIsSeq, IsSeqDomain
<1> HIDE DEF t, n
<1>2. ASSUME NEW q \in 1..(n + 1), t[q].kind = "call"
      PROVE  q \in 1..n /\ s[q].kind = "call" /\ t[q] = s[q]
  BY <1>1, <1>2
<1> QED  BY <1>1, <1>2 DEF Linked, t, n

\* The state in which the machine is when it makes a step.
Apart(lay) == Inv /\ CallsApart(bundle, lay) /\ Chained(stack, bundle, lay)

LEMMA DoCallContinued ==
    ASSUME NEW lay, Apart(lay), AtStatement,
           NEW f, f \in Functions => f \in Callees(bundle, Stmt),
           NEW base, Nested(base, lay),
           Owned(base, Len(base), Top, bundle, lay),
           \A a : Linked(stack, Len(stack), a, bundle, lay)
                    => Linked(base, Len(base), a, bundle, lay),
           DoCall(base, f, Stmt.args, Stmt.target)
    PROVE  Continued(stack', lay)
<1> DEFINE a == [kind |-> "bind", func |-> f, args |-> Stmt.args, next |-> 3,
                 target |-> Stmt.target]
<1>1. \/ stack' = stack
      \/ stack' = base
      \/ /\ f \in Functions /\ ~OnCallStack(f) /\ UNCHANGED <<frame, heap>>
         /\ stack' = Append(base, a)
  BY DEF DoCall, Throw
<1>2. a.kind = "bind" /\ a.func = f /\ a.target = Stmt.target
  OBVIOUS
<1> HIDE DEF a
<1>3. CASE stack' = stack
  BY <1>3, ContinuedBelow DEF Apart, Nested
<1>4. CASE stack' = base
  BY <1>4 DEF Nested
<1>5. CASE /\ f \in Functions /\ ~OnCallStack(f) /\ UNCHANGED <<frame, heap>>
           /\ stack' = Append(base, a)
  <2>1. Linked(base, Len(base), a, bundle, lay)
    BY <1>2, <1>5, CallLinked DEF Apart
  <2>2. ASSUME NEW g, RunBy(Top, g, bundle, lay)
        PROVE  RunBy(a, g, bundle, lay)
    BY <1>2, <2>2, StatementText DEF RunBy, Apart
  <2>3. Owned(base, Len(base), a, bundle, lay)
    BY <2>2, OwnedSame
  <2> QED  BY <1>5, <2>1, <2>3, NestedPush DEF Apart, Nested
<1> QED  BY <1>1, <1>3, <1>4, <1>5

\* A statement pushes an activation that is not a call, and maybe a block.
LEMMA StatementNests ==
    ASSUME NEW lay, Apart(lay), AtStatement, NEW a, a.kind \notin {"call", "bind"},
           \A f : RunBy(Top, f, bundle, lay) => RunBy(a, f, bundle, lay)
    PROVE  /\ Nested(Append(stack, a), lay)
           /\ Len(Append(stack, a)) = Len(stack) + 1
           /\ \A x : Owned(stack, Len(stack), x, bundle, lay)
                       => Owned(Append(stack, a), Len(Append(stack, a)), x, bundle, lay)
           /\ \A x : Linked(stack, Len(stack), x, bundle, lay)
                       => Linked(Append(stack, a), Len(Append(stack, a)), x, bundle, lay)
<1>1. Nested(stack, lay) /\ IsSeq(stack)
  BY ContinuedBelow, TopFacts DEF Apart
<1>2. Owned(stack, Len(stack), a, bundle, lay)
  BY StatementOwned DEF Apart
<1>3. Linked(stack, Len(stack), a, bundle, lay)
  BY DEF Linked
<1>4. Len(Append(stack, a)) = Len(stack) + 1
  BY <1>1, PushIsSeq
<1>5. Nested(Append(stack, a), lay)
  BY <1>1, <1>2, <1>3, NestedPush DEF Apart
<1> QED  BY <1>1, <1>4, <1>5, OwnedUp, LinkedUp

LEMMA StatementEnters ==
    ASSUME NEW lay, Apart(lay), AtStatement, NEW a, a.kind \notin {"call", "bind"},
           \A f : RunBy(Top, f, bundle, lay) => RunBy(a, f, bundle, lay),
           Stmt.type \in {"Not", "With", "Scan"}, EnterBlock(Append(stack, a), Stmt.blocks[1])
    PROVE  Continued(stack', lay)
<1> DEFINE x == [kind |-> "block", block |-> Stmt.blocks[1], pc |-> 1]
<1>1. 1 \in DOMAIN Stmt.blocks
  BY StatementFacts DEF Apart, StatementOK
<1>2. ASSUME NEW f, RunBy(Top, f, bundle, lay)
      PROVE  RunBy(x, f, bundle, lay)
  BY <1>1, <1>2, StatementText DEF RunBy, Apart
<1> HIDE DEF x
<1>3. Owned(stack, Len(stack), x, bundle, lay)
  BY <1>2, StatementOwned DEF Apart
<1>4. Owned(Append(stack, a), Len(Append(stack, a)), x, bundle, lay)
  BY <1>3, StatementNests
<1> QED  BY <1>4, StatementNests, EnterContinued DEF Apart, x

LEMMA StatementContinued ==
    ASSUME NEW lay, Apart(lay), AtStatement, Next
    PROVE  Continued(stack', lay)
<1>1. CASE stack' = stack
  BY <1>1, ContinuedBelow DEF Apart, Nested
<1>2. CASE BlockStmt
  <2> DEFINE a == [kind |-> "nest", blocks |-> Stmt.blocks, next |-> 1]
  <2>1. stack' = Append(stack, a) /\ a.kind = "nest" /\ a.blocks = Stmt.blocks
    BY <1>2 DEF BlockStmt
  <2> HIDE DEF a
  <2>2. ASSUME NEW f, RunBy(Top, f, bundle, lay)
        PROVE  RunBy(a, f, bundle, lay)
    BY <2>1, <2>2, StatementText DEF RunBy, Apart
  <2> QED  BY <2>1, <2>2, StatementNests DEF Nested
<1>3. CASE NotStmt
  <2> DEFINE a == [kind |-> "not"]
  <2>1. /\ EnterBlock(Append(stack, a), Stmt.blocks[1]) /\ Stmt.type = "Not"
        /\ a.kind = "not"
    BY <1>3 DEF NotStmt, Executes
  <2> HIDE DEF a
  <2>2. \A f : RunBy(Top, f, bundle, lay) => RunBy(a, f, bundle, lay)
    BY <2>1 DEF RunBy
  <2> QED  BY <2>1, <2>2, StatementEnters
<1>4. CASE WithStmt
  <2> DEFINE a == [kind |-> "with", target |-> Stmt.target, old |-> frame[Stmt.target]]
  <2>1. /\ EnterBlock(Append(stack, a), Stmt.blocks[1]) /\ Stmt.type = "With"
        /\ a.kind = "with" /\ a.target = Stmt.target
    BY <1>4 DEF WithStmt, Executes
  <2> HIDE DEF a
  <2>2. ASSUME NEW f, RunBy(Top, f, bundle, lay)
        PROVE  RunBy(a, f, bundle, lay)
    BY <2>1, <2>2, StatementText DEF RunBy, Apart
  <2> QED  BY <2>1, <2>2, StatementEnters
<1>5. CASE ScanStmt
  <2> DEFINE a == [kind |-> "scan", source |-> frame[Stmt.target], seen |-> {},
                   key |-> Stmt.op0[2], value |-> Stmt.op1[2], block |-> Stmt.blocks[1]]
  <2>1. /\ stack' = stack \/ stack' = Append(stack, a)
        /\ Stmt.type = "Scan"
    BY <1>5 DEF ScanStmt, Completes, Executes
  <2>2. /\ a.kind = "scan" /\ a.key = Stmt.op0[2] /\ a.value = Stmt.op1[2]
        /\ a.block = Stmt.blocks[1]
    OBVIOUS
  <2> HIDE DEF a
  <2>3. 1 \in DOMAIN Stmt.blocks
    BY <2>1, StatementFacts DEF Apart, StatementOK
  <2>4. {a.key, a.value} \subseteq Mentioned(Stmt)
    BY <2>1, <2>2 DEF Mentioned
  <2>5. ASSUME NEW f, RunBy(Top, f, bundle, lay)
        PROVE  RunBy(a, f, bundle, lay)
    <3>1. Mentioned(Stmt) \subseteq Uses(bundle, lay, f) /\ Stmt.blocks[1] \in lay.text[f]
      BY <2>3, <2>5, StatementText DEF Apart
    <3> QED  BY <2>2, <2>4, <2>5, <3>1 DEF RunBy
  <2> QED  BY <1>1, <2>1, <2>2, <2>5, StatementNests DEF Nested
<1>6. CASE CallStmt
  <2>1. /\ Stmt.type = "Call" /\ DoCall(stack, Stmt.func, Stmt.args, Stmt.target)
        /\ Stmt.func \in Functions => Stmt.func \in Callees(bundle, Stmt)
    BY <1>6 DEF CallStmt, Executes, Callees, Functions
  <2>2. Nested(stack, lay) /\ Owned(stack, Len(stack), Top, bundle, lay)
    BY ContinuedBelow, StatementOwned DEF Apart
  <2> QED  BY <2>1, <2>2, DoCallContinued
<1>7. CASE DynamicCall
  <2>1. PICK i \in Prefixes(Stmt) :
          DoCall(Append(stack, [kind |-> "dynamic", target |-> Stmt.target,
                                path |-> SubSeq(Stmt.path, i + 1, Len(Stmt.path))]),
                 PrefixName(Stmt, i), Stmt.args, Stmt.target)
    BY <1>7 DEF DynamicCall
  <2> DEFINE a == [kind |-> "dynamic", target |-> Stmt.target,
                   path |-> SubSeq(Stmt.path, i + 1, Len(Stmt.path))]
             f == PrefixName(Stmt, i)
  <2>2. /\ DoCall(Append(stack, a), f, Stmt.args, Stmt.target)
        /\ a.kind = "dynamic" /\ a.target = Stmt.target
    BY <2>1
  <2>3. Stmt.type = "CallDynamic"
    BY <1>7 DEF DynamicCall, Executes
  <2> HIDE DEF a, f
  <2>4. f \in Functions => f \in Callees(bundle, Stmt)
    BY <2>3 DEF Callees, Functions
  <2>5. ASSUME NEW g, RunBy(Top, g, bundle, lay)
        PROVE  RunBy(a, g, bundle, lay)
    BY <2>2, <2>5, StatementText DEF RunBy, Apart
  <2>6. Owned(stack, Len(stack), Top, bundle, lay)
    BY StatementOwned DEF Apart
  <2> QED  BY <2>2, <2>4, <2>5, <2>6, StatementNests, DoCallContinued
<1>8. CASE Straight \/ WithCrash \/ ScanThrow
  <2>1. stack' = stack
    BY <1>8 DEF Straight, Make, MeasureLen, Tests, Test, ResetLocal, AssignVar,
      AssignVarOnce, ObjectInsert, ObjectMerge, Add, FillMalformed, DotStmt, ResultSetAdd, ReturnLocal,
      BreakStmt, DynamicUndefined, Timeout, RawOperand, WithCrash, ScanThrow, Throw, Completes
  <2> QED  BY <1>1, <2>1
<1>9. CASE ~(Straight \/ BlockStmt \/ NotStmt \/ WithStmt \/ WithCrash \/ ScanStmt
               \/ ScanThrow \/ CallStmt \/ DynamicCall)
  <2>1. ~(BlockAdvance \/ BlockEnd \/ BlockExit \/ BlockBreak)
    <3>1. code = "None" /\ ~(Top.pc > Len(Body(Top.block)))
      BY BlockTyped DEF AtStatement, Running, Apart
    <3> QED  BY <3>1 DEF BlockAdvance, BlockEnd, BlockExit, BlockBreak
  <2>2. Top.kind = "block" /\ status = "running"
    BY DEF AtStatement, Running
  <2> QED  BY <1>9, <2>1, <2>2 DEF Next, Blocks, Calls, PlanNext, PlanDone, NestNext, NestDone,
        NextBlock, NotDone, WithDone, ScanNext, ScanDone, BindParam, EnterFunction, CallNext,
        CallNoBlocks, CallReturn, CallFail, DynamicDone, Running
<1> QED  BY <1>2, <1>3, <1>4, <1>5, <1>6, <1>7, <1>8, <1>9

\* A loop over blocks, or over the items of a scan, goes on to block x.
LEMMA ReenterContinued ==
    ASSUME NEW lay, Apart(lay), NEW a, a.kind = Top.kind,
           a.kind \in {"plan", "nest", "scan", "call"},
           \A f : RunBy(Top, f, bundle, lay) => RunBy(a, f, bundle, lay),
           a.kind = "call" => /\ a.func = Top.func
                              /\ a.blocks = bundle.functions[a.func].blocks,
           NEW x, EnterBlock(Append(Below, a), x),
           a.kind = "call" => a.func \in DOMAIN bundle.functions /\ x \in lay.text[a.func],
           a.kind # "call" =>
               \A f : RunBy(a, f, bundle, lay) => x \in lay.text[f]
    PROVE  Continued(stack', lay)
<1> DEFINE c == [kind |-> "block", block |-> x, pc |-> 1]
           base == Append(Below, a)
<1>1. /\ Nested(base, lay) /\ Len(base) = Len(Below) + 1
      /\ Owned(Below, Len(Below), a, bundle, lay)
  BY ReplaceContinued DEF Apart
<1>2. IsSeq(Below)
  BY ContinuedBelow DEF Apart, Continued, Grown
<1>3. Owned(base, Len(base), c, bundle, lay)
  <2>1. CASE a.kind = "call"
    <3>1. RunBy(c, a.func, bundle, lay)
      BY <2>1 DEF RunBy
    <3> HIDE DEF c
    <3> QED  BY <1>1, <1>2, <2>1, <3>1, OwnedByCall
  <2>2. CASE a.kind # "call"
    <3>1. \A f : RunBy(a, f, bundle, lay) => RunBy(c, f, bundle, lay)
      BY <2>2 DEF RunBy
    <3> HIDE DEF c
    <3>2. Owned(Below, Len(Below), c, bundle, lay)
      BY <1>1, <3>1, OwnedSame
    <3> QED  BY <1>1, <1>2, <2>2, <3>2, OwnedUp
  <2> QED  BY <2>1, <2>2
<1> HIDE DEF base
<1>4. EnterBlock(base, x)
  BY DEF base
<1> QED  BY <1>1, <1>3, <1>4, EnterContinued DEF Apart

LEMMA NextBlockContinued ==
    ASSUME NEW lay, Apart(lay), NEW kind \in {"plan", "nest", "call"}, NEW codes,
           NextBlock(kind, codes)
    PROVE  Continued(stack', lay)
<1> DEFINE a == [Top EXCEPT !.next = @ + 1]
           x == Top.blocks[Top.next]
<1>1. /\ Top.kind = kind /\ EnterBlock(Append(Below, a), x)
      /\ Top.next <= Len(Top.blocks)
  BY DEF NextBlock, Running
<1>2. Activation(Top, bundle, Node) /\ Top.blocks \in Seq(DOMAIN bundle.blocks)
      /\ Top.next \in Nat \ {0}
  BY <1>1, TopFacts DEF Activation, Apart
<1>3. Top.next \in DOMAIN Top.blocks
  BY <1>1, <1>2
<1>4. /\ a.kind = kind /\ a.blocks = Top.blocks
      /\ kind = "call" => a.func = Top.func /\ a.target = Top.target
  <2>1. CASE kind \in {"plan", "nest"}
    BY <1>1, <1>2, <2>1 DEF Activation
  <2>2. CASE kind = "call"
    BY <1>1, <1>2, <2>2 DEF Activation
  <2> QED  BY <2>1, <2>2
<1>5. kind = "call" => /\ Top.func \in DOMAIN bundle.functions
                       /\ Top.blocks = bundle.functions[Top.func].blocks
  BY <1>1, <1>2, ContinuedBelow DEF Activation, Linked, Apart
<1> HIDE DEF a
<1>6. ASSUME NEW f, RunBy(Top, f, bundle, lay)
      PROVE  RunBy(a, f, bundle, lay)
  BY <1>1, <1>4, <1>6 DEF RunBy
<1>7. kind = "call" => x \in lay.text[Top.func]
  BY <1>3, <1>5 DEF Apart, CallsApart, TextsKnown, TextOf
<1>8. ASSUME kind # "call", NEW f, RunBy(a, f, bundle, lay)
      PROVE  x \in lay.text[f]
  BY <1>3, <1>4, <1>8 DEF RunBy
<1> HIDE DEF x
<1> QED  BY <1>1, <1>4, <1>5, <1>6, <1>7, <1>8, ReenterContinued

LEMMA ScanContinued ==
    ASSUME NEW lay, Apart(lay), ScanNext
    PROVE  Continued(stack', lay)
<1>1. PICK k : EnterBlock(Append(Below, [Top EXCEPT !.seen = @ \cup {k}]), Top.block)
  BY DEF ScanNext
<1> DEFINE a == [Top EXCEPT !.seen = @ \cup {k}]
<1>2. Top.kind = "scan"
  BY DEF ScanNext, Running
<1>3. a.kind = "scan" /\ a.key = Top.key /\ a.value = Top.value /\ a.block = Top.block
  <2>1. Top = [kind |-> "scan", source |-> Top.source, seen |-> Top.seen,
               key |-> Top.key, value |-> Top.value, block |-> Top.block]
    BY <1>2, TopFacts DEF Activation, Apart
  <2> QED  BY <1>2, <2>1
<1>4. EnterBlock(Append(Below, a), Top.block)
  BY <1>1
<1> HIDE DEF a
<1>5. \A f : RunBy(Top, f, bundle, lay) => RunBy(a, f, bundle, lay)
  BY <1>2, <1>3 DEF RunBy
<1>6. \A f : RunBy(a, f, bundle, lay) => Top.block \in lay.text[f]
  BY <1>2, <1>3 DEF RunBy
<1> QED  BY <1>2, <1>3, <1>4, <1>5, <1>6, ReenterContinued

LEMMA CallStepContinued ==
    ASSUME NEW lay, Apart(lay), Top.kind = "bind", NEW a, a.kind \in {"bind", "call"},
           a.func = Top.func, a.target = Top.target,
           a.kind = "call" => a.blocks = bundle.functions[a.func].blocks,
           stack' = Append(Below, a)
    PROVE  Continued(stack', lay)
<1>1. \A f : RunBy(Top, f, bundle, lay) => RunBy(a, f, bundle, lay)
  BY DEF RunBy
<1> QED  BY <1>1, ReplaceContinued DEF Apart, Nested

LEMMA RestContinued ==
    ASSUME NEW lay, Apart(lay), ~AtStatement, Next
    PROVE  Continued(stack', lay)
<1>1. CASE stack' = stack
  BY <1>1, ContinuedBelow DEF Apart, Nested
<1>2. CASE stack' = Below
  BY <1>2, ContinuedBelow DEF Apart
<1>3. CASE PlanNext \/ NestNext \/ CallNext
  BY <1>3, NextBlockContinued DEF PlanNext, NestNext, CallNext
<1>4. CASE ScanNext
  BY <1>4, ScanContinued
<1>5. CASE BlockAdvance
  <2> DEFINE a == [Top EXCEPT !.pc = @ + 1]
  <2>1. Top.kind = "block" /\ stack' = Append(Below, a)
    BY <1>5 DEF BlockAdvance, Running
  <2>2. a.kind = "block" /\ a.block = Top.block
    BY <2>1, TopFacts DEF Activation, Apart
  <2> HIDE DEF a
  <2>3. \A f : RunBy(Top, f, bundle, lay) => RunBy(a, f, bundle, lay)
    BY <2>1, <2>2 DEF RunBy
  <2> QED  BY <2>1, <2>2, <2>3, ReplaceContinued DEF Apart, Nested
<1>6. CASE BindParam
  <2> DEFINE a == [Top EXCEPT !.next = @ + 1]
  <2>1. Top.kind = "bind" /\ (stack' = stack \/ stack' = Append(Below, a))
    BY <1>6 DEF BindParam, Running, Throw
  <2>2. a.kind = "bind" /\ a.target = Top.target /\ a.func = Top.func
    <3>1. Top = [kind |-> "bind", func |-> Top.func, args |-> Top.args,
                 next |-> Top.next, target |-> Top.target]
      BY <2>1, TopFacts DEF Activation, Apart
    <3> QED  BY <2>1, <3>1
  <2> HIDE DEF a
  <2> QED  BY <1>1, <2>1, <2>2, CallStepContinued
<1>7. CASE EnterFunction
  <2> DEFINE a == [kind |-> "call", func |-> Top.func,
                   blocks |-> bundle.functions[Top.func].blocks, next |-> 1,
                   target |-> Top.target]
  <2>1. Top.kind = "bind" /\ (stack' = Below \/ stack' = Append(Below, a))
    BY <1>7 DEF EnterFunction, Running, Return
  <2>2. /\ a.kind = "call" /\ a.func = Top.func /\ a.target = Top.target
        /\ a.blocks = bundle.functions[a.func].blocks
    OBVIOUS
  <2> HIDE DEF a
  <2> QED  BY <1>2, <2>1, <2>2, CallStepContinued
<1>8. CASE ~(PlanNext \/ NestNext \/ CallNext \/ ScanNext \/ BlockAdvance \/ BindParam
               \/ EnterFunction)
  <2>1. ~(Straight \/ BlockStmt \/ NotStmt \/ WithStmt \/ WithCrash \/ ScanStmt
            \/ ScanThrow \/ CallStmt \/ DynamicCall)
    BY DEF Straight, Make, MeasureLen, Tests, Test, ResetLocal, AssignVar,
      AssignVarOnce, ObjectInsert, ObjectMerge, Add, FillMalformed, DotStmt, ResultSetAdd, ReturnLocal,
      BreakStmt, DynamicUndefined, Timeout, RawOperand, BlockStmt, NotStmt, WithStmt,
      WithCrash, ScanStmt, ScanThrow, CallStmt, DynamicCall, Executes
  <2>2. stack' = stack \/ stack' = Below
    BY <1>8, <2>1 DEF Next, Blocks, Calls, PlanDone, NestDone, BlockEnd, BlockExit,
      BlockBreak, NotDone, WithDone, ScanDone, CallNoBlocks, CallReturn, CallFail, DynamicDone,
      Return, vars
  <2> QED  BY <1>1, <1>2, <2>2
<1> QED  BY <1>3, <1>4, <1>5, <1>6, <1>7, <1>8

LEMMA StepContinued ==
    ASSUME NEW lay, Apart(lay), [Next]_vars
    PROVE  Continued(stack', lay)
<1>1. CASE UNCHANGED vars
  BY <1>1, ContinuedBelow DEF Apart, Nested, vars
<1> QED  BY <1>1, StatementContinued, RestContinued

-----------------------------------------------------------------------------
(***************************************************************************)
(* Which locals a step writes.                                             *)
(***************************************************************************)
LEMMA WritesOne ==
    ASSUME Inv, NEW t, NEW l \in Locals, l # t,
           \/ frame' = frame
           \/ \E v : WriteValue(t, v)
           \/ \E n : WriteNode(t, n)
           \/ \E n, steps, v : WriteItem(t, n, steps, v)
           \/ \E op : WriteOperand(t, op)
    PROVE  frame'[l] = frame[l]
<1>1. frame \in [Locals -> Node \cup {Null}]
  BY OldsTyped
<1>2. frame' = frame \/ \E n : frame' = [frame EXCEPT ![t] = n]
  BY DEF WriteValue, WriteItem, WriteNode, WriteOperand
<1> QED  BY <1>1, <1>2

LEMMA StatementWrites ==
    ASSUME Inv, AtStatement, Next, NEW l \in Locals, l # Stmt.target
    PROVE  frame'[l] = frame[l]
<1> DEFINE t == Stmt.target
<1>1. CASE \/ frame' = frame
           \/ \E v : WriteValue(t, v)
           \/ \E n : WriteNode(t, n)
           \/ \E n, steps, v : WriteItem(t, n, steps, v)
           \/ \E op : WriteOperand(t, op)
  BY <1>1, WritesOne
<1>2. CASE Make \/ MeasureLen \/ ResetLocal \/ ObjectMerge \/ DotStmt \/ WithStmt
  BY <1>1, <1>2 DEF Make, MeasureLen, ResetLocal, ObjectMerge, DotStmt, WithStmt
<1>3. CASE AssignVar \/ AssignVarOnce
  BY <1>1, <1>3 DEF AssignVar, AssignVarOnce
<1>4. CASE Tests \/ ObjectInsert \/ Add \/ ResultSetAdd \/ ReturnLocal \/ BreakStmt
           \/ DynamicUndefined \/ BlockStmt \/ NotStmt \/ ScanStmt
  <2>1. CASE Tests
    BY <1>1, <2>1 DEF Tests, Test
  <2>2. CASE ObjectInsert \/ Add
    BY <1>1, <2>2 DEF ObjectInsert, Add, Fill
  <2>3. CASE ResultSetAdd \/ ReturnLocal \/ BreakStmt \/ DynamicUndefined \/ BlockStmt \/ NotStmt
             \/ ScanStmt
    BY <1>1, <2>3 DEF ResultSetAdd, ReturnLocal, BreakStmt, DynamicUndefined, BlockStmt,
        NotStmt, ScanStmt
  <2> QED  BY <1>4, <2>1, <2>2, <2>3
<1>5. CASE CallStmt \/ DynamicCall
  <2>1. \E base, f, args : DoCall(base, f, args, t)
    BY <1>5 DEF CallStmt, DynamicCall
  <2>2. \/ frame' = frame
        \/ \E v : WriteValue(t, v)
        \/ \E n : WriteNode(t, n)
    BY <2>1 DEF DoCall, Throw
  <2> QED  BY <1>1, <2>2
<1>6. CASE RawOperand \/ WithCrash \/ ScanThrow \/ FillMalformed \/ Timeout
  BY <1>1, <1>6 DEF RawOperand, WithCrash, ScanThrow, FillMalformed, Throw, Timeout
<1>7. CASE (Blocks \/ Calls) /\ ~(BlockStmt \/ NotStmt \/ WithStmt \/ WithCrash \/ ScanStmt
               \/ ScanThrow \/ CallStmt \/ DynamicCall)
  <2>1. code = "None" /\ ~(Top.pc > Len(Body(Top.block))) /\ Top.kind = "block"
    BY BlockTyped DEF AtStatement, Running
  <2> QED  BY <1>7, <2>1 DEF Blocks, Calls, PlanNext, PlanDone, NestNext, NestDone,
        NextBlock, NotDone, WithDone, ScanNext, ScanDone, BindParam, EnterFunction, CallNext,
        CallNoBlocks, CallReturn, CallFail, DynamicDone, Running,
        BlockAdvance, BlockEnd, BlockExit, BlockBreak
<1>8. CASE status # "running" /\ UNCHANGED vars
  BY <1>1, <1>8 DEF vars
<1> QED  BY <1>2, <1>3, <1>4, <1>5, <1>6, <1>7, <1>8 DEF Next, Straight

\* The local that receives a parameter.
BindsTo(l) ==
    LET params == bundle.functions[Top.func].params
    IN  Top.next \in DOMAIN params \ {1, 2} /\ l = params[Top.next]

LEMMA RestWrites ==
    ASSUME Inv, ~AtStatement, Next, NEW l \in Locals, frame'[l] # frame[l]
    PROVE  \/ Top.kind = "bind" /\ BindsTo(l)
           \/ Top.kind \in {"with", "dynamic"} /\ l = Top.target
           \/ Top.kind = "call" /\ l = Top.target /\ stack' = Below
           \/ Top.kind = "scan" /\ l \in {Top.key, Top.value}
<1>1. CASE BindParam
  <2> DEFINE t == bundle.functions[Top.func].params[Top.next]
  <2>1. /\ Top.kind = "bind" /\ Top.next <= Len(bundle.functions[Top.func].params)
        /\ frame' = frame \/ \E op : WriteOperand(t, op)
    BY <1>1 DEF BindParam, Running, Throw
  <2>2. Top.func \in Functions /\ Top.next \in Nat \ {0, 1, 2}
    BY <2>1, TopFacts DEF Activation, Functions
  <2>3. bundle.functions[Top.func].params \in Seq(Locals)
    BY <2>2, FunctionFacts DEF FunctionOK, Locals
  <2>4. Top.next \in DOMAIN bundle.functions[Top.func].params \ {1, 2}
    BY <2>1, <2>2, <2>3
  <2>5. l = t
    BY <2>1, WritesOne
  <2> QED  BY <2>1, <2>4, <2>5 DEF BindsTo
<1>2. CASE WithDone \/ DynamicDone
  <2>1. /\ Top.kind \in {"with", "dynamic"}
        /\ \/ frame' = frame
           \/ \E n : WriteNode(Top.target, n)
           \/ \E n, steps, v : WriteItem(Top.target, n, steps, v)
    BY <1>2 DEF WithDone, DynamicDone, Running
  <2> QED  BY <2>1, WritesOne
<1>3. CASE CallReturn
  <2>1. Top.kind = "call" /\ stack' = Below /\ \E n : WriteNode(Top.target, n)
    BY <1>3 DEF CallReturn, Running, Return
  <2> QED  BY <2>1, WritesOne
<1>4. CASE ScanNext
  <2>1. /\ Top.kind = "scan"
        /\ \E m, n : frame' = [frame EXCEPT ![Top.key] = m, ![Top.value] = n]
    BY <1>4 DEF ScanNext, Running
  <2>2. frame \in [Locals -> Node \cup {Null}]
    BY OldsTyped
  <2> QED  BY <2>1, <2>2
<1>5. CASE ~(BindParam \/ WithDone \/ DynamicDone \/ CallReturn \/ ScanNext)
  <2>1. ~(Straight \/ BlockStmt \/ NotStmt \/ WithStmt \/ WithCrash \/ ScanStmt
            \/ ScanThrow \/ CallStmt \/ DynamicCall)
    BY DEF Straight, Make, MeasureLen, Tests, Test, ResetLocal, AssignVar,
      AssignVarOnce, ObjectInsert, ObjectMerge, Add, FillMalformed, DotStmt, ResultSetAdd, ReturnLocal,
      BreakStmt, DynamicUndefined, Timeout, RawOperand, BlockStmt, NotStmt, WithStmt,
      WithCrash, ScanStmt, ScanThrow, CallStmt, DynamicCall, Executes
  <2>2. frame' = frame
    BY <1>5, <2>1 DEF Next, Blocks, Calls, PlanNext, PlanDone, NestNext, NestDone, BlockAdvance,
      BlockEnd, BlockExit, BlockBreak, NotDone, ScanDone, NextBlock,
      EnterFunction, CallNext, CallNoBlocks, CallFail, vars
  <2> QED  BY <2>2
<1> QED  BY <1>1, <1>2, <1>3, <1>4, <1>5

-----------------------------------------------------------------------------
(***************************************************************************)
(* What a call leaves alone.                                               *)
(***************************************************************************)
\* The locals of the plan and of the functions below the p-th activation.
Spared(s, p, b, lay) ==
    (UsedIn(b, lay.main)
     \cup (UNION {Uses(b, lay, s[q].func) : q \in {j \in 1..(p - 1) : s[j].kind = "call"}}))
    \ Documents

\* All locals that function g uses are others than these.
Strange(g, p, lay) ==
    /\ g \in DOMAIN bundle.functions
    /\ \A q \in 1..(p - 1) : stack[q].kind = "call" =>
          /\ stack[q].func \in DOMAIN bundle.functions
          /\ g \in lay.calls[stack[q].func] \ {stack[q].func}

LEMMA StrangeSpared ==
    ASSUME Inv, NEW lay, CallsApart(bundle, lay), DocumentsApart(bundle),
           NEW p, NEW g, Strange(g, p, lay),
           NEW l, l \in Spared(stack, p, bundle, lay)
    PROVE  /\ l \notin Uses(bundle, lay, g)
           /\ \A m \in Moves(bundle) : m[1] = l => m[2] \notin Uses(bundle, lay, g)
<1>1. /\ Uses(bundle, lay, g) \cap UsedIn(bundle, lay.main) \subseteq Documents
      /\ \A m \in Moves(bundle) :
           m[1] \in UsedIn(bundle, lay.main) => m[2] \in UsedIn(bundle, lay.main)
  BY DEF Strange, CallsApart
<1>2. ASSUME NEW f \in DOMAIN bundle.functions, g \in lay.calls[f] \ {f}
      PROVE  /\ Uses(bundle, lay, f) \cap Uses(bundle, lay, g) \subseteq Documents
             /\ \A m \in Moves(bundle) :
                  m[1] \in Uses(bundle, lay, f) => m[2] \in Uses(bundle, lay, f)
  <2>1. g \in DOMAIN bundle.functions
    BY DEF Strange
  <2> QED  BY <1>2, <2>1 DEF CallsApart
<1>3. ASSUME NEW m \in Moves(bundle)
      PROVE  m[2] \notin Documents
  <2>1. m[2] \in Builders(bundle)
    BY DEF Moves, IsMove
  <2> QED  BY <2>1 DEF DocumentsApart
<1>4. l \notin Documents
  BY DEF Spared
<1>5. CASE l \in UsedIn(bundle, lay.main)
  BY <1>1, <1>3, <1>4, <1>5
<1>6. CASE l \notin UsedIn(bundle, lay.main)
  <2>1. PICK q \in 1..(p - 1) : stack[q].kind = "call" /\ l \in Uses(bundle, lay, stack[q].func)
    BY <1>6 DEF Spared
  <2>2. /\ stack[q].func \in DOMAIN bundle.functions
        /\ g \in lay.calls[stack[q].func] \ {stack[q].func}
    BY <2>1 DEF Strange
  <2> QED  BY <1>2, <1>3, <1>4, <2>1, <2>2
<1> QED  BY <1>5, <1>6

LEMMA SparedTyped ==
    ASSUME Inv, NEW lay, CallsApart(bundle, lay),
           NEW s, NEW p, \A q \in 1..(p - 1) : s[q].kind = "call" => s[q].func \in Functions
    PROVE  Spared(s, p, bundle, lay) \subseteq Locals
<1>1. Verified(bundle) /\ TextsKnown(bundle, lay)
  BY BundlesVerified DEF Inv, CallsApart
<1>2. ASSUME NEW st, StatementOK(st, bundle)
      PROVE  Mentioned(st) \subseteq Locals
  BY <1>2 DEF StatementOK, OperandOK, Mentioned, LocalOf, Locals
<1>3. ASSUME NEW xs, xs \subseteq DOMAIN bundle.blocks
      PROVE  UsedIn(bundle, xs) \subseteq Locals
  <2>1. ASSUME NEW x \in xs, NEW j \in DOMAIN bundle.blocks[x]
        PROVE  Mentioned(bundle.blocks[x][j]) \subseteq Locals
    BY <1>1, <1>2, <1>3 DEF Verified
  <2> QED  BY <2>1 DEF UsedIn
<1>4. ASSUME NEW f \in Functions
      PROVE  Uses(bundle, lay, f) \subseteq Locals
  <2>1. UsedIn(bundle, lay.text[f]) \subseteq Locals
    BY <1>1, <1>3 DEF TextsKnown, TextOf, Functions
  <2>2. bundle.functions[f].params \in Seq(Locals)
    BY FunctionFacts DEF FunctionOK, Locals
  <2>3. \A i \in DOMAIN bundle.functions[f].params : bundle.functions[f].params[i] \in Locals
    BY <2>2
  <2> QED  BY <2>1, <2>3 DEF Uses
<1>5. UsedIn(bundle, lay.main) \subseteq Locals
  BY <1>1, <1>3 DEF TextsKnown, TextOf
<1> QED  BY <1>4, <1>5 DEF Spared

LEMMA FunctionsBelow ==
    ASSUME Inv, NEW q \in DOMAIN stack, stack[q].kind \in {"call", "bind"}
    PROVE  stack[q].func \in Functions
<1>1. Activation(stack[q], bundle, Node)
  BY DEF Inv, StackOK
<1> QED  BY <1>1 DEF Activation, Functions

\* The function that is called, or about to be, at the n-th activation.
LEMMA CalledStrange ==
    ASSUME NEW lay, Apart(lay), NEW n \in DOMAIN stack, stack[n].kind \in {"call", "bind"},
           NEW p \in 1..n
    PROVE  Strange(stack[n].func, p, lay)
<1>1. Len(stack) \in Nat /\ DOMAIN stack = 1..Len(stack) /\ Inv
  BY TopFacts, IsSeqDomain DEF Apart
<1>2. \A q \in 1..(n - 1) : stack[q].kind = "call" =>
         stack[n].func \in lay.calls[stack[q].func] \ {stack[q].func}
  BY DEF Apart, Chained, Linked
<1>3. \A q \in 1..(p - 1) : q \in 1..(n - 1) /\ q \in DOMAIN stack
  BY <1>1
<1> QED  BY <1>1, <1>2, <1>3, FunctionsBelow DEF Strange, Functions

\* The function that runs while a call is on the stack.
LEMMA RunsStrange ==
    ASSUME NEW lay, Apart(lay), NEW p \in 1..(Len(stack) - 1), stack[p].kind = "call"
    PROVE  \E g : Strange(g, p, lay) /\ RunBy(Top, g, bundle, lay)
<1>1. /\ Len(stack) \in Nat /\ Len(stack) > 0 /\ DOMAIN stack = 1..Len(stack)
      /\ Top = stack[Len(stack)]
  BY TopFacts, IsSeqDomain DEF Apart
<1>2. Owned(stack, Len(stack) - 1, Top, bundle, lay)
  BY <1>1 DEF Apart, Chained
<1>3. PICK j \in p..(Len(stack) - 1) :
         stack[j].kind = "call" /\ RunBy(Top, stack[j].func, bundle, lay)
  BY <1>2 DEF Owned
<1>4. j \in DOMAIN stack /\ p \in 1..j
  BY <1>1
<1> QED  BY <1>3, <1>4, CalledStrange

\* No local of a caller is written.
LEMMA SparedFrame ==
    ASSUME NEW lay, Apart(lay), BindFresh, DocumentsApart(bundle), [Next]_vars,
           NEW p \in DOMAIN stack, p \in DOMAIN stack', stack[p].kind \in {"call", "bind"},
           NEW l \in Spared(stack, p, bundle, lay)
    PROVE  l \in Locals /\ frame'[l] = frame[l]
<1>1. /\ Inv /\ CallsApart(bundle, lay)
      /\ Len(stack) \in Nat /\ Len(stack) > 0 /\ DOMAIN stack = 1..Len(stack)
      /\ Top = stack[Len(stack)]
  BY TopFacts, IsSeqDomain DEF Apart
<1>2. l \in Locals
  <2>1. \A q \in 1..(p - 1) : q \in DOMAIN stack
    BY <1>1
  <2> QED  BY <1>1, <2>1, FunctionsBelow, SparedTyped
<1>3. /\ Len(Below) = Len(stack) - 1 /\ IsSeq(Below)
      /\ \A i \in 1..(Len(stack) - 1) : Below[i] = stack[i]
  BY ContinuedBelow DEF Apart, Continued, Grown
<1>4. p < Len(stack) => stack[p].kind = "call"
  <2>1. p < Len(stack) => p \in DOMAIN Below /\ Below[p] = stack[p]
    BY <1>1, <1>3, IsSeqDomain
  <2> QED  BY <1>1, <2>1, NoBindBelow DEF NoBind
<1>5. SUFFICES ASSUME frame'[l] # frame[l]
               PROVE  FALSE
  BY <1>2
<1>6. Next
  BY <1>5 DEF vars
<1>7. ASSUME NEW g, Strange(g, p, lay), l \in Uses(bundle, lay, g)
      PROVE  FALSE
  BY <1>1, <1>7, StrangeSpared
<1>8. CASE AtStatement
  <2>1. Top.kind = "block"
    BY <1>8 DEF AtStatement, Running
  <2>2. p \in 1..(Len(stack) - 1) /\ stack[p].kind = "call"
    BY <1>1, <1>4, <2>1
  <2>3. PICK g : Strange(g, p, lay) /\ RunBy(Top, g, bundle, lay)
    BY <2>2, RunsStrange
  <2>4. l = Stmt.target
    BY <1>1, <1>2, <1>5, <1>6, <1>8, StatementWrites
  <2>5. l \in Uses(bundle, lay, g)
    BY <1>1, <1>8, <2>3, <2>4, StatementText
  <2> QED  BY <1>7, <2>3, <2>5
<1>9. CASE ~AtStatement
  <2>1. \/ Top.kind = "bind" /\ BindsTo(l)
        \/ Top.kind \in {"with", "dynamic"} /\ l = Top.target
        \/ Top.kind = "call" /\ l = Top.target /\ stack' = Below
        \/ Top.kind = "scan" /\ l \in {Top.key, Top.value}
    BY <1>1, <1>2, <1>5, <1>6, <1>9, RestWrites
  <2>2. CASE Top.kind = "bind" /\ BindsTo(l)
    <3>1. Strange(Top.func, p, lay)
      BY <1>1, <2>2, CalledStrange
    <3>2. l \in Uses(bundle, lay, Top.func)
      BY <2>2 DEF BindsTo, Uses
    <3> QED  BY <1>7, <3>1, <3>2
  <2>3. CASE Top.kind # "bind"
    <3>1. p \in 1..(Len(stack) - 1) /\ stack[p].kind = "call"
      <4>1. CASE Top.kind = "call" /\ stack' = Below
        <5>1. p \in 1..(Len(stack) - 1)
          BY <1>3, <4>1, IsSeqDomain
        <5> QED  BY <1>1, <1>4, <5>1
      <4>2. CASE Top.kind # "call"
        BY <1>1, <1>4, <2>3, <4>2
      <4> QED  BY <2>1, <2>3, <4>1, <4>2
    <3>2. PICK g : Strange(g, p, lay) /\ RunBy(Top, g, bundle, lay)
      BY <3>1, RunsStrange
    <3>3. l \in Uses(bundle, lay, g)
      BY <2>1, <2>3, <3>2 DEF RunBy
    <3> QED  BY <1>7, <3>2, <3>3
  <2> QED  BY <2>1, <2>2, <2>3
<1> QED  BY <1>8, <1>9

\* No node that a local of a caller holds is changed.
LEMMA SparedNode ==
    ASSUME NEW lay, Apart(lay), SharingInv(lay), [Next]_vars,
           NEW p \in DOMAIN stack, p \in DOMAIN stack', stack[p].kind \in {"call", "bind"},
           NEW l \in Spared(stack, p, bundle, lay)
    PROVE  Read(l)' = Read(l)
<1>1. /\ Inv /\ LimitsInv /\ Stopping /\ StackLaidOut(stack, bundle) /\ CallsApart(bundle, lay)
      /\ stmtCount \in Nat /\ StmtLimit \in Nat /\ DOMAIN heap = Node
      /\ BuildsApart(bundle, lay) /\ DocumentsApart(bundle) /\ BindFresh
      /\ Len(stack) \in Nat /\ Len(stack) > 0 /\ DOMAIN stack = 1..Len(stack)
      /\ Top = stack[Len(stack)]
  BY LimitsAssumption, IsSeqDomain, TopFacts
  DEF SharingInv, LimitsInv, Inv, MemoryOK, ControlOK, Node, Apart, BuildsApart
<1>2. l \in Locals /\ frame'[l] = frame[l]
  BY <1>1, SparedFrame
<1>3. frame[l] \in Node \cup {Null}
  BY <1>1, <1>2, OldsTyped
<1>4. ASSUME NEW n \in Node, n = frame[l]
      PROVE  heap'[n].value = heap[n].value
  <2>1. ASSUME AtStatement, Stmt.type \in Fillers
        PROVE  n \in Exposed(Stmt.target)
    <3>1. Top.kind = "block"
      BY <2>1 DEF AtStatement, Running
    <3>2. p \in 1..(Len(stack) - 1) /\ stack[p].kind = "call"
      <4>1. p \in 1..(Len(stack) - 1)
        BY <1>1, <3>1
      <4>2. IsSeq(Below) /\ Len(Below) = Len(stack) - 1 /\ Below[p] = stack[p]
        BY <1>1, <4>1, ContinuedBelow DEF Apart, Continued, Grown
      <4>3. p \in DOMAIN Below
        BY <4>1, <4>2, IsSeqDomain
      <4> QED  BY <1>1, <4>1, <4>2, <4>3, NoBindBelow DEF NoBind
    <3>3. PICK g : Strange(g, p, lay) /\ RunBy(Top, g, bundle, lay)
      BY <3>2, RunsStrange
    <3>4. Stmt.target \in Uses(bundle, lay, g)
      BY <1>1, <2>1, <3>3, StatementText
    <3>5. l # Stmt.target /\ l \notin Givers(Stmt.target)
      <4>1. l \notin Uses(bundle, lay, g)
            /\ \A m \in Moves(bundle) : m[1] = l => m[2] \notin Uses(bundle, lay, g)
        BY <1>1, <3>3, StrangeSpared
      <4> QED  BY <3>4, <4>1 DEF Givers
    <3> QED  BY <1>2, <1>4, <3>5 DEF Exposed
  <2> QED  BY <2>1, NotFilled
<1>5. CASE frame[l] = Null
  BY <1>2, <1>5 DEF Read, ValueOf
<1>6. CASE frame[l] \in Node
  BY <1>2, <1>4, <1>6 DEF Read, ValueOf
<1> QED  BY <1>3, <1>5, <1>6

\* Since a call was begun, or is about to be, the locals of those below it have
\* been left as they were.
Sparing(lay) ==
    \A p \in DOMAIN stack : stack[p].kind \in {"call", "bind"} =>
        \A l \in Spared(stack, p, bundle, lay) :
            frame[l] = entry[p].nodes[l] /\ Read(l) = entry[p].values[l]
CallsInv(lay) == /\ SharingInv(lay) /\ CallsApart(bundle, lay)
                 /\ Chained(stack, bundle, lay) /\ Sparing(lay)

LEMMA SparingStep ==
    ASSUME NEW lay, CallsInv(lay), [TraceNext]_traceVars
    PROVE  Sparing(lay)'
<1>1. CASE UNCHANGED traceVars
  BY <1>1 DEF traceVars, vars, CallsInv, Sparing, Read, ValueOf
<1>2. CASE TraceNext
  <2>1. /\ Next /\ [Next]_vars
        /\ entry' = [i \in 1..Len(stack') |-> IF i <= Len(stack) THEN entry[i] ELSE Snapshot]
    BY <1>2 DEF TraceNext
  <2>2. /\ Inv /\ LimitsInv /\ BindFresh /\ Apart(lay) /\ DocumentsApart(bundle)
        /\ bundle' = bundle
    BY <2>1, BundleSame DEF CallsInv, SharingInv, LimitsInv, BuildsApart, Apart
  <2>3. Continued(stack', lay)
    BY <2>1, <2>2, StepContinued
  <2>4. /\ IsSeq(stack') /\ Len(stack') \in Nat /\ DOMAIN stack' = 1..Len(stack')
        /\ Len(stack) \in Nat /\ Len(stack) > 0 /\ DOMAIN stack = 1..Len(stack)
        /\ Top = stack[Len(stack)]
    BY <2>2, <2>3, TopFacts, IsSeqDomain DEF Continued, Grown
  <2>5. ASSUME NEW p \in DOMAIN stack', stack'[p].kind \in {"call", "bind"},
               NEW l \in Spared(stack', p, bundle, lay)
        PROVE  frame'[l] = entry'[p].nodes[l] /\ Read(l)' = entry'[p].values[l]
    <3>1. CASE p <= Len(stack)
      <4>1. p \in DOMAIN stack /\ entry'[p] = entry[p]
        BY <2>1, <2>4, <2>5, <3>1
      <4>2. stack[p].kind \in {"call", "bind"}
        <5>1. CASE p = Len(stack)
          BY <2>3, <2>4, <2>5, <5>1 DEF Continued, Grown
        <5>2. CASE p # Len(stack)
          <6>1. p \in 1..(Len(stack) - 1)
            BY <2>4, <3>1, <5>2
          <6> QED  BY <2>3, <2>5, <6>1 DEF Continued, Grown
        <5> QED  BY <5>1, <5>2
      <4>3. \A q \in 1..(p - 1) : stack'[q] = stack[q]
        <5>1. \A q \in 1..(p - 1) : q \in 1..(Len(stack) - 1) /\ q \in DOMAIN stack'
          BY <2>4, <3>1
        <5> QED  BY <2>3, <5>1 DEF Continued, Grown
      <4>4. l \in Spared(stack, p, bundle, lay)
        BY <2>5, <4>3 DEF Spared
      <4>5. frame[l] = entry[p].nodes[l] /\ Read(l) = entry[p].values[l]
        BY <4>1, <4>2, <4>4 DEF CallsInv, Sparing
      <4>6. frame'[l] = frame[l]
        BY <2>1, <2>2, <4>1, <4>2, <4>4, SparedFrame
      <4>7. Read(l)' = Read(l)
        BY <2>1, <2>2, <4>1, <4>2, <4>4, SparedNode DEF CallsInv
      <4> QED  BY <4>1, <4>5, <4>6, <4>7
    <3>2. CASE p > Len(stack)
      <4>1. entry'[p] = Snapshot /\ UNCHANGED <<frame, heap>>
        <5>1. UNCHANGED <<frame, heap>>
          BY <2>3, <2>5, <3>2 DEF Continued, Grown
        <5>2. p \in 1..Len(stack') /\ ~(p <= Len(stack))
          BY <2>4, <3>2
        <5> QED  BY <2>1, <5>1, <5>2
      <4>2. \A q \in 1..(p - 1) : stack'[q].kind = "call" => stack'[q].func \in Functions
        <5>1. LimitsInv'
          BY <2>1, <2>2, StepLimits
        <5>2. StackOK(stack', bundle, Node')
          BY <2>2, <5>1 DEF LimitsInv, Inv
        <5>3. ASSUME NEW q \in DOMAIN stack', stack'[q].kind = "call"
              PROVE  stack'[q].func \in Functions
          <6>1. Activation(stack'[q], bundle, Node')
            BY <5>2 DEF StackOK
          <6> QED  BY <5>3, <6>1 DEF Activation, Functions
        <5>4. \A q \in 1..(p - 1) : q \in DOMAIN stack'
          BY <2>4
        <5> QED  BY <5>3, <5>4
      <4>3. l \in Locals
        BY <2>2, <2>5, <4>2, SparedTyped DEF Apart
      <4>4. entry'[p].nodes[l] = frame[l] /\ entry'[p].values[l] = Read(l)
        BY <4>1, <4>3 DEF Snapshot
      <4>5. Read(l)' = Read(l)
        BY <4>1 DEF Read, ValueOf
      <4> QED  BY <4>1, <4>4, <4>5
    <3> QED  BY <2>4, <3>1, <3>2
  <2> QED  BY <2>2, <2>5 DEF Sparing
<1> QED  BY <1>1, <1>2

LEMMA CallsStep ==
    ASSUME NEW lay, CallsInv(lay), [TraceNext]_traceVars
    PROVE  CallsInv(lay)'
<1>1. [Next]_vars
  BY DEF TraceNext, traceVars
<1>2. SharingInv(lay)' /\ bundle' = bundle
  BY <1>1, SharingStep, BundleSame DEF CallsInv
<1>3. Apart(lay)
  BY DEF CallsInv, SharingInv, LimitsInv, Apart
<1>4. Chained(stack', bundle, lay)
  BY <1>1, <1>3, StepContinued DEF Continued
<1>5. CallsApart(bundle', lay)
  BY <1>2 DEF CallsInv
<1>6. Chained(stack', bundle', lay)
  BY <1>2, <1>4
<1> QED  BY <1>2, <1>5, <1>6, SparingStep DEF CallsInv

LEMMA CallsInit ==
    ASSUME NEW lay, TraceInit, BuildsApart(bundle, lay), CallsApart(bundle, lay)
    PROVE  CallsInv(lay)
<1> DEFINE a == [kind |-> "plan", blocks |-> bundle.plan, next |-> 1]
<1>1. SharingInv(lay)
  BY SharingInit DEF TraceInit
<1>2. stack = <<a>> /\ a.kind = "plan"
  BY DEF TraceInit, Init
<1> HIDE DEF a
<1>3. DOMAIN stack = {1} /\ stack[1] = a
  BY <1>2
<1>4. Chained(stack, bundle, lay)
  BY <1>2, <1>3 DEF Chained, Owned, Linked
<1>5. Sparing(lay)
  BY <1>2, <1>3 DEF Sparing
<1> QED  BY <1>1, <1>4, <1>5 DEF CallsInv

-----------------------------------------------------------------------------
(***************************************************************************)
(* Induction over the natural numbers, with a set for the operator that    *)
(* the induction theorems of the library take, and what it says of the     *)
(* blocks that a function reaches.                                         *)
(***************************************************************************)
LEMMA NatLeast ==
    ASSUME NEW T, T \subseteq Nat, T # {}
    PROVE  \E n \in T : \A m \in T : n <= m
<1> DEFINE R == OpToRel(<, Nat)
<1>1. IsWellFoundedOn(R, Nat)
  BY NatLessThanWellFounded
<1>2. \A x, y \in Nat : x < y => <<x, y>> \in R
  BY DEF OpToRel
<1> HIDE DEF R
<1>3. PICK n \in T : \A y \in T : ~ (<<y, n>> \in R)
  BY <1>1, WFMin
<1>4. ASSUME NEW m \in T
      PROVE  n <= m
  <2>1. n \in Nat /\ m \in Nat
    OBVIOUS
  <2>2. ~(m < n)
    BY <1>2, <1>3, <2>1
  <2> QED  BY <2>1, <2>2
<1> QED  BY <1>4

LEMMA SetInduction ==
    ASSUME NEW S, 0 \in S, \A n \in Nat : n \in S => n + 1 \in S
    PROVE  Nat \subseteq S
<1> SUFFICES ASSUME ~ (Nat \subseteq S)
             PROVE FALSE
  OBVIOUS
<1>1. PICK n \in Nat \ S : \A m \in Nat \ S : n <= m
  BY NatLeast
<1> QED  BY <1>1

\* Whatever holds the blocks bs, and is closed under nesting, holds all of
\* their text.
LEMMA ReachIn ==
    ASSUME Inv, NEW bs, NEW T, \A i \in DOMAIN bs : bs[i] \in T,
           \A x \in T : Children(x) \subseteq T
    PROVE  Reach(bs) \subseteq T
<1> DEFINE N == Len(bundle.blocks)
           A == {bs[i] : i \in DOMAIN bs}
           G(g, n) == IF n = 0 THEN A ELSE g[n - 1] \cup UNION {Children(b) : b \in g[n - 1]}
           Ok(n) == {g \in [0..n -> SUBSET T] : \A i \in 0..n : g[i] = G(g, i)}
           S == {n \in Nat : Ok(n) # {}}
           r == CHOOSE r : r = [n \in 0..N |-> IF n = 0 THEN {bs[i] : i \in DOMAIN bs} ELSE r[n - 1] \cup UNION {Children(b) : b \in r[n - 1]}]
<1>1. Reach(bs) = r[N]
  BY DEF Reach
<1>0. N \in Nat
  BY BundlesVerified, IsSeqDomain DEF Inv, Verified
<1>2. A \subseteq T
  OBVIOUS
<1>3. \A n \in Nat : \A g \in [0..n -> SUBSET T] : \A i \in 0..n : G(g, i) \in SUBSET T
  <2> SUFFICES ASSUME NEW n \in Nat, NEW g \in [0..n -> SUBSET T], NEW i \in 0..n
               PROVE  G(g, i) \subseteq T
    OBVIOUS
  <2>1. CASE i = 0
    BY <1>2, <2>1
  <2>2. CASE i # 0
    <3>1. i - 1 \in 0..n
      BY <2>2
    <3>2. g[i - 1] \subseteq T
      BY <3>1
    <3> HIDE DEF A
    <3> QED  BY <3>2, <2>2
  <2> QED  BY <2>1, <2>2
<1>4. 0 \in S
  <2>1. [i \in 0..0 |-> A] \in Ok(0)
    BY <1>2
  <2> QED  BY <2>1
<1> HIDE DEF A
<1>5. ASSUME NEW n \in Nat, n \in S
      PROVE  n + 1 \in S
  <2>1. PICK g \in [0..n -> SUBSET T] : \A i \in 0..n : g[i] = G(g, i)
    BY <1>5
  <2> DEFINE h == [i \in 0..(n + 1) |-> IF i = n + 1 THEN g[n] \cup UNION {Children(b) : b \in g[n]} ELSE g[i]]
  <2>2. h \in [0..(n + 1) -> SUBSET T]
    <3>1. g[n] \subseteq T
      OBVIOUS
    <3>2. g[n] \cup UNION {Children(b) : b \in g[n]} \subseteq T
      BY <3>1
    <3> QED  BY <3>2
  <2>3. ASSUME NEW i \in 0..(n + 1) PROVE h[i] = G(h, i)
    <3>1. CASE i = n + 1
      <4>1. h[i - 1] = g[n] /\ i # 0 /\ h[i] = g[n] \cup UNION {Children(b) : b \in g[n]}
        BY <3>1
      <4> HIDE DEF h
      <4> QED BY <4>1
    <3>2. CASE i \in 0..n /\ i # 0
      <4>1. h[i] = g[i] /\ h[i - 1] = g[i - 1]
        BY <3>2
      <4>2. g[i] = G(g, i)
        BY <2>1, <3>2
      <4> HIDE DEF h
      <4> QED  BY <4>1, <4>2, <3>2
    <3>3. CASE i = 0
      <4>1. h[i] = g[i] /\ g[i] = G(g, i)
        BY <2>1, <3>3
      <4> HIDE DEF h
      <4> QED  BY <4>1, <3>3
    <3>4. i = n + 1 \/ (i \in 0..n /\ i # 0) \/ i = 0
      OBVIOUS
    <3> HIDE DEF h
    <3> QED  BY <3>1, <3>2, <3>3, <3>4
  <2>4. h \in Ok(n + 1)
    BY <2>2, <2>3
  <2> HIDE DEF Ok
  <2> QED  BY <2>4
<1>6. N \in S
  <2> HIDE DEF S
  <2>1. Nat \subseteq S
    BY <1>4, <1>5, SetInduction
  <2> QED  BY <2>1, <1>0
<1>7. PICK g \in [0..N -> SUBSET T] : \A i \in 0..N : g[i] = G(g, i)
  BY <1>6
<1>8. g = [n \in 0..N |-> IF n = 0 THEN {bs[i] : i \in DOMAIN bs} ELSE g[n - 1] \cup UNION {Children(b) : b \in g[n - 1]}]
  BY <1>7 DEF A
<1>9. r = [n \in 0..N |-> IF n = 0 THEN {bs[i] : i \in DOMAIN bs} ELSE r[n - 1] \cup UNION {Children(b) : b \in r[n - 1]}]
  BY <1>8
<1>10. /\ r[0] = {bs[i] : i \in DOMAIN bs}
       /\ \A n \in 1..N : r[n] = r[n - 1] \cup UNION {Children(b) : b \in r[n - 1]}
  <2> HIDE DEF r
  <2>1. 0 \in 0..N /\ \A n \in 1..N : n \in 0..N /\ n # 0
    BY <1>0
  <2>2. r[0] = {bs[i] : i \in DOMAIN bs}
    BY <1>9, <2>1
  <2>3. ASSUME NEW n \in 1..N PROVE r[n] = r[n - 1] \cup UNION {Children(b) : b \in r[n - 1]}
    BY <1>9, <2>1
  <2> QED BY <2>2, <2>3
<1> HIDE DEF r
<1> DEFINE I == {n \in Nat : n <= N => r[n] \subseteq T}
<1>11. 0 \in I
  BY <1>2, <1>10, <1>0 DEF A
<1>12. ASSUME NEW n \in Nat, n \in I PROVE n + 1 \in I
  <2>1. CASE n + 1 <= N
    <3>1. n + 1 \in 1..N /\ (n + 1) - 1 = n
      BY <2>1, <1>0
    <3>3. r[n + 1] = r[n] \cup UNION {Children(b) : b \in r[n]}
      BY <3>1, <1>10
    <3>2. r[n] \subseteq T
      BY <1>12, <2>1, <1>0
    <3> QED  BY <3>3, <3>2
  <2> QED BY <2>1
<1> HIDE DEF I
<1>13. N \in I
  BY <1>11, <1>12, SetInduction, <1>0
<1> QED  BY <1>1, <1>13, <1>0 DEF I

LEMMA TextHolds ==
    ASSUME Inv, NEW xs, NEW bs, TextOf(bundle, xs, bs)
    PROVE  LocalsIn(bs) \subseteq UsedIn(bundle, xs)
<1>1. ASSUME NEW x \in xs
      PROVE  Children(x) \subseteq xs
  BY DEF TextOf, Children, Body
<1>2. Reach(bs) \subseteq xs
  BY <1>1, ReachIn DEF TextOf
<1> QED  BY <1>2 DEF LocalsIn, UsedIn, Body

\* The functions on the call stack are on the stack.
LEMMA NamedCalled ==
    ASSUME Inv, NEW i \in DOMAIN callStack
    PROVE  \E q \in DOMAIN stack : /\ stack[q].kind = "call" /\ stack[q].func = callStack[i].name
                                   /\ Count(stack, "call", q) = i
<1> DEFINE n == Len(stack)
           T == {m \in 0..n : Count(stack, "call", m) >= i}
<1>1. /\ n \in Nat /\ n > 0 /\ DOMAIN stack = 1..n
      /\ CountersOK(stack, blockDepth, withCount, callStack) /\ IsSeq(callStack)
  BY TopFacts, IsSeqDomain
<1>2. i \in Nat /\ i >= 1 /\ i <= Count(stack, "call", n)
  <2>1. DOMAIN callStack = 1..Len(callStack) /\ Len(callStack) = Count(stack, "call", n)
        /\ Len(callStack) \in Nat
    BY <1>1, IsSeqDomain DEF CountersOK
  <2> HIDE DEF n
  <2> QED  BY <2>1
<1> HIDE DEF n
<1>3. n \in T /\ T \subseteq Nat
  BY <1>1, <1>2, CountNat
<1>4. PICK q \in T : \A m \in T : q <= m
  BY <1>3, NatLeast
<1>5. q # 0
  BY <1>2, <1>4, CountNat
<1>6. q \in 1..n /\ q - 1 \in 0..n /\ q - 1 \in Nat /\ (q - 1) + 1 = q
  BY <1>1, <1>4, <1>5
<1>7. ~(Count(stack, "call", q - 1) >= i)
  BY <1>4, <1>6
<1>8. /\ Count(stack, "call", q) = Count(stack, "call", q - 1) + Bump(stack[q], "call")
      /\ Count(stack, "call", q - 1) \in Nat /\ Count(stack, "call", q) >= i
  <2>1. Count(stack, "call", (q - 1) + 1)
          = Count(stack, "call", q - 1) + Bump(stack[(q - 1) + 1], "call")
    BY <1>6, CountNext
  <2>2. Count(stack, "call", q - 1) \in Nat
    BY <1>6, CountNat
  <2> QED  BY <1>4, <1>6, <2>1, <2>2
<1>9. stack[q].kind = "call" /\ Count(stack, "call", q) = i
  <2>1. Bump(stack[q], "call") \in {0, 1} /\ (Bump(stack[q], "call") = 1 => stack[q].kind = "call")
    BY DEF Bump
  <2> HIDE DEF T
  <2> QED  BY <1>2, <1>7, <1>8, <2>1
<1> QED  BY <1>1, <1>6, <1>9 DEF CountersOK

\* The locals of the caller are spared by the call that is about to end.
LEMMA CallerSpared ==
    ASSUME Inv, NEW lay, CallsApart(bundle, lay), Top.kind = "call"
    PROVE  CallerLocals \subseteq Spared(stack, Len(stack), bundle, lay)
<1> DEFINE n == Len(stack)
           k == Len(callStack)
<1>1. /\ n \in Nat /\ n > 0 /\ DOMAIN stack = 1..n /\ Top = stack[n]
      /\ CountersOK(stack, blockDepth, withCount, callStack) /\ IsSeq(callStack)
      /\ k \in Nat /\ DOMAIN callStack = 1..k /\ k = Count(stack, "call", n) /\ k >= 1
  <2>1. /\ n \in Nat /\ n > 0 /\ DOMAIN stack = 1..n /\ Top = stack[n]
        /\ CountersOK(stack, blockDepth, withCount, callStack) /\ IsSeq(callStack)
        /\ k \in Nat /\ DOMAIN callStack = 1..k /\ k = Count(stack, "call", n)
    BY TopFacts, IsSeqDomain DEF CountersOK
  <2>2. Count(stack, "call", n) >= 1
    BY <2>1, CountPositive
  <2> QED  BY <2>1, <2>2
<1>2. TextsKnown(bundle, lay)
  BY DEF CallsApart
<1> HIDE DEF n, k
<1>3. CASE k = 1
  <2>1. CallerLocals = LocalsIn(bundle.plan) \ {0, 1}
    BY <1>3 DEF CallerLocals, k
  <2>2. LocalsIn(bundle.plan) \subseteq UsedIn(bundle, lay.main)
    BY <1>2, TextHolds DEF TextsKnown
  <2> QED  BY <2>1, <2>2 DEF Spared, Documents
<1>4. CASE k # 1
  <2>1. k - 1 \in DOMAIN callStack
    BY <1>1, <1>4
  <2>2. PICK q \in DOMAIN stack : /\ stack[q].kind = "call"
                                  /\ stack[q].func = callStack[k - 1].name
                                  /\ Count(stack, "call", q) = k - 1
    BY <2>1, NamedCalled
  <2>3. q \in 1..(n - 1)
    BY <1>1, <2>2
  <2> DEFINE f == stack[q].func
  <2>4. f \in DOMAIN bundle.functions
    BY <2>2, FunctionsBelow DEF Functions
  <2>5. CallerLocals = LocalsIn(bundle.functions[f].blocks) \ {0, 1}
    BY <1>4, <2>2 DEF CallerLocals, k
  <2>6. LocalsIn(bundle.functions[f].blocks) \subseteq UsedIn(bundle, lay.text[f])
    BY <1>2, <2>4, TextHolds DEF TextsKnown
  <2>7. LocalsIn(bundle.functions[f].blocks) \subseteq Uses(bundle, lay, f)
    BY <2>6 DEF Uses
  <2>8. Uses(bundle, lay, f) \ Documents \subseteq Spared(stack, n, bundle, lay)
    BY <2>2, <2>3 DEF Spared
  <2> HIDE DEF f
  <2> QED  BY <2>5, <2>7, <2>8 DEF Documents, n
<1> QED  BY <1>3, <1>4

LEMMA CallKeeps ==
    ASSUME NEW lay, CallsInv(lay), TraceNext, Ends("call"),
           NEW l \in CallerLocals \ {Top.target}
    PROVE  frame'[l] = AtEntry.nodes[l] /\ Read(l)' = AtEntry.values[l]
<1>1. /\ Inv /\ CallsApart(bundle, lay) /\ Top.kind = "call" /\ Next
      /\ Len(stack) \in Nat /\ Len(stack) > 0 /\ DOMAIN stack = 1..Len(stack)
      /\ Top = stack[Len(stack)] /\ Len(stack') < Len(stack)
  BY TopFacts, IsSeqDomain DEF CallsInv, SharingInv, LimitsInv, Ends, TraceNext
<1>2. l \in Spared(stack, Len(stack), bundle, lay)
  BY <1>1, CallerSpared
<1>3. Len(stack) \in DOMAIN stack
  BY <1>1
<1>4. frame[l] = AtEntry.nodes[l] /\ Read(l) = AtEntry.values[l]
  BY <1>1, <1>2, <1>3 DEF CallsInv, Sparing, AtEntry
<1>5. l \in Locals
  <2>1. \A q \in 1..(Len(stack) - 1) : q \in DOMAIN stack
    BY <1>1
  <2> QED  BY <1>1, <1>2, <2>1, FunctionsBelow, SparedTyped
<1>6. ~AtStatement
  BY <1>1 DEF AtStatement, Running
<1>7. frame'[l] = frame[l]
  BY <1>1, <1>5, <1>6, RestWrites
<1>8. heap' = heap
  <2>1. ~(CallNext \/ CallNoBlocks)
    <3>1. ~CallNoBlocks
      BY <1>1 DEF CallNoBlocks
    <3>2. ASSUME CallNext
          PROVE  FALSE
      <4> DEFINE a == [Top EXCEPT !.next = @ + 1]
      <4>1. EnterBlock(Append(Below, a), Top.blocks[Top.next])
        BY <3>2 DEF CallNext, NextBlock
      <4> HIDE DEF a
      <4>2. IsSeq(Below) /\ Len(Below) = Len(stack) - 1
        BY <1>1, TopFacts, PopIsSeq DEF Below
      <4>3. IsSeq(Append(Below, a)) /\ Len(Append(Below, a)) = Len(stack)
        <5>1. (Len(stack) - 1) + 1 = Len(stack)
          BY <1>1
        <5> QED  BY <4>2, <5>1, PushIsSeq
      <4>4. \A x : Len(Append(Append(Below, a), x)) = Len(stack) + 1
        BY <4>3, PushIsSeq
      <4>5. Len(stack') = Len(stack) \/ Len(stack') = Len(stack) + 1
        BY <4>1, <4>3, <4>4 DEF EnterBlock
      <4> QED  BY <1>1, <4>5
    <3> QED  BY <3>1, <3>2
  <2>2. CASE CallReturn \/ CallFail
    BY <2>2 DEF CallReturn, CallFail, WriteNode
  <2>3. CASE ~(CallReturn \/ CallFail)
    <3>1. ~(Straight \/ BlockStmt \/ NotStmt \/ WithStmt \/ WithCrash \/ ScanStmt
            \/ ScanThrow \/ CallStmt \/ DynamicCall)
      BY <1>6 DEF Straight, Make, MeasureLen, Tests, Test, ResetLocal, AssignVar,
        AssignVarOnce, ObjectInsert, ObjectMerge, Add, FillMalformed, DotStmt, ResultSetAdd, ReturnLocal,
        BreakStmt, DynamicUndefined, Timeout, RawOperand, BlockStmt, NotStmt, WithStmt,
        WithCrash, ScanStmt, ScanThrow, CallStmt, DynamicCall, Executes
    <3>2. status # "running" /\ UNCHANGED vars
      BY <1>1, <2>1, <2>3, <3>1 DEF Next, Blocks, Calls, PlanNext, PlanDone, NestNext, NestDone,
        NextBlock, NotDone, WithDone, ScanNext, ScanDone, BindParam, EnterFunction,
        DynamicDone, BlockAdvance, BlockEnd, BlockExit, BlockBreak, Running
    <3> QED  BY <3>2 DEF vars
  <2> QED  BY <2>2, <2>3
<1>9. Read(l)' = Read(l)
  BY <1>7, <1>8 DEF Read, ValueOf
<1> QED  BY <1>4, <1>7, <1>9

\* In a bundle whose locals are numbered as rego_to_bundle numbers them, a call
\* leaves every local of its caller as it was, but the one that receives the
\* result: the node it holds and the value of that node, however deep the calls
\* nest and however the call ends (run_call, run_block and every statement that
\* writes a local or changes a node in place).
THEOREM CallsCorrect ==
    ASSUME NEW CONSTANT lay
    PROVE  TraceSpec /\ BuildsApart(bundle, lay) /\ CallsApart(bundle, lay)
             => CallKeepsCallerLocals
<1>1. TraceInit /\ BuildsApart(bundle, lay) /\ CallsApart(bundle, lay) => CallsInv(lay)
  BY CallsInit
<1>2. CallsInv(lay) /\ [TraceNext]_traceVars => CallsInv(lay)'
  BY CallsStep
<1>3. CallsInv(lay) /\ [TraceNext]_traceVars =>
        [Ends("call") =>
            \A l \in CallerLocals \ {Top.target} :
               /\ frame'[l] = AtEntry.nodes[l]
               /\ Read(l)' = AtEntry.values[l]]_traceVars
  BY CallKeeps
<1> QED  BY <1>1, <1>2, <1>3, PTL DEF TraceSpec, CallKeepsCallerLocals

-----------------------------------------------------------------------------
(***************************************************************************)
(* The documents.                                                          *)
(***************************************************************************)
DataInv(lay) ==
    /\ SharingInv(lay) /\ DocInv
    /\ \A d \in Documents : entry[1].values[d] = ValueOf(entry[1].nodes[d])

\* The node of a document is held by its local, or by the first With of it.
LEMMA DocumentExposed ==
    ASSUME NEW lay, BuildsApart(bundle, lay), Inv, DocInv,
           NEW d \in Documents, NEW l \in Builders(bundle)
    PROVE  entry[1].nodes[d] \in Exposed(l)
<1> DEFINE n == entry[1].nodes[d]
<1>1. d \in Locals /\ d \notin Builders(bundle) /\ Restorable(Withs(stack), frame, d, n)
  BY ApartFacts DEF BuildsApart, DocInv
<1>2. d # l /\ d \notin Givers(l)
  <2>1. \A m \in Moves(bundle) : m[1] \in Builders(bundle)
    BY MoversBuild
  <2> QED  BY <1>1, <2>1 DEF Givers
<1> HIDE DEF n
<1>3. CASE \A w \in Withs(stack) : w.target # d
  <2>1. frame[d] = n
    BY <1>1, <1>3 DEF Restorable
  <2> QED  BY <1>1, <1>2, <2>1 DEF Exposed, n
<1>4. CASE \E w \in Withs(stack) : w.target = d
  <2> DEFINE T == {w.at : w \in {v \in Withs(stack) : v.target = d}}
  <2>1. T # {} /\ T \subseteq Nat
    BY <1>4, WithsFacts
  <2>2. PICK a \in T : \A b \in T : a <= b
    BY <2>1, NatLeast
  <2>3. PICK w \in Withs(stack) : w.target = d /\ w.at = a
    OBVIOUS
  <2>4. \A v \in Withs(stack) : v.target = d => w.at <= v.at
    BY <2>2, <2>3
  <2>5. w.old = n
    BY <1>1, <2>3, <2>4 DEF Restorable
  <2>6. n \in Olds(stack)
    BY <2>3, <2>5 DEF Olds
  <2> QED  BY <2>6 DEF Exposed, n
<1> QED  BY <1>3, <1>4

LEMMA DocumentSame ==
    ASSUME NEW lay, DataInv(lay), [TraceNext]_traceVars, NEW d \in Documents
    PROVE  /\ entry'[1] = entry[1]
           /\ ValueOf(entry[1].nodes[d])' = ValueOf(entry[1].nodes[d])
<1>1. /\ Inv /\ BuildsApart(bundle, lay) /\ SharingInv(lay) /\ DocInv /\ [Next]_vars
      /\ entry[1].nodes[d] \in Node \cup {Null}
  BY DEF DataInv, SharingInv, LimitsInv, DocInv, BuildsApart, TraceNext, traceVars
<1>2. entry'[1] = entry[1]
  BY <1>1, EntryStays
<1>3. ASSUME NEW n \in Node, n = entry[1].nodes[d]
      PROVE  heap'[n].value = heap[n].value
  <2>1. AtStatement /\ Stmt.type \in Fillers => n \in Exposed(Stmt.target)
    BY <1>1, <1>3, StatementApart, DocumentExposed
  <2> QED  BY <1>1, <2>1, NotFilled
<1> QED  BY <1>1, <1>2, <1>3 DEF ValueOf

LEMMA DataStep ==
    ASSUME NEW lay, DataInv(lay), [TraceNext]_traceVars
    PROVE  DataInv(lay)'
<1>1. SharingInv(lay)' /\ DocInv'
  BY SharingStep, StepDocInv DEF DataInv, SharingInv, LimitsInv, TraceNext, traceVars
<1>2. ASSUME NEW d \in Documents
      PROVE  entry'[1].values[d] = ValueOf(entry[1].nodes[d])'
  BY <1>2, DocumentSame DEF DataInv
<1> QED  BY <1>1, <1>2 DEF DataInv

LEMMA DataInit ==
    ASSUME NEW lay, TraceInit, BuildsApart(bundle, lay)
    PROVE  DataInv(lay)
<1>1. SharingInv(lay) /\ DocInv /\ Inv /\ entry[1] = Snapshot
  BY SharingInit, InitDocuments, InitInv DEF TraceInit
<1>2. ASSUME NEW d \in Documents
      PROVE  entry[1].values[d] = ValueOf(entry[1].nodes[d])
  <2>1. d \in Locals
    BY <1>1, ApartFacts DEF BuildsApart
  <2> QED  BY <1>1, <2>1 DEF Snapshot, Read
<1> QED  BY <1>1, <1>2 DEF DataInv

\* In a bundle that is laid out as rego_to_bundle lays out its containers, the
\* nodes of input and data that a run is given are never changed in place, though
\* dot and run_scan hand out the nodes nested in them and a With may hold them
\* back: the next query reads the data that this one read (State,
\* write_and_swap, insert_into_object, ArrayAppend, SetAdd).
THEOREM DataCorrect ==
    ASSUME NEW CONSTANT lay
    PROVE  TraceSpec /\ BuildsApart(bundle, lay) => DocumentsKept
<1>1. TraceInit /\ BuildsApart(bundle, lay) => DataInv(lay)
  BY DataInit
<1>2. DataInv(lay) /\ [TraceNext]_traceVars => DataInv(lay)'
  BY DataStep
<1>3. DataInv(lay) /\ [TraceNext]_traceVars =>
        [\A l \in Documents :
            /\ entry'[1].nodes[l] = entry[1].nodes[l]
            /\ ValueOf(entry[1].nodes[l])' = ValueOf(entry[1].nodes[l])]_traceVars
  BY DocumentSame
<1> QED  BY <1>1, <1>2, <1>3, PTL DEF TraceSpec, DocumentsKept

\* In such a bundle input and data are, outside of every With, what the run
\* started with, whatever the Withs before replaced, how they were left and
\* what was filled meanwhile (run_with, write_and_swap).
THEOREM DocumentsCorrect ==
    ASSUME NEW CONSTANT lay
    PROVE  TraceSpec /\ BuildsApart(bundle, lay) => []DocumentsRestored
<1>1. TraceInit /\ BuildsApart(bundle, lay) => DataInv(lay)
  BY DataInit
<1>2. DataInv(lay) /\ [TraceNext]_traceVars => DataInv(lay)'
  BY DataStep
<1>3. DataInv(lay) => DocumentsRestored
  <2>1. SUFFICES ASSUME DataInv(lay), \A i \in DOMAIN stack : stack[i].kind # "with",
                        NEW d \in Documents
                 PROVE  Read(d) = entry[1].values[d]
    BY DEF DocumentsRestored, Documents
  <2>2. Withs(stack) = {}
    BY <2>1 DEF Withs
  <2>3. frame[d] = entry[1].nodes[d]
    BY <2>1, <2>2 DEF DataInv, SharingInv, BuildsApart, DocInv, Restorable
  <2> QED  BY <2>1, <2>3 DEF DataInv, Read
<1> QED  BY <1>1, <1>2, <1>3, PTL DEF TraceSpec
=============================================================================
