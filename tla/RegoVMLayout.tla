----------------------------- MODULE RegoVMLayout -----------------------------
(***************************************************************************)
(* How rego_to_bundle lays out the containers a bundle builds: all         *)
(* functions of a run share one frame and containers are filled in place,  *)
(* yet nobody else holds a container while it is being filled, and how it  *)
(* numbers the locals, so that a call writes none of its caller's.         *)
(*                                                                         *)
(* A layout `lay' says, for a bundle b,                                    *)
(*   open[x][j]: the locals with a container that is under construction    *)
(*               before statement j of block x;                            *)
(*   lends[x]:   the locals whose nodes other locals, or the cache, may    *)
(*               receive while block x runs;                               *)
(*   gives[f]:   those of a call of function f.                            *)
(***************************************************************************)
EXTENDS RegoVMTrace

Makers == {"MakeObject", "MakeArray", "MakeSet", "MakeNull", "MakeNumberRef",
           "MakeNumberInt", "AssignInt", "ResetLocal", "Len"}
Nesters == {"Block", "Not", "With", "Scan", "Call", "CallDynamic"}

\* The locals whose nodes a statement gives to another local; a merge may give
\* its target the node of an operand.
Lent(s) ==
    CASE s.type \in {"AssignVar", "AssignVarOnce", "With"} -> LocalOf(s.op0)
      [] s.type = "ObjectMerge" -> LocalOf(s.op0) \cup {s.target}
      [] s.type \in {"Call", "CallDynamic"} -> UNION {LocalOf(s.args[i]) : i \in DOMAIN s.args}
      [] OTHER -> {}
Callees(b, s) ==
    {f \in DOMAIN b.functions : s.type = "CallDynamic" \/ (s.type = "Call" /\ s.func = f)}

\* An object rule goes on with the object that was made for the documents below
\* it.  That object is handed on once, and to one local.
IsMove(b, s) == s.type = "AssignVar" /\ IsLocal(s.op0) /\ s.target \in Builders(b)
Moves(b) == {<<s.op0[2], s.target>> : s \in {t \in StatementsOf(b) : IsMove(b, t)}}
MovesFinal(b) ==
    LET moves == Moves(b) IN
    \A m \in moves :
        /\ \A n \in moves : n[1] # m[2] /\ (n[1] = m[1] => n = m)
        /\ \A f \in DOMAIN b.functions : b.functions[f].result # m[1]
        /\ \A s \in StatementsOf(b) : m[1] \in Lent(s) => IsMove(b, s)

\* The containers that stay with their local.
Private(b) == {l \in Builders(b) : /\ \A s \in StatementsOf(b) : l \notin Lent(s)
                                   /\ \A f \in DOMAIN b.functions : l # b.functions[f].result}

LendsKnown(b, lay) ==
    LET private == Private(b) IN
    /\ \A x \in DOMAIN b.blocks : lay.lends[x] \cap private = {}
    /\ \A x \in DOMAIN b.blocks : \A j \in DOMAIN b.blocks[x] :
         LET s == b.blocks[x][j]
         IN  /\ Lent(s) \subseteq lay.lends[x]
             /\ \A i \in DOMAIN s.blocks : lay.lends[s.blocks[i]] \subseteq lay.lends[x]
             /\ \A f \in Callees(b, s) : lay.gives[f] \subseteq lay.lends[x]
    /\ \A f \in DOMAIN b.functions :
         LET bs == b.functions[f].blocks
         IN  /\ b.functions[f].result \in lay.gives[f] /\ lay.gives[f] \cap private = {}
             /\ \A i \in DOMAIN bs : lay.lends[bs[i]] \subseteq lay.gives[f]

\* The containers under construction all the while statement j runs.
Kept(lay, x, j) == lay.open[x][j] \cap lay.open[x][j + 1]
\* What a function builds from its second block on: its result.
Throughout(b, lay, f) ==
    UNION {lay.open[b.functions[f].blocks[i]][1] : i \in 2..Len(b.functions[f].blocks)}

\* A container is filled only between the statement that makes it and the first
\* that lends it; what runs inside a statement lends none that stays open.
StatementOpen(b, lay, x, j) ==
    LET s == b.blocks[x][j]
    IN  /\ \A l \in lay.open[x][j + 1] \ lay.open[x][j] : s.type \in Makers /\ l = s.target
        /\ lay.open[x][j + 1] \cap Lent(s) = {}
        /\ s.type \in Fillers => s.target \in lay.open[x][j] \/ s.target \in Private(b)
        /\ \A i \in DOMAIN s.blocks : /\ lay.open[s.blocks[i]][1] \subseteq Kept(lay, x, j)
                                      /\ Kept(lay, x, j) \cap lay.lends[s.blocks[i]] = {}
        /\ \A f \in Callees(b, s) : Kept(lay, x, j) \cap lay.gives[f] = {}
        /\ IsMove(b, s) => s.op0[2] \in lay.open[x][j]
BlocksOpen(b, lay) ==
    LET builders == Builders(b) IN
    /\ \A x \in DOMAIN b.blocks :
         /\ \A j \in 1..(Len(b.blocks[x]) + 1) : lay.open[x][j] \subseteq builders
         /\ \A j \in DOMAIN b.blocks[x] : StatementOpen(b, lay, x, j)
    /\ \A i \in DOMAIN b.plan : lay.open[b.plan[i]][1] = {}

\* The first thing a function does is to reset its result.
ResultsOpen(b, lay) ==
    \A f \in DOMAIN b.functions :
        LET bs == b.functions[f].blocks
            rs == Throughout(b, lay, f)
        IN  /\ lay.open[bs[1]][1] = {}
            /\ rs # {} => /\ Len(b.blocks[bs[1]]) > 0 /\ b.blocks[bs[1]][1].type = "ResetLocal"
                          /\ \A j \in 2..(Len(b.blocks[bs[1]]) + 1) : rs \subseteq lay.open[bs[1]][j]
            /\ \A i \in 2..Len(bs) : rs \cap lay.lends[bs[i]] = {}

BuildsApart(b, lay) ==
    /\ FunctionsHaveBlocks(b) /\ DocumentsApart(b)
    /\ MovesFinal(b)
    /\ LendsKnown(b, lay) /\ BlocksOpen(b, lay) /\ ResultsOpen(b, lay)

-----------------------------------------------------------------------------
(***************************************************************************)
(* How rego_to_bundle numbers the locals.  A layout also says              *)
(*   main:     the blocks of the plan, the nested ones included;           *)
(*   text[f]:  those of function f;                                        *)
(*   calls[f]: the functions that f calls, or that these call.             *)
(***************************************************************************)
UsedIn(b, xs) == UNION {UNION {Mentioned(b.blocks[x][j]) : j \in DOMAIN b.blocks[x]} : x \in xs}
\* The locals that a function binds or whose text mentions.
Uses(b, lay, f) == UsedIn(b, lay.text[f])
                   \cup {b.functions[f].params[i] : i \in DOMAIN b.functions[f].params \ {1, 2}}

\* xs holds the blocks bs and all blocks nested in them.
TextOf(b, xs, bs) ==
    /\ xs \subseteq DOMAIN b.blocks
    /\ \A i \in DOMAIN bs : bs[i] \in xs
    /\ \A x \in xs : \A j \in DOMAIN b.blocks[x] :
          \A i \in DOMAIN b.blocks[x][j].blocks : b.blocks[x][j].blocks[i] \in xs
TextsKnown(b, lay) ==
    /\ TextOf(b, lay.main, b.plan)
    /\ \A f \in DOMAIN b.functions :
         /\ TextOf(b, lay.text[f], b.functions[f].blocks)
         /\ \A x \in lay.text[f] : \A j \in DOMAIN b.blocks[x] :
               Callees(b, b.blocks[x][j]) \subseteq lay.calls[f]
         /\ \A g \in lay.calls[f] : lay.calls[g] \subseteq lay.calls[f]

\* What a function calls, itself apart, has other locals than it, and every
\* function has others than the plan; a container that is handed on stays there.
CallsApart(b, lay) ==
    LET main == UsedIn(b, lay.main)
        uses == [f \in DOMAIN b.functions |-> Uses(b, lay, f)]
    IN  /\ TextsKnown(b, lay)
        /\ \A f \in DOMAIN b.functions :
             /\ uses[f] \cap main \subseteq Documents
             /\ \A g \in lay.calls[f] \ {f} : uses[f] \cap uses[g] \subseteq Documents
        /\ \A m \in Moves(b) :
             /\ m[1] \in main => m[2] \in main
             /\ \A f \in DOMAIN b.functions : m[1] \in uses[f] => m[2] \in uses[f]
=============================================================================
