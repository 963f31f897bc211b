----------------------------- MODULE BundleForms -----------------------------
(***************************************************************************)
(* The life of a bundle through its forms.                                 *)
(*                                                                         *)
(* The compiler makes a tree.  The tree is lowered to the compiled form    *)
(* (from_node) or written as JSON; JSON is read back to a tree; the        *)
(* compiled form is written as a binary image and read back.  A machine    *)
(* binds a compiled bundle after checking it (VirtualMachine::bundle).     *)
(* Any number of these steps can follow one another.  What must survive    *)
(* them all is the program: every slot the machine reads.                  *)
(***************************************************************************)
EXTENDS BundleBinary, BundleJson

CONSTANT Programs    \* the trees a bundle may start from

(***************************************************************************)
(* The trees wf_bundle allows.  A field holds the index of a local, an     *)
(* operand, a list of operands or of string indices, a name, blocks, or a  *)
(* number.                                                                 *)
(***************************************************************************)
LocalIndices == [kind : {"Local"}, n : Nat]
Operands     == [kind : {"Local", "String", "True", "False"}, n : Nat]
Numbers      == [kind : {"Value"}, n : Int]

FieldValues(t, x) ==
  CASE x \in LocalFields[t]                      -> LocalIndices
    [] x \in OperandFields(t)                    -> Operands
    [] x = "Func"                                -> STRING
    [] x = "Args" \/ (x = "Path" /\ t = "CallDynamic") -> Seq(Operands)
    [] x = "Block"                               -> Nat
    [] x = "Blocks" \/ (x = "Path" /\ t = "With") -> Seq(Nat)
    [] OTHER                                     -> Numbers

StatementWellFormed(s) ==
  /\ s.type \in StatementTypes
  /\ \A x \in Fields(s.type) : s.f[x] \in FieldValues(s.type, x)

PlanRecords     == [name : STRING, blocks : Seq(Nat)]
FunctionRecords == [name : STRING, path : Seq(STRING), params : Seq(Nat), result : Nat,
                    blocks : Seq(Nat)]

TreeWellFormed(tree) ==
  /\ tree.plans \in Seq(PlanRecords) /\ tree.funcs \in Seq(FunctionRecords)
  /\ Len(tree.pool) \in Nat
  /\ \A b \in 1..Len(tree.pool) :
       /\ Len(tree.pool[b]) \in Nat
       /\ \A i \in 1..Len(tree.pool[b]) : StatementWellFormed(tree.pool[b][i])

ASSUME ProgramsWellFormed == \A tree \in Programs : TreeWellFormed(tree)

VARIABLES
  origin,     \* the tree the compiler made
  form,       \* "tree", "json", "compiled", "binary", "garbled" or "refused"
  bundle,     \* the bundle in that form
  verdicts    \* what the check has said of the compiled forms so far

vars == <<origin, form, bundle, verdicts>>

Forms == {"tree", "json", "compiled", "binary", "garbled", "refused"}

Init == /\ origin \in Programs
        /\ bundle = origin
        /\ form = "tree"
        /\ verdicts = {}

(* BundleDef::from_node *)
Lower ==
  /\ form = "tree"
  /\ form' = "compiled"
  /\ bundle' = FromNode(bundle)
  /\ UNCHANGED <<origin, verdicts>>

(* Interpreter::save_bundle: bundle >> bundle_to_json() *)
SaveJson ==
  /\ form = "tree"
  /\ form' = "json"
  /\ bundle' = PolicyToJson(bundle)
  /\ UNCHANGED <<origin, verdicts>>

(* Interpreter::load_bundle: read_bundle *)
LoadJson ==
  /\ form = "json"
  /\ IF Loadable(bundle)
       THEN form' = "tree" /\ bundle' = PolicyFromJson(bundle)
       ELSE form' = "garbled" /\ UNCHANGED bundle
  /\ UNCHANGED <<origin, verdicts>>

(* BundleDef::save.  An operand that is none throws, and nothing is saved. *)
SaveBinary ==
  /\ form = "compiled"
  /\ Writable(bundle)
  /\ form' = "binary"
  /\ \E payload \in Payloads : bundle' = WriteBundle(bundle, payload)
  /\ UNCHANGED <<origin, verdicts>>

(* BundleDef::load.  An image that is read as it was written may still be  *)
(* beyond a limit of the reader, which throws.                             *)
LoadBinary ==
  /\ form = "binary"
  /\ \/ /\ Readable(bundle) /\ Admitted(bundle)
        /\ form' = "compiled" /\ bundle' = ReadBundle(bundle)
     \/ /\ Readable(bundle) /\ ~Admitted(bundle)
        /\ form' = "refused" /\ UNCHANGED bundle
     \/ /\ ~Readable(bundle)
        /\ form' = "garbled" /\ UNCHANGED bundle
  /\ UNCHANGED <<origin, verdicts>>

(* VirtualMachine::bundle *)
Bind ==
  /\ form = "compiled"
  /\ verdicts' = verdicts \union {IF Verify(bundle) THEN "accepted" ELSE "refused"}
  /\ UNCHANGED <<origin, form, bundle>>

Next == Lower \/ SaveJson \/ LoadJson \/ SaveBinary \/ LoadBinary \/ Bind

Spec == Init /\ [][Next]_vars

(***************************************************************************)
(* What the binary form has room for: the counts it keeps in a byte, a     *)
(* query plan that is not negative as a signed byte, names that are all    *)
(* different, and tables, lists and nested blocks within the limits of the *)
(* reader.  The payload of an image has limits of its own.                 *)
(***************************************************************************)
Distinct(items) == Cardinality(Names(items)) = Len(items)

StatementFits(st) == /\ Len(st.ext.ops) <= ByteMax
                     /\ Len(st.ext.path) <= ByteMax

Fits(b) ==
  /\ Distinct(b.plans) /\ Distinct(b.funcs)
  /\ b.query_plan <= SByteMax
  /\ \A i \in 1..Len(b.funcs) : /\ Len(b.funcs[i].path) <= ByteMax
                                /\ Len(b.funcs[i].params) <= ByteMax
  /\ \A k \in 1..Len(b.pool) :
       \A i \in 1..Len(b.pool[k]) : StatementFits(b.pool[k][i])
  /\ WithinLimits(b)

(***************************************************************************)
(* The forms are of the shape their names say.                             *)
(***************************************************************************)
TypeOK ==
  /\ form \in Forms
  /\ verdicts \subseteq {"accepted", "refused"}
  /\ form = "compiled" =>
       /\ bundle.locals \in Nat /\ bundle.strings \in Nat
       /\ bundle.query_plan \in -1..(Len(bundle.plans) - 1)
  /\ form \in {"tree", "compiled"} => Len(bundle.pool) = Len(origin.pool)

(***************************************************************************)
(* A bundle that fits keeps its program through every sequence of saves    *)
(* and loads, in either format: no image of it is garbled, none is refused *)
(* but for its payload (the bytes of its strings, its files, its data, its *)
(* size), no JSON of it lacks a member, and each slot the machine reads,   *)
(* each name and the query plan are what the first lowering made them.  It *)
(* is broken by one field written and read in different orders, under      *)
(* different names, or lowered to different slots.                         *)
(***************************************************************************)
ProgramKept ==
  Fits(FromNode(origin)) =>
    /\ form # "garbled"
    /\ form = "refused" => ~PayloadWithin(bundle.payload)
    /\ form = "compiled" => ProgramMeaning(bundle) = ProgramMeaning(FromNode(origin))

(***************************************************************************)
(* Once the check accepts a bundle, the machine stays inside its tables:   *)
(* every local it indexes is below the number of locals and every string   *)
(* below the number of strings, in each statement type's own reading of    *)
(* the slots (run_stmt indexes the frame and the strings unchecked).       *)
(***************************************************************************)
StatementInRange(st, b) ==
  /\ \A n \in LocalsUsed(st)  : n < b.locals
  /\ \A n \in StringsUsed(st) : n < b.strings

InRange(b) ==
  \A k \in 1..Len(b.pool) :
    \A i \in 1..Len(b.pool[k]) : StatementInRange(b.pool[k][i], b)

AcceptedIsInRange == form = "compiled" /\ Verify(bundle) => InRange(bundle)

(***************************************************************************)
(* No statement the machine runs, from whichever form it was loaded, has   *)
(* an operand the machine cannot unpack (unpack_operand throws on a number *)
(* or an empty slot).                                                      *)
(***************************************************************************)
OperandsUnpack ==
  form = "compiled" =>
    \A k \in 1..Len(bundle.pool) : \A i \in 1..Len(bundle.pool[k]) :
      \A op \in Unpacked(bundle.pool[k][i]) : WritableOperand(op)

(***************************************************************************)
(* The query of a bundle runs the plan of its name, and an entry point the *)
(* plan it names, in every compiled form of a bundle that fits.            *)
(***************************************************************************)
Named(plans, i, n) == i \in 0..(Len(plans) - 1) /\ plans[i + 1].name = n

PlansFound(b) ==
  /\ \A n \in DOMAIN b.plan_index : Named(b.plans, b.plan_index[n], n)
  /\ b.query_plan # NoPlan => Named(b.plans, b.query_plan, origin.query)

NamesFindTheirPlan ==
  form = "compiled" /\ Fits(FromNode(origin)) => PlansFound(bundle)

(***************************************************************************)
(* A bundle a machine has accepted is not refused after it was saved and   *)
(* loaded again, whatever its size.  Functions of one name are left out:   *)
(* a call is checked against the one the index has for the name, and the   *)
(* lowering and the reader disagree on which that is.                      *)
(***************************************************************************)
NeverRefusedLater ==
  [][(/\ Distinct(origin.funcs)
      /\ "accepted" \in verdicts /\ "refused" \notin verdicts)
       => "refused" \notin verdicts']_vars

(***************************************************************************)
(* Documented, and violated: the query that runs is the one that was set   *)
(* when the bundle was built (rego_c.h), so a query plan always has the    *)
(* name of the query.  Nothing keeps an entry point from being added       *)
(* twice.                                                                  *)
(***************************************************************************)
QueryRunsItsPlan ==
  form = "compiled" /\ bundle.query_plan # NoPlan
    => Named(bundle.plans, bundle.query_plan, origin.query)

(***************************************************************************)
(* Documented, and violated: the comment on MakeNumberRef says its operand *)
(* is a string index and not a local index, so the check's verdict would   *)
(* be the same for the lowered bundle, where the operand is an Index, and  *)
(* for the loaded one, where it is a String.                               *)
(***************************************************************************)
VerdictIsOne == verdicts # {"accepted", "refused"}
=============================================================================
