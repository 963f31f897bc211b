----------------------------- MODULE BundleJson -----------------------------
(***************************************************************************)
(* The JSON form of a bundle: data.json and plan.json (bundle_json.cc).    *)
(*                                                                         *)
(* A statement is an object that names its type and has a member for each  *)
(* field of the tree.  The rewriter that writes it and the rewriter that   *)
(* reads it each name the members of every statement on their own, so they *)
(* are given here as two tables from the fields of a statement to the      *)
(* names of the members.  The object of a statement is a function from     *)
(* member names to values; a missing member fails the load.  What the      *)
(* values look like in text, and the place of a statement in its source    *)
(* file, are left out.                                                     *)
(***************************************************************************)
EXTENDS BundleIR

(***************************************************************************)
(* bundle_to_json: the members written for each statement.                 *)
(***************************************************************************)
Bin == [Lhs |-> "a", Rhs |-> "b"]
Insert == [Key |-> "key", Val |-> "value", Object |-> "object"]
Source == [Src |-> "source"]
SourceTarget == [Src |-> "source", Target |-> "target"]
TargetOnly == [Target |-> "target"]
ValueTarget == [Val |-> "value", Target |-> "target"]

WriteKeysToCall ==
  [ ArrayAppend |-> [Array |-> "array", Val |-> "value"],
    AssignInt |-> ValueTarget,
    AssignVarOnce |-> SourceTarget,
    AssignVar |-> SourceTarget,
    Block |-> [Blocks |-> "blocks"],
    Break |-> [Idx |-> "index"],
    CallDynamic |-> [Path |-> "path", Args |-> "args", Result |-> "result"],
    Call |-> [Func |-> "func", Args |-> "args", Result |-> "result"] ]

WriteKeysToLen ==
  [ Dot |-> [Src |-> "source", Key |-> "key", Target |-> "target"],
    Equal |-> Bin,
    IsArray |-> Source, IsDefined |-> Source, IsObject |-> Source,
    IsSet |-> Source, IsUndefined |-> Source,
    Len |-> SourceTarget ]

WriteKeysToNot ==
  [ MakeArray |-> [Capacity |-> "capacity", Target |-> "target"],
    MakeNull |-> TargetOnly,
    MakeNumberInt |-> ValueTarget,
    MakeNumberRef |-> [Idx |-> "index", Target |-> "target"],
    MakeObject |-> TargetOnly, MakeSet |-> TargetOnly,
    NotEqual |-> Bin,
    Not |-> [Block |-> "block"] ]

WriteKeysToWith ==
  [ ObjectInsertOnce |-> Insert, ObjectInsert |-> Insert,
    ObjectMerge |-> [Lhs |-> "a", Rhs |-> "b", Target |-> "target"],
    ResetLocal |-> TargetOnly,
    ResultSetAdd |-> [Val |-> "value"],
    ReturnLocal |-> Source,
    Scan |-> [Src |-> "source", Key |-> "key", Val |-> "value", Block |-> "block"],
    SetAdd |-> [Val |-> "value", Set |-> "set"],
    With |-> [LocalIndex |-> "local", Path |-> "path", Val |-> "value",
              Block |-> "block"] ]

WriteKeys(t) ==
  CASE t \in DOMAIN WriteKeysToCall -> WriteKeysToCall[t]
    [] t \in DOMAIN WriteKeysToLen  -> WriteKeysToLen[t]
    [] t \in DOMAIN WriteKeysToNot  -> WriteKeysToNot[t]
    [] OTHER                        -> WriteKeysToWith[t]

(***************************************************************************)
(* json_to_bundle: the member each field of a statement is looked up under.*)
(* The index of a local may also be checked to be a number there and an    *)
(* operand to be an operand; both hold of what the writer writes.          *)
(***************************************************************************)
ReadKeysToCall ==
  [ ArrayAppend |-> [Array |-> "array", Val |-> "value"],
    AssignInt |-> [Val |-> "value", Target |-> "target"],
    AssignVarOnce |-> [Src |-> "source", Target |-> "target"],
    AssignVar |-> [Src |-> "source", Target |-> "target"],
    Block |-> [Blocks |-> "blocks"],
    Break |-> [Idx |-> "index"],
    CallDynamic |-> [Path |-> "path", Args |-> "args", Result |-> "result"] ]

ReadKeysToLen ==
  [ Call |-> [Func |-> "func", Args |-> "args", Result |-> "result"],
    Dot |-> [Src |-> "source", Key |-> "key", Target |-> "target"],
    Equal |-> [Lhs |-> "a", Rhs |-> "b"],
    IsArray |-> Source, IsDefined |-> Source, IsObject |-> Source,
    IsSet |-> Source, IsUndefined |-> Source,
    Len |-> [Src |-> "source", Target |-> "target"] ]

ReadKeysToNot ==
  [ MakeArray |-> [Capacity |-> "capacity", Target |-> "target"],
    MakeNull |-> TargetOnly,
    MakeNumberInt |-> [Val |-> "value", Target |-> "target"],
    MakeNumberRef |-> [Idx |-> "index", Target |-> "target"],
    MakeObject |-> TargetOnly, MakeSet |-> TargetOnly,
    NotEqual |-> [Lhs |-> "a", Rhs |-> "b"],
    Not |-> [Block |-> "block"] ]

ReadKeysToReturn ==
  [ ObjectInsertOnce |-> [Key |-> "key", Val |-> "value", Object |-> "object"],
    ObjectInsert |-> [Key |-> "key", Val |-> "value", Object |-> "object"],
    ObjectMerge |-> [Lhs |-> "a", Rhs |-> "b", Target |-> "target"],
    ResetLocal |-> TargetOnly,
    ResultSetAdd |-> [Val |-> "value"],
    ReturnLocal |-> Source ]

ReadKeysToWith ==
  [ Scan |-> [Src |-> "source", Key |-> "key", Val |-> "value", Block |-> "block"],
    SetAdd |-> [Val |-> "value", Set |-> "set"],
    With |-> [LocalIndex |-> "local", Path |-> "path", Val |-> "value",
              Block |-> "block"] ]

ReadKeys(t) ==
  CASE t \in DOMAIN ReadKeysToCall   -> ReadKeysToCall[t]
    [] t \in DOMAIN ReadKeysToLen    -> ReadKeysToLen[t]
    [] t \in DOMAIN ReadKeysToNot    -> ReadKeysToNot[t]
    [] t \in DOMAIN ReadKeysToReturn -> ReadKeysToReturn[t]
    [] OTHER                         -> ReadKeysToWith[t]

(***************************************************************************)
(* One statement.                                                          *)
(***************************************************************************)
Members(keys) == {keys[x] : x \in DOMAIN keys}

StatementToJson(s) ==
  LET keys == WriteKeys(s.type)
  IN  [type |-> s.type,
       stmt |-> [k \in Members(keys) |->
                   s.f[CHOOSE x \in DOMAIN keys : keys[x] = k]]]

Complete(o) == Members(ReadKeys(o.type)) \subseteq DOMAIN o.stmt

StatementFromJson(o) ==
  [type |-> o.type,
   f    |-> [x \in DOMAIN ReadKeys(o.type) |-> o.stmt[ReadKeys(o.type)[x]]]]

PoolToJson(pool) ==
  [b \in 1..Len(pool) |-> [i \in 1..Len(pool[b]) |-> StatementToJson(pool[b][i])]]

PoolFromJson(pool) ==
  [b \in 1..Len(pool) |-> [i \in 1..Len(pool[b]) |-> StatementFromJson(pool[b][i])]]

(***************************************************************************)
(* The policy.  The member query is written only when the policy has a     *)
(* query; the reader leaves the query undefined when there is no such      *)
(* member.                                                                 *)
(***************************************************************************)
NoQuery == ""

PolicyToJson(tree) ==
  [strings |-> tree.strings,
   plans   |-> tree.plans,
   funcs   |-> tree.funcs,
   query   |-> IF tree.query = NoQuery THEN {} ELSE {tree.query},
   pool    |-> PoolToJson(tree.pool)]

Loadable(json) ==
  \A b \in 1..Len(json.pool) :
    \A i \in 1..Len(json.pool[b]) : Complete(json.pool[b][i])

PolicyFromJson(json) ==
  [strings |-> json.strings,
   plans   |-> json.plans,
   funcs   |-> json.funcs,
   query   |-> IF json.query = {} THEN NoQuery ELSE CHOOSE q \in json.query : TRUE,
   pool    |-> PoolFromJson(json.pool)]
=============================================================================
