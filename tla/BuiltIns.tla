------------------------------ MODULE BuiltIns ------------------------------
(***************************************************************************)
(* Calling a built-in function (BuiltInsDef::call): the function is looked *)
(* up by its name, the number of arguments is compared with its            *)
(* declaration, an argument that is an error is the result, and an error   *)
(* of the function is one of the query only when errors are strict.        *)
(*                                                                         *)
(* A function keeps no state: the machine calls one with some arguments    *)
(* and drops the result again.                                             *)
(***************************************************************************)
EXTENDS PatternBuiltIns, CollectionBuiltIns, BuiltInLookup
LOCAL INSTANCE TLC

CONSTANT Calls      \* for each name that is called, the arguments it is called with

\* What the placeholders in the place of unsupported functions declare.
Placeholder == [json |-> Sig(<<AnyType, AnyType>>, AnyType),
                template |-> Sig(<<StringType, ObjectType>>, StringType)]

CoreDecls ==
  "count" :> CountDecl @@ "max" :> MaxDecl @@ "min" :> MinDecl @@ "sort" :> SortDecl
  @@ "sum" :> SumDecl @@ "product" :> ProductDecl @@ "equal" :> EqualDecl @@ "gt" :> GtDecl
  @@ "gte" :> GteDecl @@ "lt" :> LtDecl @@ "lte" :> LteDecl @@ "neq" :> NeqDecl
  @@ "to_number" :> ToNumberDecl @@ "walk" :> WalkDecl @@ "abs" :> AbsDecl @@ "ceil" :> CeilDecl
  @@ "floor" :> FloorDecl @@ "round" :> RoundDecl @@ "plus" :> PlusDecl @@ "minus" :> MinusDecl
  @@ "mul" :> MulDecl @@ "div" :> DivDecl @@ "rem" :> RemDecl @@ "and" :> AndDecl
  @@ "or" :> OrDecl @@ "intersection" :> IntersectionDecl @@ "union" :> UnionDecl
  @@ "concat" :> ConcatDecl @@ "startswith" :> StartswithDecl @@ "endswith" :> EndswithDecl
  @@ "contains" :> ContainsDecl @@ "format_int" :> FormatIntDecl @@ "indexof" :> IndexofDecl
  @@ "indexof_n" :> IndexofNDecl @@ "lower" :> LowerDecl @@ "upper" :> UpperDecl
  @@ "replace" :> ReplaceDecl @@ "split" :> SplitDecl @@ "sprintf" :> SprintfDecl
  @@ "substring" :> SubstringDecl @@ "trim" :> TrimDecl @@ "trim_left" :> TrimLeftDecl
  @@ "trim_right" :> TrimRightDecl @@ "trim_space" :> TrimSpaceDecl
  @@ "trim_prefix" :> TrimPrefixDecl @@ "trim_suffix" :> TrimSuffixDecl
  @@ [type \in {"is_array", "is_boolean", "is_null", "is_number", "is_object", "is_set",
                "is_string"} |-> IsDecl]
  @@ "type_name" :> TypeNameDecl

FamilyDecls ==
  [strings |-> "count" :> StringsCountDecl @@ "any_prefix_match" :> AnyPrefixMatchDecl
               @@ "any_suffix_match" :> AnySuffixMatchDecl @@ "replace_n" :> ReplaceNDecl
               @@ "reverse" :> ReverseDecl @@ "render_template" :> Placeholder.template,
   array   |-> "concat" :> ArrayConcatDecl @@ "flatten" :> ArrayFlattenDecl
               @@ "reverse" :> ArrayReverseDecl @@ "slice" :> ArraySliceDecl,
   object  |-> "filter" :> ObjectFilterDecl @@ "get" :> ObjectGetDecl @@ "keys" :> ObjectKeysDecl
               @@ "remove" :> ObjectRemoveDecl @@ "subset" :> ObjectSubsetDecl
               @@ "union" :> ObjectUnionDecl @@ "union_n" :> ObjectUnionNDecl,
   graph   |-> "reachable" :> ReachableDecl @@ "reachable_paths" :> ReachablePathsDecl,
   json    |-> "filter" :> JsonFilterDecl @@ "remove" :> JsonRemoveDecl
               @@ "match_schema" :> Placeholder.json,
   bits    |-> "and" :> BitAndDecl @@ "lsh" :> LshDecl @@ "negate" :> BitNegateDecl
               @@ "or" :> BitOrDecl @@ "rsh" :> RshDecl @@ "xor" :> BitXorDecl,
   numbers |-> "range" :> RangeDecl @@ "range_step" :> RangeStepDecl,
   glob    |-> "match" :> GlobMatchDecl @@ "quote_meta" :> QuoteMetaDecl,
   semver  |-> "compare" :> SemverCompareDecl @@ "is_valid" :> SemverIsValidDecl,
   units   |-> "parse" :> UnitsParseDecl @@ "parse_bytes" :> UnitsParseBytesDecl]

Names == {<<"", n>> : n \in DOMAIN CoreDecls}
           \union UNION {{<<f, n>> : n \in DOMAIN FamilyDecls[f]} : f \in DOMAIN FamilyDecls}
DeclOf(name) == IF name[1] = "" THEN CoreDecls[name[2]] ELSE FamilyDecls[name[1]][name[2]]

CoreResult(n, a) ==
  CASE n = "count" -> Count(a[1]) [] n = "max" -> MaxOf(a[1]) [] n = "min" -> MinOf(a[1])
    [] n = "sort" -> Sort(a[1]) [] n = "sum" -> SumOf(a[1]) [] n = "product" -> ProductOf(a[1])
    [] n = "equal" -> Equal(a[1], a[2]) [] n = "gt" -> Gt(a[1], a[2])
    [] n = "gte" -> Gte(a[1], a[2]) [] n = "lt" -> Lt(a[1], a[2]) [] n = "lte" -> Lte(a[1], a[2])
    [] n = "neq" -> Neq(a[1], a[2]) [] n = "to_number" -> ToNumber(a[1]) [] n = "walk" -> Walk(a[1])
    [] n = "abs" -> Abs(a[1]) [] n = "ceil" -> Ceil(a[1]) [] n = "floor" -> Floor(a[1])
    [] n = "round" -> Round(a[1]) [] n = "plus" -> PlusB(a[1], a[2])
    [] n = "minus" -> MinusB(a[1], a[2]) [] n = "mul" -> Mul(a[1], a[2])
    [] n = "div" -> Div(a[1], a[2]) [] n = "rem" -> Rem(a[1], a[2]) [] n = "and" -> And(a[1], a[2])
    [] n = "or" -> Or(a[1], a[2]) [] n = "intersection" -> IntersectionOf(a[1])
    [] n = "union" -> UnionOf(a[1]) [] n = "concat" -> Concat(a[1], a[2])
    [] n = "startswith" -> Startswith(a[1], a[2]) [] n = "endswith" -> Endswith(a[1], a[2])
    [] n = "contains" -> ContainsText(a[1], a[2]) [] n = "format_int" -> FormatInt(a[1], a[2])
    [] n = "indexof" -> Indexof(a[1], a[2]) [] n = "indexof_n" -> IndexofN(a[1], a[2])
    [] n = "lower" -> Lower(a[1]) [] n = "upper" -> Upper(a[1])
    [] n = "replace" -> Replace(a[1], a[2], a[3]) [] n = "split" -> Split(a[1], a[2])
    [] n = "sprintf" -> Sprintf(a[1], a[2]) [] n = "substring" -> Substring(a[1], a[2], a[3])
    [] n = "trim" -> TrimB(a[1], a[2]) [] n = "trim_left" -> TrimLeft(a[1], a[2])
    [] n = "trim_right" -> TrimRight(a[1], a[2]) [] n = "trim_space" -> TrimSpace(a[1])
    [] n = "trim_prefix" -> TrimPrefix(a[1], a[2]) [] n = "trim_suffix" -> TrimSuffix(a[1], a[2])
    [] n = "is_array" -> IsArray(a[1]) [] n = "is_boolean" -> IsBoolean(a[1])
    [] n = "is_null" -> IsNull(a[1]) [] n = "is_number" -> IsNumber(a[1])
    [] n = "is_object" -> IsObject(a[1]) [] n = "is_set" -> IsSet(a[1])
    [] n = "is_string" -> IsString(a[1]) [] n = "type_name" -> TypeName(a[1])

FamilyResult(f, n, a) ==
  CASE f = "strings" -> (CASE n = "count" -> StringsCount(a[1], a[2])
                           [] n = "any_prefix_match" -> AnyPrefixMatch(a[1], a[2])
                           [] n = "any_suffix_match" -> AnySuffixMatch(a[1], a[2])
                           [] n = "replace_n" -> ReplaceN(a[1], a[2])
                           [] n = "reverse" -> ReverseB(a[1])
                           [] OTHER -> Err("builtin"))
    [] f = "array"   -> (CASE n = "concat" -> ArrayConcat(a[1], a[2])
                           [] n = "flatten" -> ArrayFlatten(a[1])
                           [] n = "reverse" -> ArrayReverse(a[1])
                           [] n = "slice" -> ArraySlice(a[1], a[2], a[3]))
    [] f = "object"  -> (CASE n = "filter" -> ObjectFilter(a[1], a[2])
                           [] n = "get" -> ObjectGet(a[1], a[2], a[3])
                           [] n = "keys" -> ObjectKeys(a[1])
                           [] n = "remove" -> ObjectRemove(a[1], a[2])
                           [] n = "subset" -> ObjectSubsetB(a[1], a[2])
                           [] n = "union" -> ObjectUnion(a[1], a[2])
                           [] n = "union_n" -> ObjectUnionN(a[1]))
    [] f = "graph"   -> IF n = "reachable" THEN Reachable(a[1], a[2]) ELSE ReachablePaths(a[1], a[2])
    [] f = "json"    -> (CASE n = "filter" -> JsonFilter(a[1], a[2])
                           [] n = "remove" -> JsonRemove(a[1], a[2])
                           [] OTHER -> Err("builtin"))
    [] f = "bits"    -> (CASE n = "and" -> BitAnd(a[1], a[2]) [] n = "or" -> BitOr(a[1], a[2])
                           [] n = "xor" -> BitXor(a[1], a[2]) [] n = "negate" -> BitNegate(a[1])
                           [] n = "lsh" -> Lsh(a[1], a[2]) [] n = "rsh" -> Rsh(a[1], a[2]))
    [] f = "numbers" -> IF n = "range" THEN NumbersRange(a[1], a[2])
                        ELSE NumbersRangeStep(a[1], a[2], a[3])
    [] f = "glob"    -> IF n = "match" THEN GlobMatch(a[1], a[2], a[3]) ELSE QuoteMeta(a[1])
    [] f = "semver"  -> IF n = "compare" THEN SemverCompare(a[1], a[2]) ELSE SemverIsValid(a[1])
    [] f = "units"   -> IF n = "parse" THEN UnitsParse(a[1]) ELSE UnitsParseBytes(a[1])

Behavior(name, a) ==
  IF name[1] = "" THEN CoreResult(name[2], a) ELSE FamilyResult(name[1], name[2], a)

(***************************************************************************)
(* A call.                                                                 *)
(***************************************************************************)
Arity(name) == Len(DeclOf(name).args)

\* The names is_deprecated refuses, in every version of the language.
Deprecated == {<<"", "any">>, <<"", "all">>, <<"", "re_match">>, <<"net", "cidr_overlap">>,
               <<"", "set_diff">>, <<"", "cast_array">>, <<"", "cast_set">>, <<"", "cast_string">>,
               <<"", "cast_boolean">>, <<"", "cast_null">>, <<"", "cast_object">>}

Reported(result, strict) == IF IsErr(result) /\ ~strict THEN Undefined ELSE result

CallBuiltIn(name, args, strict) ==
  IF ~Found(name) THEN Err("unknown")
  ELSE IF name \in Deprecated THEN Err("type")
  ELSE IF Arity(name) # Len(args) THEN Err("arity")
  ELSE IF \E i \in DOMAIN args : IsErr(args[i]) THEN FirstError(args)
  ELSE Reported(Behavior(name, args), strict)

VARIABLES
  call,     \* the call made, or NoCall
  result    \* what it returned
vars == <<call, result>>

NoCall == [name |-> <<>>]

Init == call = NoCall /\ result = Undefined

Call ==
  /\ call = NoCall
  /\ \E name \in DOMAIN Calls, strict \in BOOLEAN : \E args \in Calls[name] :
       /\ call' = [name |-> name, args |-> args, strict |-> strict]
       /\ result' = CallBuiltIn(name, args, strict)

Drop ==
  /\ call # NoCall
  /\ call' = NoCall
  /\ result' = Undefined

Next == Call \/ Drop
Spec == Init /\ [][Next]_vars
=============================================================================
