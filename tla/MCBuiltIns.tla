----------------------------- MODULE MCBuiltIns -----------------------------
(***************************************************************************)
(* Every modelled built-in function on small arguments, against what it    *)
(* promises.                                                               *)
(***************************************************************************)
EXTENDS BuiltInMeaning
LOCAL INSTANCE SequencesExt
LOCAL INSTANCE FiniteSetsExt
LOCAL INSTANCE TLC

CONSTANTS MaxText, MaxWhole   \* bounds on the texts and the integers

A == 97
B == 98

(***************************************************************************)
(* Arguments.                                                              *)
(***************************************************************************)
TextsOver(chars, max) == UNION {[1..n -> chars] : n \in 0..max}
Texts1 == TextsOver({A, B}, MaxText)
Strings == {Str(t) : t \in Texts1} \union {Computed(<<A>>), Computed(<<A, B>>)}
ShortStrings == {Str(t) : t \in TextsOver({A, B}, 2)} \union {Computed(<<A>>)}

Wholes == {Num(i) : i \in -3..MaxWhole} \union {Num(i) : i \in {-30, -12, 30, 36, 99, 100, 127}}
Words == {Num(i) : i \in {-128, -127, -5, -1, 0, 1, 2, 6, 85, 127}}
Floats == {Float(q) : q \in {-6, -2, 1, 2, 6, 7}}
Numbers == Wholes \union Floats

Digit1 == {Num(i) : i \in {1, 2, 9}}
Lists == {Arr(vs) : vs \in UNION {[1..n -> Digit1] : n \in 0..3}}
Sets == {MakeSet(SetToSeq(vs)) : vs \in SUBSET Digit1}
StringLists == {Arr(vs) : vs \in UNION {[1..n -> {Str(<<>>), Str(<<A>>), Computed(<<A, B>>)}] :
                                        n \in 0..2}}
SetsOfSets == {MakeSet(SetToSeq(ss)) : ss \in {ss \in SUBSET Sets : Cardinality(ss) <= 2}}

Field(c, v) == Entry(Str(<<c>>), v)
Objects == {Obj(<<>>), Obj(<<Field(A, Num(1))>>), Obj(<<Field(A, Num(2)), Field(B, Num(1))>>),
            Obj(<<Field(B, Arr(<<Num(1), Num(2)>>))>>),
            Obj(<<Field(A, Obj(<<Field(B, Num(1)), Field(A, Num(2))>>)), Field(B, Num(3))>>),
            Obj(<<Field(A, Obj(<<Field(B, Num(1))>>))>>)}
Documents == Objects \union Lists \union {MakeSet(<<Num(1), Num(2)>>), Arr(<<Arr(<<Num(1)>>), Num(2)>>)}
KeyLists == {Arr(ks) : ks \in UNION {[1..n -> {Str(<<A>>), Str(<<B>>), Num(0)}] : n \in 0..2}}
PathLists == {Arr(ps) : ps \in UNION {[1..n -> {Str(<<A>>), Str(<<A, Slash, B>>), Str(<<B, Slash, 48>>),
                                                Arr(<<Str(<<B>>), Num(1)>>), Computed(<<A>>), Arr(<<>>)}] :
                                   n \in 0..2}}
PathDocuments == Objects \union
  {Obj(<<Field(A, Num(3)), Field(B, v)>>) :
     v \in {MakeSet(<<Num(1), Num(2)>>), Arr(<<Arr(<<Num(1)>>), Obj(<<Field(A, Num(2))>>), Num(1)>>)}}

Vertex == {<<A>>, <<B>>, <<B + 1>>}
GraphsOf == {Obj([i \in 1..3 |-> LET v == InTextOrder(DOMAIN g)[i]
                                 IN Entry(Str(v), Arr([j \in 1..Cardinality(g[v]) |->
                                                        Str(InTextOrder(g[v])[j])]))]) :
             g \in [Vertex -> SUBSET Vertex]}
           \union {Obj(<<Entry(Str(<<A>>), Arr(<<Str(<<B>>), Str(<<B + 1>>)>>)),
                         Entry(Str(<<B>>), Arr(<<Str(<<A>>)>>))>>)}
Starts == {Arr(<<>>), Arr(<<Str(<<A>>)>>), Arr(<<Str(<<B>>), Str(<<A>>)>>)}

\* Glob patterns as sequences of tokens, no wildcard behind another one.
Token == {<<A>>, <<Dot>>, <<Star>>, <<Star, Star>>, <<Question>>, <<LBracket, A, Dash, B, RBracket>>,
          <<LBracket, Bang, A, RBracket>>, <<LBrace, A, Comma, A, B, RBrace>>}
Wild == {<<Star>>, <<Star, Star>>}
TokenLists == {ts \in UNION {[1..n -> Token] : n \in 0..2} : Len(ts) = 2 => ~({ts[1], ts[2]} \subseteq Wild)}
GlobTexts == {Str(t) : t \in TextsOver({A, B, Dot}, MaxText)}

Number1 == {<<48>>, <<49>>, <<50>>, <<49, 48>>}
Versions == {Str(a \o <<Dot>> \o b \o <<Dot>> \o c) : a, b \in {<<48>>, <<49>>}, c \in Number1}
              \union {Str(<<49, Dot, 48, Dot, 48, Dash, A>>), Str(<<49, Dot, 48>>), Str(<<A>>)}
Amounts == {Str(<<49, 48>> \o u) : u \in {<<>>, <<107>>, <<75, 105>>, <<77>>, <<109>>, <<100>>, <<98>>,
                                          <<77, 66>>, <<101>>, <<101, 51>>, <<32>>}}
             \union {Str(<<>>), Str(<<49, Dot, 53, 107>>), Str(<<A>>)}

Formats == {Str(<<Percent, 115>>), Str(<<A, Percent, 118, B>>), Str(<<Percent, 100, Percent, Percent>>),
            Str(<<Percent, 116, Percent>>), Str(<<A>>)}
             \union {Str(<<Percent, verb>>) : verb \in {120, 88, 111, 79, 101, 69, 102, 103, 71, 122}}
Anything == {Null, Bool(TRUE), Num(2), Float(6), Str(<<A>>), Computed(<<A>>), Arr(<<Num(1)>>),
             MakeSet(<<Num(1)>>), Obj(<<Field(A, Num(1))>>), Err("eval")}

Tuples1(s) == {<<x>> : x \in s}
ShortWholes == {Num(i) : i \in -2..3}

(***************************************************************************)
(* The arguments of each function.                                         *)
(***************************************************************************)
CoreArgs(n) ==
  CASE n \in {"count", "max", "min", "sort"} -> Tuples1(Lists \union Sets \union Objects \union ShortStrings)
    [] n \in {"sum", "product"} -> Tuples1(Lists \union Sets)
    [] n \in {"equal", "gt", "gte", "lt", "lte", "neq"} -> Numbers \X Numbers \union Anything \X Anything
    [] n \in {"plus", "minus", "mul", "rem"} -> Wholes \X Wholes
    [] n = "div" -> Wholes \X {Num(i) : i \in {-2, 0, 1, 2, 4}}
    [] n \in {"abs", "ceil", "floor", "round"} -> Tuples1(Numbers)
    [] n = "to_number" -> Tuples1(Anything \union {Str(<<49, 50>>), Computed(<<Dash, 53>>), Str(<<53, A>>)})
    [] n = "walk" -> Tuples1(Documents)
    [] n \in {"and", "or"} -> Sets \X Sets
    [] n \in {"intersection", "union"} -> Tuples1(SetsOfSets)
    [] n = "concat" -> ShortStrings \X StringLists
    [] n \in {"startswith", "endswith", "contains", "indexof", "indexof_n", "trim", "trim_left",
              "trim_right", "trim_prefix", "trim_suffix", "split"} -> Strings \X ShortStrings
    [] n \in {"lower", "upper", "trim_space"} -> Tuples1(Strings \union {Str(<<65, 32, A, 10>>)})
    [] n = "replace" -> Strings \X ShortStrings \X ShortStrings
    [] n = "substring" -> Strings \X ShortWholes \X ShortWholes
    [] n = "format_int" -> Words \X {Num(2), Num(8), Num(10), Num(16), Num(3)}
    [] n = "sprintf" -> Formats \X {Arr(<<v>>) : v \in {Str(<<A>>), Computed(<<A>>), Num(10), Num(-1),
                                                              Num(0), Float(6), Float(-1), Bool(FALSE)}}
    [] OTHER -> Tuples1(Anything)

FamilyArgs(f, n) ==
  CASE f = "strings" -> (CASE n = "replace_n" -> Objects \X Strings \union
                                {Obj(<<Field(A, Str(<<B>>)), Field(B, Str(t))>>) : t \in {<<A>>, <<>>}} \X Strings
                           [] n = "reverse" -> Tuples1(Strings)
                           [] n = "count" -> Strings \X ShortStrings
                           [] OTHER -> (ShortStrings \union StringLists) \X (ShortStrings \union StringLists))
    [] f = "array"   -> (CASE n = "concat" -> Lists \X Lists
                           [] n = "slice" -> Lists \X ShortWholes \X ShortWholes
                           [] OTHER -> Tuples1(Lists \union Documents))
    [] f = "object"  -> (CASE n \in {"filter", "remove"} -> Objects \X (KeyLists \union Objects)
                           [] n = "get" -> Objects \X (KeyLists \union {Str(<<A>>)}) \X {Null}
                           [] n = "keys" -> Tuples1(Objects)
                           [] n = "subset" -> Documents \X Documents
                           [] n = "union" -> Objects \X Objects
                           [] n = "union_n" -> {<<Arr(<<x, y>>)>> : x, y \in Objects})
    [] f = "graph"   -> GraphsOf \X Starts
    [] f = "json"    -> PathDocuments \X PathLists
    [] f = "bits"    -> (CASE n = "negate" -> Tuples1(Words)
                           [] n \in {"lsh", "rsh"} -> Words \X {Num(i) : i \in 0..8}
                           [] OTHER -> Words \X Words)
    [] f = "numbers" -> IF n = "range" THEN ShortWholes \X ShortWholes
                        ELSE ShortWholes \X ShortWholes \X {Num(i) : i \in 0..2}
    [] f = "glob"    -> IF n = "match" THEN {Str(FlattenSeq(ts)) : ts \in TokenLists}
                                              \X {Null, Arr(<<>>)} \X GlobTexts
                        ELSE {<<Str(FlattenSeq(ts))>> : ts \in TokenLists}
    [] f = "semver"  -> IF n = "compare" THEN Versions \X Versions ELSE Tuples1(Versions \union Anything)
    [] f = "units"   -> Tuples1(Amounts)

ArgsOf(name) == IF name[1] = "" THEN CoreArgs(name[2]) ELSE FamilyArgs(name[1], name[2])

Unknown == <<"", "none">>
MCCalls == [name \in Names \union {Unknown} |->
              IF name = Unknown THEN Tuples1(Anything) ELSE ArgsOf(name)]

\* A pattern of tokens matches a text that can be cut into what they match.
GlobsAgree ==
  Ran("glob", "match") =>
    LET tokens == CHOOSE ts \in TokenLists : FlattenSeq(ts) = S(1)
    IN result = Bool(TokensMatch(tokens, S(3), IF Arg(2) = Null THEN {} ELSE {Dot}))

\* Patterns, versions and amounts are read the way their languages say.
PatternsAgree == GlobsAgree /\ VersionsAgree /\ UnitsAgree
=============================================================================
