---------------------------- MODULE BuiltInMeaning ----------------------------
(***************************************************************************)
(* What the built-in functions promise, said without the algorithms that   *)
(* compute it: numbers are integers, strings are sequences, sets are sets, *)
(* reachability is the smallest closed set, a glob is a language.          *)
(*                                                                         *)
(* The properties are about one call and its result.  Where the code is    *)
(* known to do something else the case is excluded by a named operator     *)
(* with a comment; README.md lists these.                                  *)
(***************************************************************************)
EXTENDS BuiltIns
LOCAL INSTANCE SequencesExt
LOCAL INSTANCE FiniteSetsExt
LOCAL INSTANCE TLC

\* The call is one of the function name, and its result that of the function.
Ran(family, name) == call # NoCall /\ call.name = <<family, name>> /\ call.strict
RanOne(family, names) == \E name \in names : Ran(family, name)
Arg(i) == call.args[i]
IsWholeArgs == \A i \in DOMAIN call.args : call.args[i].k = "int"
I(i) == ToInt(Arg(i).n)
S(i) == Arg(i).s
Gives(v) == SameKey(result, v)
Mag(i) == IF i < 0 THEN -i ELSE i

(***************************************************************************)
(* Numbers.                                                                *)
(***************************************************************************)
\* Long division keeps the zero of a remainder that has become zero in front
\* of the next digit: the remainder is only right while that does not happen.
DividesAPrefix(x, y) ==
  \E n \in 1..(Len(FromInt(x).digits) - 1) :
    Magnitude(SubSeq(FromInt(x).digits, 1, n)) % Mag(y) = 0

TruncatedRemainder(x, y) == IF x < 0 THEN -(Mag(x) % Mag(y)) ELSE x % Mag(y)

\* Sums, differences and products of decimal texts are those of the integers
\* they denote, and come out as the text such an integer is printed as.
ArithmeticIsExact ==
  /\ Ran("", "plus")  => Gives(Num(I(1) + I(2)))
  /\ Ran("", "minus") => Gives(Num(I(1) - I(2)))
  /\ Ran("", "mul")   => Gives(Num(I(1) * I(2)))
  /\ Ran("", "rem") /\ I(2) = 0 => IsErr(result)
  /\ Ran("", "rem") /\ I(2) # 0 /\ ~DividesAPrefix(I(1), I(2))
       => Gives(Num(TruncatedRemainder(I(1), I(2))))

\* Rounding: down, up, and to the nearest with halves away from zero.
RoundingIsNearest ==
  LET q == Double(Arg(1))
      r == Double(result)
  IN /\ Ran("", "floor") => r % 4 = 0 /\ r <= q /\ q < r + 4
     /\ Ran("", "ceil")  => r % 4 = 0 /\ q <= r /\ r < q + 4
     /\ Ran("", "round") => r % 4 = 0 /\ 2 * Mag(r - q) <= 4 /\ (Mag(r - q) = 2 => Mag(r) > Mag(q))

\* and, or, xor and negate are tied to one another by x + y = (x & y) + (x | y).
WordsAreTwosComplement ==
  /\ Ran("bits", "and") => ToInt(result.n) + ToInt(BitOr(Arg(1), Arg(2)).n) = I(1) + I(2)
  /\ Ran("bits", "xor") => ToInt(result.n) = ToInt(BitOr(Arg(1), Arg(2)).n)
                                              - ToInt(BitAnd(Arg(1), Arg(2)).n)
  /\ Ran("bits", "negate") => ToInt(result.n) = -I(1) - 1
  /\ Ran("bits", "lsh") /\ I(2) < WordBits - 1 => Gives(Num(I(1) * 2^I(2)))
  /\ Ran("bits", "rsh") /\ I(2) < WordBits => Gives(Num(I(1) \div 2^I(2)))

\* A range runs from its first to its last number, in steps, and never past it.
RangesAreComplete ==
  LET step == IF call.name[2] = "range" THEN 1 ELSE I(3)
      n == (Mag(I(2) - I(1)) \div step) + 1
  IN RanOne("numbers", {"range", "range_step"}) /\ step > 0
       => Gives(Arr([i \in 1..n |-> Num(IF I(1) <= I(2) THEN I(1) + (i - 1) * step
                                        ELSE I(1) - (i - 1) * step)]))

\* The six comparisons of two values are those of one order.
ComparisonsAgree ==
  RanOne("", {"equal", "neq", "lt", "lte", "gt", "gte"}) /\ ~IsErr(result) =>
    LET holds == {op \in {"=", "<", ">"} : BoolInfix(op, Arg(1), Arg(2)) = Bool(TRUE)}
        allowed == CASE call.name[2] = "equal" -> {"="} [] call.name[2] = "neq" -> {"<", ">"}
                     [] call.name[2] = "lt" -> {"<"} [] call.name[2] = "lte" -> {"<", "="}
                     [] call.name[2] = "gt" -> {">"} [] call.name[2] = "gte" -> {">", "="}
    IN /\ Cardinality(holds) = 1
       /\ result = Bool(holds \subseteq allowed)
       /\ {Arg(1).k, Arg(2).k} \subseteq NumberKinds =>
            holds = {IF Double(Arg(1)) < Double(Arg(2)) THEN "<"
                     ELSE IF Double(Arg(1)) = Double(Arg(2)) THEN "=" ELSE ">"}

\* The arithmetic, bit, range and comparison functions compute with integers:
\* signs, carries, leading zeros and two's complement never show.
NumbersAgree ==
  /\ ArithmeticIsExact
  /\ RoundingIsNearest
  /\ WordsAreTwosComplement
  /\ RangesAreComplete
  /\ ComparisonsAgree

\* The documented remainder (rego.hh: "The remainder of the two BigInts.").
RemainderIsExact ==
  Ran("", "rem") /\ I(2) # 0 => Gives(Num(TruncatedRemainder(I(1), I(2))))

(***************************************************************************)
(* Texts.                                                                  *)
(***************************************************************************)
Occurs(s, p) == {i \in 1..(Len(s) + 1) : \E rest \in {From(s, i)} : StartsWith(rest, p)}
TextsOf(v) == [i \in DOMAIN Members(v) |-> Members(v)[i].s]

\* split and concat undo one another, replace is splitting at the old text and
\* joining with the new one, and count counts the cuts.  A text is not cut at
\* the empty text: replace does not return then.
CutsAndJoins ==
  /\ Ran("", "split") /\ S(2) # <<>> =>
       /\ Join(TextsOf(result), S(2)) = S(1)
       /\ \A i \in DOMAIN TextsOf(result) : Occurs(TextsOf(result)[i], S(2)) = {}
  /\ Ran("", "concat") /\ S(1) # <<>> /\ Members(Arg(2)) # <<>> =>
       LET parts == TextsOf(Arg(2))
       IN (\A i \in DOMAIN parts : \A j \in DOMAIN parts[i] : parts[i][j] \notin Range(S(1)))
            => TextsOf(Split(Str(result.s), Arg(1))) = parts
  /\ Ran("", "replace") /\ S(2) # <<>> =>
       result.k = "string" /\ result.s = Join(TextsOf(Split(Arg(1), Arg(2))), S(3))
  /\ Ran("strings", "count") /\ S(2) # <<>> =>
       ToInt(result.n) = Len(TextsOf(Split(Arg(1), Arg(2)))) - 1

\* The searching functions see the same occurrences.
SearchesAgree ==
  LET places == Occurs(S(1), S(2))
      first == IF places = {} THEN -1 ELSE Min(places) - 1
  IN /\ Ran("", "contains") => result = Bool(places # {})
     /\ Ran("", "indexof") => Gives(Num(first))
     /\ Ran("", "indexof_n") =>
          /\ {ToInt(v.n) : v \in Range(result.items)} = {i - 1 : i \in places}
          /\ \A i \in 2..Len(result.items) : Less(result.items[i - 1].n, result.items[i].n)
     /\ Ran("", "startswith") => result = Bool(1 \in places)
     /\ Ran("", "endswith") => result = Bool(\E rest \in {SubSeq(S(1), 1, Len(S(1)) - Len(S(2)))} :
                                              Len(S(2)) <= Len(S(1)) /\ rest \o S(2) = S(1))

\* A trimmed text is the longest part whose ends are not in the cut set.
TrimsAreTight ==
  LET left == call.name[2] \in {"trim", "trim_left"}
      right == call.name[2] \in {"trim", "trim_right"}
      Cut(c) == c \in Range(S(2))
  IN /\ RanOne("", {"trim", "trim_left", "trim_right"}) =>
          \E a, b \in 0..Len(S(1)) :
            /\ a + b <= Len(S(1))
            /\ result.s = SubSeq(S(1), a + 1, Len(S(1)) - b)
            /\ \A i \in 1..a : Cut(S(1)[i])
            /\ \A i \in (Len(S(1)) - b + 1)..Len(S(1)) : Cut(S(1)[i])
            /\ left /\ result.s # <<>> => ~Cut(result.s[1])
            /\ right /\ result.s # <<>> => ~Cut(Last(result.s))
            /\ ~left => a = 0 \/ result.s = <<>>
            /\ ~right => b = 0 \/ result.s = <<>>
     /\ Ran("", "trim_prefix") => result.s = S(1) \/ S(2) \o result.s = S(1)
     /\ Ran("", "trim_suffix") => result.s = S(1) \/ result.s \o S(2) = S(1)
     /\ Ran("", "substring") /\ I(2) >= 0 =>
          \A i \in 1..Len(S(1)) :
            LET j == i - I(2) IN
            j >= 1 /\ (I(3) < 0 \/ j <= I(3)) => j \in DOMAIN result.s /\ result.s[j] = S(1)[i]

\* A printed number reads back as itself (a negative one in base 8 or 16 is
\* printed as the word it is kept in, and base 2 prints two bits).
RECURSIVE ReadIn(_, _)
ReadIn(text, base) ==
  IF text = <<>> THEN 0
  ELSE LET c == Last(text)
       IN base * ReadIn(Front(text), base) + (IF c < 58 THEN c - 48 ELSE c - 87)
PrintsReadBack ==
  Ran("", "format_int") /\ ~IsErr(result) /\ I(2) # 2 =>
    IF I(1) >= 0 THEN ReadIn(result.s, I(2)) = I(1)
    ELSE IF I(2) = 10 THEN -ReadIn(Tail(result.s), 10) = I(1)
    ELSE ReadIn(result.s, I(2)) = 2^WordBits + I(1)

\* The functions on strings agree with one another and with sequences: nothing
\* is lost at a cut, found where it is not, or trimmed inside.
TextAgrees ==
  /\ CutsAndJoins
  /\ Ran("", "contains") \/ RanOne("", {"indexof", "indexof_n", "startswith", "endswith"})
       => SearchesAgree
  /\ TrimsAreTight
  /\ PrintsReadBack

(***************************************************************************)
(* Collections.                                                            *)
(***************************************************************************)
RECURSIVE PartAt(_, _)
\* What a path of walk leads to: Undefined, if it leads nowhere.
PartAt(v, path) ==
  LET step == path[1]
      parts == CASE v.k = "array"  -> [i \in DOMAIN v.items |-> Entry(Num(i - 1), v.items[i])]
                 [] v.k = "object" -> v.entries
                 [] v.k = "set"    -> [i \in DOMAIN v.members |-> Entry(v.members[i], v.members[i])]
                 [] OTHER          -> <<>>
      hits == {i \in DOMAIN parts : SameKey(parts[i].key, step)}
  IN IF path = <<>> THEN v
     ELSE IF hits = {} THEN Undefined
     ELSE PartAt(parts[Min(hits)].val, Tail(path))

RECURSIVE PartsIn(_)
PartsIn(v) ==
  LET below == CASE v.k = "array" -> v.items [] v.k = "set" -> v.members
                 [] v.k = "object" -> [i \in DOMAIN v.entries |-> v.entries[i].val]
                 [] OTHER -> <<>>
  IN 1 + FoldLeft(LAMBDA acc, part : acc + PartsIn(part), 0, below)

\* walk visits every part once, by a path that leads to it.
WalkIsComplete ==
  Ran("", "walk") =>
    LET PathAt(i) == result.items[i].items[1].items
        ValueAt(i) == result.items[i].items[2]
    IN /\ Len(result.items) = PartsIn(Arg(1))
       /\ \A i \in DOMAIN result.items : SameKey(PartAt(Arg(1), PathAt(i)), ValueAt(i))
       /\ \A i, j \in DOMAIN result.items : i # j => Key(Arr(PathAt(i))) # Key(Arr(PathAt(j)))

\* The order of texts is the order of numbers below ten.
OrderedByText(v) == \A x \in Range(Members(v)) : x.k = "int" /\ ToInt(x.n) \in 0..9

AggregatesAgree ==
  /\ RanOne("", {"max", "min"}) /\ Arg(1).k \in {"array", "set"} /\ OrderedByText(Arg(1)) =>
       LET numbers == {ToInt(x.n) : x \in Range(Members(Arg(1)))}
       IN Gives(IF numbers = {} THEN Undefined
                ELSE Num(IF call.name[2] = "max" THEN Max(numbers) ELSE Min(numbers)))
  /\ Ran("", "sort") /\ Arg(1).k \in {"array", "set"} /\ OrderedByText(Arg(1)) =>
       LET from == Members(Arg(1))
           to == Members(result)
           Times1(vs, x) == Cardinality({i \in DOMAIN vs : SameKey(vs[i], x)})
       IN /\ Len(to) = Len(from)
          /\ \A x \in Range(from) : Times1(from, x) = Times1(to, x)
          /\ \A i \in 2..Len(to) : ToInt(to[i - 1].n) <= ToInt(to[i].n)
  /\ Ran("", "count") /\ Arg(1).k = "set" => ToInt(result.n) = Cardinality(Keys(Members(Arg(1))))
  /\ Ran("", "sum") => ToInt(result.n) = FoldLeft(LAMBDA acc, x : acc + ToInt(x.n), 0, Members(Arg(1)))

\* Set functions are those of sets, and their results have no member twice.
SetsAreSets ==
  LET Of(v) == Keys(Members(v))
      Family == {Of(m) : m \in Range(Members(Arg(1)))}
      expected ==
        CASE Ran("", "and") -> Of(Arg(1)) \intersect Of(Arg(2))
          [] Ran("", "or") -> Of(Arg(1)) \union Of(Arg(2))
          [] Ran("", "union") -> UNION Family
          [] OTHER -> {k \in UNION Family : \A m \in Family : k \in m}
  IN RanOne("", {"and", "or", "union", "intersection"}) =>
       Of(result) = expected /\ Len(Members(result)) = Cardinality(expected)

\* filter and remove cut an object in two, a union has the entries of both.
ObjectsAgree ==
  LET KeysOf(o) == Range(GetKeys(o))
      Get(o, key) == Key(Lookdown(o, key)[1])
  IN /\ RanOne("object", {"filter", "remove"}) =>
          LET other == IF call.name[2] = "filter" THEN ObjectRemove(Arg(1), Arg(2))
                       ELSE ObjectFilter(Arg(1), Arg(2))
          IN /\ KeysOf(result) \intersect KeysOf(other) = {}
             /\ SameKey(JoinObjects(result, other), Arg(1))
             /\ call.name[2] = "filter" => KeysOf(result) = KeysOf(Arg(1)) \intersect KeysOf(Arg(2))
     /\ Ran("object", "union") =>
          /\ KeysOf(result) = KeysOf(Arg(1)) \union KeysOf(Arg(2))
          /\ \A key \in KeysOf(result) :
               Get(result, key) = Get(IF key \in KeysOf(Arg(2)) THEN Arg(2) ELSE Arg(1), key)
     /\ Ran("object", "union_n") => Gives(ObjectUnion(Arg(1).items[1], Arg(1).items[2]))
     /\ Ran("object", "keys") => Keys(Members(result)) = KeysOf(Arg(1))
     /\ Ran("object", "subset") /\ result = Bool(TRUE) /\ Arg(1).k = Arg(2).k
          /\ IsSubset(Arg(2), Arg(1)) = Bool(TRUE) => SameKey(Arg(1), Arg(2))
     /\ Ran("object", "subset") /\ result = Bool(TRUE) /\ Arg(1).k = "object" =>
          KeysOf(Arg(2)) \subseteq KeysOf(Arg(1))

\* What a document holds, in order: each value that has no parts with its
\* path, and with the keys of the objects on it, which are left when members
\* of arrays before it go and what is left moves up.
RECURSIVE Leaves(_)
Leaves(v) ==
  LET Within(part) == LET below == Leaves(part[2])
                      IN [i \in DOMAIN below |->
                            [below[i] EXCEPT !.path = <<part[1]>> \o @,
                                             !.names = IF v.k = "object" THEN <<part[1]>> \o @ ELSE @]]
  IN IF v.k \in Collections THEN FlattenSeq([i \in DOMAIN Parts(v) |-> Within(Parts(v)[i])])
     ELSE <<[path |-> <<>>, names |-> <<>>, leaf |-> v]>>
Content(leaves) == [i \in DOMAIN leaves |-> <<leaves[i].names, leaves[i].leaf>>]

\* json.filter keeps, and json.remove drops, the values some path leads to:
\* those below its end, and one that it would go on through.
FilterAndRemoveAgree ==
  RanOne("json", {"filter", "remove"}) /\ ~IsErr(result) =>
    LET paths == {PathOf(v) : v \in Range(Members(Arg(2)))} \ {<<>>}
        Named(l) == \E p \in paths : IsPrefix(p, l.path) \/ IsPrefix(l.path, p)
        Stays(l) == Named(l) <=> call.name[2] = "filter"
    IN Content(Leaves(result)) = Content(SelectSeq(Leaves(Arg(1)), Stays))

ArraysAgree ==
  /\ Ran("array", "slice") =>
       \A i \in 1..Len(Arg(1).items) :
         (I(2) < i /\ i <= I(3)) <=>
           (\E j \in DOMAIN result.items : i = j + (IF I(2) < 0 THEN 0 ELSE I(2)))
  /\ Ran("array", "flatten") =>
       Content(Leaves(result)) = Content(Leaves(Arg(1))) \/ Arg(1).k # "array"
  /\ Ran("array", "reverse") => Arg(1).k # "array" \/ ArrayReverse(result) = Arg(1)

\* The functions on collections neither lose, invent nor repeat a part.
CollectionsAgree ==
  /\ WalkIsComplete
  /\ AggregatesAgree
  /\ SetsAreSets
  /\ ObjectsAgree
  /\ FilterAndRemoveAgree
  /\ ArraysAgree

(***************************************************************************)
(* Graphs.                                                                 *)
(***************************************************************************)
Edge(graph, u, v) == u \in Vertices(graph) /\ v \in Vertices(graph) /\ v \in Successors(graph, u)

\* The vertices that every closed set with the starts in it has.
ReachableSet(graph, starts) ==
  LET closed == {vs \in SUBSET Vertices(graph) :
                   /\ starts \intersect Vertices(graph) \subseteq vs
                   /\ \A u \in vs, v \in Vertices(graph) : Edge(graph, u, v) => v \in vs}
  IN {v \in Vertices(graph) : \A vs \in closed : v \in vs}

\* graph.reachable is the smallest set closed under the edges, whatever order
\* the stack visits in; the paths of graph.reachable_paths follow edges, visit
\* nothing twice, cannot be continued, and together visit the same vertices.
ReachableIsClosure ==
  LET starts == Keys(Members(Arg(2)))
      reach == ReachableSet(Arg(1), starts)
      PathKeys(p) == [i \in DOMAIN p.items |-> Key(p.items[i])]
  IN /\ Ran("graph", "reachable") => Keys(Members(result)) = reach
     /\ Ran("graph", "reachable_paths") =>
          LET paths == {PathKeys(p) : p \in Range(Members(result))}
          IN /\ UNION {Range(p) : p \in paths} = reach
             /\ \A p \in paths :
                  /\ p[1] \in starts
                  /\ \A i \in 2..Len(p) : Edge(Arg(1), p[i - 1], p[i])
                  /\ Len(p) = Cardinality(Range(p))
                  /\ \A v \in Vertices(Arg(1)) : Edge(Arg(1), Last(p), v) => v \in Range(p)

(***************************************************************************)
(* Small languages.  A pattern is a sequence of tokens, each a set of      *)
(* texts.                                                                  *)
(***************************************************************************)
TokenMatches(token, text, delimiters) ==
  CASE token = <<Star>> -> Range(text) \intersect delimiters = {}
    [] token = <<Star, Star>> -> TRUE
    [] token = <<Question>> -> Len(text) = 1 /\ text[1] \notin delimiters
    [] token[1] = LBracket -> Len(text) = 1 /\ (IF token[2] = Bang THEN text[1] # token[3]
                                                ELSE text[1] \in token[2]..token[4])
    [] token[1] = LBrace -> text \in {<<token[2]>>, SubSeq(token, 4, 5)}
    [] OTHER -> text = token

\* The text can be cut so that each token matches its piece.
RECURSIVE TokensMatch(_, _, _)
TokensMatch(tokens, text, delimiters) ==
  IF tokens = <<>> THEN text = <<>>
  ELSE \E n \in 0..Len(text) : /\ TokenMatches(tokens[1], SubSeq(text, 1, n), delimiters)
                               /\ TokensMatch(Tail(tokens), From(text, n + 1), delimiters)

\* Versions whose texts are in the order of their numbers: they differ in one
\* component, of one digit in both.
OneDigitApart(a, b) ==
  /\ a.ok /\ b.ok
  /\ Cardinality({n \in {"major", "minor", "patch"} : a[n] # b[n]}) <= 1
  /\ {a.patch, b.patch} \subseteq 0..9 \/ a.patch = b.patch

VersionOrder(a, b) ==
  LET Sign(i) == IF i < 0 THEN -1 ELSE IF i > 0 THEN 1 ELSE 0
  IN Sign(100 * (a.major - b.major) + 10 * (a.minor - b.minor) + (a.patch - b.patch))

\* Two versions without a prerelease are compared by their numbers.
VersionsAgree ==
  LET a == ParseSemver(S(1))
      b == ParseSemver(S(2))
  IN Ran("semver", "compare") /\ OneDigitApart(a, b) /\ Dash \notin Range(S(1) \o S(2))
       => Gives(Num(VersionOrder(a, b)))

\* The documented comparison: "-1" if a < b, "1" if a > b, "0" if a == b.
SemverIsAnOrder ==
  Ran("semver", "compare") /\ ~IsErr(result) /\ Dash \notin Range(S(1) \o S(2)) =>
    Gives(Num(VersionOrder(ParseSemver(S(1)), ParseSemver(S(2)))))

\* Amounts: kilo, mega, kibi and milli of ten; a byte unit changes nothing.
UnitsAgree ==
  LET Amount(ending) == Arg(1).s = <<49, 48>> \o ending
  IN /\ Ran("units", "parse") =>
          /\ Amount(<<>>) => Gives(Num(10))
          /\ Amount(<<107>>) => Gives(Num(10000))
          /\ Amount(<<77>>) => Gives(Num(10000000))
          /\ Amount(<<75, 105>>) => Gives(Num(10240))
          /\ Amount(<<100>>) => Gives(Num(1))
     /\ Ran("units", "parse_bytes") =>
          /\ Amount(<<77, 66>>) \/ Amount(<<77>>) => Gives(Num(10000000))
          /\ Amount(<<98>>) => Gives(Num(10))

(***************************************************************************)
(* Declarations.  Those that are known to be wrong: the results of concat, *)
(* strings.reverse and the two prefix and suffix matchers; sort of a set   *)
(* is a set; %b of sprintf throws.                                         *)
(***************************************************************************)
WronglyDeclared ==
  {<<"", "concat">>, <<"strings", "reverse">>, <<"strings", "any_prefix_match">>,
   <<"strings", "any_suffix_match">>, <<"", "sort">>}

AsDeclared(name, args) ==
  Len(args) = Arity(name) /\ \A i \in DOMAIN args : HasType(args[i], DeclOf(name).args[i])

Unsupported == {<<"strings", "render_template">>, <<"json", "match_schema">>}

\* A function that is called as it is declared is found, finds its arguments
\* of the right types and returns a value of the declared one, or fails for
\* another reason.  object.get may throw, on a path past the end of an array.
ResultsAsDeclared ==
  call # NoCall /\ call.name \in Names \ Unsupported /\ AsDeclared(call.name, call.args) =>
    /\ result \notin {Err("unknown"), Err("arity")}
    /\ result = Err("type") => RanOne("", {"sprintf", "format_int", "minus"}) \/ call.name[1] = "bits"
    /\ result.k = "throws" => call.name \in {<<"object", "get">>, <<"", "sprintf">>, <<"array", "slice">>}
    /\ result.k \in ValueKinds /\ call.name \notin WronglyDeclared =>
         HasType(result, DeclOf(call.name).result)

(***************************************************************************)
(* A string the machine has computed and the same string of a document.    *)
(* sprintf, json.filter and json.remove read the text a node holds, which  *)
(* has quotes in the one and none in the other.                            *)
(***************************************************************************)
RECURSIVE Plain(_)
Plain(v) ==
  CASE v.k = "string" -> Str(v.s)
    [] v.k = "array"  -> Arr([i \in DOMAIN v.items |-> Plain(v.items[i])])
    [] v.k = "set"    -> SetOf([i \in DOMAIN v.members |-> Plain(v.members[i])])
    [] v.k = "object" -> Obj([i \in DOMAIN v.entries |->
                                Entry(Plain(v.entries[i].key), Plain(v.entries[i].val))])
    [] OTHER -> v

ReadsNodeText == {<<"", "sprintf">>, <<"json", "filter">>, <<"json", "remove">>}

SameValue(v, w) == v.k = w.k /\ SameKey(v, w)

\* A function does not tell a computed string from one of a document.
SameValueSameResult ==
  call # NoCall /\ call.name \notin ReadsNodeText =>
    SameValue(result, CallBuiltIn(call.name, [i \in DOMAIN call.args |-> Plain(call.args[i])],
                                  call.strict))
===============================================================================
