------------------------- MODULE CollectionBuiltIns -------------------------
(***************************************************************************)
(* Built-in functions on arrays (builtins/array.cc), objects (builtins/    *)
(* objects.cc), graphs kept as objects (builtins/graph.cc) and parts of    *)
(* documents named by paths (json.filter and json.remove of builtins/      *)
(* json.cc).                                                               *)
(***************************************************************************)
EXTENDS CoreBuiltIns
LOCAL INSTANCE SequencesExt
LOCAL INSTANCE FiniteSetsExt

\* An exception leaves the function: the query fails as a whole.
Throws == [k |-> "throws"]

Collections == {"array", "set", "object"}
AnyCollection == {"array", "object", "set"}

(***************************************************************************)
(* Arrays.  slice looks at none of its arguments: an Error node in place   *)
(* of the array is cut like one, message, position and code, and one in    *)
(* place of a number has no text that could be read as one.                *)
(***************************************************************************)
ArrayConcatDecl == Sig(<<ArrayType, ArrayType>>, ArrayType)
ArrayConcat(x, y) ==
  Checked(<<Unwrap(x, {"array"}), Unwrap(y, {"array"})>>, Arr(x.items \o y.items))

ArrayReverseDecl == Sig(<<ArrayType>>, ArrayType)
ArrayReverse(arr) == Checked(<<Unwrap(arr, {"array"})>>, Arr(Reverse(arr.items)))

ErrorPieces == [i \in 1..3 |-> [k |-> "piece of an error"]]
Clamp(n, size) == IF n.neg THEN 0 ELSE IF ToInt(n) > size THEN size ELSE ToInt(n)

ArraySliceDecl == Sig(<<ArrayType, NumberType, NumberType>>, ArrayType)
ArraySlice(arr, start, stop) ==
  LET items == IF arr.k = "array" THEN arr.items ELSE ErrorPieces
  IN IF \E n \in {start, stop} : n.k # "int" THEN Throws
     ELSE IF \E n \in {start, stop} : ~InWord(n.n) THEN Err("builtin")
     ELSE Arr(SubSeq(items, Clamp(start.n, Len(items)) + 1, Clamp(stop.n, Len(items))))

ArrayFlattenDecl == Sig(<<ArrayType>>, ArrayType)
ArrayFlatten(arr) ==
  Checked(<<Unwrap(arr, {"array"})>>,
          Arr(FlattenSeq([i \in DOMAIN arr.items |->
                            IF arr.items[i].k = "array" THEN arr.items[i].items
                            ELSE <<arr.items[i]>>])))

(***************************************************************************)
(* Objects.                                                                *)
(***************************************************************************)
\* get_keys: the texts of the members, or of the keys of an object.
GetKeys(c) ==
  IF c.k = "object" THEN [i \in DOMAIN c.entries |-> Key(c.entries[i].key)]
  ELSE [i \in DOMAIN Members(c) |-> Key(Members(c)[i])]

Entries(o, Keep(_)) == Obj(SelectSeq(o.entries, LAMBDA e : Keep(Key(e.key))))

ByKeysDecl == Sig(<<ObjectType, AnyCollection>>, AnyType)
ObjectFilterDecl == ByKeysDecl
ObjectRemoveDecl == ByKeysDecl
ObjectFilter(object, keys) ==
  Checked(<<Unwrap(object, {"object"}), Unwrap(keys, Collections)>>,
          Entries(object, LAMBDA key : key \in Range(GetKeys(keys))))
ObjectRemove(object, keys) ==
  Checked(<<Unwrap(object, {"object"}), Unwrap(keys, Collections)>>,
          Entries(object, LAMBDA key : key \notin Range(GetKeys(keys))))

ObjectKeysDecl == Sig(<<ObjectType>>, SetType)
ObjectKeys(object) ==
  Checked(<<Unwrap(object, {"object"})>>,
          SetOf([i \in DOMAIN object.entries |-> object.entries[i].key]))

\* The value a path of keys leads to, or none.  at() past the end of an array
\* throws, and a negative position wraps to one that is past it (std::stoul).
None == [k |-> "none"]
RECURSIVE GetKey(_, _)
GetKey(node, path) ==
  IF path = <<>> THEN node
  ELSE CASE node.k = "object" ->
              LET hits == {i \in DOMAIN node.entries : SameKey(node.entries[i].key, path[1])}
              IN IF hits = {} THEN None ELSE GetKey(node.entries[Min(hits)].val, Tail(path))
         [] node.k = "array" ->
              IF path[1].k # "int" THEN None
              ELSE IF path[1].n.neg \/ ToInt(path[1].n) >= Len(node.items) THEN Throws
              ELSE GetKey(node.items[ToInt(path[1].n) + 1], Tail(path))
         [] OTHER -> None

ObjectGetDecl == Sig(<<ObjectType, AnyType, AnyType>>, AnyType)
ObjectGet(object, key, default) ==
  Checked(<<Unwrap(object, {"object"})>>,
          LET found == GetKey(object, IF key.k = "array" THEN key.items ELSE <<key>>)
          IN IF found = None THEN default ELSE found)

(***************************************************************************)
(* subset: keys and their values below objects, a run of members for       *)
(* arrays, members for a set in a set or in an array.  The first key of an *)
(* empty array is read all the same: Unspecified.  An outcome is a truth   *)
(* value or that.                                                          *)
(***************************************************************************)
ArraySubset(super, sub) ==
  LET s == GetKeys(super)
      p == GetKeys(sub)
  IN IF Len(p) > Len(s) THEN Bool(FALSE)
     ELSE IF p = <<>> THEN Unspecified
     ELSE Bool(\E i \in DOMAIN s : \A j \in DOMAIN p : i + j - 1 \in DOMAIN s /\ s[i + j - 1] = p[j])

SetSubset(super, sub) ==
  Bool(/\ Len(GetKeys(sub)) <= Len(GetKeys(super))
       /\ Range(GetKeys(sub)) \subseteq Range(GetKeys(super)))

RECURSIVE IsSubset(_, _)
\* The entries in the order of their keys; the first that is not contained decides.
ObjectSubset(super, sub) ==
  LET entries == SortSeq(sub.entries, LAMBDA a, b : KeyLess(a.key, b.key))
      Within(e) == LET hits == {i \in DOMAIN super.entries : SameKey(super.entries[i].key, e.key)}
                   IN IF hits = {} THEN Bool(FALSE)
                      ELSE IsSubset(super.entries[CHOOSE i \in hits : TRUE].val, e.val)
  IN IF Len(sub.entries) > Len(super.entries) THEN Bool(FALSE)
     ELSE FoldLeft(LAMBDA acc, e : IF acc = Bool(TRUE) THEN Within(e) ELSE acc, Bool(TRUE), entries)

IsSubset(super, sub) ==
  CASE sub.k = "object" /\ super.k = "object" -> ObjectSubset(super, sub)
    [] sub.k = "array" /\ super.k = "array"   -> ArraySubset(super, sub)
    [] sub.k = "set" -> IF super.k \in {"set", "array"} THEN SetSubset(super, sub) ELSE Bool(FALSE)
    [] OTHER -> Bool(super.k = sub.k /\ SameKey(super, sub))

ObjectSubsetDecl == Sig(<<AnyCollection, AnyCollection>>, BoolType)
ObjectSubsetB(super, sub) ==
  Checked(<<Unwrap(super, Collections), Unwrap(sub, Collections)>>, IsSubset(super, sub))

\* The right object, then the entries of the left one under other keys.
JoinObjects(lhs, rhs) ==
  Obj(rhs.entries \o SelectSeq(lhs.entries, LAMBDA e : Key(e.key) \notin Range(GetKeys(rhs))))

ObjectUnionDecl == Sig(<<ObjectType, ObjectType>>, ObjectType)
ObjectUnion(a, b) ==
  Checked(<<Unwrap(a, {"object"}), Unwrap(b, {"object"})>>, JoinObjects(a, b))

ObjectUnionNDecl == Sig(<<{"array[object]"}>>, ObjectType)
ObjectUnionN(objects) ==
  Checked(<<Unwrap(objects, {"array"})>>,
          IF ~All(objects, {"object"}) THEN Err("type")
          ELSE FoldLeft(JoinObjects, Obj(<<>>), objects.items))

(***************************************************************************)
(* Graphs: an object from vertices to the set or array of their            *)
(* successors.  A vertex is known by its text, and one that is no key of   *)
(* the graph is not in it.                                                 *)
(***************************************************************************)
Vertices(graph) == {Key(graph.entries[i].key) : i \in DOMAIN graph.entries}
IsGraph(graph) == \A i \in DOMAIN graph.entries :
                    graph.entries[i].val.k \in {"set", "array", "null"}
Successors(graph, v) ==
  LET e == graph.entries[Max({i \in DOMAIN graph.entries : Key(graph.entries[i].key) = v})]
  IN IF e.val.k = "null" THEN {} ELSE Keys(Members(e.val))

\* The value a text stands for: a start, a vertex or a successor.
Nodes(graph, initial) ==
  Members(initial)
    \o FlattenSeq([i \in DOMAIN graph.entries |->
                     LET e == graph.entries[i]
                     IN <<e.key>> \o (IF e.val.k = "null" THEN <<>> ELSE Members(e.val))])
NodeOf(graph, initial, text) == FirstWith(Nodes(graph, initial), text)

\* The frontier is a stack; a successor already visited is dropped when popped.
RECURSIVE Visit(_, _, _)
Visit(graph, frontier, visited) ==
  IF frontier = <<>> THEN visited
  ELSE LET current == Last(frontier)
           rest == Front(frontier)
       IN IF current \in visited \/ current \notin Vertices(graph) THEN Visit(graph, rest, visited)
          ELSE Visit(graph, rest \o InTextOrder(Successors(graph, current)),
                     visited \union {current})

GraphArgs(graph, initial, result) ==
  Checked(<<Unwrap(graph, {"object"}), Unwrap(initial, {"set", "array"})>>,
          IF IsGraph(graph) THEN result ELSE Err("none"))

ReachableDecl == Sig(<<ObjectType, {"array", "set"}>>, SetType)
\* Only the last start is walked from.
ReachableFromOne(graph, initial) ==
  GraphArgs(graph, initial,
            LET starts == InTextOrder(Keys(Members(initial)))
                texts == InTextOrder(Visit(graph, IF starts = <<>> THEN <<>> ELSE <<Last(starts)>>, {}))
            IN MakeSet([i \in DOMAIN texts |-> NodeOf(graph, initial, texts[i])]))
Reachable(graph, initial) ==
  GraphArgs(graph, initial,
            LET texts == InTextOrder(Visit(graph, InTextOrder(Keys(Members(initial))), {}))
            IN MakeSet([i \in DOMAIN texts |-> NodeOf(graph, initial, texts[i])]))

\* A path grows by every neighbour it has not visited, and is a result when
\* there is none.
RECURSIVE Paths(_, _)
Paths(graph, path) ==
  LET next == (Successors(graph, Last(path)) \ Range(path)) \intersect Vertices(graph)
  IN IF Last(path) \notin Vertices(graph) THEN {}
     ELSE IF next = {} THEN {path}
     ELSE UNION {Paths(graph, Append(path, v)) : v \in next}

ReachablePathsDecl == Sig(<<ObjectType, {"array", "set"}>>, {"set[array]"})
ReachablePaths(graph, initial) ==
  GraphArgs(graph, initial,
            LET paths == UNION {Paths(graph, <<v>>) : v \in Keys(Members(initial))}
                value(p) == Arr([i \in DOMAIN p |-> NodeOf(graph, initial, p[i])])
            IN MakeSet(SetToSeq({value(p) : p \in paths})))

(***************************************************************************)
(* Documents and paths.  The paths form a tree of texts: the text of a     *)
(* string cut at its slashes, or the texts of an array of keys.  Strings   *)
(* are taken as their nodes hold them, with or without quotes.             *)
(***************************************************************************)
Slash == 47

RECURSIVE Segments(_)
Segments(text) ==
  LET slashes == {i \in DOMAIN text : text[i] = Slash}
  IN IF slashes = {} THEN <<text>>
     ELSE <<SubSeq(text, 1, Min(slashes) - 1)>>
            \o Segments(SubSeq(text, Min(slashes) + 1, Len(text)))

\* ptree::insert, as the sequence of texts it walks along.
PathOf(v) ==
  IF v.k = "string" THEN Segments(v.raw)
  ELSE [i \in DOMAIN v.items |-> CASE v.items[i].k = "int"    -> BigText(v.items[i].n)
                                   [] v.items[i].k = "string" -> v.items[i].raw
                                   [] OTHER                   -> Key(v.items[i])]

\* A path that goes on below an end, which the tree then keeps no more.
UnderLonger(paths, key) ==
  LET below == {Tail(p) : p \in {p \in paths : p # <<>> /\ p[1] = key}}
  IN IF below = {<<>>} THEN below ELSE below \ {<<>>}

\* What is left of the paths below a key; <<>> makes the key an end.
Under(paths, key) == {Tail(p) : p \in {p \in paths : p # <<>> /\ p[1] = key}}

\* The members of a document that paths can name, as <<key, value, entry>>.
Parts(src) ==
  CASE src.k = "object" ->
         LET named == SelectSeq(src.entries, LAMBDA e : e.key.k = "string")
         IN [i \in DOMAIN named |-> <<named[i].key.raw, named[i].val, named[i]>>]
    [] src.k = "array" -> [i \in DOMAIN src.items |->
                             <<BigText(FromInt(i - 1)), src.items[i], src.items[i]>>]
    [] src.k = "set"   -> [i \in DOMAIN src.members |->
                             <<Key(src.members[i]), src.members[i], src.members[i]>>]

\* The part with another value in it.
WithValue(part, src, value) ==
  IF src.k = "object" THEN Entry(Str(part[1]), value) ELSE value

Rebuilt(src, parts) ==
  CASE src.k = "object" -> Obj(parts) [] src.k = "array" -> Arr(parts) [] OTHER -> SetOf(parts)

RECURSIVE Filtered(_, _), Removed(_, _)
\* A part is kept whole at the end of a path, and where a path goes on below
\* what has no parts.
Filtered(paths, src) ==
  LET kept(part) == LET below == Under(paths, part[1])
                    IN IF below = {} THEN <<>>
                       ELSE IF <<>> \in below \/ part[2].k \notin Collections THEN <<part[3]>>
                       ELSE <<WithValue(part, src, Filtered(below, part[2]))>>
  IN Rebuilt(src, FlattenSeq([i \in DOMAIN Parts(src) |-> kept(Parts(src)[i])]))

\* A part goes at the end of a path, and where a path goes on below what has
\* no parts.
Removed(paths, src) ==
  LET kept(part) == LET below == Under(paths, part[1])
                    IN IF below = {} THEN <<part[3]>>
                       ELSE IF <<>> \in below \/ part[2].k \notin Collections THEN <<>>
                       ELSE <<WithValue(part, src, Removed(below, part[2]))>>
  IN Rebuilt(src, FlattenSeq([i \in DOMAIN Parts(src) |-> kept(Parts(src)[i])]))

PathsDecl == Sig(<<ObjectType, {"array", "set"}>>, AnyType)
JsonFilterDecl == PathsDecl
JsonRemoveDecl == PathsDecl
ByPaths(object, paths, Result(_, _)) ==
  Checked(<<Unwrap(object, {"object"}), Unwrap(paths, {"set", "array"})>>,
          IF ~All(paths, {"string", "array"}) THEN Err("type")
          ELSE Result({PathOf(v) : v \in Range(Members(paths))}, object))
JsonFilter(object, paths) == ByPaths(object, paths, Filtered)
JsonRemove(object, paths) == ByPaths(object, paths, Removed)
=============================================================================
