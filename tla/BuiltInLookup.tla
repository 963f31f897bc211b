--------------------------- MODULE BuiltInLookup ---------------------------
(***************************************************************************)
(* How a built-in function is found by its name (BuiltInsDef::lookup and   *)
(* the functions of builtins/ it calls).                                   *)
(*                                                                         *)
(* The decision trees of the code are generated, and test the length, the  *)
(* first and the last character of a name before they compare it as a      *)
(* whole.  Every test is of the form x > c and what fails it goes on       *)
(* behind it, so that a leaf is reached by the names that exceed all the   *)
(* bounds on the way to it: a leaf is its name and the largest bound of    *)
(* each kind.  The smallest character stands for no bound.                 *)
(***************************************************************************)
EXTENDS Sequences, Integers

Alphabet == ".0123456789_abcdefghijklmnopqrstuvwxyz"
Rank(c) == CHOOSE i \in 1..Len(Alphabet) : SubSeq(Alphabet, i, i) = c
Leaf(name, length, first, last) ==
  [name |-> name, length |-> length, first |-> first, last |-> last]

Above(c, bound) == bound = "." \/ Rank(c) > Rank(bound)
Reaches(name, leaf) ==
  /\ name = leaf.name
  /\ Len(name) > leaf.length
  /\ Above(SubSeq(name, 1, 1), leaf.first)
  /\ Above(SubSeq(name, Len(name), Len(name)), leaf.last)

\* The tree over the part of a name before its first dot.
LongFamilies ==
  {Leaf("providers", 8, "b", "."), Leaf("base64url", 8, ".", "."), Leaf("urlquery", 7, "i", "."),
   Leaf("internal", 7, ".", "."), Leaf("strings", 6, "n", "."), Leaf("numbers", 6, "g", "."),
   Leaf("graphql", 6, ".", "."), Leaf("semver", 5, "o", "."), Leaf("object", 5, "c", "."),
   Leaf("crypto", 5, "b", "."), Leaf("base64", 5, ".", "."), Leaf("units", 4, "r", "."),
   Leaf("regex", 4, "g", "."), Leaf("graph", 4, "a", "."), Leaf("array", 4, ".", ".")}
ShortFamilies ==
  {Leaf("yaml", 3, "u", "."), Leaf("uuid", 3, "t", "."), Leaf("time", 3, "r", "."),
   Leaf("uri", 0, "r", "."), Leaf("rego", 3, "j", "d"), Leaf("rand", 3, "j", "."),
   Leaf("opa", 0, "n", "."), Leaf("net", 0, "j", "."), Leaf("http", 3, "b", "o"),
   Leaf("bits", 3, ".", "o"), Leaf("hex", 0, ".", "o"), Leaf("json", 2, "g", "."),
   Leaf("glob", 2, ".", "."), Leaf("io", 0, ".", ".")}
FamilyTree == LongFamilies \union ShortFamilies

\* The tree over the names without a dot.
LongNames ==
  {Leaf("trim_prefix", 10, "i", "n"), Leaf("trim_suffix", 10, "i", "n"),
   Leaf("trim_right", 9, "i", "n"), Leaf("trim_left", 7, "i", "r"),
   Leaf("to_number", 7, "i", "n"), Leaf("product", 5, "i", "n"), Leaf("format_int", 9, ".", "n"),
   Leaf("is_object", 8, ".", "r"), Leaf("is_number", 8, ".", "n"), Leaf("is_array", 6, "c", "n"),
   Leaf("contains", 6, ".", "n"), Leaf("is_set", 5, "c", "n"), Leaf("concat", 5, ".", "n"),
   Leaf("startswith", 9, "i", "e"), Leaf("substring", 7, "i", "e"), Leaf("sprintf", 5, "i", "e"),
   Leaf("trim_space", 9, "i", "."), Leaf("type_name", 7, "i", "."), Leaf("replace", 5, "i", "."),
   Leaf("intersection", 10, ".", "h"), Leaf("is_boolean", 9, ".", "h"),
   Leaf("indexof_n", 7, ".", "h"), Leaf("is_null", 5, ".", "h"), Leaf("is_string", 8, ".", "."),
   Leaf("endswith", 7, ".", "."), Leaf("indexof", 5, ".", ".")}
MiddleNames ==
  {Leaf("upper", 4, "s", "n"), Leaf("union", 4, "s", "."), Leaf("split", 4, "r", "."),
   Leaf("round", 4, "m", "."), Leaf("walk", 3, "t", "."), Leaf("trim", 3, "s", "."),
   Leaf("sort", 3, "p", "."), Leaf("plus", 3, "m", "."), Leaf("minus", 3, "l", "."),
   Leaf("lower", 3, "f", "."), Leaf("floor", 3, "e", "."), Leaf("equal", 3, "c", "."),
   Leaf("count", 4, ".", "."), Leaf("ceil", 3, ".", ".")}
ShortNames ==
  {Leaf("neq", 2, "m", "m"), Leaf("or", 0, "m", "m"), Leaf("sum", 0, "r", "."),
   Leaf("rem", 0, "m", "."), Leaf("max", 0, "l", "n"), Leaf("min", 0, "l", "l"),
   Leaf("mul", 0, "l", "."), Leaf("div", 2, "a", "e"), Leaf("abs", 2, ".", "e"),
   Leaf("lt", 0, "g", "e"), Leaf("gt", 0, ".", "e"), Leaf("lte", 0, "g", "."),
   Leaf("gte", 0, "a", "."), Leaf("and", 0, ".", ".")}
CoreTree == LongNames \union MiddleNames \union ShortNames

\* The names compared one after the other, in the families modelled here.
Listed(family) ==
  CASE family = "strings" -> {"count", "any_prefix_match", "any_suffix_match", "render_template",
                              "replace_n", "reverse"}
    [] family = "array"   -> {"concat", "flatten", "reverse", "slice"}
    [] family = "object"  -> {"filter", "get", "keys", "remove", "subset", "union", "union_n"}
    [] family = "graph"   -> {"reachable", "reachable_paths"}
    [] family = "json"    -> {"marshal", "marshal_with_options", "unmarshal", "is_valid", "filter",
                              "remove", "match_schema", "verify_schema", "patch"}
    [] family = "bits"    -> {"and", "lsh", "negate", "or", "rsh", "xor"}
    [] family = "numbers" -> {"range", "range_step"}
    [] family = "glob"    -> {"match", "quote_meta"}
    [] family = "semver"  -> {"compare", "is_valid"}
    [] family = "units"   -> {"parse", "parse_bytes"}

\* A name is <<family, rest>>, or <<"", name>> where there is no dot.
Found(name) ==
  IF name[1] = "" THEN \E leaf \in CoreTree : Reaches(name[2], leaf)
  ELSE (\E leaf \in FamilyTree : Reaches(name[1], leaf)) /\ name[2] \in Listed(name[1])
=============================================================================
