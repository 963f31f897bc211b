------------------------------- MODULE Values -------------------------------
(***************************************************************************)
(* Rego values and the operations on them that the machine and the         *)
(* built-in functions share (Resolver), with the text of a value (to_key), *)
(* which is what the code compares, sorts and looks up by.                 *)
(*                                                                         *)
(* A text is a sequence of character codes.  A floating-point number is    *)
(* kept as a number of quarters: the values here are ones a double holds   *)
(* exactly.  A value in a local is never wrapped (write_local unwraps it), *)
(* so the wrappers Term and Scalar are left out.                           *)
(***************************************************************************)
EXTENDS Integers, Sequences, FiniteSets, BigIntDivision
LOCAL INSTANCE SequencesExt
LOCAL INSTANCE TLC

Num(i)     == [k |-> "int", n |-> FromInt(i)]
BigNum(n)  == [k |-> "int", n |-> n]
Float(q)   == [k |-> "float", q |-> q]
Str(s)     == [k |-> "string", s |-> s, raw |-> s]
Bool(b)    == [k |-> "bool", b |-> b]
Null       == [k |-> "null"]
Arr(items) == [k |-> "array", items |-> items]
SetOf(ms)  == [k |-> "set", members |-> ms]
Obj(es)    == [k |-> "object", entries |-> es]
Entry(key, val) == [key |-> key, val |-> val]

\* Resolver::scalar keeps the quotes in the text of the node it makes: most
\* functions strip them (get_string), some read the text as it is (raw).
Computed(s) == [k |-> "string", s |-> s, raw |-> <<34>> \o s \o <<34>>]

Undefined  == [k |-> "undefined"]
Err(code)  == [k |-> "error", code |-> code]
IsErr(v)   == v.k = "error"

NumberKinds == {"int", "float"}
ValueKinds  == NumberKinds \union {"string", "bool", "null", "array", "set", "object"}

(***************************************************************************)
(* The text of a value.                                                    *)
(***************************************************************************)
Quote == 34
Comma == 44

BigText(n) == (IF n.neg THEN <<45>> ELSE <<>>) \o [i \in DOMAIN n.digits |-> 48 + n.digits[i]]

FloatText(q) ==
  LET m == IF q < 0 THEN -q ELSE q
      fraction == CASE m % 4 = 0 -> <<>>
                    [] m % 4 = 1 -> <<46, 50, 53>>
                    [] m % 4 = 2 -> <<46, 53>>
                    [] m % 4 = 3 -> <<46, 55, 53>>
  IN (IF q < 0 THEN <<45>> ELSE <<>>) \o BigText(FromInt(m \div 4)) \o fraction

Quoted(s) == <<Quote>> \o s \o <<Quote>>

\* json::escape, on the characters the texts here can hold.
Escaped(s) == FlattenSeq([i \in DOMAIN s |-> IF s[i] = Quote THEN <<92, Quote>> ELSE <<s[i]>>])

\* The texts of a set in their order, as a std::map or std::set keeps them.
RECURSIVE InTextOrder(_)
InTextOrder(texts) ==
  IF texts = {} THEN <<>>
  ELSE LET least == CHOOSE t \in texts : \A u \in texts : ~TextLess(u, t)
       IN <<least>> \o InTextOrder(texts \ {least})

\* join(stream, begin, end, delimiter, ...)
RECURSIVE Join(_, _)
Join(texts, delim) ==
  IF Len(texts) = 0 THEN <<>>
  ELSE IF Len(texts) = 1 THEN texts[1]
  ELSE texts[1] \o delim \o Join(Tail(texts), delim)

Double(v) == IF v.k = "float" THEN v.q ELSE 4 * ToInt(v.n)

\* A key that is not a string is written as one.
NameText(t) == IF t[1] = Quote THEN t ELSE Quoted(Escaped(t))

\* The entries in the order of their names, the first of equal ones.
EntriesText(texts) ==
  LET names == InTextOrder({texts[i].name : i \in DOMAIN texts})
      first(n) == CHOOSE i \in DOMAIN texts :
                    texts[i].name = n /\ \A j \in 1..(i - 1) : texts[j].name # n
      item(n) == n \o <<58>> \o texts[first(n)].val
  IN <<123>> \o Join([i \in DOMAIN names |-> item(names[i])], <<Comma, 32>>) \o <<125>>

RECURSIVE Key(_)

\* The order in which the members of a set are written (NodeKey).
NodeLess(a, b) ==
  LET rank(v) == CASE v.k = "null" -> 0
                   [] v.k = "bool" -> IF v.b THEN 2 ELSE 1
                   [] v.k \in NumberKinds -> 3
                   [] OTHER -> 4
  IN IF a.k = "int" /\ b.k = "int" THEN Less(a.n, b.n)
     ELSE IF a.k \in NumberKinds /\ b.k \in NumberKinds THEN Double(a) < Double(b)
     ELSE IF rank(a) # rank(b) THEN rank(a) < rank(b)
     ELSE TextLess(Key(a), Key(b))

\* The members of a set as they are written.
RECURSIVE InNodeOrder(_)
FirstThenRest(vs, i) == <<vs[i]>> \o InNodeOrder(RemoveAt(vs, i))
InNodeOrder(vs) ==
  IF vs = <<>> THEN <<>>
  ELSE FirstThenRest(vs, CHOOSE i \in DOMAIN vs : \A j \in DOMAIN vs : ~NodeLess(vs[j], vs[i]))

JoinKeys(vs) == Join([i \in DOMAIN vs |-> Key(vs[i])], <<Comma>>)

Key(v) ==
  CASE v.k = "int"    -> BigText(v.n)
    [] v.k = "float"  -> FloatText(v.q)
    [] v.k = "string" -> Quoted(v.s)
    [] v.k = "bool"   -> IF v.b THEN <<116, 114, 117, 101>> ELSE <<102, 97, 108, 115, 101>>
    [] v.k = "null"   -> <<110, 117, 108, 108>>
    [] v.k = "array"  -> <<91>> \o JoinKeys(v.items) \o <<93>>
    [] v.k = "set"    -> <<60>> \o JoinKeys(InNodeOrder(v.members)) \o <<62>>
    [] v.k = "object" ->
         EntriesText([i \in DOMAIN v.entries |->
                        [name |-> NameText(Key(v.entries[i].key)), val |-> Key(v.entries[i].val)]])
    [] OTHER -> <<0>>

KeyLess(a, b) == TextLess(Key(a), Key(b))
SameKey(a, b) == Key(a) = Key(b)

Keys(vs) == {Key(vs[i]) : i \in DOMAIN vs}

(***************************************************************************)
(* Building collections.  A std::map over the texts removes duplicates and *)
(* orders the members; object refuses two values for one key.              *)
(***************************************************************************)
FirstOf(keys, text) == CHOOSE i \in DOMAIN keys : keys[i] = text /\ \A j \in 1..(i - 1) : keys[j] # text
KeySeq(vs) == [i \in DOMAIN vs |-> Key(vs[i])]
FirstWith(vs, text) == vs[FirstOf(KeySeq(vs), text)]

\* The members of vs in the order of their texts, the first of equal ones.
ByTexts(vs, keys) ==
  LET texts == InTextOrder({keys[i] : i \in DOMAIN keys})
  IN [i \in DOMAIN texts |-> vs[FirstOf(keys, texts[i])]]
ByText(vs) == ByTexts(vs, KeySeq(vs))

MakeSet(vs) == SetOf(ByText(vs))

ObjectOf(es, keys, vals) ==
  IF \E i, j \in DOMAIN es : keys[i] = keys[j] /\ vals[i] # vals[j] THEN Err("conflict")
  ELSE Obj(ByTexts(es, keys))
MakeObject(es) == ObjectOf(es, KeySeq([i \in DOMAIN es |-> es[i].key]),
                               KeySeq([i \in DOMAIN es |-> es[i].val]))

(***************************************************************************)
(* Set operations.  An intersection keeps the order and the members of its *)
(* second argument, a difference those of its first; a union prefers the   *)
(* members of its first.                                                   *)
(***************************************************************************)
Intersection(l, r) ==
  IF l.k # "set" \/ r.k # "set" THEN Err("none")
  ELSE SetOf(SelectSeq(r.members, LAMBDA v : Key(v) \in Keys(l.members)))

Difference(l, r) ==
  IF l.k # "set" \/ r.k # "set" THEN Err("none")
  ELSE SetOf(SelectSeq(l.members, LAMBDA v : Key(v) \notin Keys(r.members)))

SetUnion(l, r) ==
  IF l.k # "set" \/ r.k # "set" THEN Err("none")
  ELSE SetOf(ByText(l.members \o r.members))

(***************************************************************************)
(* Looking up.                                                             *)
(***************************************************************************)
\* object_lookdown: also finds a string key by its unquoted text.
Lookdown(o, text) ==
  LET hit(e) == Key(e.key) = text \/ (e.key.k = "string" /\ e.key.raw = text)
      hits == SelectSeq(o.entries, hit)
  IN [i \in DOMAIN hits |-> hits[i].val]

\* Where the value item occurs: positions of an array or set, keys of an object.
FindItem(item, seq) ==
  CASE seq.k = "array"  -> {Num(i - 1) : i \in {i \in DOMAIN seq.items : SameKey(seq.items[i], item)}}
    [] seq.k = "set"    -> {Num(i - 1) : i \in {i \in DOMAIN seq.members :
                                                SameKey(seq.members[i], item)}}
    [] seq.k = "object" -> {seq.entries[i].key : i \in {i \in DOMAIN seq.entries :
                                                         SameKey(seq.entries[i].val, item)}}
    [] OTHER -> {}

Member2(item, seq) == Bool(FindItem(item, seq) # {})

Member3(index, item, seq) == Bool(\E i \in FindItem(item, seq) : SameKey(i, index))

(***************************************************************************)
(* Arithmetic and comparison.                                              *)
(***************************************************************************)
\* try_get_int: integers, and doubles without a fraction.
IsWhole(v) == v.k = "int" \/ (v.k = "float" /\ v.q % 4 = 0)
WholeOf(v) == IF v.k = "int" THEN v.n ELSE FromInt(v.q \div 4)

ArithInt(op, l, r) ==
  CASE op = "+" -> BigNum(Plus(l, r))
    [] op = "-" -> BigNum(Minus(l, r))
    [] op = "*" -> BigNum(Times(l, r))
    [] op = "%" -> IF IsZero(r) THEN Err("builtin") ELSE BigNum(Remainder(l, r))

ArithDouble(op, l, r) ==
  CASE op = "+" -> Float(l + r)
    [] op = "-" -> Float(l - r)
    [] op = "*" -> Float((l * r) \div 4)
    [] op = "/" -> IF r = 0 THEN Err("builtin")
                   ELSE Float(IF r > 0 THEN (4 * l) \div r ELSE (-4 * l) \div (-r))
    [] op = "%" -> Err("builtin")

\* Subtraction is also a set operation; the others are not defined on sets.
ArithInfix(op, l, r) ==
  IF "undefined" \in {l.k, r.k} THEN Bool(FALSE)
  ELSE IF IsErr(l) THEN l
  ELSE IF IsErr(r) THEN r
  ELSE IF l.k \in NumberKinds /\ r.k \in NumberKinds
  THEN IF IsWhole(l) /\ IsWhole(r) /\ op # "/" THEN ArithInt(op, WholeOf(l), WholeOf(r))
       ELSE ArithDouble(op, Double(l), Double(r))
  ELSE IF l.k = "set" /\ r.k = "set" THEN (IF op = "-" THEN Difference(l, r) ELSE Err("none"))
  ELSE IF {l.k, r.k} \subseteq NumberKinds \union {"set"} THEN Err("type")
  ELSE Undefined

\* Two integers compare as integers, numbers as doubles, all else as texts.
Compare(op, less, same) ==
  CASE op = "="  -> same
    [] op = "!=" -> ~same
    [] op = "<"  -> less
    [] op = "<=" -> less \/ same
    [] op = ">"  -> ~less /\ ~same
    [] op = ">=" -> ~less

BoolInfix(op, l, r) ==
  IF "undefined" \in {l.k, r.k} THEN Bool(FALSE)
  ELSE IF IsErr(l) THEN l
  ELSE IF IsErr(r) THEN r
  ELSE IF l.k = "int" /\ r.k = "int" THEN Bool(Compare(op, Less(l.n, r.n), l.n = r.n))
  ELSE IF l.k \in NumberKinds /\ r.k \in NumberKinds
  THEN Bool(Compare(op, Double(l) < Double(r), Double(l) = Double(r)))
  ELSE Bool(Compare(op, KeyLess(l, r), SameKey(l, r)))
=============================================================================
