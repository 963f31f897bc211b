---------------------------- MODULE CoreBuiltIns ----------------------------
(***************************************************************************)
(* Built-in functions on numbers, collections and types: the aggregates,   *)
(* arithmetic, comparison and set functions and walk (builtins/core.cc),   *)
(* number ranges (builtins/numbers.cc) and machine-word operations         *)
(* (builtins/bits.cc).                                                     *)
(*                                                                         *)
(* Each function has the declaration its factory builds, from which the    *)
(* machine takes the number of arguments and a bundle the types.  The      *)
(* texts of error messages are left out; the code of an error stays.       *)
(***************************************************************************)
EXTENDS Values
LOCAL INSTANCE SequencesExt
LOCAL INSTANCE TLC

CONSTANT WordBits   \* the width of a machine integer (std::int64_t)

ASSUME WordAssumption == WordBits \in Nat \ {0, 1}

(***************************************************************************)
(* Declared types, as the alternatives a TypeSeq lists.  array[t] and      *)
(* set[t] are collections whose members have the type t.                   *)
(***************************************************************************)
Sig(args, result) == [args |-> args, result |-> result]

AnyType == {"any"}
NumberType == {"number"}
StringType == {"string"}
BoolType == {"boolean"}
ArrayType == {"array"}
SetType == {"set"}
ObjectType == {"object"}

Members(v) ==
  CASE v.k = "array"  -> v.items
    [] v.k = "set"    -> v.members
    [] v.k = "object" -> v.entries

All(v, kinds) == \A i \in DOMAIN Members(v) : Members(v)[i].k \in kinds

OfType(v, type) ==
  CASE type = "any"           -> v.k \in ValueKinds
    [] type = "number"        -> v.k \in NumberKinds
    [] type = "boolean"       -> v.k = "bool"
    [] type = "array[number]" -> v.k = "array" /\ All(v, NumberKinds)
    [] type = "set[number]"   -> v.k = "set" /\ All(v, NumberKinds)
    [] type = "array[string]" -> v.k = "array" /\ All(v, {"string"})
    [] type = "set[string]"   -> v.k = "set" /\ All(v, {"string"})
    [] type = "array[array]"  -> v.k = "array" /\ All(v, {"array"})
    [] type = "array[object]" -> v.k = "array" /\ All(v, {"object"})
    [] type = "set[array]"    -> v.k = "set" /\ All(v, {"array"})
    [] type = "set[set]"      -> v.k = "set" /\ All(v, {"set"})
    [] type = "object[string:string]" ->
         v.k = "object" /\ \A i \in DOMAIN v.entries :
                             v.entries[i].key.k = "string" /\ v.entries[i].val.k = "string"
    [] OTHER                  -> v.k = type

HasType(v, types) == \E t \in types : OfType(v, t)

\* unwrap_arg: the value, or an error, when its kind is not one of kinds.
Unwrap(v, kinds) == IF v.k \in kinds THEN v ELSE Err("type")

\* The first argument that failed to unwrap is the result.
FirstError(vs) == vs[CHOOSE i \in DOMAIN vs : IsErr(vs[i]) /\ \A j \in 1..(i - 1) : ~IsErr(vs[j])]
Checked(vs, result) == IF \E i \in DOMAIN vs : IsErr(vs[i]) THEN FirstError(vs) ELSE result

(***************************************************************************)
(* Aggregates.  The largest, the smallest and the sorted order are those   *)
(* of the texts of the members.                                            *)
(***************************************************************************)
CountDecl == Sig(<<{"string", "array", "set"}>>, NumberType)
Count(c) ==
  Checked(<<Unwrap(c, {"array", "object", "set", "string"})>>,
          Num(IF c.k = "string" THEN Len(c.s) ELSE Len(Members(c))))

Precedes(a, b) == KeyLess(a, b)

\* std::max_element and std::min_element: the first of equally good ones.
FirstBest(vs, Better(_, _)) ==
  vs[CHOOSE i \in DOMAIN vs : /\ \A j \in DOMAIN vs : ~Better(vs[j], vs[i])
                              /\ \A j \in 1..(i - 1) : Better(vs[i], vs[j])]

MaxDecl == Sig(<<{"array", "set"}>>, AnyType)
MaxOf(c) ==
  Checked(<<Unwrap(c, {"array", "set"})>>,
          IF Members(c) = <<>> THEN Undefined
          ELSE FirstBest(Members(c), LAMBDA a, b : Precedes(b, a)))

MinDecl == Sig(<<{"array", "set"}>>, AnyType)
MinOf(c) ==
  Checked(<<Unwrap(c, {"array", "set"})>>,
          IF Members(c) = <<>> THEN Undefined
          ELSE FirstBest(Members(c), LAMBDA a, b : Precedes(a, b)))

SortDecl == Sig(<<{"array", "set"}>>, ArrayType)
Sort(c) ==
  Checked(<<Unwrap(c, {"array", "set"})>>,
          LET sorted == SortSeq(Members(c), LAMBDA a, b : Precedes(a, b))
          IN IF c.k = "array" THEN Arr(sorted) ELSE SetOf(sorted))

SumDecl == Sig(<<{"array[number]", "set[number]"}>>, NumberType)
SumOf(c) ==
  Checked(<<Unwrap(c, {"array", "set"})>>,
          FoldLeft(LAMBDA acc, v : ArithInfix("+", acc, v), Num(0), Members(c)))

ProductDecl == Sig(<<{"array[number]", "set[number]"}>>, NumberType)
ProductOf(c) ==
  Checked(<<Unwrap(c, {"array", "set"})>>,
          FoldLeft(LAMBDA acc, v : ArithInfix("*", acc, v), Num(1), Members(c)))

(***************************************************************************)
(* Comparisons and arithmetic.  An argument of a wrong type is passed on   *)
(* as the error it unwraps to.                                             *)
(***************************************************************************)
ComparisonDecl == Sig(<<AnyType, AnyType>>, BoolType)
EqualDecl == ComparisonDecl
GtDecl  == ComparisonDecl
GteDecl == ComparisonDecl
LtDecl  == ComparisonDecl
LteDecl == ComparisonDecl
NeqDecl == ComparisonDecl

Equal(x, y) == BoolInfix("=", x, y)
Gt(x, y)  == BoolInfix(">", x, y)
Gte(x, y) == BoolInfix(">=", x, y)
Lt(x, y)  == BoolInfix("<", x, y)
Lte(x, y) == BoolInfix("<=", x, y)
Neq(x, y) == BoolInfix("!=", x, y)

ArithmeticDecl == Sig(<<NumberType, NumberType>>, NumberType)
PlusDecl == ArithmeticDecl
MulDecl  == ArithmeticDecl
DivDecl  == ArithmeticDecl
RemDecl  == ArithmeticDecl
MinusDecl == Sig(<<{"number", "set"}, {"number", "set"}>>, {"number", "set"})

PlusB(x, y) == ArithInfix("+", Unwrap(x, NumberKinds), Unwrap(y, NumberKinds))
MinusB(x, y) ==
  ArithInfix("-", Unwrap(x, NumberKinds \union {"set"}), Unwrap(y, NumberKinds \union {"set"}))
Mul(x, y) == ArithInfix("*", Unwrap(x, NumberKinds), Unwrap(y, NumberKinds))
Div(x, y) == ArithInfix("/", Unwrap(x, NumberKinds), Unwrap(y, NumberKinds))
Rem(x, y) == ArithInfix("%", Unwrap(x, NumberKinds), Unwrap(y, NumberKinds))

AbsDecl   == Sig(<<NumberType>>, NumberType)
CeilDecl  == Sig(<<NumberType>>, NumberType)
FloorDecl == Sig(<<NumberType>>, NumberType)
RoundDecl == Sig(<<NumberType>>, NumberType)

Abs(x) ==
  Checked(<<Unwrap(x, NumberKinds)>>,
          IF x.k = "int" THEN BigNum(IF x.n.neg THEN Negate(x.n) ELSE x.n)
          ELSE Float(IF x.q < 0 THEN -x.q ELSE x.q))
Ceil(x) ==
  Checked(<<Unwrap(x, NumberKinds)>>, IF x.k = "int" THEN x ELSE Num((x.q + 3) \div 4))
Floor(x) ==
  Checked(<<Unwrap(x, NumberKinds)>>, IF x.k = "int" THEN x ELSE Num(x.q \div 4))

\* std::round: halves go away from zero.
Round(x) ==
  Checked(<<Unwrap(x, NumberKinds)>>,
          IF x.k = "int" THEN x
          ELSE Num(IF x.q < 0 THEN -((2 - x.q) \div 4) ELSE (x.q + 2) \div 4))

(***************************************************************************)
(* std::stoi and std::stod on a text without fraction or exponent: as many *)
(* digits as there are; what follows them is not looked at.                *)
(***************************************************************************)
Dash == 45
Cross == 43
NotANumber == [ok |-> FALSE]

IsDigit(c) == c \in 48..57
Digits(text) == [i \in DOMAIN text |-> text[i] - 48]
Signs(s) == IF s # <<>> /\ s[1] \in {Dash, Cross} THEN 1 ELSE 0
DigitRun(s, i) == LET stops == {j \in i..(Len(s) + 1) : j > Len(s) \/ ~IsDigit(s[j])}
                  IN SubSeq(s, i, (CHOOSE j \in stops : \A k \in stops : j <= k) - 1)
Stoi(s) ==
  LET digits == DigitRun(s, Signs(s) + 1)
      n == Magnitude(Digits(digits))
  IN IF digits = <<>> THEN NotANumber
     ELSE [ok |-> TRUE, n |-> IF s[1] = Dash THEN -n ELSE n]

\* A text that is an integer as it stands is kept (BigInt::is_int); any other
\* goes through a double.
ToNumberDecl == Sig(<<{"null", "boolean", "number", "string"}>>, NumberType)
IsIntText(s) == s # <<>> /\ \A i \in DOMAIN s : IsDigit(s[i]) \/ (i = 1 /\ s[i] = Dash)
ToNumber(x) ==
  Checked(<<Unwrap(x, NumberKinds \union {"string", "bool", "null"})>>,
          CASE x.k = "string" ->
                 IF IsIntText(x.raw)
                 THEN LET neg == x.raw[1] = Dash
                      IN BigNum(Big(neg, Digits(IF neg THEN Tail(x.raw) ELSE x.raw)))
                 ELSE IF Stoi(x.s).ok THEN Num(Stoi(x.s).n) ELSE Err("builtin")
            [] x.k = "null" -> Num(0)
            [] x.k = "bool" -> Num(IF x.b THEN 1 ELSE 0)
            [] OTHER -> x)

(***************************************************************************)
(* Sets of sets, and the operators & and |.                                *)
(***************************************************************************)
SetPairDecl == Sig(<<SetType, SetType>>, SetType)
AndDecl == SetPairDecl
OrDecl  == SetPairDecl
And(x, y) == Intersection(x, y)
Or(x, y)  == SetUnion(x, y)

IntersectionDecl == Sig(<<{"set[set]"}>>, SetType)
IntersectionOf(xs) ==
  Checked(<<Unwrap(xs, SetType)>>,
          IF Members(xs) = <<>> THEN SetOf(<<>>)
          ELSE IF ~All(xs, SetType) THEN Err("type")
          ELSE FoldLeft(Intersection, Members(xs)[1], Tail(Members(xs))))

UnionDecl == Sig(<<{"set[set]"}>>, SetType)
UnionOf(xs) ==
  Checked(<<Unwrap(xs, SetType)>>,
          IF ~All(xs, SetType) THEN Err("type")
          ELSE FoldLeft(SetUnion, SetOf(<<>>), Members(xs)))

(***************************************************************************)
(* Types.                                                                  *)
(***************************************************************************)
IsDecl == Sig(<<AnyType>>, BoolType)
IsArray(x)   == Bool(x.k = "array")
IsBoolean(x) == Bool(x.k = "bool")
IsNull(x)    == Bool(x.k = "null")
IsNumber(x)  == Bool(x.k \in NumberKinds)
IsObject(x)  == Bool(x.k = "object")
IsSet(x)     == Bool(x.k = "set")
IsString(x)  == Bool(x.k = "string")

(***************************************************************************)
(* walk: every part of a value with the path that leads to it, breadth     *)
(* first.  The steps are the positions of an array, the members of a set   *)
(* and the keys of an object.                                              *)
(***************************************************************************)
WalkDecl == Sig(<<AnyType>>, {"array[array]"})

Below(path, v) ==
  CASE v.k = "array"  -> [i \in DOMAIN v.items |-> <<Append(path, Num(i - 1)), v.items[i]>>]
    [] v.k = "set"    -> [i \in DOMAIN v.members |-> <<Append(path, v.members[i]), v.members[i]>>]
    [] v.k = "object" -> [i \in DOMAIN v.entries |->
                           <<Append(path, v.entries[i].key), v.entries[i].val>>]
    [] OTHER -> <<>>

RECURSIVE WalkQueue(_)
WalkQueue(queue) ==
  IF queue = <<>> THEN <<>>
  ELSE LET path == queue[1][1]
           current == queue[1][2]
       IN <<Arr(<<Arr(path), current>>)>> \o WalkQueue(Tail(queue) \o Below(path, current))

Walk(x) == Arr(WalkQueue(<<<< <<>>, x >>>>))

(***************************************************************************)
(* Ranges of numbers.                                                      *)
(***************************************************************************)
RECURSIVE Upward(_, _, _), Downward(_, _, _)
Upward(cur, rhs, step) ==
  IF Less(cur, rhs) THEN <<BigNum(cur)>> \o Upward(Plus(cur, step), rhs, step)
  ELSE IF cur = rhs THEN <<BigNum(cur)>> ELSE <<>>
Downward(cur, rhs, step) ==
  IF Less(rhs, cur) THEN <<BigNum(cur)>> \o Downward(Minus(cur, step), rhs, step)
  ELSE IF cur = rhs THEN <<BigNum(cur)>> ELSE <<>>

RangeDecl == Sig(<<NumberType, NumberType>>, {"array[number]"})
NumbersRange(a, b) ==
  Checked(<<Unwrap(a, {"int"}), Unwrap(b, {"int"})>>,
          Arr(IF Less(a.n, b.n) THEN Upward(a.n, b.n, FromInt(1))
              ELSE Downward(a.n, b.n, FromInt(1))))

RangeStepDecl == Sig(<<NumberType, NumberType, NumberType>>, {"array[number]"})
NumbersRangeStep(a, b, step) ==
  Checked(<<Unwrap(a, {"int"}), Unwrap(b, {"int"}), Unwrap(step, {"int"})>>,
          IF Less(step.n, FromInt(1)) THEN Err("builtin")
          ELSE Arr(IF Less(a.n, b.n) THEN Upward(a.n, b.n, step.n)
                   ELSE Downward(a.n, b.n, step.n)))

(***************************************************************************)
(* Words.  A BigInt outside the machine range is refused (to_int); the     *)
(* operations are those of two's complement.  A shift by the width or more *)
(* has no defined result in the code: Unspecified stands for any.          *)
(***************************************************************************)
Unspecified == [k |-> "unspecified"]

MaxWord == 2^(WordBits - 1) - 1
InWord(n) == LET i == ToInt(n) IN -(MaxWord + 1) <= i /\ i <= MaxWord

Pattern(i) == i % (2^WordBits)
Signed(p) == IF p > MaxWord THEN p - 2^WordBits ELSE p
BitOf(i, b) == (Pattern(i) \div (2^b)) % 2

FromBits(Bit(_)) ==
  LET sum[b \in 0..WordBits] == IF b = 0 THEN 0 ELSE sum[b - 1] + Bit(b - 1) * 2^(b - 1)
  IN Signed(sum[WordBits])

BitPairDecl == Sig(<<NumberType, NumberType>>, NumberType)
BitAndDecl == BitPairDecl
BitOrDecl  == BitPairDecl
BitXorDecl == BitPairDecl
LshDecl    == BitPairDecl
RshDecl    == BitPairDecl
BitNegateDecl == Sig(<<NumberType>>, NumberType)

\* Both operands integers that fit a word, then the operation on them.
OnWords(x, y, result) ==
  Checked(<<Unwrap(x, {"int"}), Unwrap(y, {"int"})>>,
          IF InWord(x.n) /\ InWord(y.n) THEN result ELSE Err("type"))

BitAnd(x, y) ==
  OnWords(x, y, Num(FromBits(LAMBDA b : BitOf(ToInt(x.n), b) * BitOf(ToInt(y.n), b))))
BitOr(x, y) ==
  OnWords(x, y, Num(FromBits(LAMBDA b : IF BitOf(ToInt(x.n), b) + BitOf(ToInt(y.n), b) > 0
                                        THEN 1 ELSE 0)))
BitXor(x, y) ==
  OnWords(x, y, Num(FromBits(LAMBDA b : (BitOf(ToInt(x.n), b) + BitOf(ToInt(y.n), b)) % 2)))
BitNegate(x) ==
  Checked(<<Unwrap(x, {"int"})>>,
          IF InWord(x.n) THEN Num(FromBits(LAMBDA b : 1 - BitOf(ToInt(x.n), b))) ELSE Err("type"))

\* The scale is an unsigned word that becomes a signed one on its way to a BigInt.
Lsh(x, s) ==
  Checked(<<Unwrap(x, {"int"}), Unwrap(s, {"int"})>>,
          IF ~InWord(s.n) \/ s.n.neg THEN Err("type")
          ELSE IF ToInt(s.n) >= WordBits THEN Unspecified
          ELSE BigNum(Times(x.n, FromInt(Signed(2^ToInt(s.n))))))
Rsh(x, s) ==
  OnWords(x, s, IF s.n.neg THEN Err("type")
                ELSE IF ToInt(s.n) >= WordBits THEN Unspecified
                ELSE Num(ToInt(x.n) \div 2^ToInt(s.n)))
=============================================================================
