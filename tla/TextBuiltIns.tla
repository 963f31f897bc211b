---------------------------- MODULE TextBuiltIns ----------------------------
(***************************************************************************)
(* Built-in functions on strings: searching, splitting, replacing,         *)
(* trimming and formatting (builtins/core.cc).                             *)
(*                                                                         *)
(* A string is a sequence of character codes, each one byte and one rune.  *)
(* Positions count from 1; the code's npos is 0.                           *)
(***************************************************************************)
EXTENDS CoreBuiltIns
LOCAL INSTANCE SequencesExt
LOCAL INSTANCE TLC

NoPos == 0

At(s, p, i) == \A j \in DOMAIN p : i + j - 1 \in DOMAIN s /\ s[i + j - 1] = p[j]

\* std::string::find: the first place of p in s at or after from.
Find(s, p, from) ==
  LET places == {i \in from..(Len(s) + 1) : At(s, p, i)}
  IN IF places = {} THEN NoPos ELSE CHOOSE i \in places : \A j \in places : i <= j

From(s, i) == SubSeq(s, i, Len(s))
StartsWith(s, p) == At(s, p, 1)
EndsWith(s, p) == Len(p) <= Len(s) /\ At(s, p, Len(s) - Len(p) + 1)

Strings2(x, y, result) == Checked(<<Unwrap(x, {"string"}), Unwrap(y, {"string"})>>, result)

(***************************************************************************)
(* Searching.                                                              *)
(***************************************************************************)
TwoStrings == <<StringType, StringType>>
StartswithDecl == Sig(TwoStrings, BoolType)
EndswithDecl   == Sig(TwoStrings, BoolType)
ContainsDecl   == Sig(TwoStrings, BoolType)
IndexofDecl    == Sig(TwoStrings, NumberType)
IndexofNDeclCopied == Sig(TwoStrings, NumberType)
IndexofNDecl   == Sig(TwoStrings, {"array[number]"})
StringsCountDecl == Sig(TwoStrings, NumberType)

StartswithRaw(search, base) == Strings2(search, base, Bool(StartsWith(search.raw, base.raw)))
Startswith(search, base) == Strings2(search, base, Bool(StartsWith(search.s, base.s)))
Endswith(search, base) == Strings2(search, base, Bool(EndsWith(search.s, base.s)))
ContainsText(haystack, needle) ==
  Strings2(haystack, needle, Bool(Find(haystack.s, needle.s, 1) # NoPos))
Indexof(haystack, needle) ==
  Strings2(haystack, needle, Num(Find(haystack.s, needle.s, 1) - 1))

RECURSIVE PlacesFrom(_, _, _)
PlacesFrom(s, p, from) ==
  LET pos == Find(s, p, from)
  IN IF pos = NoPos THEN <<>> ELSE <<Num(pos - 1)>> \o PlacesFrom(s, p, pos + 1)
IndexofN(haystack, needle) ==
  Strings2(haystack, needle, Arr(PlacesFrom(haystack.s, needle.s, 1)))

RECURSIVE CountFrom(_, _, _)
CountFrom(s, p, from) ==
  LET pos == Find(s, p, from)
  IN IF from > Len(s) \/ pos = NoPos THEN 0 ELSE 1 + CountFrom(s, p, pos + Len(p))
StringsCount(search, sub) ==
  Strings2(search, sub,
           Num(IF sub.s = <<>> THEN Len(search.s) + 1 ELSE CountFrom(search.s, sub.s, 1)))

\* One string, or a collection of them; the first that is not one is the error.
Texts(x) == IF x.k = "string" THEN {x.s} ELSE {Members(x)[i].s : i \in DOMAIN Members(x)}
AnyMatch(search, base, Matches(_, _)) ==
  Checked(<<Unwrap(search, {"string", "set", "array"}), Unwrap(base, {"string", "set", "array"})>>,
          IF \E x \in {search, base} : x.k # "string" /\ ~All(x, {"string"}) THEN Err("type")
          ELSE Bool(\E s \in Texts(search), b \in Texts(base) : Matches(s, b)))

StringOrStrings == {"string", "array[string]", "set[string]"}
AnyPrefixMatchDecl == Sig(<<StringOrStrings, StringOrStrings>>, StringType)
AnySuffixMatchDecl == Sig(<<StringOrStrings, StringOrStrings>>, StringType)
AnyPrefixMatch(search, base) == AnyMatch(search, base, StartsWith)
AnySuffixMatch(search, base) == AnyMatch(search, base, EndsWith)

(***************************************************************************)
(* Splitting, joining and replacing.                                       *)
(***************************************************************************)
ConcatDecl == Sig(<<StringType, {"array[string]", "set[string]"}>>, BoolType)
Concat(delimiter, collection) ==
  Checked(<<Unwrap(delimiter, {"string"}), Unwrap(collection, {"array", "set"})>>,
          IF ~All(collection, {"string"}) THEN Err("type")
          ELSE Computed(Join([i \in DOMAIN Members(collection) |-> Members(collection)[i].s],
                        delimiter.s)))

SplitDecl == Sig(TwoStrings, {"array[string]"})
RECURSIVE PiecesFrom(_, _, _)
PiecesFrom(s, delim, start) ==
  LET pos == Find(s, delim, start)
  IN IF pos = NoPos THEN <<Str(From(s, start))>>
     ELSE <<Str(SubSeq(s, start, pos - 1))>> \o PiecesFrom(s, delim, pos + Len(delim))
Split(x, delimiter) ==
  Strings2(x, delimiter,
           Arr(IF delimiter.s = <<>> THEN [i \in DOMAIN x.s |-> Str(<<x.s[i]>>)]
               ELSE PiecesFrom(x.s, delimiter.s, 1)))

(***************************************************************************)
(* do_replace searches on behind what it has just put in.  Each            *)
(* replacement of a text that is not empty leaves less behind it, so that  *)
(* there are at most as many as the string has characters: after more than *)
(* that the loop goes on for ever.                                         *)
(***************************************************************************)
NeverReturns == [k |-> "never returns"]

RECURSIVE ReplaceFrom(_, _, _, _, _)
ReplaceFrom(x, old, new, from, fuel) ==
  LET pos == Find(x, old, from)
  IN IF pos = NoPos THEN Computed(x)
     ELSE IF fuel = 0 THEN NeverReturns
     ELSE ReplaceFrom(SubSeq(x, 1, pos - 1) \o new \o From(x, pos + Len(old)),
                      old, new, pos + Len(new), fuel - 1)
DoReplace(x, old, new) == ReplaceFrom(x, old, new, 1, Len(x))

ReplaceDecl == Sig(<<StringType, StringType, StringType>>, StringType)
Replace(x, old, new) ==
  Checked(<<Unwrap(x, {"string"}), Unwrap(old, {"string"}), Unwrap(new, {"string"})>>,
          DoReplace(x.s, old.s, new.s))

\* The patterns are applied one after the other in the order of their texts.
ReplaceNDecl == Sig(<<{"object[string:string]"}, StringType>>, StringType)
ReplaceN(patterns, value) ==
  LET es == patterns.entries
      olds == InTextOrder({es[i].key.s : i \in DOMAIN es})
      \* A later entry for the same key replaces an earlier one.
      newFor(old) == es[CHOOSE i \in DOMAIN es :
                          es[i].key.s = old /\ \A j \in DOMAIN es : es[j].key.s = old => j <= i].val.s
      Step(acc, old) == IF acc.k = "string" THEN DoReplace(acc.s, old, newFor(old)) ELSE acc
  IN Checked(<<Unwrap(patterns, {"object"}), Unwrap(value, {"string"})>>,
             IF \E i \in DOMAIN es : es[i].key.k # "string" \/ es[i].val.k # "string"
             THEN Err("type")
             ELSE LET last == FoldLeft(Step, value, olds)
                  IN IF last.k = "string" THEN Str(last.s) ELSE last)

(***************************************************************************)
(* Parts of a string.                                                      *)
(***************************************************************************)
SubstringDecl == Sig(<<StringType, NumberType, NumberType>>, StringType)
\* The length taken for the place where the part ends.
SubstringToEnd(value, offset, length) ==
  Checked(<<Unwrap(value, {"string"}), Unwrap(offset, {"int"}), Unwrap(length, {"int"})>>,
          IF ~InWord(offset.n) \/ offset.n.neg THEN Err("builtin")
          ELSE IF ToInt(offset.n) >= Len(value.s) THEN Str(<<>>)
          ELSE IF length.n.neg \/ ToInt(length.n) > Len(value.s) THEN Str(From(value.s, ToInt(offset.n) + 1))
          ELSE Str(SubSeq(value.s, ToInt(offset.n) + 1, ToInt(length.n))))
Substring(value, offset, length) ==
  Checked(<<Unwrap(value, {"string"}), Unwrap(offset, {"int"}), Unwrap(length, {"int"})>>,
          IF ~InWord(offset.n) \/ offset.n.neg THEN Err("builtin")
          ELSE IF ToInt(offset.n) >= Len(value.s) THEN Str(<<>>)
          ELSE IF ~InWord(length.n) THEN Err("builtin")
          ELSE LET rest == From(value.s, ToInt(offset.n) + 1)
               IN IF length.n.neg \/ ToInt(length.n) > Len(rest) THEN Str(rest)
                  ELSE Str(SubSeq(rest, 1, ToInt(length.n))))

\* find_first_not_of and find_last_not_of.
DoTrim(s, cut, left, right) ==
  LET keep == {i \in DOMAIN s : \A j \in DOMAIN cut : cut[j] # s[i]}
      first == IF left THEN CHOOSE i \in keep : \A j \in keep : i <= j ELSE 1
      last == IF right THEN CHOOSE i \in keep : \A j \in keep : j <= i ELSE Len(s)
  IN IF keep = {} THEN <<>> ELSE SubSeq(s, first, last)

TrimDecl      == Sig(TwoStrings, StringType)
TrimLeftDecl  == Sig(TwoStrings, StringType)
TrimRightDecl == Sig(TwoStrings, StringType)
TrimSpaceDecl == Sig(<<StringType>>, StringType)
TrimB(value, cutset) == Strings2(value, cutset, Str(DoTrim(value.s, cutset.s, TRUE, TRUE)))
TrimLeft(value, cutset) == Strings2(value, cutset, Str(DoTrim(value.s, cutset.s, TRUE, FALSE)))
TrimRight(value, cutset) == Strings2(value, cutset, Str(DoTrim(value.s, cutset.s, FALSE, TRUE)))
Spaces == <<32, 9, 10, 13, 11, 12>>
TrimSpace(value) ==
  Checked(<<Unwrap(value, {"string"})>>, Str(DoTrim(value.s, Spaces, TRUE, TRUE)))

TrimPrefixDecl == Sig(TwoStrings, StringType)
TrimSuffixDecl == Sig(TwoStrings, StringType)
TrimPrefix(value, prefix) ==
  Strings2(value, prefix,
           IF StartsWith(value.s, prefix.s) THEN Str(From(value.s, Len(prefix.s) + 1)) ELSE value)
TrimSuffix(value, suffix) ==
  Strings2(value, suffix,
           IF EndsWith(value.s, suffix.s)
           THEN Str(SubSeq(value.s, 1, Len(value.s) - Len(suffix.s))) ELSE value)

LowerDecl == Sig(<<StringType>>, StringType)
UpperDecl == Sig(<<StringType>>, StringType)
ToLower(c) == IF c \in 65..90 THEN c + 32 ELSE c
ToUpper(c) == IF c \in 97..122 THEN c - 32 ELSE c
Lower(x) == Checked(<<Unwrap(x, {"string"})>>, Computed([i \in DOMAIN x.s |-> ToLower(x.s[i])]))
Upper(x) == Checked(<<Unwrap(x, {"string"})>>, Computed([i \in DOMAIN x.s |-> ToUpper(x.s[i])]))

ReverseDecl == Sig(<<StringType>>, NumberType)
ReverseB(x) == Checked(<<Unwrap(x, {"string"})>>, Str(Reverse(x.s)))

(***************************************************************************)
(* format_int.  Bases 8 and 16 print the word as an unsigned one, base 2   *)
(* prints a bitset of two bits.                                            *)
(***************************************************************************)
FormatIntDecl == Sig(<<NumberType, NumberType>>, StringType)
Digit(d) == IF d < 10 THEN 48 + d ELSE 87 + d
InBase[n \in Nat, b \in {2, 8, 16}] ==
  IF n < b THEN <<Digit(n)>> ELSE Append(InBase[n \div b, b], Digit(n % b))
FormatInt(number, base) ==
  LET value == IF number.k = "int" THEN ToInt(number.n) ELSE number.q \div 4
      b == ToInt(base.n)
  IN Checked(<<Unwrap(number, NumberKinds), Unwrap(base, {"int"})>>,
             CASE number.k = "int" /\ ~InWord(number.n) -> Err("type")
               [] b = 2 -> Computed(<<Digit(BitOf(value, 1)), Digit(BitOf(value, 0))>>)
               [] b \in {8, 16} -> Computed(InBase[Pattern(value), b])
               [] b = 10 -> Computed(BigText(FromInt(value)))
               [] OTHER -> Err("type"))

(***************************************************************************)
(* sprintf.  A format is cut into literals and verbs; a verb takes the     *)
(* next value.  Numbers are printed by the C library (snprintf), which is  *)
(* not under src/: the formats here have no flags, for which it prints six *)
(* decimals (%f, %e) or six digits without trailing zeros (%g).  Doubles   *)
(* are quarters below 10000, whose digits all fit.                         *)
(***************************************************************************)
Percent == 37
Flags == (48..57) \union {46, 45, 43, 35, 32}
VerbOf(c) ==
  CASE c = 116 -> "Boolean"
    [] c = 98  -> "Binary"
    [] c \in {100, 120, 88, 111, 79} -> "Integer"
    [] c \in {101, 69, 102, 70, 103, 71} -> "Double"
    [] c = 115 -> "String"
    [] c = 118 -> "Value"
    [] OTHER   -> "Literal"
Literal(text) == [type |-> "Literal", format |-> text]

RECURSIVE ParseFormat(_, _)
ParseFormat(s, start) ==
  LET pos == Find(s, <<Percent>>, start)
      ends == {i \in (pos + 1)..(Len(s) + 1) : i > Len(s) \/ s[i] \notin Flags}
      end == CHOOSE i \in ends : \A j \in ends : i <= j
      verb == IF end > Len(s) THEN Literal(From(s, pos))
              ELSE IF s[end] = Percent THEN Literal(<<Percent>>)
              ELSE [type |-> VerbOf(s[end]), format |-> SubSeq(s, pos, end)]
  IN IF pos = NoPos THEN <<Literal(From(s, start))>>
     ELSE <<Literal(SubSeq(s, start, pos - 1)), verb>> \o ParseFormat(s, end + 1)

\* get_raw_string: the text a node holds, of a string with its quotes if it has them.
RawText(v) == IF v.k = "string" THEN v.raw ELSE Key(v)

Uppercase(s) == [i \in DOMAIN s |-> ToUpper(s[i])]

\* snprintf of an integer.  %O is no conversion of C: it is printed as it is.
IntegerText(n, verb) ==
  CASE verb = 100 -> BigText(n)
    [] verb = 120 -> InBase[Pattern(ToInt(n)), 16]
    [] verb = 88  -> Uppercase(InBase[Pattern(ToInt(n)), 16])
    [] verb = 111 -> InBase[Pattern(ToInt(n)), 8]
    [] verb = 79  -> <<Percent, verb>>

\* snprintf of a double of q quarters, from its hundredths.
SixDigits(s) == s \o [i \in 1..(6 - Len(s)) |-> 48]
DoubleText(q, verb) ==
  LET hundredths == 25 * (IF q < 0 THEN -q ELSE q)
      digits == BigText(FromInt(hundredths))
      sign == IF q < 0 THEN <<45>> ELSE <<>>
      fixed == BigText(FromInt(hundredths \div 100)) \o <<46>>
                 \o SixDigits(<<48 + ((hundredths \div 10) % 10), 48 + (hundredths % 10)>>)
      exponent == IF q = 0 THEN 0 ELSE Len(digits) - 3
      scientific == <<digits[1], 46>> \o SixDigits(Tail(digits)) \o <<101>>
                      \o (IF exponent < 0 THEN <<45, 48, 48 - exponent>> ELSE <<43, 48, 48 + exponent>>)
  IN CASE verb \in {103, 71} -> FloatText(q)
       [] verb \in {102, 70} -> sign \o fixed
       [] verb = 101 -> sign \o scientific
       [] verb = 69  -> sign \o Uppercase(scientific)

\* What a verb prints for a value, or the error it ends in.  %b reads the
\* list of values as a number, which throws.
Printed(verb, v) ==
  CASE verb.type = "Value"   -> Str(IF v.k = "string" THEN v.raw ELSE Key(v))
    [] verb.type = "String"  -> Str(RawText(v))
    [] verb.type = "Boolean" -> Str(Key(Bool(v # Bool(FALSE))))
    [] verb.type = "Binary"  -> [k |-> "throws"]
    [] verb.type = "Integer" ->
         IF v.k # "int" \/ ~InWord(v.n) THEN Err("type")
         ELSE Str(IntegerText(v.n, Last(verb.format)))
    [] verb.type = "Double" ->
         IF v.k \notin NumberKinds THEN Err("type")
         ELSE Str(DoubleText(Double(v), Last(verb.format)))

RECURSIVE Print1(_, _, _)
Print1(verbs, values, out) ==
  IF verbs = <<>> THEN Str(out)
  ELSE IF verbs[1].type = "Literal" THEN Print1(Tail(verbs), values, out \o verbs[1].format)
  ELSE IF values = <<>> THEN Err("type")
  ELSE LET text == Printed(verbs[1], values[1])
       IN IF text.k # "string" THEN text
          ELSE Print1(Tail(verbs), Tail(values), out \o text.s)

SprintfDecl == Sig(<<StringType, ArrayType>>, StringType)
Sprintf(format, values) ==
  Checked(<<Unwrap(format, {"string"}), Unwrap(values, {"array", "set"})>>,
          Print1(ParseFormat(format.s, 1), Members(values), <<>>))

TypeNameDecl == Sig(<<AnyType>>, StringType)
TypeNames == [int |-> <<110, 117, 109, 98, 101, 114>>, float |-> <<110, 117, 109, 98, 101, 114>>,
              string |-> <<115, 116, 114, 105, 110, 103>>, bool |-> <<98, 111, 111, 108, 101, 97, 110>>,
              null |-> <<110, 117, 108, 108>>, array |-> <<97, 114, 114, 97, 121>>,
              set |-> <<115, 101, 116>>, object |-> <<111, 98, 106, 101, 99, 116>>]
TypeName(x) == Str(TypeNames[x.k])
=============================================================================
