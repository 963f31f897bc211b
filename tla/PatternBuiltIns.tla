--------------------------- MODULE PatternBuiltIns ---------------------------
(***************************************************************************)
(* Built-in functions that read a small language out of a string: glob     *)
(* patterns (builtins/glob.cc), semantic versions (builtins/semver.cc) and *)
(* amounts with units (builtins/units.cc).                                 *)
(*                                                                         *)
(* The bounds of the matcher on frames, nesting and bytes (4096, 64 and    *)
(* 10^7) are far above the patterns used here and left out.                *)
(***************************************************************************)
EXTENDS TextBuiltIns
LOCAL INSTANCE SequencesExt

(***************************************************************************)
(* Glob patterns.                                                          *)
(***************************************************************************)
Star == 42
Question == 63
Backslash == 92
LBracket == 91
RBracket == 93
LBrace == 123
RBrace == 125
Bang == 33
Dot == 46

GlobMeta == {Star, Question, Backslash, LBracket, RBracket, LBrace, RBrace}

QuoteMetaDecl == Sig(<<StringType>>, StringType)
QuoteMeta(pattern) ==
  Checked(<<Unwrap(pattern, {"string"})>>,
          Computed(FlattenSeq([i \in DOMAIN pattern.s |->
                            IF pattern.s[i] \in GlobMeta THEN <<Backslash, pattern.s[i]>>
                            ELSE <<pattern.s[i]>>])))

Malformed == [ok |-> FALSE]

\* A character of a class, which a backslash may precede.
Quoted1(p, i) == IF p[i] = Backslash /\ i < Len(p) THEN i + 1 ELSE i

\* The members of a character class from place i on: the place behind its
\* closing bracket, and whether c is one of them.  The first is never the end.
RECURSIVE ClassFrom(_, _, _, _, _)
ClassFrom(p, i, c, first, found) ==
  IF i > Len(p) THEN Malformed
  ELSE IF ~first /\ p[i] = RBracket THEN [ok |-> TRUE, next |-> i + 1, found |-> found]
  ELSE LET lo == Quoted1(p, i)
           dash == lo + 1
           hi == Quoted1(p, dash + 1)
       IN IF dash < Len(p) /\ p[dash] = Dash /\ p[dash + 1] # RBracket
          THEN IF p[hi] < p[lo] THEN Malformed
               ELSE ClassFrom(p, hi + 1, c, FALSE, found \/ c \in p[lo]..p[hi])
          ELSE ClassFrom(p, dash, c, FALSE, found \/ c = p[lo])

MatchCharClass(p, c) ==
  LET negated == Len(p) > 1 /\ p[2] = Bang
      class == IF Len(p) < 2 THEN Malformed
               ELSE ClassFrom(p, IF negated THEN 3 ELSE 2, c, TRUE, FALSE)
  IN IF ~class.ok THEN class ELSE [class EXCEPT !.found = negated # @]

\* The alternatives of a brace group that starts before place i.
RECURSIVE AlternativesFrom(_, _, _, _, _)
AlternativesFrom(p, i, depth, current, alts) ==
  IF i > Len(p) THEN Malformed
  ELSE IF p[i] = Backslash /\ i < Len(p)
  THEN AlternativesFrom(p, i + 2, depth, current \o <<p[i], p[i + 1]>>, alts)
  ELSE IF p[i] = RBrace /\ depth = 1
  THEN [ok |-> TRUE, next |-> i + 1, alts |-> Append(alts, current)]
  ELSE IF p[i] = Comma /\ depth = 1
  THEN AlternativesFrom(p, i + 1, depth, <<>>, Append(alts, current))
  ELSE AlternativesFrom(p, i + 1,
                        CASE p[i] = LBrace -> depth + 1
                          [] p[i] = RBrace -> depth - 1
                          [] OTHER -> depth,
                        Append(current, p[i]), alts)
ParseAlternatives(p) == AlternativesFrom(p, 2, 1, <<>>, <<>>)

(***************************************************************************)
(* The matcher on the rest p of a pattern and the rest t of a text: "yes", *)
(* "no" or "bad" for a syntax error.  Its stack of frames is a depth-first *)
(* search, in which the first answer that is not "no" ends the search.  An *)
(* escaped character ends the step of the matcher and leaves nothing on    *)
(* the stack: whatever follows it in the pattern is not looked at.         *)
(***************************************************************************)
RECURSIVE Glob(_, _, _)

FirstAnswer(count, Answer(_)) ==
  LET upTo[n \in 0..count] ==
        IF n = 0 THEN "no" ELSE IF upTo[n - 1] # "no" THEN upTo[n - 1] ELSE Answer(n)
  IN upTo[count]

MatchEscape(p, t) == Len(p) > 1 /\ t # <<>> /\ t[1] = p[2]

\* A star that runs over delimiters.
MatchWildcardGreedy(p, t, delimiters) ==
  LET rest == From(p, IF Len(p) > 1 /\ p[2] = Star THEN 3 ELSE 2)
  IN FirstAnswer(Len(t) + 1, LAMBDA n : Glob(rest, From(t, n), delimiters))

MatchWildcard(p, t, delimiters) ==
  LET super == Len(p) > 1 /\ p[2] = Star
      rest == From(p, IF super THEN 3 ELSE 2)
      stops == {i \in DOMAIN t : ~super /\ t[i] \in delimiters}
      limit == IF stops = {} THEN Len(t) ELSE (CHOOSE i \in stops : \A j \in stops : i <= j) - 1
  IN FirstAnswer(limit + 1, LAMBDA n : Glob(rest, From(t, n), delimiters))

MatchAlternatives(p, t, delimiters) ==
  LET group == ParseAlternatives(p)
  IN IF ~group.ok THEN "no"
     ELSE FirstAnswer(Len(group.alts),
                      LAMBDA n : Glob(group.alts[n] \o From(p, group.next), t, delimiters))

MatchBracket(p, t, delimiters) ==
  IF t = <<>> THEN "no"
  ELSE LET class == MatchCharClass(p, t[1])
       IN IF ~class.ok THEN "bad"
          ELSE IF ~class.found THEN "no"
          ELSE Glob(From(p, class.next), Tail(t), delimiters)

Glob(p, t, delimiters) ==
  IF p = <<>> THEN (IF t = <<>> THEN "yes" ELSE "no")
  ELSE CASE p[1] = Backslash -> IF MatchEscape(p, t) /\ Len(t) = 1 THEN "yes" ELSE "no"
         [] p[1] = Star      -> MatchWildcard(p, t, delimiters)
         [] p[1] = Question  -> IF t = <<>> \/ t[1] \in delimiters THEN "no"
                                ELSE Glob(Tail(p), Tail(t), delimiters)
         [] p[1] = LBracket  -> MatchBracket(p, t, delimiters)
         [] p[1] = LBrace    -> MatchAlternatives(p, t, delimiters)
         [] OTHER            -> IF t = <<>> \/ t[1] # p[1] THEN "no"
                                ELSE Glob(Tail(p), Tail(t), delimiters)

\* null: no delimiters; an empty array: the dot.
GlobMatchDecl == Sig(<<StringType, {"null", "array[string]"}, StringType>>, BoolType)
GlobMatch(pattern, delimiters, match) ==
  Checked(<<Unwrap(pattern, {"string"}), Unwrap(delimiters, {"null", "array"}),
            Unwrap(match, {"string"})>>,
          IF delimiters.k = "array" /\ \E i \in DOMAIN delimiters.items :
               delimiters.items[i].k # "string" \/ Len(delimiters.items[i].s) > 1
          THEN Err("builtin")
          ELSE LET chars == CASE delimiters.k = "null" -> {}
                              [] delimiters.items = <<>> -> {Dot}
                              [] OTHER -> UNION {{s[1] : s \in {x.s} \ {<<>>}} :
                                                 x \in Range(delimiters.items)}
                   answer == Glob(pattern.s, match.s, chars)
               IN IF answer = "bad" THEN Err("builtin") ELSE Bool(answer = "yes"))

(***************************************************************************)
(* Versions.  std::stoi reads as many digits as there are.  Where there is *)
(* no dash, the search for the prerelease starts over at the beginning of  *)
(* the text; prerelease and metadata are cut by substr(start, end), whose  *)
(* second argument is a length.                                            *)
(***************************************************************************)
\* s.substr(start, count), both from 0; a count past the end stops there.
Substr(s, start, count) ==
  LET last == start + count IN SubSeq(s, start + 1, IF last > Len(s) THEN Len(s) ELSE last)

ParseSemver(s) ==
  LET dot1 == Find(s, <<Dot>>, 1)
      dot2 == IF dot1 = NoPos THEN NoPos ELSE Find(s, <<Dot>>, dot1 + 1)
      dash == IF dot2 = NoPos THEN NoPos ELSE Find(s, <<Dash>>, dot2 + 1)
      major == Stoi(SubSeq(s, 1, dot1 - 1))
      minor == Stoi(Substr(s, dot1, dot2 - 1))
      patch == Stoi(Substr(s, dot2, IF dash = NoPos THEN Len(s) ELSE dash - 1))
      plus == Find(s, <<Cross>>, dash + 1)
  IN IF dot1 = NoPos \/ dot2 = NoPos THEN Malformed
     ELSE IF ~major.ok \/ ~minor.ok \/ ~patch.ok THEN Malformed
     ELSE [ok |-> TRUE, major |-> major.n, minor |-> minor.n, patch |-> patch.n,
           prerelease |-> Substr(s, dash, IF plus = NoPos THEN Len(s) ELSE plus - 1),
           metadata |-> IF plus = NoPos THEN <<>> ELSE From(s, plus + 1)]

VersionLess(a, b) ==
  \/ a.major < b.major
  \/ a.minor < b.minor
  \/ a.patch < b.patch
  \/ TextLess(a.prerelease, b.prerelease)
  \/ TextLess(a.metadata, b.metadata)

SemverCompareDecl == Sig(TwoStrings, NumberType)
VersionsCompared(l, r) ==
  IF ~l.ok \/ ~r.ok THEN Err("builtin")
  ELSE Num(IF VersionLess(l, r) THEN -1 ELSE IF VersionLess(r, l) THEN 1 ELSE 0)
SemverCompare(a, b) == Strings2(a, b, VersionsCompared(ParseSemver(a.s), ParseSemver(b.s)))

SemverIsValidDecl == Sig(<<AnyType>>, BoolType)
SemverIsValid(vsn) == Bool(vsn.k = "string" /\ ParseSemver(vsn.s).ok)

(***************************************************************************)
(* Amounts with units.  The unit is the first ending of the lowered text   *)
(* that is found in: binary units, small units (units.parse only), decimal *)
(* units.  m is milli unless it is written M.                              *)
(***************************************************************************)
Power[base \in Nat, n \in Nat] ==
  IF n = 0 THEN FromInt(1) ELSE Times(FromInt(base), Power[base, n - 1])

\* k, m, g, t, p, e, as the places of the powers of 1000 and, with an i, 1024.
Scales == <<107, 109, 103, 116, 112, 101>>
BinaryUnits == {[text |-> <<Scales[n], 105>>, by |-> Power[1024, n]] : n \in DOMAIN Scales}
DecimalUnits == {[text |-> <<Scales[n]>>, by |-> Power[1000, n]] : n \in DOMAIN Scales}
\* d, c, m, u, n: one over a power of ten.
SmallUnits == {[text |-> <<100>>, over |-> 10], [text |-> <<99>>, over |-> 100],
               [text |-> <<109>>, over |-> 1000], [text |-> <<117>>, over |-> 1000000],
               [text |-> <<110>>, over |-> 1000000000]}
MaxExponentDigits == 6

\* A lexeme sign? digits (. digits)? | . digits, and an exponent e sign? digits.
ExponentFrom(s, e, lexeme) ==
  LET hasE == e <= Len(s) /\ s[e] \in {69, 101}
      sign == Signs(From(s, e + 1))
      power == DigitRun(From(s, e + 1), sign + 1)
  IN IF hasE THEN [lexeme EXCEPT !.ok = @ /\ power # <<>> /\ e + sign + Len(power) = Len(s),
                                 !.fraction = TRUE, !.digits = Len(power), !.exponent = TRUE]
     ELSE [lexeme EXCEPT !.ok = @ /\ e - 1 = Len(s)]
PartFrom(s, dot, whole) ==
  LET hasDot == dot <= Len(s) /\ s[dot] = Dot
      part == IF hasDot THEN DigitRun(s, dot + 1) ELSE <<>>
  IN ExponentFrom(s, dot + (IF hasDot THEN 1 ELSE 0) + Len(part),
                  [ok |-> whole \o part # <<>>, neg |-> s # <<>> /\ s[1] = Dash, whole |-> whole,
                   part |-> part, fraction |-> hasDot, digits |-> 0, exponent |-> FALSE])
Lexeme(s) ==
  LET whole == DigitRun(s, Signs(s) + 1) IN PartFrom(s, Signs(s) + Len(whole) + 1, whole)

\* The value of a lexeme without an exponent, in quarters.
Quarters(l) == LET over == ToInt(Power[10, Len(l.part)])
                   m == 4 * Magnitude(Digits(l.whole)) + (4 * Magnitude(Digits(l.part))) \div over
               IN IF l.neg THEN -m ELSE m

\* Amounts with an exponent are floats whose value is left out.
LexemeValue(l) ==
  IF ~l.ok \/ l.digits > MaxExponentDigits THEN Err("builtin")
  ELSE IF l.exponent THEN Unspecified
  ELSE IF l.fraction THEN Float(Quarters(l))
  ELSE BigNum(Big(l.neg, Digits(l.whole)))
ParseAmount(s) == IF s = <<>> THEN Err("builtin") ELSE LexemeValue(Lexeme(s))

\* Resolver::scalar of a double: one without a fraction becomes an integer.
ScalarOf(q) == IF q % 4 = 0 THEN Num(q \div 4) ELSE Float(q)

ScaleBy(num, by, round) ==
  CASE num.k = "int"   -> BigNum(Times(num.n, by))
    [] num.k = "float" -> LET q == num.q * ToInt(by)
                          IN IF round THEN Round(Float(q)) ELSE ScalarOf(q)
    [] OTHER -> num
ScaleDown(num, over) == IF num.k \in NumberKinds THEN ScalarOf(Double(num) \div over) ELSE num

LoweredText(s) == [i \in DOMAIN s |-> ToLower(s[i])]

NoUnit == [text |-> <<>>]
UnitOf(lower, small) ==
  LET Ends(units) == {u \in units : EndsWith(lower, u.text)}
      families == IF small THEN <<BinaryUnits, SmallUnits, DecimalUnits>>
                  ELSE <<BinaryUnits, DecimalUnits>>
      hits == {n \in DOMAIN families : Ends(families[n]) # {}}
  IN IF hits = {} THEN NoUnit ELSE CHOOSE u \in Ends(families[Min(hits)]) : TRUE
Scaled(num, unit, round) ==
  CASE "by" \in DOMAIN unit   -> ScaleBy(num, unit.by, round)
    [] "over" \in DOMAIN unit -> ScaleDown(num, unit.over)
    [] OTHER                  -> num

ParseIn(lower, unit, round) ==
  Scaled(ParseAmount(SubSeq(lower, 1, Len(lower) - Len(unit.text))), unit, round)
DoParse(s, small, round) ==
  IF s = <<>> \/ (\E i \in DOMAIN s : s[i] \in Range(Spaces)) THEN Err("builtin")
  ELSE ParseIn(LoweredText(s), UnitOf(LoweredText(s), small /\ ~EndsWith(s, <<77>>)), round)

\* An escaped quote at both ends is dropped.
StripQuotes(s) == IF StartsWith(s, <<Backslash, Quote>>) /\ EndsWith(s, <<Backslash, Quote>>)
                  THEN SubSeq(s, 3, Len(s) - 2) ELSE s

UnitsParseDecl == Sig(<<StringType>>, NumberType)
UnitsParse(x) == Checked(<<Unwrap(x, {"string"})>>, DoParse(StripQuotes(x.s), TRUE, FALSE))

UnitsParseBytesDecl == Sig(<<StringType>>, NumberType)
UnitsParseBytes(x) ==
  Checked(<<Unwrap(x, {"string"})>>,
          LET s == StripQuotes(x.s)
              bare == IF EndsWith(LoweredText(s), <<98>>) THEN SubSeq(s, 1, Len(s) - 1) ELSE s
          IN DoParse(bare, FALSE, TRUE))
=============================================================================
