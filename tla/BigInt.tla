------------------------------- MODULE BigInt -------------------------------
(***************************************************************************)
(* Integers of any size, as decimal text.                                  *)
(*                                                                         *)
(* A BigInt of the code is the text of a number: an optional minus sign    *)
(* and digits.  It is kept that way here, as a sign and a sequence of      *)
(* digits, because the text may be one that no integer is printed as (a    *)
(* leading zero, a negative zero), and equality compares texts.            *)
(* Assertions of the code are not part of its release build and are left   *)
(* out.                                                                    *)
(***************************************************************************)
EXTENDS Integers, Sequences

Big(neg, digits) == [neg |-> neg, digits |-> digits]
Positive(digits) == Big(FALSE, digits)
Negate(x) == Big(~x.neg, x.digits)
IsZero(x) == x = Positive(<<0>>)

(* std::to_string of a machine integer.                                     *)
DigitsOf[n \in Nat] == IF n < 10 THEN <<n>> ELSE Append(DigitsOf[n \div 10], n % 10)
FromInt(i) == IF i < 0 THEN Big(TRUE, DigitsOf[-i]) ELSE Positive(DigitsOf[i])

(* The integer a text denotes (std::stoll).                                 *)
PrefixValues(d) ==
  LET value[i \in 0..Len(d)] == IF i = 0 THEN 0 ELSE 10 * value[i - 1] + d[i]
  IN value
Magnitude(d) == PrefixValues(d)[Len(d)]
ToInt(x) == (IF x.neg THEN -1 ELSE 1) * Magnitude(x.digits)

(***************************************************************************)
(* Digit sequences: the longer one is the larger one, and among equally    *)
(* long ones the order of the texts decides.                               *)
(***************************************************************************)
TextLess(a, b) ==
  \E i \in 1..Len(b) : /\ \A j \in 1..(i - 1) : j \in DOMAIN a /\ a[j] = b[j]
                       /\ i \in DOMAIN a => a[i] < b[i]

LessThan(a, b) ==
  \/ Len(a) < Len(b)
  \/ Len(a) = Len(b) /\ TextLess(a, b)

\* The i-th digit from the right, 0 where the shorter number has ended.
FromRight(d, i) == IF i <= Len(d) THEN d[Len(d) + 1 - i] ELSE 0

\* What is added at each place from the right; l is at least as long as r.
Sums(l, r) ==
  LET sum[i \in 0..Len(l)] ==
        IF i = 0 THEN 0
        ELSE FromRight(l, i) + FromRight(r, i) + (IF sum[i - 1] > 9 THEN 1 ELSE 0)
  IN sum
\* The last digits of n counts from the right, in the order they are written.
Written(count, n) == [j \in 1..n |-> count[n + 1 - j] % 10]

\* Without the digit the last carry adds.
AddLargerNoCarry(l, r) == IF r = <<0>> THEN l ELSE Written(Sums(l, r), Len(l))

AddLarger(l, r) ==
  LET low == Written(Sums(l, r), Len(l))
  IN IF r = <<0>> THEN l
     ELSE IF Sums(l, r)[Len(l)] > 9 THEN <<1>> \o low ELSE low

AddDigits(l, r) == IF LessThan(l, r) THEN AddLarger(r, l) ELSE AddLarger(l, r)

\* Leading zeros go, down to one digit.
Trim(d) ==
  LET first == CHOOSE i \in DOMAIN d : /\ d[i] # 0 \/ i = Len(d)
                                      /\ \A j \in 1..(i - 1) : d[j] = 0
  IN SubSeq(d, first, Len(d))

\* What is left at each place from the right, below 0 where 1 is borrowed.
Differences(l, r) ==
  LET diff[i \in 0..Len(l)] ==
        IF i = 0 THEN 0
        ELSE FromRight(l, i) - FromRight(r, i) - (IF diff[i - 1] < 0 THEN 1 ELSE 0)
  IN diff
SubtractDigits(l, r) == Trim(Written(Differences(l, r), Len(l)))

Zeros(n) == [i \in 1..n |-> 0]

\* One digit times a number, shifted n places.
Products(digit, r) ==
  LET prod[i \in 0..Len(r)] ==
        IF i = 0 THEN 0 ELSE digit * FromRight(r, i) + (prod[i - 1] \div 10)
  IN prod
Row(digit, r, n) ==
  LET carry == Products(digit, r)[Len(r)] \div 10
  IN (IF carry > 0 THEN <<carry>> ELSE <<>>) \o Written(Products(digit, r), Len(r)) \o Zeros(n)

RowsAdded(short, long) ==
  LET sum[i \in 0..Len(short)] ==
        IF i = 0 THEN <<0>>
        ELSE AddDigits(sum[i - 1], Row(FromRight(short, i), long, i - 1))
  IN sum
MultiplyDigits(l, r) ==
  LET short == IF LessThan(r, l) THEN r ELSE l
      long  == IF LessThan(r, l) THEN l ELSE r
  IN IF <<0>> \in {l, r} THEN <<0>> ELSE RowsAdded(short, long)[Len(short)]

(***************************************************************************)
(* The operators.                                                          *)
(***************************************************************************)
\* add puts the sign on after its early return.
SignedSum(neg, l, r) == Big(neg /\ <<0>> \notin {l, r}, AddDigits(l, r))

\* operator- where neither number has a sign.
SignedDifference(l, r) ==
  IF r = <<0>> THEN Positive(l)
  ELSE IF ~LessThan(l, r) THEN Positive(SubtractDigits(l, r))
  ELSE Negate(Positive(IF l = <<0>> THEN r ELSE SubtractDigits(r, l)))

Plus(l, r) ==
  IF l.neg = r.neg THEN SignedSum(l.neg, l.digits, r.digits)
  ELSE IF l.neg THEN SignedDifference(r.digits, l.digits)
  ELSE SignedDifference(l.digits, r.digits)

Minus(l, r) ==
  IF IsZero(r) THEN l
  ELSE IF l.neg # r.neg THEN SignedSum(l.neg, l.digits, r.digits)
  ELSE IF ~l.neg THEN SignedDifference(l.digits, r.digits)
  ELSE IF ~LessThan(r.digits, l.digits) THEN SignedDifference(r.digits, l.digits)
  ELSE LET d == SubtractDigits(l.digits, r.digits)
       IN Big(d # <<0>>, d)

Times(l, r) ==
  LET d == MultiplyDigits(l.digits, r.digits)
  IN Big(d # <<0>> /\ l.neg # r.neg, d)

Less(l, r) ==
  IF l.neg # r.neg THEN l.neg
  ELSE IF l.neg THEN LessThan(r.digits, l.digits)
  ELSE LessThan(l.digits, r.digits)

Greater(l, r) == Less(r, l)
=============================================================================
