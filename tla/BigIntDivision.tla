--------------------------- MODULE BigIntDivision ---------------------------
(***************************************************************************)
(* Division of integers of any size.  Digits of a quotient may leave 0..9: *)
(* the code adds a count to the character '0'.                             *)
(***************************************************************************)
EXTENDS BigInt
LOCAL INSTANCE SequencesExt

(***************************************************************************)
(* Long division.  The remainder is built digit by digit and is only       *)
(* trimmed by the subtractions: a remainder that has become zero keeps     *)
(* that zero in front of the next digit.                                   *)
(***************************************************************************)
RECURSIVE Reduce(_, _, _)
Reduce(rem, r, count) ==
  IF LessThan(rem, r) THEN [rem |-> rem, count |-> count]
  ELSE Reduce(SubtractDigits(rem, r), r, count + 1)

DivideDigits(l, r) ==
  LET Next(acc, d) ==
        LET step == Reduce(Append(acc.rem, d), r, 0)
        IN [rem |-> step.rem,
            quot |-> IF step.count = 0 /\ acc.quot = <<>> THEN <<>>
                     ELSE Append(acc.quot, step.count)]
  IN FoldLeft(Next, [rem |-> <<>>, quot |-> <<>>], l)

\* Division and remainder by zero throw: callers test IsZero first.
Quotient(l, r) ==
  IF LessThan(l.digits, r.digits) THEN Positive(<<0>>)
  ELSE Big(l.neg # r.neg, DivideDigits(l.digits, r.digits).quot)

Remainder(l, r) ==
  IF LessThan(l.digits, r.digits) THEN l
  ELSE LET d == DivideDigits(l.digits, r.digits).rem
       IN Big(l.neg /\ d # <<0>>, d)
=============================================================================
