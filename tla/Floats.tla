------------------------------- MODULE Floats -------------------------------
(***************************************************************************)
(* Doubles as fractions of a denominator that is not negative: a fraction  *)
(* of denominator 0 is an infinity or, with numerator 0, no number.  The   *)
(* products, quotients and comparisons below then are those of IEEE 754.   *)
(***************************************************************************)
EXTENDS Integers

Frac(n, d) == [num |-> n, den |-> d]
Whole(n) == Frac(n, 1)
Float == [num : Int, den : Nat]
NaN == Frac(0, 0)
Infinity == Frac(1, 0)

IsNaN(p) == p.num = 0 /\ p.den = 0
Finite(p) == p.den > 0

Times(p, q) == Frac(p.num * q.num, p.den * q.den)

\* q is not negative.
Over(p, q) == Frac(p.num * q.den, p.den * q.num)

Magnitude(p) == IF p.num < 0 THEN Frac(-p.num, p.den) ELSE p

\* No comparison holds of what is not a number.  Not both are infinite.
Less(p, q) == p.num * q.den < q.num * p.den

Quotient(n, d) == IF n >= 0 THEN n \div d ELSE -((-n) \div d)
Truncate(p) == Quotient(p.num, p.den)
=============================================================================
