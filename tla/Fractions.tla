------------------------------ MODULE Fractions ------------------------------
(***************************************************************************)
(* kernel/lib/kfraction.c and what it uses of kernel/lib/kmath.c: fractions *)
(* of two longs.  An operation whose parts do not fit into a long makes its *)
(* operands coarser, a factor of two at a time, until they fit or until     *)
(* both are whole numbers.                                                  *)
(***************************************************************************)
EXTENDS Integers

CONSTANTS
  LONG_MAX,     \* a long is 32 bits wide
  MaxPasses     \* bound: the passes of an addition's loops, after which it is
                \* taken to be without an end

ASSUME FractionsAssumption == LONG_MAX \in Nat \ {0} /\ MaxPasses \in Nat

Abs(n) == IF n < 0 THEN -n ELSE n

(* C's division, which rounds towards zero. *)
Quotient(n, d) ==
  LET q == Abs(n) \div Abs(d) IN IF (n < 0) = (d < 0) THEN q ELSE -q

(* k_gcd, of absolute values. *)
Gcd[p \in Nat \X Nat] == IF p[2] = 0 THEN p[1] ELSE Gcd[<<p[2], p[1] % p[2]>>]

(* k_fraction_create and k_fraction_compact *)
Fraction(n, d) ==
  LET factor == Gcd[<<Abs(n), Abs(d)>>]
  IN  [numerator |-> Quotient(n, factor), denominator |-> Quotient(d, factor)]

(* k_fraction_downcast_precision: odd parts are rounded down to even ones, *)
(* so that there is a factor to compact away.                              *)
Downcast(f) ==
  Fraction(f.numerator - (f.numerator % 2), f.denominator - (f.denominator % 2))

(* __builtin_mul_overflow says no. *)
Fits(m, n) == n = 0 \/ Abs(m) <= LONG_MAX \div Abs(n)

LongFractions == [numerator : Int, denominator : Int]

(* k_fraction_from_number *)
Whole(n) == Fraction(n, 1)

IsWhole(f) == f.denominator = 1

(* k_fraction_to_whole_number *)
ToWholeNumber(f) == Quotient(f.numerator, f.denominator)

-----------------------------------------------------------------------------
(* The loop in k_fraction_multiply: the first factor is made coarser, or,  *)
(* when it is whole, the second.  An error leaves the caller with the      *)
(* first factor as it was.                                                 *)
ProductFits(x, y) == Fits(x.numerator, y.numerator) /\ Fits(x.denominator, y.denominator)

Times(first, second) ==
  LET product[x \in LongFractions, y \in LongFractions] ==
        IF ProductFits(x, y)
        THEN Fraction(x.numerator * y.numerator, x.denominator * y.denominator)
        ELSE IF ~IsWhole(x) THEN product[Downcast(x), y]
        ELSE IF ~IsWhole(y) THEN product[x, Downcast(y)]
        ELSE first
  IN  product[first, second]

-----------------------------------------------------------------------------
(* Sums and products of longs that do not fit, as the processor leaves     *)
(* them: k_lcm does not look.                                              *)
WrappedSum(m, n) ==
  IF n >= 0
  THEN IF m <= LONG_MAX - n THEN m + n ELSE (m - LONG_MAX) + (n - LONG_MAX) - 2
  ELSE IF m >= -LONG_MAX - 1 - n THEN m + n ELSE (m + LONG_MAX) + (n + LONG_MAX) + 2

WrappedProduct[m \in Nat, n \in Nat] ==
  IF n = 0 THEN 0
  ELSE LET half == WrappedProduct[m, n \div 2]
           double == WrappedSum(half, half)
       IN  IF n % 2 = 0 THEN double ELSE WrappedSum(double, m)

(* k_lcm *)
Lcm(m, n) ==
  LET factor == Abs(m) \div Gcd[<<Abs(m), Abs(n)>>]
  IN  IF Fits(factor, n) THEN factor * Abs(n) ELSE WrappedProduct[factor, Abs(n)]

SumFits(m, n) ==
  IF n >= 0 THEN m <= LONG_MAX - n ELSE m >= -LONG_MAX - 1 - n

(* k_fraction_scalar_multiply *)
Scalable(f, scalar) == Fits(f.numerator, scalar) /\ Fits(f.denominator, scalar)

Scaled(f, scalar) ==
  IF scalar = 0
  THEN [f EXCEPT !.numerator = 0]
  ELSE [numerator |-> f.numerator * scalar, denominator |-> f.denominator * scalar]

Compacted(f) == Fraction(f.numerator, f.denominator)

(* An addition under way: before its outer loop's condition, in the loop   *)
(* for the common denominator, or in the one for the sum.                  *)
Additions ==
  [x : LongFractions, y : LongFractions, at : {"add", "scale", "fit", "done", "panic"}]

(* Either operand loses precision; panic when both are whole. *)
Coarser(x, y, at) ==
  IF ~IsWhole(x) THEN [x |-> Downcast(x), y |-> y, at |-> at]
  ELSE IF ~IsWhole(y) THEN [x |-> x, y |-> Downcast(y), at |-> at]
  ELSE [x |-> x, y |-> y, at |-> "panic"]

(* One pass of k_fraction_add's loops: bring both operands to a common     *)
(* denominator, ...                                                        *)
ScalePass(s) ==
  LET common == Lcm(s.x.denominator, s.y.denominator)
      byX == Quotient(common, s.x.denominator)
      byY == Quotient(common, s.y.denominator)
  IN  IF ~Scalable(s.x, byX)
      THEN Coarser(Compacted(s.x), Compacted(s.y), "scale")
      ELSE IF ~Scalable(s.y, byY)
      THEN Coarser(Compacted(Scaled(s.x, byX)), Compacted(s.y), "scale")
      ELSE [x |-> Scaled(s.x, byX), y |-> Scaled(s.y, byY), at |-> "fit"]

(* ... then make the sum of the numerators fit, and look again. *)
AddPass(s) ==
  LET same == s.x.denominator = s.y.denominator
      fits == SumFits(s.x.numerator, s.y.numerator)
  IN  CASE s.at = "add" /\ same /\ fits -> [s EXCEPT !.at = "done"]
        [] s.at = "add" /\ ~(same /\ fits) -> ScalePass(s)
        [] s.at = "scale" -> ScalePass(s)
        [] s.at = "fit" /\ same /\ ~fits -> Coarser(s.x, s.y, "fit")
        [] s.at = "fit" /\ ~(same /\ ~fits) -> [s EXCEPT !.at = "add"]

(* No fraction: the addition panics or goes on for ever. *)
NoFraction == [numerator |-> 0, denominator |-> 0]

(* k_fraction_add *)
Plus(x, y) ==
  LET after[passes \in 0 .. MaxPasses, s \in Additions] ==
        IF s.at \in {"done", "panic"} \/ passes = MaxPasses
        THEN s
        ELSE after[passes + 1, AddPass(s)]
      result[s \in Additions] ==
        IF s.at = "done"
        THEN Fraction(s.x.numerator + s.y.numerator, s.x.denominator)
        ELSE NoFraction
  IN  result[after[0, [x |-> x, y |-> y, at |-> "add"]]]

(* k_fraction_change_sign *)
Negative(f) ==
  IF f.denominator < 0
  THEN [f EXCEPT !.denominator = -f.denominator]
  ELSE [f EXCEPT !.numerator = -f.numerator]

(* k_fraction_sub *)
Minus(x, y) == Plus(x, Negative(y))

(* k_fraction_lt and k_fraction_eq *)
InCommon(x, y) == x.numerator * Quotient(Lcm(x.denominator, y.denominator), x.denominator)

LessThan[x \in LongFractions, y \in LongFractions] == InCommon(x, y) < InCommon(y, x)

Equals[x \in LongFractions, y \in LongFractions] == InCommon(x, y) = InCommon(y, x)

(* k_fraction_floor, towards zero, and k_fraction_round; what has no end    *)
(* before leaves nothing to round.                                         *)
Floor[f \in LongFractions] ==
  IF f = NoFraction THEN NoFraction ELSE Whole(Quotient(f.numerator, f.denominator))

Round[f \in LongFractions] ==
  IF f = NoFraction THEN NoFraction ELSE Floor[Plus(f, Fraction(1, 2))]
=============================================================================
