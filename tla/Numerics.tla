------------------------------ MODULE Numerics ------------------------------
(***************************************************************************)
(* What the integer instructions and the conversions of floats to integers *)
(* compute, as executor.rs does with the operations of Rust's integers.    *)
(*                                                                         *)
(* An integer of w bits on the stack is signed.  A float is the number it  *)
(* is, in quarters; a float type is the bits of its significand.           *)
(***************************************************************************)
EXTENDS Integers

CONSTANTS
  BitsI32,       \* i32::BITS
  BitsI64,       \* i64::BITS
  BitsF32,       \* f32::MANTISSA_DIGITS
  BitsF64,       \* f64::MANTISSA_DIGITS
  NaN,           \* the float that is no number
  NumOperands,   \* bound: the integers of each width that are computed with
  Floats         \* bound: the floats of each type that are converted

ASSUME NumericAssumption ==
  /\ \A n \in {BitsI32, BitsI64, BitsF32, BitsF64} : n \in Nat \ {0, 1}
  /\ BitsF32 < BitsI32 /\ BitsI32 < BitsF64 /\ BitsF64 < BitsI64
  /\ BitsI32 % 4 = 0 /\ 2^BitsI32 % BitsI32 = 0 /\ 2^BitsI32 % BitsI64 = 0

VARIABLES
  calc,     \* the instruction under way, with its operands
  answer    \* what it computes

numVars == <<calc, answer>>

IntWidths == {BitsI32, BitsI64}
FloatTypes == {BitsF32, BitsF64}

Lowest(w)  == -(2^(w - 1))
Highest(w) == 2^(w - 1) - 1

(* The operands are numbers of their type.                                 *)
ASSUME OperandAssumption ==
  /\ \A w \in IntWidths : NumOperands[w] \subseteq Lowest(w) .. Highest(w)
  /\ \A p \in FloatTypes : Floats[p] \ {NaN} \subseteq Int

AsUnsigned(w, x) == x % 2^w
AsSigned(w, x)   == LET u == x % 2^w IN IF u < 2^(w - 1) THEN u ELSE u - 2^w

Gives(x) == [how |-> "value", value |-> x]
Raises(how) == [how |-> how, value |-> 0]

Truth(p) == Gives(IF p THEN 1 ELSE 0)

NoCalc == [op |-> "none"]
Nothing == Raises("none")

-----------------------------------------------------------------------------
(* Two operands.                                                           *)

Absolute(x) == IF x < 0 THEN -x ELSE x

(* Rust's / and % on signed integers round towards zero.                   *)
Quotient(a, b) ==
  LET q == Absolute(a) \div Absolute(b) IN IF (a < 0) = (b < 0) THEN q ELSE -q
Remainder(a, b) == a - b * Quotient(a, b)

(* Fault: the division is one that wraps around.                           *)
DivSWrapping(w, a, b) ==
  IF b = 0 THEN Raises("DivisionByZero") ELSE Gives(AsSigned(w, Quotient(a, b)))

(* checked_div: the smallest number divided by -1 is too large.            *)
DivS(w, a, b) ==
  IF b = 0 THEN Raises("DivisionByZero")
  ELSE IF a = Lowest(w) /\ b = -1 THEN Raises("IntegerOverflow")
  ELSE Gives(Quotient(a, b))

DivU(w, a, b) ==
  IF b = 0 THEN Raises("DivisionByZero")
  ELSE Gives(AsSigned(w, AsUnsigned(w, a) \div AsUnsigned(w, b)))

(* wrapping_rem: that of the smallest number and -1 is 0.                  *)
RemS(w, a, b) ==
  IF b = 0 THEN Raises("DivisionByZero") ELSE Gives(Remainder(a, b))

RemU(w, a, b) ==
  IF b = 0 THEN Raises("DivisionByZero")
  ELSE Gives(AsSigned(w, AsUnsigned(w, a) % AsUnsigned(w, b)))

(* b as u32, of which wrapping_shl and its kin use the bits for a place.   *)
Shift(w, b) == AsUnsigned(BitsI32, b) % w

Shl(w, a, b)  == AsSigned(w, a * 2^Shift(w, b))
ShrS(w, a, b) == a \div 2^Shift(w, b)
ShrU(w, a, b) == AsSigned(w, AsUnsigned(w, a) \div 2^Shift(w, b))

Rotl(w, a, b) ==
  LET u == AsUnsigned(w, a)
      s == Shift(w, b)
  IN  AsSigned(w, u * 2^s + u \div 2^(w - s))
Rotr(w, a, b) ==
  LET u == AsUnsigned(w, a)
      s == Shift(w, b)
  IN  AsSigned(w, u \div 2^s + u * 2^(w - s))

Divisions == {"div_s", "div_u", "rem_s", "rem_u"}
Shifts    == {"shl", "shr_s", "shr_u", "rotl", "rotr"}
Wrapping  == {"add", "sub", "mul"}
Compared  == {"eq", "ne", "lt_s", "gt_s", "le_s", "ge_s", "lt_u", "gt_u", "le_u", "ge_u"}

Compare(op, a, b) ==
  CASE op = "eq" -> a = b
    [] op = "ne" -> a # b
    [] op \in {"lt_s", "lt_u"} -> a < b
    [] op \in {"gt_s", "gt_u"} -> a > b
    [] op \in {"le_s", "le_u"} -> a <= b
    [] op \in {"ge_s", "ge_u"} -> a >= b

Binary(op, w, a, b) ==
  CASE op = "add"   -> Gives(AsSigned(w, a + b))
    [] op = "sub"   -> Gives(AsSigned(w, a - b))
    [] op = "mul"   -> Gives(AsSigned(w, a * b))
    [] op = "div_s" -> DivS(w, a, b)
    [] op = "div_u" -> DivU(w, a, b)
    [] op = "rem_s" -> RemS(w, a, b)
    [] op = "rem_u" -> RemU(w, a, b)
    [] op = "shl"   -> Gives(Shl(w, a, b))
    [] op = "shr_s" -> Gives(ShrS(w, a, b))
    [] op = "shr_u" -> Gives(ShrU(w, a, b))
    [] op = "rotl"  -> Gives(Rotl(w, a, b))
    [] op = "rotr"  -> Gives(Rotr(w, a, b))
    [] op \in {"lt_u", "gt_u", "le_u", "ge_u"}
                    -> Truth(Compare(op, AsUnsigned(w, a), AsUnsigned(w, b)))
    [] OTHER        -> Truth(Compare(op, a, b))

-----------------------------------------------------------------------------
(* Integers to integers: what casts an integer of from bits to one of bits *)
(* bits, and then to one of to bits.                                       *)

Cast(from, bits, signed, to) ==
  [from |-> from, bits |-> bits, signed |-> signed, to |-> to]

BitsI8  == BitsI32 \div 4
BitsI16 == BitsI32 \div 2

Casts ==
  {Cast(w, bits, TRUE, w) : w \in IntWidths, bits \in {BitsI8, BitsI16}}
  \cup {Cast(BitsI64, BitsI32, TRUE, BitsI64), Cast(BitsI64, BitsI32, TRUE, BitsI32),
        Cast(BitsI32, BitsI32, TRUE, BitsI64), Cast(BitsI32, BitsI32, FALSE, BitsI64)}

(* Fault: the integer cast through is a signed one.                        *)
ConvertSigned(c, a) == Gives(AsSigned(c.bits, a))

Convert(c, a) ==
  Gives(IF c.signed THEN AsSigned(c.bits, a) ELSE AsUnsigned(c.bits, a))

-----------------------------------------------------------------------------
(* Floats to integers, in quarters.                                        *)

Whole(x) == IF x < 0 THEN -(4 * ((-x) \div 4)) ELSE 4 * (x \div 4)

(* An integer as a float of p bits: to the nearest, and if there are two,  *)
(* to the even one.                                                        *)
Rounded(p, n) ==
  LET m    == Absolute(n)
      k    == CHOOSE e \in 0 .. m : m < 2^(p + e) /\ \A d \in 0 .. e - 1 : m >= 2^(p + d)
      unit == 2^k
      up   == \/ 2 * (m % unit) > unit
              \/ 2 * (m % unit) = unit /\ (m \div unit) % 2 = 1
      r    == unit * (m \div unit + (IF up THEN 1 ELSE 0))
  IN  IF n < 0 THEN -r ELSE r

(* MAX and MIN of the integer type converted to.                           *)
TopOf(w, signed)    == IF signed THEN Highest(w) ELSE 2^w - 1
BottomOf(w, signed) == IF signed THEN Lowest(w) ELSE 0

(* Fault: the largest integer itself is the limit, not the one after.      *)
TooHighFromMax(p, w, signed, x) == x >= 4 * Rounded(p, TopOf(w, signed))

(* a >= (MAX as float) + 1.0, both computed in the type of the float.      *)
TooHigh(p, w, signed, x) ==
  x >= 4 * Rounded(p, Rounded(p, TopOf(w, signed)) + 1)

TooLow(p, w, signed, x) == x < 4 * Rounded(p, BottomOf(w, signed))

(* a as an integer: the nearest there is, and 0 for NaN.                   *)
Saturated(w, signed, x) ==
  LET n == Whole(x) \div 4
  IN  CASE n > TopOf(w, signed)    -> TopOf(w, signed)
        [] n < BottomOf(w, signed) -> BottomOf(w, signed)
        [] OTHER                   -> n

Trunc(p, w, signed, x) ==
  IF x = NaN THEN Raises("InvalidConversionToInteger")
  ELSE IF TooHigh(p, w, signed, Whole(x)) \/ TooLow(p, w, signed, Whole(x))
  THEN Raises("IntegerOverflow")
  ELSE Gives(AsSigned(w, Saturated(w, signed, x)))

TruncSat(p, w, signed, x) ==
  IF x = NaN THEN Gives(0) ELSE Gives(AsSigned(w, Saturated(w, signed, x)))

-----------------------------------------------------------------------------
Calculations ==
  (UNION {[op : Divisions \cup Shifts \cup Wrapping \cup Compared, w : {w},
           a : NumOperands[w], b : NumOperands[w]] : w \in IntWidths})
  \cup (UNION {[op : {"trunc", "trunc_sat"}, p : {p}, w : IntWidths, signed : BOOLEAN,
                a : Floats[p]] : p \in FloatTypes})
  \cup (UNION {[op : {"cast"}, cast : {c}, a : NumOperands[c.from]] : c \in Casts})

Evaluate(r) ==
  CASE r.op = "trunc"     -> Trunc(r.p, r.w, r.signed, r.a)
    [] r.op = "cast"      -> Convert(r.cast, r.a)
    [] r.op = "trunc_sat" -> TruncSat(r.p, r.w, r.signed, r.a)
    [] OTHER              -> Binary(r.op, r.w, r.a, r.b)

PopNumbers ==
  /\ calc = NoCalc
  /\ calc' \in Calculations
  /\ UNCHANGED answer

Compute ==
  /\ calc # NoCalc /\ answer = Nothing
  /\ answer' = Evaluate(calc)
  /\ UNCHANGED calc

(* The value is pushed, or the error is returned.                          *)
Deliver ==
  /\ answer # Nothing
  /\ calc' = NoCalc /\ answer' = Nothing

NumInit == calc = NoCalc /\ answer = Nothing

NumNext == PopNumbers \/ Compute \/ Deliver

NumSpec == NumInit /\ [][NumNext]_numVars

-----------------------------------------------------------------------------
(* Properties: what the instructions mean, bit by bit and number by number. *)

BitAt(w, x, k) == (AsUnsigned(w, x) \div 2^k) % 2

(* The bit that ends up at place k when x is shifted or rotated by n.      *)
BitFrom(op, w, x, k, n) ==
  CASE op = "shl"   -> IF k >= n THEN BitAt(w, x, k - n) ELSE 0
    [] op = "shr_u" -> IF k + n < w THEN BitAt(w, x, k + n) ELSE 0
    [] op = "shr_s" -> BitAt(w, x, IF k + n < w THEN k + n ELSE w - 1)
    [] op = "rotl"  -> BitAt(w, x, (k - n) % w)
    [] op = "rotr"  -> BitAt(w, x, (k + n) % w)

(* r is what is left of a when it is divided by b, rounding towards zero.  *)
Leaves(a, b, r) ==
  /\ (a - r) % Absolute(b) = 0
  /\ Absolute(r) < Absolute(b) /\ (r = 0 \/ (r < 0) = (a < 0))

Value(w, op, x) == IF op \in {"div_u", "rem_u"} THEN AsUnsigned(w, x) ELSE x

(* Unsigned order is signed order with the sign bits turned over.          *)
Flipped(w, x) == AsSigned(w, x + 2^(w - 1))

SignedForm ==
  [lt_u |-> "lt_s", gt_u |-> "gt_s", le_u |-> "le_s", ge_u |-> "ge_s"]

(* Division raises an error exactly when there is no quotient of the type, *)
(* and otherwise gives the one that is rounded towards zero, or its        *)
(* remainder; shifts and rotations move every bit by the count, modulo the *)
(* width, whatever its sign; numbers are compared as unsigned where the    *)
(* instruction says so; every result is again a number of the width.       *)
IntegerOpsExact ==
  answer # Nothing /\ calc.op \in Divisions \cup Shifts \cup Wrapping \cup Compared =>
    LET w == calc.w
        a == Value(w, calc.op, calc.a)
        b == Value(w, calc.op, calc.b)
        v == Value(w, calc.op, answer.value)
    IN  /\ answer.value \in Lowest(w) .. Highest(w)
        /\ calc.op \in Divisions =>
             CASE b = 0 -> answer.how = "DivisionByZero"
               [] calc.op = "div_s" /\ a = Lowest(w) /\ b = -1
                        -> answer.how = "IntegerOverflow"
               [] OTHER -> /\ answer.how = "value"
                           /\ IF calc.op \in {"div_s", "div_u"}
                              THEN Leaves(a, b, a - v * b)
                              ELSE Leaves(a, b, v)
        /\ calc.op \in Shifts =>
             \A k \in 0 .. w - 1 :
               BitAt(w, answer.value, k) = BitFrom(calc.op, w, calc.a, k, calc.b % w)
        /\ calc.op \in DOMAIN SignedForm =>
             answer = Truth(Compare(SignedForm[calc.op], Flipped(w, a), Flipped(w, b)))

(* A cast keeps the bits that are cast through, and every bit above them   *)
(* is the highest of them if it is signed and else 0.                      *)
CastsExact ==
  answer # Nothing /\ calc.op = "cast" =>
    LET c == calc.cast
    IN  /\ answer.value \in Lowest(c.to) .. Highest(c.to)
        /\ \A k \in 0 .. c.to - 1 :
             BitAt(c.to, answer.value, k) =
               IF k < c.bits THEN BitAt(c.from, calc.a, k)
               ELSE IF c.signed THEN BitAt(c.from, calc.a, c.bits - 1) ELSE 0

(* n is x without its fraction.                                            *)
Truncates(x, n) ==
  IF x >= 0 THEN 4 * n <= x /\ x < 4 * n + 4 ELSE 4 * n >= x /\ x > 4 * n - 4

(* trunc!: the limits are computed in floats, which cannot hold the        *)
(* largest integer of every type; still the conversion raises an error     *)
(* exactly when the truncated number is not one of the type, and otherwise *)
(* gives it.  The saturating form gives one of the limits then.            *)
TruncationsExact ==
  answer # Nothing /\ calc.op \in {"trunc", "trunc_sat"} =>
    LET low   == BottomOf(calc.w, calc.signed)
        high  == TopOf(calc.w, calc.signed)
        exact == {n \in low .. high : Truncates(calc.a, n)}
        limit == IF calc.a < 0 THEN low ELSE high
    IN  IF calc.op = "trunc"
        THEN answer = IF calc.a = NaN THEN Raises("InvalidConversionToInteger")
                      ELSE IF exact = {} THEN Raises("IntegerOverflow")
                      ELSE Gives(AsSigned(calc.w, CHOOSE n \in exact : TRUE))
        ELSE answer = IF calc.a = NaN THEN Gives(0)
                      ELSE IF exact = {} THEN Gives(AsSigned(calc.w, limit))
                      ELSE Gives(AsSigned(calc.w, CHOOSE n \in exact : TRUE))

=============================================================================
