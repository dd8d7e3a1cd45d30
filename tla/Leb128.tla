------------------------------- MODULE Leb128 -------------------------------
(***************************************************************************)
(* LEB128 numbers, seven bits a byte, as the loops of leb128.rs decode     *)
(* them: x is what has been read, i the bytes it took, t one of the four   *)
(* integer types.  A width that is no multiple of seven leaves room in the *)
(* last byte, and that byte alone decides whether the number fits.         *)
(***************************************************************************)
EXTENDS Integers, Sequences

CONSTANTS
  Bits32,   \* u32::BITS and i32::BITS
  Bits64    \* u64::BITS and i64::BITS

(* A block type of one byte, of which seven bits count, fits in an i64.    *)
ASSUME WidthAssumption ==
  /\ Bits32 \in Nat \ {0} /\ Bits32 % 7 # 0
  /\ Bits64 \in Nat \ {0} /\ Bits64 % 7 # 0
  /\ Bits32 < Bits64 /\ 7 < Bits64

(* What the terms, numbers, add up to.                                     *)
SumOf(terms) ==
  LET sum[k \in 0 .. Len(terms)] == IF k = 0 THEN 0 ELSE sum[k - 1] + terms[k]
  IN  sum[Len(terms)]

IntType == {"u32", "u64", "i32", "i64"}
(* Fault: the unsigned types are read like the signed ones.                *)
SignedAlways(t) == TRUE

Signed(t) == t \in {"i32", "i64"}
Width(t) == IF t \in {"u32", "i32"} THEN Bits32 ELSE Bits64

MaxBytes(t)    == Width(t) \div 7 + 1
MaxLastByte(t) == 2^(Width(t) % 7) - 1
Mask(t)        == \h80 - 2^((Width(t) % 7) - 1)

Continues(b) == b >= \h80

(* Fault: a signed last byte may set bits the type has not.                *)
OverflowsUnsignedOnly(t, i, b) ==
  i = MaxBytes(t) - 1 /\ ~Signed(t) /\ b > MaxLastByte(t)

(* The last byte: all bits past the width are zero, or in a negative       *)
(* number one.                                                             *)
Overflows(t, i, b) ==
  /\ i = MaxBytes(t) - 1
  /\ IF Signed(t) THEN b >= \h80 - Mask(t) /\ b < Mask(t)
                  ELSE b > MaxLastByte(t)

(* x |= (b & 0x7f) << s, with s = 7 * i: what is past the width is lost.   *)
Accumulate(t, x, i, b) == (x + (b % \h80) * 2^(7 * i)) % 2^Width(t)

(* The number whose last byte is b: a signed one that ends before its      *)
(* width is filled is extended with its sign.                              *)
Finished(t, x, i, b) ==
  LET bits     == Accumulate(t, x, i, b)
      extended == IF i < MaxBytes(t) - 1 /\ b >= \h40
                  THEN bits + 2^Width(t) - 2^(7 * (i + 1)) ELSE bits
  IN  IF ~Signed(t) THEN bits
      ELSE IF extended < 2^(Width(t) - 1) THEN extended
                                          ELSE extended - 2^Width(t)

-----------------------------------------------------------------------------
(* What the encoding means, whatever decodes it: the value of the bytes,   *)
(* and whether a number of type t may be written so.                       *)

Unsigned(bytes) ==
  SumOf([k \in 1 .. Len(bytes) |-> (bytes[k] % \h80) * 2^(7 * (k - 1))])

Value(t, bytes) ==
  LET n == Len(bytes)
  IN  IF Signed(t) /\ bytes[n] % \h80 >= \h40 THEN Unsigned(bytes) - 2^(7 * n)
                                              ELSE Unsigned(bytes)

InRangeOf(t, v) ==
  IF Signed(t) THEN v >= -(2^(Width(t) - 1)) /\ v < 2^(Width(t) - 1)
               ELSE v >= 0 /\ v < 2^Width(t)

Encodes(t, bytes) ==
  /\ Len(bytes) * 7 < Width(t) + 7
  /\ InRangeOf(t, Value(t, bytes))

=============================================================================
