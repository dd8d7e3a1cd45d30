---------------------------- MODULE MachineInts -----------------------------
(***************************************************************************)
(* The integers addresses and lengths are computed in: an i32 is in        *)
(* -Half .. Half-1, a u32 below Word = 2 * Half, a usize below Usize.      *)
(***************************************************************************)
EXTENDS Integers

CONSTANTS
  Half,    \* 2^31
  Usize    \* 2^64

Word == 2 * Half

ASSUME IntAssumption ==
  Half \in Nat \ {0} /\ Usize \in Nat /\ Usize > 4 * Word

I32 == -Half .. Half - 1
U32 == 0 .. Word - 1

(* The casts of an i32: as usize widens it with its sign.                  *)
AsU32(x)   == IF x < 0 THEN x + Word ELSE x
AsUsize(x) == IF x < 0 THEN x + Usize ELSE x

(* The cast of a u32 as i32.                                               *)
AsI32(x) == IF x < Half THEN x ELSE x - Word

=============================================================================
