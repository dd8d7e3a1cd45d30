--------------------------- MODULE MCLinearMemory ---------------------------
(***************************************************************************)
(* Integers of three bits: a memory of 8 bytes is as large as can be       *)
(* addressed, and operands from 4 on are negative as an i32.               *)
(***************************************************************************)
EXTENDS LinearMemory

MCSegment == [k \in 0 .. 2 |-> IF k = 1 THEN 0 ELSE 1]

=============================================================================
