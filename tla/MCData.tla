------------------------------- MODULE MCData -------------------------------
(***************************************************************************)
(* The instructions on memories, on tables and on numbers, one kind of     *)
(* them in a behaviour: they have no state in common.  Addresses are       *)
(* integers of three bits, numbers of four (i32) and eight (i64), and the  *)
(* significands of floats have three (f32) and six (f64), so that as with  *)
(* 24, 32, 53 and 64 one float type holds every i32 and none every i64.    *)
(***************************************************************************)
EXTENDS MCLinearMemory, Tables, Numerics

CONSTANT Func   \* a reference to a function

(* Two small tables, one that grows and one that does not; a table that is *)
(* limited by the implementation only; and one longer than half a word.    *)
MCTableTypes ==
  {<<[min |-> 2, max |-> 3], [min |-> 1, max |-> 1]>>,
   <<[min |-> 2, max |-> Unlimited], [min |-> 0, max |-> 0]>>,
   <<[min |-> 5, max |-> Unlimited], [min |-> 0, max |-> 0]>>}

MCElemRefs == [k \in 0 .. 1 |-> IF k = 0 THEN Func ELSE Null]

MCOperands == {-4, -1, 0, 1, 2, 3}

(* Every i32, and the i64 around the limits of types and of shift counts.  *)
MCNumOperands ==
  [w \in {4, 8} |->
     IF w = 4 THEN -8 .. 7
     ELSE {-128, -127, -65, -64, -17, -9, -8, -7, -1, 0, 1, 7, 8, 9, 15, 16, 17, 64, 127}]

(* The floats of p significant bits, of a quarter or more and up to past   *)
(* the last u64, and NaN.                                                  *)
MCFloats ==
  [p \in {3, 6} |->
     {NaN} \cup {s * m * 2^k : s \in {-1, 1}, m \in 0 .. 2^p - 1, k \in 0 .. 11 - p}]

IdleMemory ==
  /\ max = 0 /\ len = 0 /\ data = <<>> /\ dropped = FALSE
  /\ req = None /\ outcome = "done" /\ pushed = <<>>

IdleTables ==
  /\ types = CHOOSE ts \in TableTypes : TRUE
  /\ lens = [t \in Tables |-> types[t].min]
  /\ refs = [t \in Tables |-> [i \in 0 .. types[t].min - 1 |-> Null]]
  /\ elemDropped = FALSE /\ instr = NoInstr /\ result = Ended("done")

VARIABLE unit   \* which kind

MCInit ==
  \/ unit = "memory" /\ Init /\ IdleTables /\ NumInit
  \/ unit = "tables" /\ IdleMemory /\ TablesInit /\ NumInit
  \/ unit = "numbers" /\ IdleMemory /\ IdleTables /\ NumInit

MCNext ==
  /\ UNCHANGED unit
  /\ \/ unit = "memory" /\ Next /\ UNCHANGED <<tableVars, numVars>>
     \/ unit = "tables" /\ TablesNext /\ UNCHANGED <<vars, numVars>>
     \/ unit = "numbers" /\ NumNext /\ UNCHANGED <<vars, tableVars>>

MCSpec == MCInit /\ [][MCNext]_<<unit, vars, tableVars, numVars>>

=============================================================================
