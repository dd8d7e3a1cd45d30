------------------------------- MODULE Tables -------------------------------
(***************************************************************************)
(* The tables of an instance, one of its element segments, and the         *)
(* instructions that read, write and grow tables.  An instruction pops its *)
(* operands (instr), then executes: it pushes a result, is done, or traps. *)
(*                                                                         *)
(* Every operand of a bulk instruction is widened with its sign, so one of *)
(* 2^31 or more is never in bounds.                                        *)
(***************************************************************************)
EXTENDS MachineInts

CONSTANTS
  Tables,        \* the tables of the instance
  Refs,          \* what a table holds
  Null,          \* the reference it is filled with
  TableTypes,    \* limit.min and limit.max, or Unlimited, of each table
  MaxTableLen,   \* MAX_WASM_TABLE_LEN
  ElemRefs,      \* the references of the element segment, from 0
  ElemLen,       \* how many these are
  Operands       \* bound: the operands that instructions are given

Unlimited == Word

Lens == 0 .. Word - 1

ASSUME TableAssumption ==
  /\ Null \in Refs
  /\ MaxTableLen \in 0 .. Half - 1
  /\ \A ts \in TableTypes : ts \in [Tables -> [min : Lens, max : 0 .. Unlimited]]
  /\ ElemLen \in 0 .. Half - 1 /\ ElemRefs \in [0 .. ElemLen - 1 -> Refs]
  /\ Operands \subseteq I32

VARIABLES
  types,         \* TableInstance.tabletype, of each table
  refs,          \* TableInstance.refs, from 0
  lens,          \* its length
  elemDropped,   \* whether the element segment has been dropped
  instr,         \* the instruction under way, with its operands
  result         \* how the last one ended, and what it pushed

tableVars == <<types, refs, lens, elemDropped, instr, result>>

NoInstr == [op |-> "none"]

Pushed(v) == [how |-> "pushed", value |-> v]
Ended(h)  == [how |-> h, value |-> 0]

TableRequests ==
  [op : {"get"}, t : Tables, i : Operands]
    \cup [op : {"set"}, t : Tables, i : Operands, ref : Refs]
    \cup [op : {"fill"}, t : Tables, dst : Operands, n : Operands, ref : Refs]
    \cup [op : {"copy"}, t : Tables, from : Tables,
          dst : Operands, src : Operands, n : Operands]
    \cup [op : {"init"}, t : Tables, dst : Operands, src : Operands, n : Operands]
    \cup [op : {"grow"}, t : Tables, n : Operands, ref : Refs]
    \cup [op : {"size"}, t : Tables]
    \cup [op : {"drop"}]

-----------------------------------------------------------------------------
(* TableInstance::slice, slice_mut and init.                               *)
Fits(base, n, length) == base + n < Usize /\ base + n <= length

SegmentLength == IF elemDropped THEN 0 ELSE ElemLen

(* Table t with the elements of new, that is a function from 0, from dst.  *)
Overwritten(t, dst, new) ==
  [i \in 0 .. lens[t] - 1 |-> IF i - dst \in DOMAIN new THEN new[i - dst] ELSE refs[t][i]]

Part(s, from, n) == [k \in 0 .. n - 1 |-> s[from + k]]

PopOperands ==
  /\ instr = NoInstr
  /\ instr' \in TableRequests /\ result' = Ended("pending")
  /\ UNCHANGED <<types, refs, lens, elemDropped>>

EndWith(res) == instr' = NoInstr /\ result' = res

TableGet ==
  /\ instr.op = "get"
  /\ AsUsize(instr.i) < lens[instr.t]
  /\ EndWith(Pushed(refs[instr.t][AsUsize(instr.i)]))
  /\ UNCHANGED <<types, refs, lens, elemDropped>>

TableSet ==
  /\ instr.op = "set"
  /\ AsUsize(instr.i) < lens[instr.t]
  /\ refs' = [refs EXCEPT ![instr.t][AsUsize(instr.i)] = instr.ref]
  /\ EndWith(Ended("done"))
  /\ UNCHANGED <<types, lens, elemDropped>>

TableFill ==
  /\ instr.op = "fill"
  /\ Fits(AsUsize(instr.dst), AsUsize(instr.n), lens[instr.t])
  /\ refs' = [refs EXCEPT ![instr.t] =
                Overwritten(instr.t, AsUsize(instr.dst),
                            [k \in 0 .. AsUsize(instr.n) - 1 |-> instr.ref])]
  /\ EndWith(Ended("done"))
  /\ UNCHANGED <<types, lens, elemDropped>>

(* Fault: elements are copied one by one, from the first to the last.      *)
TableCopyForward ==
  /\ instr.op = "copy"
  /\ Fits(AsUsize(instr.src), AsUsize(instr.n), lens[instr.from])
  /\ Fits(AsUsize(instr.dst), AsUsize(instr.n), lens[instr.t])
  /\ LET s == AsUsize(instr.src)
         d == IF instr.from = instr.t THEN AsUsize(instr.dst) - s ELSE 0
     IN  refs' = [refs EXCEPT ![instr.t] =
                    Overwritten(instr.t, AsUsize(instr.dst),
                                [k \in 0 .. AsUsize(instr.n) - 1 |->
                                   refs[instr.from][s + (IF d > 0 THEN k % d ELSE k)]])]
  /\ EndWith(Ended("done"))
  /\ UNCHANGED <<types, lens, elemDropped>>

(* The source, in the same table or another, is copied out before the      *)
(* destination is looked at.                                               *)
TableCopy ==
  /\ instr.op = "copy"
  /\ Fits(AsUsize(instr.src), AsUsize(instr.n), lens[instr.from])
  /\ Fits(AsUsize(instr.dst), AsUsize(instr.n), lens[instr.t])
  /\ refs' = [refs EXCEPT ![instr.t] =
                Overwritten(instr.t, AsUsize(instr.dst),
                            Part(refs[instr.from], AsUsize(instr.src), AsUsize(instr.n)))]
  /\ EndWith(Ended("done"))
  /\ UNCHANGED <<types, lens, elemDropped>>

(* table.init, and the active segments of an instantiation.                *)
TableInit ==
  /\ instr.op = "init"
  /\ Fits(AsUsize(instr.dst), AsUsize(instr.n), lens[instr.t])
  /\ Fits(AsUsize(instr.src), AsUsize(instr.n), SegmentLength)
  /\ refs' = [refs EXCEPT ![instr.t] =
                Overwritten(instr.t, AsUsize(instr.dst),
                            Part(ElemRefs, AsUsize(instr.src), AsUsize(instr.n)))]
  /\ EndWith(Ended("done"))
  /\ UNCHANGED <<types, lens, elemDropped>>

ElemDrop ==
  /\ instr.op = "drop"
  /\ elemDropped' = TRUE
  /\ EndWith(Ended("done"))
  /\ UNCHANGED <<types, refs, lens>>

(* Fault: the limit of the implementation is not looked at.                *)
TableGrowsUnlimited(t, inc) ==
  types[t].max # Unlimited => lens[t] + inc <= types[t].max

(* The declared maximum, and the limit of the implementation.              *)
TableGrows(t, inc) ==
  /\ lens[t] + inc <= MaxTableLen
  /\ types[t].max # Unlimited => lens[t] + inc <= types[t].max

(* The length before, or -1.                                               *)
TableGrow ==
  /\ instr.op = "grow"
  /\ LET t   == instr.t
         new == lens[t] + AsU32(instr.n)
     IN  IF TableGrows(t, AsU32(instr.n))
         THEN /\ lens' = [lens EXCEPT ![t] = new]
              /\ refs' = [refs EXCEPT ![t] =
                            [i \in 0 .. new - 1 |->
                               IF i < lens[t] THEN refs[t][i] ELSE instr.ref]]
              /\ EndWith(Pushed(AsI32(lens[t])))
         ELSE /\ UNCHANGED <<refs, lens>>
              /\ EndWith(Pushed(-1))
  /\ UNCHANGED <<types, elemDropped>>

(* The length, as an i32.                                                  *)
TableSize ==
  /\ instr.op = "size"
  /\ EndWith(Pushed(AsI32(lens[instr.t])))
  /\ UNCHANGED <<types, refs, lens, elemDropped>>

OutOfTable ==
  CASE instr.op \in {"get", "set"} -> ~(AsUsize(instr.i) < lens[instr.t])
    [] instr.op = "fill" -> ~Fits(AsUsize(instr.dst), AsUsize(instr.n), lens[instr.t])
    [] instr.op = "copy" ->
         \/ ~Fits(AsUsize(instr.src), AsUsize(instr.n), lens[instr.from])
         \/ ~Fits(AsUsize(instr.dst), AsUsize(instr.n), lens[instr.t])
    [] instr.op = "init" ->
         \/ ~Fits(AsUsize(instr.dst), AsUsize(instr.n), lens[instr.t])
         \/ ~Fits(AsUsize(instr.src), AsUsize(instr.n), SegmentLength)
    [] OTHER -> FALSE

(* OutOfBoundsTableAccess.                                                 *)
TableTrap ==
  /\ OutOfTable
  /\ EndWith(Ended("trap"))
  /\ UNCHANGED <<types, refs, lens, elemDropped>>

-----------------------------------------------------------------------------
(* A table starts with its declared minimum, that only the declared        *)
(* maximum limits.                                                         *)
TablesInit ==
  /\ types \in TableTypes
  /\ \A t \in Tables : types[t].max # Unlimited => types[t].min <= types[t].max
  /\ lens = [t \in Tables |-> types[t].min]
  /\ refs = [t \in Tables |-> [i \in 0 .. types[t].min - 1 |-> Null]]
  /\ elemDropped = FALSE
  /\ instr = NoInstr
  /\ result = Ended("done")

TablesExecute ==
  \/ TableGet \/ TableSet \/ TableFill \/ TableCopy \/ TableInit \/ ElemDrop
  \/ TableGrow \/ TableSize \/ TableTrap

TablesNext == PopOperands \/ TablesExecute

TablesSpec == TablesInit /\ [][TablesNext]_tableVars

-----------------------------------------------------------------------------
(* Properties.                                                             *)

(* Type invariant; and a table is within its declared maximum, and within  *)
(* MAX_WASM_TABLE_LEN unless it was declared longer.                       *)
TablesTypeOK ==
  /\ types \in [Tables -> [min : Lens, max : 0 .. Unlimited]]
  /\ lens \in [Tables -> Lens]
  /\ DOMAIN refs = Tables
  /\ \A t \in Tables :
       /\ refs[t] \in [0 .. lens[t] - 1 -> Refs]
       /\ types[t].max # Unlimited => lens[t] <= types[t].max
       /\ lens[t] <= MaxTableLen \/ lens[t] = types[t].min
  /\ elemDropped \in BOOLEAN
  /\ instr \in TableRequests \cup {NoInstr}
  /\ result \in [how : {"done", "trap", "pending", "pushed"}, value : I32 \cup Refs]

(* The elements an instruction names, operands read as unsigned.           *)
InTable(r) ==
  CASE r.op \in {"get", "set"} -> AsU32(r.i) < lens[r.t]
    [] r.op = "fill" -> AsU32(r.dst) + AsU32(r.n) <= lens[r.t]
    [] r.op = "copy" -> /\ AsU32(r.src) + AsU32(r.n) <= lens[r.from]
                        /\ AsU32(r.dst) + AsU32(r.n) <= lens[r.t]
    [] r.op = "init" -> /\ AsU32(r.src) + AsU32(r.n) <= SegmentLength
                        /\ AsU32(r.dst) + AsU32(r.n) <= lens[r.t]
    [] OTHER -> TRUE

Ending == instr # NoInstr /\ instr' = NoInstr

(* store.rs:312: whatever a table is grown to, and unless it is declared   *)
(* with 2^31 elements or more, widening operands with their sign is not    *)
(* observed: an instruction traps exactly when it names an element that is *)
(* not there.  It completes with no such element whatever is declared.     *)
TableBoundsExact ==
  [][Ending =>
       /\ result'.how # "trap" => InTable(instr)
       /\ result'.how = "trap" /\ (\A t \in Tables : types[t].min < Half) => ~InTable(instr)
    ]_tableVars

(* table.fill, copy and init write all their elements at once, also when   *)
(* the tables are the same and the ranges overlap, and none when they      *)
(* trap, and no other table; what table.grow pushes tells what it did.     *)
WrittenBy(r, k) ==
  CASE r.op = "fill" -> r.ref
    [] r.op = "copy" -> refs[r.from][AsU32(r.src) + k]
    [] r.op = "init" -> ElemRefs[AsU32(r.src) + k]

TableEffectAllAtOnce ==
  [][Ending =>
       /\ result'.how = "trap" => refs' = refs
       /\ result'.how = "done" /\ instr.op \in {"fill", "copy", "init"} =>
            \A t \in Tables : \A i \in 0 .. lens[t] - 1 :
              refs'[t][i] =
                IF t = instr.t /\ i - AsU32(instr.dst) \in 0 .. AsU32(instr.n) - 1
                THEN WrittenBy(instr, i - AsU32(instr.dst)) ELSE refs[t][i]
       /\ instr.op = "grow" =>
            IF result'.value = -1 THEN refs' = refs /\ lens' = lens
            ELSE /\ result'.value = lens[instr.t]
                 /\ lens' = [lens EXCEPT ![instr.t] = @ + AsU32(instr.n)]
    ]_tableVars

=============================================================================
