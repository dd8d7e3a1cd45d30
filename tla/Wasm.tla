-------------------------------- MODULE Wasm --------------------------------
(***************************************************************************)
(* The static part of a decoded module: value types, function types, the   *)
(* index spaces that validation and execution look indices up in, and the  *)
(* instructions of a function body.  Everything here is constant once a    *)
(* module has been decoded.                                                *)
(*                                                                         *)
(* Indices are 0-based, as in the program; At and InRange turn them into   *)
(* positions of the (1-based) sequences.                                   *)
(***************************************************************************)
EXTENDS Integers, Sequences

NumType == {"i32", "i64", "f32", "f64"}
RefType == {"funcref", "externref"}
ValType == NumType \cup RefType

(* ValueType of the validator: a value type, or the bottom type that an    *)
(* unreachable stack yields.                                               *)
Unknown == "unknown"
ValueType == ValType \cup {Unknown}

FuncType == [params : Seq(ValType), results : Seq(ValType)]

(* A block type is empty, one result type, or an index into the types.     *)
BlockType == [kind : {"empty"}]
             \cup [kind : {"value"}, t : ValType]
             \cup [kind : {"index"}, x : Nat]

(***************************************************************************)
(* Instructions.  One op stands for every opcode that validation and       *)
(* execution treat alike: "binop" at type t is every t.add, t.sub, ...;    *)
(* "load" is every width of load.                                          *)
(***************************************************************************)
OpenOps   == {"block", "loop", "if"}
LabelOps  == {"br", "br_if"}
NumOps    == {"const", "unop", "testop", "binop", "relop"}
IndexOps  == {"call", "ref.func", "local.get", "local.set", "local.tee",
              "global.get", "global.set", "table.get", "table.set",
              "table.size", "table.grow", "table.fill", "elem.drop",
              "data.drop"}
PairOps   == {"call_indirect", "table.copy", "table.init"}
BareOps   == {"unreachable", "nop", "else", "end", "return", "drop",
              "select", "ref.is_null", "memory.size", "memory.grow",
              "memory.copy", "memory.fill"}

Instruction ==
       [op : BareOps]
  \cup [op : OpenOps, bt : BlockType]
  \cup [op : LabelOps, n : Nat]
  \cup [op : {"br_table"}, labels : Seq(Nat), default : Nat]
  \cup [op : NumOps, t : NumType]
  \cup [op : {"cvtop"}, from : NumType, to : NumType]
  \cup [op : {"load", "store"}, t : NumType, bytes : Nat, align : Nat]
  \cup [op : {"ref.null"}, t : RefType]
  \cup [op : {"select_t"}, ts : Seq(ValType)]
  \cup [op : {"memory.init"}, x : Nat]
  \cup [op : IndexOps, x : Nat]
  \cup [op : PairOps, x : Nat, y : Nat]

(***************************************************************************)
(* The module.  Its section-level validation is assumed to have passed.    *)
(***************************************************************************)
CONSTANTS
  Types,      \* type section: sequence of FuncType
  Imports,    \* imported functions, each the index of its type
  Funcs,      \* defined functions: [type : index of a type, locals]
  Globals,    \* imported then defined globals: [type, mut]
  Tables,     \* element type of each table
  Elems,      \* element type of each element segment
  Memories,   \* number of memories, 0 or 1
  Datas,      \* number of data segments
  Declared,   \* function indices declared for ref.func
  Instrs      \* the instructions a body may be made of

(***************************************************************************)
(* What decoding and the section checks of validate_module have            *)
(* established before the first body is looked at: every type index of an  *)
(* import and of a function exists (imports section and "UnknownType").    *)
(* V128 is left out: no opcode of the decoder produces a v128 value.       *)
(***************************************************************************)
ASSUME ModuleAssumption ==
  /\ Types \in Seq(FuncType)
  /\ Imports \in Seq(0 .. Len(Types) - 1)
  /\ Funcs \in Seq([type : 0 .. Len(Types) - 1, locals : Seq(ValType)])
  /\ Globals \in Seq([type : ValType, mut : BOOLEAN])
  /\ Tables \in Seq(RefType)
  /\ Elems \in Seq(RefType)
  /\ Memories \in {0, 1}
  /\ Datas \in Nat
  /\ Declared \subseteq Nat
  /\ Instrs \subseteq Instruction

InRange(s, x) == x \in 0 .. Len(s) - 1
At(s, x)      == s[x + 1]

(* func_type_at: imported functions first, then the defined ones.          *)
FuncCount   == Len(Imports) + Len(Funcs)
FuncTypeIdx(x) ==
  IF x < Len(Imports) THEN At(Imports, x) ELSE At(Funcs, x - Len(Imports)).type
FuncTypeOf(x)  == At(Types, FuncTypeIdx(x))
IsImport(x)    == x < Len(Imports)

(* The types of the parameters and locals of the x-th defined function.    *)
LocalTypes(k) == At(Types, Funcs[k].type).params \o Funcs[k].locals

=============================================================================
