--------------------------- MODULE ExecutorProofs ---------------------------
(***************************************************************************)
(* For every module, every body and every depth limit.                     *)
(*                                                                         *)
(* Loading: the validator's state keeps its types, its control frames are  *)
(* nested in the operand stack, and it agrees with the decoder about the   *)
(* open blocks.  The three parts support one another.  HeightsNested needs *)
(* an innermost frame wherever an instruction is validated, which only     *)
(* DecoderAgrees provides; DecoderAgrees needs the guards of Accepted to   *)
(* be about that frame; and both need the types.  IInv is therefore their  *)
(* conjunction.                                                            *)
(*                                                                         *)
(* Running leaves all of that alone, and the interpreter's state keeps its *)
(* types: stack pointers and arities are never negative, and only values   *)
(* reach the value stack and the locals.  XInv adds to TypeOK what makes   *)
(* it inductive: a frame's function is one of the defined ones, and its    *)
(* body is there for as long as the frame is.                              *)
(***************************************************************************)
EXTENDS Executor, SequenceTheorems, WellFoundedInduction, TLAPS

IInv == LoadTypeOK /\ HeightsNested /\ DecoderAgrees

-----------------------------------------------------------------------------
(* Sequences.                                                              *)

(* A prefix of a sequence.                                                 *)
LEMMA Prefix ==
  ASSUME NEW S, NEW s \in Seq(S), NEW n \in 0 .. Len(s)
  PROVE  /\ SubSeq(s, 1, n) \in Seq(S)
         /\ Len(SubSeq(s, 1, n)) = n
         /\ \A k \in 1 .. n : SubSeq(s, 1, n)[k] = s[k]
  OBVIOUS

(* Front and Last of a non-empty sequence.                                 *)
LEMMA FrontLast ==
  ASSUME NEW S, NEW s \in Seq(S), s # <<>>
  PROVE  /\ Len(s) \in Nat \ {0}
         /\ Last(s) \in S
         /\ Front(s) \in Seq(S)
         /\ Len(Front(s)) = Len(s) - 1
         /\ \A k \in 1 .. Len(s) - 1 : Front(s)[k] = s[k]
<1>1. Len(s) \in Nat \ {0}
  <2>1. \A t \in Seq(S) : t # <<>> => Len(t) \in Nat \ {0}
    BY EmptySeq, Zenon
  <2> QED
    BY <2>1
<1>2. Last(s) \in S
  BY <1>1 DEF Last
<1>3. /\ Front(s) \in Seq(S)
      /\ Len(Front(s)) = Len(s) - 1
      /\ \A k \in 1 .. Len(s) - 1 : Front(s)[k] = s[k]
  <2>1. Len(s) - 1 \in 0 .. Len(s)
    BY <1>1
  <2> QED
    BY <2>1, Prefix DEF Front
<1> QED
  BY <1>1, <1>2, <1>3

-----------------------------------------------------------------------------
(* Instructions.                                                           *)

(* The immediates an instruction has.                                      *)
LEMMA BlockImmediate ==
  ASSUME NEW i \in Instruction, i.op \in OpenOps
  PROVE  i.bt \in BlockType
  BY DEF Instruction, OpenOps, LabelOps, NumOps, IndexOps, PairOps, BareOps

(* A branch has a label, a br_table a default label.                       *)
LEMMA LabelImmediate ==
  ASSUME NEW i \in Instruction
  PROVE  /\ i.op \in LabelOps => i.n \in Nat
         /\ i.op = "br_table" => i.default \in Nat
  BY DEF Instruction, OpenOps, LabelOps, NumOps, IndexOps, PairOps, BareOps

(* The type immediates of the operators.                                   *)
LEMMA TypeImmediate ==
  ASSUME NEW i \in Instruction
  PROVE  /\ i.op \in NumOps \cup {"load", "store"} => i.t \in NumType
         /\ i.op = "ref.null" => i.t \in RefType
         /\ i.op = "cvtop" => i.from \in NumType /\ i.to \in NumType
         /\ i.op = "select_t" => i.ts \in Seq(ValType)
  BY DEF Instruction, OpenOps, LabelOps, NumOps, IndexOps, PairOps, BareOps

(* The parameters and results of a block type that exists.                 *)
LEMMA BlockTypes ==
  ASSUME NEW bt \in BlockType, BlockTypeOk(bt)
  PROVE  BlockStart(bt) \in Seq(ValueType) /\ BlockEnd(bt) \in Seq(ValueType)
<1>1. CASE bt.kind = "index"
  <2>1. At(Types, bt.x) \in FuncType
    BY <1>1, ModuleAssumption DEF BlockType, BlockTypeOk, InRange, At
  <2> QED
    BY <1>1, <2>1 DEF BlockStart, BlockEnd, FuncType, ValueType
<1>2. CASE bt.kind = "value"
  BY <1>2 DEF BlockType, BlockStart, BlockEnd, ValueType
<1>3. CASE bt.kind = "empty"
  BY <1>3 DEF BlockStart, BlockEnd
<1> QED
  BY <1>1, <1>2, <1>3 DEF BlockType

(* A type index that exists refers to a function type.                     *)
LEMMA TypeAt ==
  ASSUME NEW x \in 0 .. Len(Types) - 1
  PROVE  At(Types, x) \in FuncType
  BY ModuleAssumption DEF At

(* The types of the locals of the body being loaded.                       *)
LEMMA LocalsTyped ==
  ASSUME LoadTypeOK, Loading
  PROVE  LocalTypes(Current) \in Seq(ValType)
<1>1. Current \in 1 .. Len(Funcs)
  <2>1. Len(code) \in Nat /\ Len(code) + 1 <= Len(Funcs)
    BY DEF LoadTypeOK
  <2> QED
    BY <2>1, ModuleAssumption DEF Current
<1>2. Funcs[Current] \in [type : 0 .. Len(Types) - 1, locals : Seq(ValType)]
  <2> DEFINE R == [type : 0 .. Len(Types) - 1, locals : Seq(ValType)]
  <2>1. Funcs \in Seq(R)
    BY ModuleAssumption
  <2> HIDE DEF R
  <2>2. Funcs[Current] \in R
    BY <2>1, <1>1
  <2> QED
    BY <2>2 DEF R
<1>3. At(Types, Funcs[Current].type) \in FuncType
  BY <1>2, ModuleAssumption DEF At
<1> QED
  BY <1>2, <1>3 DEF LocalTypes, FuncType

(* The type of a function that exists.                                     *)
LEMMA FuncTypes ==
  ASSUME NEW x \in Nat, x < FuncCount
  PROVE  FuncTypeOf(x) \in FuncType
<1>1. FuncTypeIdx(x) \in 0 .. Len(Types) - 1
  <2>1. CASE x < Len(Imports)
    <3>1. x + 1 \in 1 .. Len(Imports)
      BY <2>1, ModuleAssumption
    <3> QED
      BY <2>1, <3>1, ModuleAssumption DEF FuncTypeIdx, At
  <2>2. CASE ~(x < Len(Imports))
    <3>1. x - Len(Imports) + 1 \in 1 .. Len(Funcs)
      BY <2>2, ModuleAssumption DEF FuncCount
    <3> DEFINE R == [type : 0 .. Len(Types) - 1, locals : Seq(ValType)]
    <3>2. Funcs \in Seq(R)
      BY ModuleAssumption
    <3> HIDE DEF R
    <3>3. At(Funcs, x - Len(Imports)) \in R
      BY <3>1, <3>2 DEF At
    <3> QED
      BY <2>2, <3>3 DEF R, FuncTypeIdx
  <2> QED
    BY <2>1, <2>2
<1> QED
  BY <1>1, ModuleAssumption DEF FuncTypeOf, At

-----------------------------------------------------------------------------
(* The operand and control stacks.                                         *)

(* The innermost control frame is one.                                     *)
LEMMA TopFrame ==
  ASSUME LoadTypeOK, ctrls # <<>>
  PROVE  /\ Len(ctrls) \in Nat \ {0}
         /\ Top \in Ctrl
         /\ Top = ctrls[Len(ctrls)]
         /\ Top.height \in Nat
         /\ Top.start \in Seq(ValueType)
         /\ Top.end \in Seq(ValueType)
<1>1. ctrls \in Seq(Ctrl)
  BY DEF LoadTypeOK
<1>2. Len(ctrls) \in Nat \ {0} /\ Last(ctrls) \in Ctrl
  BY <1>1, FrontLast
<1> QED
  BY <1>2 DEF Top, Last, Ctrl

(* Popping takes operands of the innermost block only.                     *)
LEMMA PopStaysAboveHeight ==
  ASSUME LoadTypeOK, HeightsNested, ctrls # <<>>, NEW ts \in Seq(ValueType)
  PROVE  /\ AfterPop(ts) \in Seq(ValueType)
         /\ Len(AfterPop(ts)) \in Nat
         /\ Top.height <= Len(AfterPop(ts))
<1>1. vals \in Seq(ValueType) /\ Len(vals) \in Nat /\ Len(ts) \in Nat
  BY DEF LoadTypeOK
<1>2. Top.height \in 0 .. Len(vals)
  BY <1>1, TopFrame DEF HeightsNested
<1>3. CASE Len(ts) <= Avail
  <2>1. Len(vals) - Len(ts) \in 0 .. Len(vals)
    BY <1>1, <1>2, <1>3 DEF Avail
  <2>2. /\ SubSeq(vals, 1, Len(vals) - Len(ts)) \in Seq(ValueType)
        /\ Len(SubSeq(vals, 1, Len(vals) - Len(ts))) = Len(vals) - Len(ts)
    BY <1>1, <2>1, Prefix
  <2> QED
    BY <1>1, <1>2, <1>3, <2>1, <2>2 DEF AfterPop, Avail
<1>4. CASE ~(Len(ts) <= Avail)
  <2>1. /\ SubSeq(vals, 1, Top.height) \in Seq(ValueType)
        /\ Len(SubSeq(vals, 1, Top.height)) = Top.height
    BY <1>1, <1>2, Prefix
  <2> QED
    BY <1>2, <1>4, <2>1 DEF AfterPop
<1> QED
  BY <1>3, <1>4

(* The heights stay nested when only the innermost block's operands        *)
(* change, whatever becomes of its other fields.                           *)
LEMMA SameHeights ==
  ASSUME LoadTypeOK, HeightsNested, ctrls # <<>>,
         Len(vals') \in Nat, Top.height <= Len(vals'),
         Len(ctrls') = Len(ctrls),
         \A k \in 1 .. Len(ctrls) : ctrls'[k].height = ctrls[k].height
  PROVE  HeightsNested'
<1>1. \A k \in 1 .. Len(ctrls) : ctrls[k].height \in Nat
  <2>1. \A k \in 1 .. Len(ctrls) : ctrls[k] \in Ctrl
    BY DEF LoadTypeOK
  <2> QED
    BY <2>1 DEF Ctrl
<1>2. \A k \in 1 .. Len(ctrls) : ctrls[k].height <= Top.height
  BY TopFrame DEF HeightsNested
<1>3. Len(ctrls) \in Nat /\ Top.height \in Nat
  BY TopFrame
<1>4. \A k \in 1 .. Len(ctrls) : ctrls'[k].height <= Len(vals')
  BY <1>1, <1>2, <1>3
<1>5. \A j, k \in 1 .. Len(ctrls) :
        j <= k => ctrls'[j].height <= ctrls'[k].height
  BY DEF HeightsNested
<1> QED
  BY <1>4, <1>5 DEF HeightsNested

(* Opening a block over frames whose heights fit below its operands.       *)
LEMMA OpenBlock ==
  ASSUME NEW stack \in Seq(ValueType), NEW frs \in Seq(Ctrl),
         NEW opcode \in Opcode,
         NEW start \in Seq(ValueType), NEW end \in Seq(ValueType),
         \A k \in 1 .. Len(frs) : frs[k].height <= Len(stack),
         \A j, k \in 1 .. Len(frs) : j <= k => frs[j].height <= frs[k].height,
         PushCtrl(stack, frs, opcode, start, end)
  PROVE  /\ vals' \in Seq(ValueType)
         /\ ctrls' \in Seq(Ctrl)
         /\ Len(ctrls') = Len(frs) + 1
         /\ \A k \in 1 .. Len(frs) : ctrls'[k] = frs[k]
         /\ ctrls'[Len(frs) + 1].opcode = opcode
         /\ HeightsNested'
<1> DEFINE c == [opcode |-> opcode, start |-> start, end |-> end,
                 height |-> Len(stack), unreachable |-> FALSE]
<1>1. c \in Ctrl
  BY DEF Ctrl
<1>2. vals' = stack \o start /\ ctrls' = Append(frs, c)
  BY DEF PushCtrl
<1>3. vals' \in Seq(ValueType) /\ Len(vals') = Len(stack) + Len(start)
  BY <1>2
<1>4. /\ ctrls' \in Seq(Ctrl)
      /\ Len(ctrls') = Len(frs) + 1
      /\ \A k \in 1 .. Len(frs) : ctrls'[k] = frs[k]
      /\ ctrls'[Len(frs) + 1] = c
  <2> HIDE DEF c
  <2> QED
    BY <1>1, <1>2
<1>5. \A k \in 1 .. Len(frs) : frs[k].height \in Nat
  <2>1. \A k \in 1 .. Len(frs) : frs[k] \in Ctrl
    OBVIOUS
  <2> QED
    BY <2>1 DEF Ctrl
<1>6. HeightsNested'
  <2>1. Len(stack) \in Nat /\ Len(start) \in Nat /\ Len(frs) \in Nat
    OBVIOUS
  <2>2. \A k \in 1 .. Len(frs) + 1 : ctrls'[k].height \in Nat
                                     /\ ctrls'[k].height <= Len(stack)
    <3>1. ctrls'[Len(frs) + 1].height = Len(stack)
      BY <1>4
    <3>2. \A k \in 1 .. Len(frs) + 1 : k = Len(frs) + 1 \/ k \in 1 .. Len(frs)
      BY <2>1
    <3> QED
      BY <1>4, <1>5, <2>1, <3>1, <3>2
  <2>3. \A j, k \in 1 .. Len(frs) + 1 :
          j <= k => ctrls'[j].height <= ctrls'[k].height
    <3> SUFFICES ASSUME NEW j \in 1 .. Len(frs) + 1,
                        NEW k \in 1 .. Len(frs) + 1, j <= k
                 PROVE  ctrls'[j].height <= ctrls'[k].height
      OBVIOUS
    <3>1. CASE k = Len(frs) + 1
      BY <1>4, <2>2, <3>1
    <3>2. CASE k # Len(frs) + 1
      <4>1. j \in 1 .. Len(frs) /\ k \in 1 .. Len(frs)
        BY <2>1, <3>2
      <4> QED
        BY <1>4, <4>1
    <3> QED
      BY <3>1, <3>2
  <2> QED
    BY <1>3, <1>4, <2>1, <2>2, <2>3 DEF HeightsNested
<1> QED
  BY <1>3, <1>4, <1>6

-----------------------------------------------------------------------------
(* Operators with a fixed typing rule.                                     *)

(* Short sequences of types.                                               *)
LEMMA Tuples ==
  /\ <<>> \in Seq(ValueType)
  /\ \A a \in ValueType : <<a>> \in Seq(ValueType)
  /\ \A a, b \in ValueType : <<a, b>> \in Seq(ValueType)
  /\ \A a, b, c \in ValueType : <<a, b, c>> \in Seq(ValueType)
  OBVIOUS

(* The types every operator may mention.                                   *)
LEMMA SomeTypes ==
  /\ "i32" \in ValueType
  /\ "funcref" \in ValueType
  /\ Unknown \in ValueType
  /\ NumType \subseteq ValueType
  /\ RefType \subseteq ValueType
  /\ ValType \subseteq ValueType
  /\ Seq(ValType) \subseteq Seq(ValueType)
  BY DEF ValueType, ValType, NumType, RefType, Unknown

(* An operator that takes an index has one.                                *)
LEMMA IndexImmediate ==
  ASSUME NEW i \in Instruction
  PROVE  /\ i.op \in IndexOps => i.x \in Nat
         /\ i.op \in PairOps => i.x \in Nat /\ i.y \in Nat
  BY DEF Instruction, OpenOps, LabelOps, NumOps, IndexOps, PairOps, BareOps

(* What the indices of an operator refer to, once they are checked.        *)
LEMMA Indexed ==
  ASSUME LoadTypeOK, Loading, NEW i \in Instruction, Immediates(Current, i)
  PROVE  /\ i.op \in {"local.get", "local.set", "local.tee"} =>
              LocalType(Current, i.x) \in ValueType
         /\ i.op \in {"global.get", "global.set"} =>
              At(Globals, i.x).type \in ValueType
         /\ i.op \in {"table.get", "table.set", "table.size", "table.grow",
                       "table.fill"} => At(Tables, i.x) \in ValueType
         /\ i.op = "call" => FuncTypeOf(i.x) \in FuncType
         /\ i.op = "call_indirect" => At(Types, i.x) \in FuncType
<1>1. i.op \in {"local.get", "local.set", "local.tee"} =>
        LocalType(Current, i.x) \in ValueType
  BY LocalsTyped, SomeTypes DEF Immediates, InRange, LocalType, At
<1>2. i.op \in {"global.get", "global.set"} =>
        At(Globals, i.x).type \in ValueType
  <2> DEFINE G == [type : ValType, mut : BOOLEAN]
  <2>1. Globals \in Seq(G)
    BY ModuleAssumption
  <2>2. \A g \in G : g.type \in ValueType
    BY SomeTypes
  <2> HIDE DEF G
  <2> QED
    BY <2>1, <2>2 DEF Immediates, InRange, At
<1>3. i.op \in {"table.get", "table.set", "table.size", "table.grow",
                "table.fill"} => At(Tables, i.x) \in ValueType
  BY ModuleAssumption, SomeTypes DEF Immediates, InRange, At
<1>4. i.op = "call" => FuncTypeOf(i.x) \in FuncType
  BY IndexImmediate, FuncTypes DEF IndexOps, Immediates
<1>5. i.op = "call_indirect" => At(Types, i.x) \in FuncType
  BY ModuleAssumption DEF Immediates, InRange, At
<1> QED
  BY <1>1, <1>2, <1>3, <1>4, <1>5

(* An operator pops types.                                                 *)
LEMMA InsTyped ==
  ASSUME LoadTypeOK, Loading, NEW i \in Instruction, Immediates(Current, i)
  PROVE  Ins(Current, i) \in Seq(ValueType)
<1> DEFINE op == i.op
<1>1. CASE op \in {"unop", "testop", "binop", "relop", "cvtop", "store"}
  BY <1>1, TypeImmediate, SomeTypes, Tuples DEF Ins, NumOps
<1>2. CASE op \in {"local.set", "local.tee", "global.set", "table.set",
                   "table.grow", "table.fill"}
  BY <1>2, Indexed, SomeTypes, Tuples DEF Ins
<1>3. CASE op = "select_t"
  <2>1. i.ts \in Seq(ValType) /\ Len(i.ts) = 1
    BY <1>3, TypeImmediate DEF Immediates
  <2>2. i.ts[1] \in ValueType
    BY <2>1, SomeTypes
  <2> QED
    BY <1>3, <2>2, SomeTypes, Tuples DEF Ins
<1>4. CASE op = "call"
  BY <1>4, Indexed, SomeTypes DEF Ins, FuncType
<1>5. CASE op = "call_indirect"
  <2>1. At(Types, i.x).params \in Seq(ValueType)
    BY <1>5, Indexed, SomeTypes DEF FuncType
  <2> QED
    BY <1>5, <2>1, SomeTypes DEF Ins
<1>6. CASE op \in {"load", "memory.grow", "table.get", "memory.init",
                   "memory.copy", "memory.fill", "table.init", "table.copy",
                   "drop"}
  BY <1>6, SomeTypes, Tuples DEF Ins
<1>7. CASE op \notin {"unop", "testop", "binop", "relop", "cvtop", "store",
                      "local.set", "local.tee", "global.set", "table.set",
                      "table.grow", "table.fill", "select_t", "call",
                      "call_indirect", "load", "memory.grow", "table.get",
                      "memory.init", "memory.copy", "memory.fill",
                      "table.init", "table.copy", "drop"}
  BY <1>7, Tuples DEF Ins
<1> QED
  BY <1>1, <1>2, <1>3, <1>4, <1>5, <1>6, <1>7

(* An operator pushes types.                                               *)
LEMMA OutsTyped ==
  ASSUME LoadTypeOK, Loading, NEW i \in Instruction, Immediates(Current, i)
  PROVE  Outs(Current, i) \in Seq(ValueType)
<1> DEFINE op == i.op
<1>1. CASE op \in {"const", "unop", "binop", "load", "ref.null", "cvtop"}
  BY <1>1, TypeImmediate, SomeTypes, Tuples DEF Outs, NumOps
<1>2. CASE op \in {"local.get", "local.tee", "global.get", "table.get"}
  BY <1>2, Indexed, SomeTypes, Tuples DEF Outs
<1>3. CASE op = "select_t"
  BY <1>3, TypeImmediate, SomeTypes DEF Outs
<1>4. CASE op \in {"call", "call_indirect"}
  BY <1>4, Indexed, SomeTypes DEF Outs, FuncType
<1>5. CASE op \in {"testop", "relop", "memory.size", "memory.grow",
                   "table.size", "table.grow", "ref.func"}
  BY <1>5, SomeTypes, Tuples DEF Outs
<1>6. CASE op \notin {"const", "unop", "binop", "load", "ref.null", "cvtop",
                      "local.get", "local.tee", "global.get", "table.get",
                      "select_t", "call", "call_indirect", "testop", "relop",
                      "memory.size", "memory.grow", "table.size",
                      "table.grow", "ref.func"}
  BY <1>6, Tuples DEF Outs
<1> QED
  BY <1>1, <1>2, <1>3, <1>4, <1>5, <1>6

-----------------------------------------------------------------------------
(* The steps.                                                              *)

(* While a body is read the validator has a control frame.                 *)
LEMMA FrameExists ==
  ASSUME LoadTypeOK, DecoderAgrees, Loading
  PROVE  nest # <<>> /\ ctrls # <<>> /\ Len(nest) \in Nat \ {0}
<1>1. nest # <<>> /\ Len(nest) \in Nat \ {0}
  BY FrontLast DEF Loading, LoadTypeOK
<1>2. ctrls # <<>>
  BY <1>1 DEF DecoderAgrees
<1> QED
  BY <1>1, <1>2

(* The operand types a branch to an open block carries.                    *)
LEMMA LabelTyped ==
  ASSUME LoadTypeOK, NEW n \in Nat, TargetOk(n)
  PROVE  LabelTypes(n) \in Seq(ValueType)
<1>1. ctrls \in Seq(Ctrl)
  BY DEF LoadTypeOK
<1>2. Len(ctrls) - n \in 1 .. Len(ctrls)
  BY <1>1 DEF TargetOk
<1>3. ctrls[Len(ctrls) - n] \in Ctrl
  BY <1>1, <1>2
<1> QED
  BY <1>3 DEF LabelTypes, Ctrl

(* Reading an instruction that leaves a block open keeps the types of the  *)
(* decoder's state and of what is recorded.                                *)
LEMMA ReadTyped ==
  ASSUME LoadTypeOK, DecoderAgrees, NEW i \in Instruction, Read(i),
         i.op = "end" => Len(nest) > 1
  PROVE  /\ nest' \in Seq(Nesting)
         /\ body' \in Seq(Instruction)
         /\ trace' \in Seq(Typed)
         /\ code' \in Seq(Seq(Instruction))
         /\ typing' \in Seq(Seq(Typed))
         /\ Len(code') + (IF Loading' THEN 1 ELSE 0) <= Len(Funcs)
<1>1. nest \in Seq(Nesting) /\ nest # <<>> /\ Len(nest) \in Nat \ {0}
  BY FrameExists DEF LoadTypeOK, Read
<1>2. Front(nest) \in Seq(Nesting) /\ Len(Front(nest)) = Len(nest) - 1
  BY <1>1, FrontLast
<1>3. nest' \in Seq(Nesting) /\ nest' # <<>>
  <2>1. CASE i.op \in OpenOps
    <3>1. nest' = Append(nest, i.op) /\ i.op \in Nesting
      BY <2>1 DEF Read, NestAfter, Nesting, OpenOps
    <3>2. nest' \in Seq(Nesting) /\ Len(nest') = Len(nest) + 1
      BY <1>1, <3>1
    <3> QED
      BY <1>1, <3>2, FrontLast
  <2>2. CASE i.op = "else"
    <3>1. nest' = Append(Front(nest), "if-else") /\ "if-else" \in Nesting
      BY <2>2 DEF Read, NestAfter, Nesting, OpenOps
    <3>2. nest' \in Seq(Nesting) /\ Len(nest') = Len(nest)
      BY <1>1, <1>2, <3>1
    <3> QED
      BY <1>1, <3>2
  <2>3. CASE i.op = "end"
    <3>1. nest' = Front(nest)
      BY <2>3 DEF Read, NestAfter, OpenOps
    <3>2. Len(nest') # 0
      BY <1>1, <1>2, <2>3, <3>1
    <3> QED
      BY <1>2, <3>1, <3>2
  <2>4. CASE i.op \notin OpenOps \cup {"else", "end"}
    BY <1>1, <2>4 DEF Read, NestAfter
  <2> QED
    BY <2>1, <2>2, <2>3, <2>4
<1>4. Here \in Typed
  BY DEF LoadTypeOK, Here, Typed
<1>5. body' \in Seq(Instruction)
  <2> HIDE DEF Instruction
  <2> QED
    BY DEF LoadTypeOK, Read
<1>6. trace' \in Seq(Typed)
  BY <1>4 DEF LoadTypeOK, Read
<1>7. Len(code') + (IF Loading' THEN 1 ELSE 0) <= Len(Funcs)
  BY <1>3 DEF LoadTypeOK, Read, Loading
<1> QED
  BY <1>3, <1>5, <1>6, <1>7 DEF LoadTypeOK, Read

(* An instruction that opens, closes and switches no block keeps the       *)
(* agreement if it keeps the opcodes of the frames.                        *)
LEMMA SameBlocks ==
  ASSUME DecoderAgrees, nest' = nest, Len(ctrls') = Len(ctrls),
         \A k \in 1 .. Len(ctrls) : ctrls'[k].opcode = ctrls[k].opcode
  PROVE  DecoderAgrees'
  BY DEF DecoderAgrees

(* Opening a block over the frames of the enclosing ones.                  *)
LEMMA NewBlock ==
  ASSUME NEW ns \in Seq(Nesting), NEW frs \in Seq(Ctrl), NEW n \in Nesting,
         Len(ns) = Len(frs),
         \A k \in 1 .. Len(ns) : frs[k].opcode = OpcodeOf(ns[k]),
         nest' = Append(ns, n),
         Len(ctrls') = Len(frs) + 1,
         \A k \in 1 .. Len(frs) : ctrls'[k] = frs[k],
         ctrls'[Len(frs) + 1].opcode = OpcodeOf(n)
  PROVE  DecoderAgrees'
<1>1. Len(nest') = Len(ns) + 1 /\ nest'[Len(ns) + 1] = n
  OBVIOUS
<1>2. \A k \in 1 .. Len(ns) : nest'[k] = ns[k]
  OBVIOUS
<1>3. ASSUME NEW k \in 1 .. Len(nest')
      PROVE  ctrls'[k].opcode = OpcodeOf(nest'[k])
  <2>1. CASE k = Len(ns) + 1
    BY <1>1, <2>1
  <2>2. CASE k # Len(ns) + 1
    <3>1. k \in 1 .. Len(ns)
      BY <1>1, <2>2
    <3> QED
      BY <1>2, <3>1
  <2> QED
    BY <2>1, <2>2
<1> QED
  BY <1>1, <1>3 DEF DecoderAgrees

(* What an instruction pushes lands above the innermost block's height.    *)
LEMMA PopThenPush ==
  ASSUME LoadTypeOK, HeightsNested, ctrls # <<>>,
         NEW ts \in Seq(ValueType), NEW us \in Seq(ValueType),
         vals' = AfterPop(ts) \o us
  PROVE  /\ vals' \in Seq(ValueType)
         /\ Len(vals') \in Nat
         /\ Top.height <= Len(vals')
<1>1. Top.height \in Nat /\ Len(us) \in Nat
  BY TopFrame
<1>2. /\ AfterPop(ts) \in Seq(ValueType)
      /\ Len(AfterPop(ts)) \in Nat
      /\ Top.height <= Len(AfterPop(ts))
  BY PopStaysAboveHeight
<1>3. \A s, t \in Seq(ValueType) :
        s \o t \in Seq(ValueType) /\ Len(s \o t) = Len(s) + Len(t)
  OBVIOUS
<1>4. vals' \in Seq(ValueType) /\ Len(vals') = Len(AfterPop(ts)) + Len(us)
  BY <1>2, <1>3
<1>5. \A h, a, b \in Nat : h <= a => a + b \in Nat /\ h <= a + b
  OBVIOUS
<1> QED
  BY <1>1, <1>2, <1>4, <1>5

(* An instruction that keeps the control frames.                           *)
LEMMA KeepFrames ==
  ASSUME IInv, NEW i \in Instruction, Read(i),
         i.op \notin OpenOps \cup {"else", "end"},
         vals' \in Seq(ValueType), Top.height <= Len(vals'),
         UNCHANGED ctrls
  PROVE  IInv'
<1> USE DEF IInv
<1>1. Loading /\ ctrls # <<>>
  BY FrameExists DEF Read
<1>2. LoadTypeOK'
  BY ReadTyped DEF LoadTypeOK
<1>3. HeightsNested'
  BY <1>1, SameHeights
<1>4. DecoderAgrees'
  <2>1. nest' = nest
    BY DEF Read, NestAfter
  <2> QED
    BY <2>1, SameBlocks
<1> QED
  BY <1>2, <1>3, <1>4

(* The rest of the block is unreachable.                                   *)
LEMMA Unreached ==
  ASSUME IInv, NEW i \in Instruction, Read(i),
         i.op \notin OpenOps \cup {"else", "end"}, MarkUnreachable
  PROVE  IInv'
<1> USE DEF IInv
<1>1. Loading /\ ctrls # <<>>
  BY FrameExists DEF Read
<1>2. /\ vals' \in Seq(ValueType)
      /\ Len(vals') = Top.height
  <2>1. Top.height \in 0 .. Len(vals)
    BY <1>1, TopFrame DEF HeightsNested
  <2> QED
    BY <2>1, Prefix DEF LoadTypeOK, MarkUnreachable
<1>3. ctrls' = [ctrls EXCEPT ![Len(ctrls)] =
                  [Top EXCEPT !.unreachable = TRUE]]
  BY <1>1, TopFrame DEF MarkUnreachable
<1>4. [Top EXCEPT !.unreachable = TRUE] \in Ctrl
  BY <1>1, TopFrame DEF Ctrl
<1>5. /\ ctrls' \in Seq(Ctrl)
      /\ Len(ctrls') = Len(ctrls)
  BY <1>1, <1>3, <1>4, TopFrame DEF LoadTypeOK
<1>6. \A k \in 1 .. Len(ctrls) : /\ ctrls'[k].height = ctrls[k].height
                                 /\ ctrls'[k].opcode = ctrls[k].opcode
  <2> SUFFICES ASSUME NEW k \in 1 .. Len(ctrls)
               PROVE  /\ ctrls'[k].height = ctrls[k].height
                      /\ ctrls'[k].opcode = ctrls[k].opcode
    OBVIOUS
  <2>1. CASE k = Len(ctrls)
    <3>1. ctrls'[k] = [Top EXCEPT !.unreachable = TRUE]
      BY <1>3, <2>1 DEF LoadTypeOK
    <3> QED
      BY <1>1, <2>1, <3>1, TopFrame DEF Ctrl
  <2>2. CASE k # Len(ctrls)
    BY <1>3, <2>2 DEF LoadTypeOK
  <2> QED
    BY <2>1, <2>2
<1>7. LoadTypeOK'
  BY <1>2, <1>5, ReadTyped DEF LoadTypeOK
<1>8. HeightsNested'
  BY <1>1, <1>2, <1>5, <1>6, TopFrame, SameHeights
<1>9. DecoderAgrees'
  <2>1. nest' = nest
    BY DEF Read, NestAfter
  <2> QED
    BY <2>1, <1>5, <1>6, SameBlocks
<1> QED
  BY <1>7, <1>8, <1>9

(* block, loop and if: a frame on top of those there are.                  *)
LEMMA OpensBlock ==
  ASSUME IInv, NEW i \in Instruction, Read(i), i.op \in OpenOps,
         NEW ts \in Seq(ValueType),
         PushCtrl(AfterPop(ts), ctrls, i.op, BlockStart(i.bt), BlockEnd(i.bt))
  PROVE  IInv'
<1> USE DEF IInv
<1>1. Loading /\ ctrls # <<>> /\ nest # <<>>
  BY FrameExists DEF Read
<1>2. BlockTypeOk(i.bt)
  BY DEF Read, Accepted, OpenOps
<1>3. BlockStart(i.bt) \in Seq(ValueType) /\ BlockEnd(i.bt) \in Seq(ValueType)
  BY <1>2, BlockImmediate, BlockTypes
<1>4. /\ AfterPop(ts) \in Seq(ValueType)
      /\ Len(AfterPop(ts)) \in Nat
      /\ Top.height <= Len(AfterPop(ts))
  BY <1>1, PopStaysAboveHeight
<1>5. ctrls \in Seq(Ctrl) /\ i.op \in Opcode /\ i.op \in Nesting
  BY DEF LoadTypeOK, OpenOps, Opcode, Nesting
<1>6. \A k \in 1 .. Len(ctrls) : ctrls[k].height <= Len(AfterPop(ts))
  <2>1. \A k \in 1 .. Len(ctrls) : ctrls[k].height \in Nat
    <3>1. \A k \in 1 .. Len(ctrls) : ctrls[k] \in Ctrl
      BY <1>5
    <3> QED
      BY <3>1 DEF Ctrl
  <2>2. \A k \in 1 .. Len(ctrls) : ctrls[k].height <= Top.height
    BY <1>1, TopFrame DEF HeightsNested
  <2> QED
    BY <1>1, <1>4, <2>1, <2>2, TopFrame
<1>7. \A j, k \in 1 .. Len(ctrls) : j <= k => ctrls[j].height <= ctrls[k].height
  BY DEF HeightsNested
<1>8. /\ vals' \in Seq(ValueType)
      /\ ctrls' \in Seq(Ctrl)
      /\ Len(ctrls') = Len(ctrls) + 1
      /\ \A k \in 1 .. Len(ctrls) : ctrls'[k] = ctrls[k]
      /\ ctrls'[Len(ctrls) + 1].opcode = i.op
      /\ HeightsNested'
  BY <1>3, <1>4, <1>5, <1>6, <1>7, OpenBlock
<1>9. LoadTypeOK'
  BY <1>8, ReadTyped DEF LoadTypeOK, OpenOps
<1>10. DecoderAgrees'
  <2>1. nest' = Append(nest, i.op)
    BY DEF Read, NestAfter, OpenOps
  <2>2. OpcodeOf(i.op) = i.op
    BY DEF OpcodeOf, OpenOps
  <2>3. nest \in Seq(Nesting)
    BY DEF LoadTypeOK
  <2>4. /\ Len(nest) = Len(ctrls)
        /\ \A k \in 1 .. Len(nest) : ctrls[k].opcode = OpcodeOf(nest[k])
    BY DEF DecoderAgrees
  <2> QED
    BY <1>5, <1>8, <2>1, <2>2, <2>3, <2>4, NewBlock
<1> QED
  BY <1>8, <1>9, <1>10

(* The frames below the innermost one still fit under its operands.        *)
LEMMA FramesBelow ==
  ASSUME IInv, Loading
  PROVE  /\ Front(ctrls) \in Seq(Ctrl)
         /\ Front(nest) \in Seq(Nesting)
         /\ Len(Front(ctrls)) = Len(ctrls) - 1
         /\ Len(Front(nest)) = Len(Front(ctrls))
         /\ \A k \in 1 .. Len(Front(ctrls)) :
              /\ Front(ctrls)[k] = ctrls[k]
              /\ Front(nest)[k] = nest[k]
              /\ Front(ctrls)[k].opcode = OpcodeOf(Front(nest)[k])
              /\ Front(ctrls)[k].height \in Nat
              /\ Front(ctrls)[k].height <= Top.height
         /\ \A j, k \in 1 .. Len(Front(ctrls)) :
              j <= k => Front(ctrls)[j].height <= Front(ctrls)[k].height
<1> USE DEF IInv
<1>1. nest # <<>> /\ ctrls # <<>>
  BY FrameExists
<1>2. ctrls \in Seq(Ctrl) /\ nest \in Seq(Nesting) /\ Len(nest) = Len(ctrls)
  BY DEF LoadTypeOK, DecoderAgrees
<1>3. /\ Front(ctrls) \in Seq(Ctrl)
      /\ Len(ctrls) \in Nat \ {0}
      /\ Len(Front(ctrls)) = Len(ctrls) - 1
      /\ \A k \in 1 .. Len(ctrls) - 1 : Front(ctrls)[k] = ctrls[k]
  BY <1>1, <1>2, FrontLast
<1>4. /\ Front(nest) \in Seq(Nesting)
      /\ Len(Front(nest)) = Len(nest) - 1
      /\ \A k \in 1 .. Len(nest) - 1 : Front(nest)[k] = nest[k]
  BY <1>1, <1>2, FrontLast
<1>5. \A k \in 1 .. Len(ctrls) : ctrls[k].height \in Nat
  <2>1. \A k \in 1 .. Len(ctrls) : ctrls[k] \in Ctrl
    BY <1>2
  <2> QED
    BY <2>1 DEF Ctrl
<1>6. \A k \in 1 .. Len(ctrls) : ctrls[k].height <= Top.height
  BY <1>1, TopFrame DEF HeightsNested
<1>7. \A k \in 1 .. Len(ctrls) - 1 : k \in 1 .. Len(ctrls)
  BY <1>3
<1>8. \A k \in 1 .. Len(ctrls) : ctrls[k].opcode = OpcodeOf(nest[k])
  BY <1>2 DEF DecoderAgrees
<1>9. \A j, k \in 1 .. Len(ctrls) : j <= k => ctrls[j].height <= ctrls[k].height
  BY DEF HeightsNested
<1> QED
  BY <1>2, <1>3, <1>4, <1>5, <1>6, <1>7, <1>8, <1>9

(* else: the frame of the if is replaced by one for the other arm.         *)
LEMMA ElseStep ==
  ASSUME IInv, NEW i \in Instruction, Else(i)
  PROVE  IInv'
<1> USE DEF IInv
<1>1. Read(i) /\ i.op = "else" /\ Loading /\ ctrls # <<>>
  BY FrameExists DEF Else, Read
<1>2. /\ Top.start \in Seq(ValueType)
      /\ Top.end \in Seq(ValueType)
      /\ Top.height \in Nat
  BY <1>1, TopFrame
<1>3. /\ AfterPop(Top.end) \in Seq(ValueType)
      /\ Len(AfterPop(Top.end)) = Top.height
  <2>1. Accepted(i)
    BY <1>1 DEF Read
  <2> QED
    BY <1>1, <1>2, <2>1, PopStaysAboveHeight DEF Accepted, CanPopCtrl
<1>4. PushCtrl(AfterPop(Top.end), Front(ctrls), "else", Top.start, Top.end)
  BY DEF Else
<1>5. "else" \in Opcode /\ "if-else" \in Nesting /\ OpcodeOf("if-else") = "else"
  BY DEF Opcode, Nesting, OpcodeOf
<1>6. /\ vals' \in Seq(ValueType)
      /\ ctrls' \in Seq(Ctrl)
      /\ Len(ctrls') = Len(Front(ctrls)) + 1
      /\ \A k \in 1 .. Len(Front(ctrls)) : ctrls'[k] = Front(ctrls)[k]
      /\ ctrls'[Len(Front(ctrls)) + 1].opcode = "else"
      /\ HeightsNested'
  BY <1>1, <1>2, <1>3, <1>4, <1>5, FramesBelow, OpenBlock
<1>7. LoadTypeOK'
  BY <1>1, <1>6, ReadTyped DEF LoadTypeOK
<1>8. DecoderAgrees'
  <2>1. nest' = Append(Front(nest), "if-else")
    BY <1>1 DEF Read, NestAfter, OpenOps
  <2> QED
    BY <1>1, <1>5, <1>6, <2>1, FramesBelow, NewBlock
<1> QED
  BY <1>6, <1>7, <1>8

(* end: the innermost block is closed and leaves its results.              *)
LEMMA EndBlockStep ==
  ASSUME IInv, NEW i \in Instruction, EndBlock(i)
  PROVE  IInv'
<1> USE DEF IInv
<1>1. /\ Read(i) /\ i.op = "end" /\ Len(nest) > 1
      /\ Loading /\ ctrls # <<>>
  BY FrameExists DEF EndBlock, Read
<1>2. Top.end \in Seq(ValueType) /\ Top.height \in Nat
  BY <1>1, TopFrame
<1>4. ctrls' = Front(ctrls) /\ vals' = AfterPop(Top.end) \o Top.end
  BY DEF EndBlock
<1>5. vals' \in Seq(ValueType) /\ Len(vals') \in Nat /\ Top.height <= Len(vals')
  BY <1>1, <1>2, <1>4, PopThenPush
<1>6. nest' = Front(nest)
  BY <1>1 DEF Read, NestAfter, OpenOps
<1>7. LoadTypeOK'
  BY <1>1, <1>4, <1>5, FramesBelow, ReadTyped DEF LoadTypeOK
<1>8. HeightsNested'
  <2>1. \A k \in 1 .. Len(ctrls') : /\ ctrls'[k].height \in Nat
                                    /\ ctrls'[k].height <= Top.height
    BY <1>1, <1>4, FramesBelow
  <2>2. \A n \in Nat : n <= Top.height => n <= Len(vals')
    BY <1>2, <1>5
  <2>3. \A j, k \in 1 .. Len(ctrls') :
          j <= k => ctrls'[j].height <= ctrls'[k].height
    BY <1>1, <1>4, FramesBelow
  <2> QED
    BY <2>1, <2>2, <2>3 DEF HeightsNested
<1>9. DecoderAgrees'
  BY <1>1, <1>4, <1>6, FramesBelow DEF DecoderAgrees
<1> QED
  BY <1>7, <1>8, <1>9

(* The state in which no body is being read satisfies all but the bound on *)
(* the number of bodies trivially.                                         *)
LEMMA NoBody ==
  ASSUME nest' = <<>>, vals' = <<>>, ctrls' = <<>>, body' = <<>>, trace' = <<>>,
         code' \in Seq(Seq(Instruction)), typing' \in Seq(Seq(Typed)),
         Len(code') <= Len(Funcs)
  PROVE  IInv'
<1>1. LoadTypeOK'
  <2>1. Len(code') \in Nat /\ ~Loading'
    BY DEF Loading
  <2> QED
    BY <2>1 DEF LoadTypeOK
<1>2. HeightsNested' /\ DecoderAgrees'
  BY DEF HeightsNested, DecoderAgrees
<1> QED
  BY <1>1, <1>2 DEF IInv

(* validate_function starts with the function's own frame.                 *)
LEMMA BeginFunctionStep ==
  ASSUME IInv, BeginFunction
  PROVE  IInv'
<1> USE DEF IInv
<1>1. Len(code) \in Nat /\ Len(Funcs) \in Nat /\ Len(code) + 1 <= Len(Funcs)
  <2>1. ~Loading /\ Len(code) # Len(Funcs)
    BY DEF BeginFunction, Loaded
  <2>2. Len(code) + (IF Loading THEN 1 ELSE 0) <= Len(Funcs)
    BY DEF LoadTypeOK
  <2>3. Len(code) \in Nat
    BY DEF LoadTypeOK
  <2>4. Len(Funcs) \in Nat
    BY ModuleAssumption
  <2> QED
    BY <2>1, <2>2, <2>3, <2>4
<1>2. At(Types, Funcs[Current].type).results \in Seq(ValueType)
  <2> DEFINE R == [type : 0 .. Len(Types) - 1, locals : Seq(ValType)]
  <2>1. Funcs \in Seq(R) /\ Current \in 1 .. Len(Funcs)
    BY <1>1, ModuleAssumption DEF Current
  <2>2. \A r \in R : r.type \in 0 .. Len(Types) - 1
    OBVIOUS
  <2> HIDE DEF R
  <2>3. Funcs[Current].type \in 0 .. Len(Types) - 1
    BY <2>1, <2>2
  <2>4. At(Types, Funcs[Current].type) \in FuncType
    BY <2>3, TypeAt
  <2> QED
    BY <2>4, SomeTypes DEF FuncType
<1>3. /\ <<>> \in Seq(ValueType) /\ <<>> \in Seq(Ctrl) /\ <<>> \in Seq(Nesting)
      /\ "call" \in Opcode /\ "function" \in Nesting
      /\ OpcodeOf("function") = "call"
  BY DEF Opcode, Nesting, OpcodeOf
<1>4. PushCtrl(<<>>, <<>>, "call", <<>>, At(Types, Funcs[Current].type).results)
  BY DEF BeginFunction
<1>5. /\ vals' \in Seq(ValueType)
      /\ ctrls' \in Seq(Ctrl)
      /\ Len(ctrls') = 1
      /\ ctrls'[1].opcode = "call"
      /\ HeightsNested'
  <2>1. Len(<<>>) = 0
    OBVIOUS
  <2>2. /\ vals' \in Seq(ValueType)
        /\ ctrls' \in Seq(Ctrl)
        /\ Len(ctrls') = Len(<<>>) + 1
        /\ ctrls'[Len(<<>>) + 1].opcode = "call"
        /\ HeightsNested'
    <3>1. \A k \in 1 .. Len(<<>>) : FALSE
      BY <2>1
    <3> QED
      BY <1>2, <1>3, <1>4, <3>1, OpenBlock
  <2> QED
    BY <2>1, <2>2
<1>6. nest' = <<"function">> /\ nest' \in Seq(Nesting) /\ nest' # <<>>
  BY <1>3 DEF BeginFunction
<1>7. LoadTypeOK'
  BY <1>1, <1>5, <1>6 DEF LoadTypeOK, BeginFunction, Loading
<1>8. DecoderAgrees'
  BY <1>3, <1>5, <1>6 DEF DecoderAgrees
<1> QED
  BY <1>5, <1>7, <1>8

(* The end of the body records it.                                         *)
LEMMA EndFunctionStep ==
  ASSUME IInv, NEW i \in Instruction, EndFunction(i)
  PROVE  IInv'
<1> USE DEF IInv
<1>1. Loading
  <2>1. Len(nest) = 1
    BY DEF EndFunction
  <2> QED
    BY <2>1 DEF Loading
<1>2. Here \in Typed
  BY DEF LoadTypeOK, Here, Typed
<1>3. code' \in Seq(Seq(Instruction)) /\ Len(code') = Len(code) + 1
  <2> HIDE DEF Instruction
  <2>1. Append(body, i) \in Seq(Instruction)
    BY DEF LoadTypeOK
  <2> QED
    BY <2>1 DEF LoadTypeOK, EndFunction
<1>4. typing' \in Seq(Seq(Typed))
  <2>1. Append(trace, Here) \in Seq(Typed)
    BY <1>2 DEF LoadTypeOK
  <2> QED
    BY <2>1 DEF LoadTypeOK, EndFunction
<1>5. Len(code') <= Len(Funcs)
  BY <1>1, <1>3 DEF LoadTypeOK
<1> QED
  BY <1>3, <1>4, <1>5, NoBody DEF EndFunction

(* br_if pops its condition and leaves the operands of the label.          *)
LEMMA BranchIfStep ==
  ASSUME IInv, NEW i \in Instruction, BranchIf(i)
  PROVE  IInv'
<1> USE DEF IInv
<1>1. Read(i) /\ i.op = "br_if" /\ ctrls # <<>>
  BY FrameExists DEF BranchIf, Read
<1>2. LabelTypes(i.n) \in Seq(ValueType)
  <2>1. i.n \in Nat
    BY <1>1, LabelImmediate DEF LabelOps
  <2>2. TargetOk(i.n)
    BY <1>1 DEF Read, Accepted
  <2> QED
    BY <2>1, <2>2, LabelTyped
<1>3. Append(LabelTypes(i.n), "i32") \in Seq(ValueType)
  BY <1>2, SomeTypes
<1>4. /\ vals' = AfterPop(Append(LabelTypes(i.n), "i32")) \o LabelTypes(i.n)
      /\ UNCHANGED ctrls
  BY DEF BranchIf
<1>5. vals' \in Seq(ValueType) /\ Top.height <= Len(vals')
  BY <1>1, <1>2, <1>3, <1>4, PopThenPush
<1> QED
  BY <1>1, <1>4, <1>5, KeepFrames DEF OpenOps

(* What a pop returns is a type, if only the unknown one.                  *)
LEMMA PoppedTyped ==
  ASSUME LoadTypeOK, HeightsNested, ctrls # <<>>, NEW k \in Nat \ {0}
  PROVE  Popped(k) \in ValueType
<1>1. Top.height \in Nat /\ Top.height <= Len(vals)
  BY TopFrame DEF HeightsNested
<1>2. vals \in Seq(ValueType)
  BY DEF LoadTypeOK
<1>3. CASE k <= Avail
  <2>1. Len(vals) - k + 1 \in 1 .. Len(vals)
    BY <1>1, <1>2, <1>3 DEF Avail
  <2> QED
    BY <1>2, <1>3, <2>1 DEF Popped
<1>4. CASE ~(k <= Avail)
  BY <1>4, SomeTypes DEF Popped
<1> QED
  BY <1>3, <1>4

(* select leaves one of its two operands.                                  *)
LEMMA SelectStep ==
  ASSUME IInv, NEW i \in Instruction, Select(i)
  PROVE  IInv'
<1> USE DEF IInv
<1>1. Read(i) /\ i.op = "select" /\ ctrls # <<>>
  BY FrameExists DEF Select, Read
<1> DEFINE t == IF Popped(2) = Unknown THEN Popped(3) ELSE Popped(2)
<1>2. t \in ValueType
  BY <1>1, PoppedTyped
<1>3. vals' = Append(AfterPop(<<Unknown, Unknown, "i32">>), t) /\ UNCHANGED ctrls
  BY DEF Select
<1> HIDE DEF t
<1>4. <<Unknown, Unknown, "i32">> \in Seq(ValueType) /\ <<t>> \in Seq(ValueType)
  BY <1>2, SomeTypes, Tuples
<1>5. vals' = AfterPop(<<Unknown, Unknown, "i32">>) \o <<t>>
  <2>1. AfterPop(<<Unknown, Unknown, "i32">>) \in Seq(ValueType)
    BY <1>1, <1>4, PopStaysAboveHeight
  <2>2. \A s \in Seq(ValueType) : Append(s, t) = s \o <<t>>
    BY <1>2, AppendIsConcat
  <2> QED
    BY <1>3, <2>1, <2>2
<1>6. vals' \in Seq(ValueType) /\ Top.height <= Len(vals')
  BY <1>1, <1>4, <1>5, PopThenPush
<1> QED
  BY <1>1, <1>3, <1>6, KeepFrames DEF OpenOps

(* ref.is_null leaves an i32.                                              *)
LEMMA RefIsNullStep ==
  ASSUME IInv, NEW i \in Instruction, RefIsNull(i)
  PROVE  IInv'
<1> USE DEF IInv
<1>1. Read(i) /\ i.op = "ref.is_null" /\ ctrls # <<>>
  BY FrameExists DEF RefIsNull, Read
<1>2. vals' = Append(AfterPop(<<Unknown>>), "i32") /\ UNCHANGED ctrls
  BY DEF RefIsNull
<1>3. <<Unknown>> \in Seq(ValueType) /\ <<"i32">> \in Seq(ValueType)
  BY SomeTypes, Tuples
<1>4. vals' = AfterPop(<<Unknown>>) \o <<"i32">>
  <2>1. AfterPop(<<Unknown>>) \in Seq(ValueType)
    BY <1>1, <1>3, PopStaysAboveHeight
  <2>2. \A s \in Seq(ValueType) : Append(s, "i32") = s \o <<"i32">>
    BY SomeTypes, AppendIsConcat
  <2> QED
    BY <1>2, <2>1, <2>2
<1>5. vals' \in Seq(ValueType) /\ Top.height <= Len(vals')
  BY <1>1, <1>3, <1>4, PopThenPush
<1> QED
  BY <1>1, <1>2, <1>5, KeepFrames DEF OpenOps

(* Every other operator pops its operands and pushes its results.          *)
LEMMA OperatorStep ==
  ASSUME IInv, NEW i \in Instruction, Operator(i)
  PROVE  IInv'
<1> USE DEF IInv
<1>1. Read(i) /\ i.op \notin SpecialOps /\ ctrls # <<>> /\ Loading
  BY FrameExists DEF Operator, Read
<1>2. Immediates(Current, i)
  BY <1>1 DEF Read, Accepted
<1>3. Ins(Current, i) \in Seq(ValueType) /\ Outs(Current, i) \in Seq(ValueType)
  BY <1>1, <1>2, InsTyped, OutsTyped
<1>4. vals' = AfterPop(Ins(Current, i)) \o Outs(Current, i) /\ UNCHANGED ctrls
  BY DEF Operator
<1>5. vals' \in Seq(ValueType) /\ Top.height <= Len(vals')
  BY <1>1, <1>3, <1>4, PopThenPush
<1>6. i.op \notin OpenOps \cup {"else", "end"}
  BY <1>1 DEF SpecialOps
<1> QED
  BY <1>1, <1>4, <1>5, <1>6, KeepFrames

-----------------------------------------------------------------------------
(* The theorems.                                                           *)

(* No step of the decoder and the validator breaks the invariant.          *)
LEMMA LoadStep ==
  ASSUME IInv, [LoadNext]_loadVars
  PROVE  IInv'
<1>1. CASE BeginFunction
  BY <1>1, BeginFunctionStep
<1>2. ASSUME NEW i \in Instrs,
             \/ Unreachable(i) \/ BlockOrLoop(i) \/ If(i) \/ Else(i)
             \/ EndBlock(i) \/ EndFunction(i) \/ Branch(i) \/ BranchIf(i)
             \/ Select(i) \/ RefIsNull(i) \/ Operator(i) \/ Reject(i)
      PROVE  IInv'
  <2>1. i \in Instruction
    BY ModuleAssumption
  <2>2. CASE Unreachable(i)
    BY <2>1, <2>2, Unreached DEF Unreachable, OpenOps
  <2>3. CASE BlockOrLoop(i)
    <3>1. BlockStart(i.bt) \in Seq(ValueType)
      <4>1. BlockTypeOk(i.bt) /\ i.op \in OpenOps
        BY <2>3 DEF BlockOrLoop, Read, Accepted, OpenOps
      <4> QED
        BY <2>1, <4>1, BlockImmediate, BlockTypes
    <3> QED
      BY <2>1, <2>3, <3>1, OpensBlock DEF BlockOrLoop, OpenOps
  <2>4. CASE If(i)
    <3>1. Append(BlockStart(i.bt), "i32") \in Seq(ValueType)
      <4>1. BlockTypeOk(i.bt) /\ i.op \in OpenOps
        BY <2>4 DEF If, Read, Accepted, OpenOps
      <4>2. BlockStart(i.bt) \in Seq(ValueType)
        BY <2>1, <4>1, BlockImmediate, BlockTypes
      <4> QED
        BY <4>2, SomeTypes
    <3> QED
      BY <2>1, <2>4, <3>1, OpensBlock DEF If, OpenOps
  <2>5. CASE Else(i)
    BY <2>1, <2>5, ElseStep
  <2>6. CASE EndBlock(i)
    BY <2>1, <2>6, EndBlockStep
  <2>7. CASE EndFunction(i)
    BY <2>1, <2>7, EndFunctionStep
  <2>8. CASE Branch(i)
    BY <2>1, <2>8, Unreached DEF Branch, OpenOps
  <2>9. CASE BranchIf(i)
    BY <2>1, <2>9, BranchIfStep
  <2>10. CASE Select(i)
    BY <2>1, <2>10, SelectStep
  <2>11. CASE RefIsNull(i)
    BY <2>1, <2>11, RefIsNullStep
  <2>12. CASE Operator(i)
    BY <2>1, <2>12, OperatorStep
  <2>13. CASE Reject(i)
    <3>1. Len(Funcs) \in Nat /\ Len(<<>>) = 0
      BY ModuleAssumption
    <3> QED
      BY <2>13, <3>1, NoBody DEF Reject
  <2> QED
    BY <1>2, <2>2, <2>3, <2>4, <2>5, <2>6, <2>7, <2>8, <2>9, <2>10, <2>11,
       <2>12, <2>13
<1>3. CASE UNCHANGED loadVars
  BY <1>3 DEF IInv, LoadTypeOK, HeightsNested, DecoderAgrees, Loading, loadVars
<1> QED
  BY <1>1, <1>2, <1>3 DEF LoadNext

(* Nothing is loaded at first.                                             *)
LEMMA LoadStart ==
  ASSUME LoadInit
  PROVE  IInv
<1>1. Len(Funcs) \in Nat /\ Len(<<>>) = 0
  BY ModuleAssumption
<1>2. LoadTypeOK
  BY <1>1 DEF LoadInit, LoadTypeOK, Loading
<1> QED
  BY <1>2 DEF LoadInit, IInv, HeightsNested, DecoderAgrees

(* The invariant holds whatever the bodies are.                            *)
THEOREM LoadInvariant == LoadSpec => []IInv
<1>1. LoadInit => IInv
  BY LoadStart
<1>2. IInv /\ [LoadNext]_loadVars => IInv'
  BY LoadStep
<1> QED
  BY <1>1, <1>2, PTL DEF LoadSpec

-----------------------------------------------------------------------------
(* Running functions.                                                      *)

GoodFrame == {fr \in Frame : fr.func \in Len(Imports) .. FuncCount - 1}

XInv ==
  /\ IInv
  /\ status \in {"idle", "running", "returned", "trapped", "panicked"}
  /\ entry \in Nat
  /\ frames \in Seq(GoodFrame)
  /\ vstack \in Seq(ValType)
  /\ frames # <<>> => Loaded

-----------------------------------------------------------------------------
(* Loading does not depend on execution.                                   *)

(* A step of the whole system is a step of the loader or leaves it alone.  *)
LEMMA LoadOrStutter ==
  ASSUME [Next]_vars
  PROVE  [LoadNext]_loadVars
  BY DEF Next, vars, loadVars

(* The specification of the whole system implements that of the loader.    *)
THEOREM SpecLoads == Spec => LoadSpec
<1>1. Init => LoadInit
  BY DEF Init
<1>2. [Next]_vars => [LoadNext]_loadVars
  BY LoadOrStutter
<1> QED
  BY <1>1, <1>2, PTL DEF Spec, LoadSpec

(* Whatever runs beside it, the validator's control frames stay nested in  *)
(* its operand stack.                                                      *)
THEOREM HeightsAlwaysNested == Spec => []HeightsNested
<1>1. IInv => HeightsNested
  BY DEF IInv
<1> QED
  BY <1>1, SpecLoads, LoadInvariant, PTL

(* The decoder and the validator always agree on the open blocks.          *)
THEOREM DecoderAlwaysAgrees == Spec => []DecoderAgrees
<1>1. IInv => DecoderAgrees
  BY DEF IInv
<1> QED
  BY <1>1, SpecLoads, LoadInvariant, PTL

-----------------------------------------------------------------------------
(* The value stack.                                                        *)

(* The top n values of a stack that has them.                              *)
LEMMA TopNTyped ==
  ASSUME NEW stack \in Seq(ValType), NEW n \in Nat, n <= Len(stack)
  PROVE  TopN(stack, n) \in Seq(ValType) /\ Len(TopN(stack, n)) = n
  BY DEF TopN

(* What is left below the top n values.                                    *)
LEMMA DropTyped ==
  ASSUME NEW stack \in Seq(ValType), NEW n \in Nat, n <= Len(stack)
  PROVE  /\ Drop(stack, n) \in Seq(ValType)
         /\ Len(Drop(stack, n)) = Len(stack) - n
<1>1. Len(stack) - n \in 0 .. Len(stack)
  OBVIOUS
<1> QED
  BY <1>1, Prefix DEF Drop

(* Unwinding keeps values only.                                            *)
LEMMA UnwindTyped ==
  ASSUME NEW stack \in Seq(ValType), NEW sp \in Nat, NEW arity \in Nat,
         CanUnwind(stack, sp, arity)
  PROVE  Unwind(stack, sp, arity) \in Seq(ValType)
<1>1. arity <= Len(stack) /\ sp \in 0 .. Len(stack)
  BY DEF CanUnwind
<1>2. SubSeq(stack, 1, sp) \in Seq(ValType)
  BY <1>1, Prefix
<1>3. TopN(stack, arity) \in Seq(ValType)
  BY <1>1, TopNTyped
<1> QED
  BY <1>2, <1>3 DEF Unwind

(* A non-empty set of positions has a first one.                           *)
LEMMA FirstExists ==
  ASSUME NEW S \in SUBSET Nat, S # {}
  PROVE  \E e \in S : \A f \in S : e <= f
<1>1. \E e \in S : \A f \in S : ~(<<f, e>> \in OpToRel(<, Nat))
  BY WFMin, NatLessThanWellFounded
<1>2. PICK e \in S : \A f \in S : ~(<<f, e>> \in OpToRel(<, Nat))
  BY <1>1
<1>3. \A f \in S : ~(f < e)
  BY <1>2 DEF OpToRel
<1>4. \A f \in S : e <= f
  BY <1>3
<1> QED
  BY <1>4

(* The end of a block that has one is a position.                          *)
LEMMA EndOfTyped ==
  ASSUME NEW is, NEW k \in Nat, EndsOf(is, k) # {}, Len(is) \in Nat
  PROVE  EndOf(is, k) \in Nat
<1>1. EndsOf(is, k) \in SUBSET Nat
  BY DEF EndsOf
<1>2. \E e \in EndsOf(is, k) : \A f \in EndsOf(is, k) : e <= f
  BY <1>1, FirstExists
<1>3. EndOf(is, k) \in EndsOf(is, k)
  BY <1>2 DEF EndOf
<1> QED
  BY <1>1, <1>3

-----------------------------------------------------------------------------
(* Frames.                                                                 *)

(* The innermost frame is one, and its instruction one of its body.        *)
LEMMA FrameTyped ==
  ASSUME XInv, Running
  PROVE  /\ Fr \in Frame
         /\ Fr.func \in Len(Imports) .. FuncCount - 1
         /\ Front(frames) \in Seq(GoodFrame)
         /\ Fr.labels \in Seq(Label) /\ Fr.arity \in Nat /\ Fr.sp \in Nat
         /\ Fr.locals \in Seq(ValType) /\ Fr.pc \in Int
<1>1. Last(frames) \in GoodFrame /\ Front(frames) \in Seq(GoodFrame)
  BY FrontLast DEF XInv, Running
<1> QED
  BY <1>1 DEF Fr, GoodFrame, Frame

(* The instruction about to be executed is one.                            *)
LEMMA InstrTyped ==
  ASSUME XInv, Running, InBody
  PROVE  /\ Instr \in Instruction
         /\ Len(BodyOf(Fr)) \in Nat
         /\ Fr.pc + 1 \in 1 .. Len(BodyOf(Fr))
<1> HIDE DEF Instruction
<1>1. code \in Seq(Seq(Instruction)) /\ Len(code) = Len(Funcs)
  BY DEF XInv, IInv, LoadTypeOK, Running, Loaded
<1>2. Fr.func - Len(Imports) + 1 \in 1 .. Len(code)
  <2>1. Len(Imports) \in Nat /\ Len(Funcs) \in Nat
    BY ModuleAssumption
  <2>2. Fr.func \in Len(Imports) .. Len(Imports) + Len(Funcs) - 1
    BY FrameTyped DEF FuncCount
  <2> QED
    BY <1>1, <2>1, <2>2
<1>3. BodyOf(Fr) \in Seq(Instruction)
  BY <1>1, <1>2 DEF BodyOf
<1>4. Fr.pc + 1 \in 1 .. Len(BodyOf(Fr))
  BY <1>3 DEF InBody
<1> QED
  BY <1>3, <1>4 DEF Instr, Next1

(* Replacing the innermost frame by a good one.                            *)
LEMMA SetTopTyped ==
  ASSUME XInv, Running, NEW fr \in GoodFrame
  PROVE  Append(Front(frames), fr) \in Seq(GoodFrame)
<1>1. Front(frames) \in Seq(GoodFrame)
  BY FrameTyped
<1> HIDE DEF GoodFrame
<1> QED
  BY <1>1

(* The frames that differ from the innermost one in pc, labels or locals.  *)
LEMMA UpdatedFrame ==
  ASSUME XInv, Running, NEW pc \in Int
  PROVE  /\ [Fr EXCEPT !.pc = pc] \in GoodFrame
         /\ \A ls \in Seq(Label) : [Fr EXCEPT !.labels = ls, !.pc = pc] \in GoodFrame
         /\ \A ts \in Seq(ValType) : [Fr EXCEPT !.pc = pc, !.locals = ts] \in GoodFrame
  BY FrameTyped DEF GoodFrame, Frame

(* What has to be shown of a step of the interpreter.                      *)
LEMMA ExecKeeps ==
  ASSUME XInv, UNCHANGED loadVars,
         status' \in {"idle", "running", "returned", "trapped", "panicked"},
         entry' \in Nat, frames' \in Seq(GoodFrame),
         vstack' \in Seq(ValType), frames' # <<>> => Loaded
  PROVE  XInv'
<1>1. IInv'
  BY LoadStep DEF XInv
<1>2. Loaded' <=> Loaded
  BY DEF loadVars, Loaded
<1> QED
  BY <1>1, <1>2 DEF XInv, GoodFrame

(* The same, for one iteration of the loop of execute.                     *)
LEMMA ExecuteKeeps ==
  ASSUME XInv, UNCHANGED loadVars, NEW ops, Execute(ops),
         frames' \in Seq(GoodFrame), vstack' \in Seq(ValType)
  PROVE  XInv'
<1>1. UNCHANGED <<status, entry>> /\ Loaded
  BY DEF Execute, XInv, Running
<1> QED
  BY <1>1, ExecKeeps DEF XInv

(* What may be assumed of an iteration.                                    *)
LEMMA ExecuteFacts ==
  ASSUME XInv, NEW ops, Execute(ops)
  PROVE  /\ Running
         /\ Instr \in Instruction
         /\ Instr.op \in ops
         /\ Safe(Instr)
         /\ Fr.pc \in Nat
         /\ Len(BodyOf(Fr)) \in Nat
         /\ vstack \in Seq(ValType)
         /\ Len(vstack) \in Nat
<1>1. Running /\ InBody /\ Instr.op \in ops /\ Safe(Instr)
  BY DEF Execute
<1>2. vstack \in Seq(ValType)
  BY DEF XInv
<1>3. Fr.pc \in Nat
  BY <1>1, InstrTyped, FrameTyped
<1> QED
  BY <1>1, <1>2, <1>3, InstrTyped

-----------------------------------------------------------------------------
(* Blocks.                                                                 *)

(* The arities of a block whose type exists.                               *)
LEMMA AritiesTyped ==
  ASSUME NEW bt \in BlockType, BlockTypeOk(bt)
  PROVE  BlockParams(bt) \in Nat /\ BlockResults(bt) \in Nat
<1>1. CASE bt.kind = "index"
  <2>1. At(Types, bt.x) \in FuncType
    BY <1>1, ModuleAssumption DEF BlockType, BlockTypeOk, InRange, At
  <2> QED
    BY <1>1, <2>1 DEF BlockParams, BlockResults, FuncType
<1>2. CASE bt.kind # "index"
  BY <1>2 DEF BlockParams, BlockResults, BlockType
<1> QED
  BY <1>1, <1>2

(* Entering a block, wherever execution goes on in it.                     *)
LEMMA PushLabelTyped ==
  ASSUME XInv, Running, NEW br \in Nat, NEW end \in Nat, NEW pc \in Int,
         NEW sp \in Nat, NEW at \in Int
  PROVE  [PushLabel(Advance, br, end, pc, sp) EXCEPT !.pc = at] \in GoodFrame
<1> DEFINE l == [br_arity |-> br, end_arity |-> end, pc |-> pc, sp |-> sp]
<1>1. l \in Label
  BY DEF Label
<1> HIDE DEF l
<1>2. Append(Fr.labels, l) \in Seq(Label)
  BY <1>1, FrameTyped
<1>3. [Fr EXCEPT !.labels = Append(Fr.labels, l), !.pc = at] \in GoodFrame
  BY <1>2, UpdatedFrame
<1>4. [PushLabel(Advance, br, end, pc, sp) EXCEPT !.pc = at]
        = [Fr EXCEPT !.labels = Append(Fr.labels, l), !.pc = at]
  BY FrameTyped DEF PushLabel, Advance, Frame, l
<1> QED
  BY <1>3, <1>4

(* The stack pointer of the label of a block.                              *)
LEMMA BlockFacts ==
  ASSUME XInv, NEW ops \in SUBSET OpenOps, Execute(ops)
  PROVE  /\ BlockParams(Instr.bt) \in Nat
         /\ BlockResults(Instr.bt) \in Nat
         /\ Instr.op # "if" => Len(vstack) - BlockParams(Instr.bt) \in Nat
         /\ Instr.op = "if" => Len(vstack) - 1 - BlockParams(Instr.bt) \in Nat
         /\ Instr.op # "loop" => EndOf(BodyOf(Fr), Fr.pc + 1) \in Nat
<1>1. Instr.op \in OpenOps /\ Safe(Instr) /\ Instr.bt \in BlockType
  BY ExecuteFacts, BlockImmediate
<1>2. BlockTypeOk(Instr.bt)
  BY <1>1 DEF Safe, IndicesExist
<1>3. BlockParams(Instr.bt) \in Nat /\ BlockResults(Instr.bt) \in Nat
  BY <1>1, <1>2, AritiesTyped
<1>4. /\ Instr.op # "if" => Len(vstack) >= BlockParams(Instr.bt)
      /\ Instr.op = "if" => Len(vstack) > BlockParams(Instr.bt)
  BY <1>1 DEF Safe, OpenOps
<1>5. Instr.op # "loop" => EndsOf(BodyOf(Fr), Fr.pc + 1) # {}
  BY <1>1 DEF Safe, OpenOps
<1>6. Fr.pc + 1 \in Nat /\ Len(BodyOf(Fr)) \in Nat /\ Len(vstack) \in Nat
  BY ExecuteFacts
<1>7. Instr.op # "loop" => EndOf(BodyOf(Fr), Fr.pc + 1) \in Nat
  BY <1>5, <1>6, EndOfTyped
<1> QED
  BY <1>3, <1>4, <1>6, <1>7

(* block.                                                                  *)
LEMMA ExecBlockStep ==
  ASSUME XInv, UNCHANGED loadVars, ExecBlock
  PROVE  XInv'
<1>1. Execute({"block"}) /\ {"block"} \in SUBSET OpenOps
  BY DEF ExecBlock, OpenOps
<1>2. /\ Running /\ Instr.op = "block" /\ Fr.pc + 1 \in Int
      /\ vstack \in Seq(ValType)
  BY <1>1, ExecuteFacts
<1> DEFINE fr == PushLabel(Advance, BlockResults(Instr.bt),
                           BlockResults(Instr.bt), EndOf(BodyOf(Fr), Fr.pc + 1),
                           Len(vstack) - BlockParams(Instr.bt))
<1>3. [fr EXCEPT !.pc = Fr.pc + 1] \in GoodFrame
  BY <1>1, <1>2, BlockFacts, PushLabelTyped
<1>4. fr = [fr EXCEPT !.pc = Fr.pc + 1]
  BY <1>2, FrameTyped DEF PushLabel, Advance, Frame
<1>5. frames' = Append(Front(frames), fr) /\ UNCHANGED vstack
  BY DEF ExecBlock, SetTop
<1> HIDE DEF fr
<1> QED
  BY <1>1, <1>2, <1>3, <1>4, <1>5, SetTopTyped, ExecuteKeeps

(* loop.                                                                   *)
LEMMA ExecLoopStep ==
  ASSUME XInv, UNCHANGED loadVars, ExecLoop
  PROVE  XInv'
<1>1. Execute({"loop"}) /\ {"loop"} \in SUBSET OpenOps
  BY DEF ExecLoop, OpenOps
<1>2. /\ Running /\ Instr.op = "loop" /\ Fr.pc \in Int /\ Fr.pc + 1 \in Int
      /\ vstack \in Seq(ValType)
  BY <1>1, ExecuteFacts
<1> DEFINE fr == PushLabel(Advance, BlockParams(Instr.bt),
                           BlockResults(Instr.bt), Fr.pc,
                           Len(vstack) - BlockParams(Instr.bt))
<1>3. [fr EXCEPT !.pc = Fr.pc + 1] \in GoodFrame
  BY <1>1, <1>2, BlockFacts, PushLabelTyped
<1>4. fr = [fr EXCEPT !.pc = Fr.pc + 1]
  BY <1>2, FrameTyped DEF PushLabel, Advance, Frame
<1>5. frames' = Append(Front(frames), fr) /\ UNCHANGED vstack
  BY DEF ExecLoop, SetTop
<1> HIDE DEF fr
<1> QED
  BY <1>1, <1>2, <1>3, <1>4, <1>5, SetTopTyped, ExecuteKeeps

(* if, with any condition.                                                 *)
LEMMA ExecIfStep ==
  ASSUME XInv, UNCHANGED loadVars, NEW cond \in BOOLEAN, ExecIf(cond)
  PROVE  XInv'
<1>1. Execute({"if"}) /\ {"if"} \in SUBSET OpenOps
  BY DEF ExecIf, OpenOps
<1>2. /\ Running /\ Instr.op = "if" /\ Fr.pc \in Nat /\ Fr.pc + 1 \in Int
      /\ vstack \in Seq(ValType) /\ Safe(Instr)
  BY <1>1, ExecuteFacts
<1> DEFINE end == EndOf(BodyOf(Fr), Fr.pc + 1)
           elses == ElsesOf(BodyOf(Fr), Fr.pc + 1)
           fr == PushLabel(Advance, BlockResults(Instr.bt),
                           BlockResults(Instr.bt), end,
                           Len(vstack) - 1 - BlockParams(Instr.bt))
<1>3. end \in Nat
  BY <1>1, <1>2, BlockFacts
<1>4. \A at \in Int : [fr EXCEPT !.pc = at] \in GoodFrame
  BY <1>1, <1>2, <1>3, BlockFacts, PushLabelTyped
<1>5. fr = [fr EXCEPT !.pc = Fr.pc + 1]
  BY <1>2, FrameTyped DEF PushLabel, Advance, Frame
<1>6. elses \in SUBSET Int
  BY <1>2, <1>3 DEF ElsesOf
<1>7. \/ frames' = Append(Front(frames), fr)
      \/ frames' = Append(Front(frames), [fr EXCEPT !.pc = end - 1])
      \/ \E e \in elses : frames' = Append(Front(frames), [fr EXCEPT !.pc = e])
  BY DEF ExecIf, SetTop
<1> HIDE DEF fr, end, elses
<1>8. frames' \in Seq(GoodFrame)
  <2>1. end - 1 \in Int /\ Fr.pc + 1 \in Int
    BY <1>2, <1>3
  <2>2. \E at \in Int : frames' = Append(Front(frames), [fr EXCEPT !.pc = at])
    BY <1>5, <1>6, <1>7, <2>1
  <2> QED
    BY <1>2, <1>4, <2>2, SetTopTyped
<1>9. vstack' \in Seq(ValType)
  <2>1. vstack' = Drop(vstack, 1) /\ Len(vstack) >= 1
    BY <1>2 DEF ExecIf, Safe, HasTop
  <2> QED
    BY <1>2, <2>1, DropTyped
<1> QED
  BY <1>1, <1>8, <1>9, ExecuteKeeps

(* The label of the innermost block.                                       *)
LEMMA TopLabel ==
  ASSUME XInv, Running, Fr.labels # <<>>
  PROVE  /\ Last(Fr.labels) \in Label
         /\ Front(Fr.labels) \in Seq(Label)
         /\ Last(Fr.labels).pc \in Int
         /\ Last(Fr.labels).sp \in Nat
         /\ Last(Fr.labels).end_arity \in Nat
<1>1. Last(Fr.labels) \in Label /\ Front(Fr.labels) \in Seq(Label)
  BY FrameTyped, FrontLast
<1> QED
  BY <1>1 DEF Label

(* else.                                                                   *)
LEMMA ExecElseStep ==
  ASSUME XInv, UNCHANGED loadVars, ExecElse
  PROVE  XInv'
<1>1. Execute({"else"})
  BY DEF ExecElse
<1>2. /\ Running /\ Instr.op = "else" /\ Safe(Instr)
      /\ vstack \in Seq(ValType)
  BY <1>1, ExecuteFacts
<1>3. Last(Fr.labels).pc - 1 \in Int
  BY <1>2, TopLabel DEF Safe
<1>4. /\ frames' = Append(Front(frames), [Fr EXCEPT !.pc = Last(Fr.labels).pc - 1])
      /\ UNCHANGED vstack
  BY DEF ExecElse, SetTop
<1> QED
  BY <1>1, <1>2, <1>3, <1>4, UpdatedFrame, SetTopTyped, ExecuteKeeps

(* Leaving a function.                                                     *)
LEMMA LeaveTyped ==
  ASSUME XInv, Running, NEW stack \in Seq(ValType),
         CanUnwind(stack, Fr.sp, Fr.arity), LeaveFunction(stack)
  PROVE  frames' \in Seq(GoodFrame) /\ vstack' \in Seq(ValType)
  BY FrameTyped, UnwindTyped DEF LeaveFunction

(* end.                                                                    *)
LEMMA ExecEndStep ==
  ASSUME XInv, UNCHANGED loadVars, ExecEnd
  PROVE  XInv'
<1>1. Execute({"end"})
  BY DEF ExecEnd
<1>2. /\ Running /\ Instr.op = "end" /\ Safe(Instr) /\ Fr.pc + 1 \in Int
      /\ vstack \in Seq(ValType)
  BY <1>1, ExecuteFacts
<1>3. CASE Fr.labels # <<>>
  <2>1. /\ vstack' = Unwind(vstack, Last(Fr.labels).sp, Last(Fr.labels).end_arity)
        /\ frames' = Append(Front(frames), [Advance EXCEPT !.labels = Front(@)])
    BY <1>3 DEF ExecEnd, SetTop
  <2>2. CanUnwind(vstack, Last(Fr.labels).sp, Last(Fr.labels).end_arity)
    BY <1>2, <1>3 DEF Safe
  <2>3. vstack' \in Seq(ValType)
    BY <1>2, <1>3, <2>1, <2>2, TopLabel, UnwindTyped
  <2>4. [Advance EXCEPT !.labels = Front(@)] \in GoodFrame
    <3>1. [Fr EXCEPT !.labels = Front(Fr.labels), !.pc = Fr.pc + 1] \in GoodFrame
      BY <1>2, <1>3, TopLabel, UpdatedFrame
    <3>2. [Advance EXCEPT !.labels = Front(@)]
            = [Fr EXCEPT !.labels = Front(Fr.labels), !.pc = Fr.pc + 1]
      BY <1>2, FrameTyped DEF Advance, Frame
    <3> QED
      BY <3>1, <3>2
  <2>5. frames' \in Seq(GoodFrame)
    BY <1>2, <2>1, <2>4, SetTopTyped
  <2> QED
    BY <1>1, <2>3, <2>5, ExecuteKeeps
<1>4. CASE Fr.labels = <<>>
  <2>1. LeaveFunction(vstack) /\ CanUnwind(vstack, Fr.sp, Fr.arity)
    BY <1>2, <1>4 DEF ExecEnd, Safe
  <2> QED
    BY <1>1, <1>2, <2>1, LeaveTyped, ExecuteKeeps
<1> QED
  BY <1>3, <1>4

-----------------------------------------------------------------------------
(* Branches and returns.                                                   *)

(* A branch to any label, or out of the function.                          *)
LEMMA BranchTyped ==
  ASSUME XInv, Running, NEW stack \in Seq(ValType), NEW n \in Nat,
         CanBranch(n, stack), BranchTo(n, stack)
  PROVE  frames' \in Seq(GoodFrame) /\ vstack' \in Seq(ValType)
<1>1. CASE n = Len(Fr.labels)
  <2>1. CanUnwind(stack, Fr.sp, Fr.arity) /\ LeaveFunction(stack)
    BY <1>1 DEF CanBranch, BranchTo
  <2> QED
    BY <2>1, LeaveTyped
<1>2. CASE n < Len(Fr.labels)
  <2> DEFINE k == Len(Fr.labels) - n
             l == Fr.labels[k]
             fr == [Fr EXCEPT !.labels = SubSeq(@, 1, k - 1), !.pc = l.pc]
  <2>1. k \in 1 .. Len(Fr.labels) /\ k - 1 \in 0 .. Len(Fr.labels)
    BY <1>2, FrameTyped
  <2>2. l \in Label
    BY <2>1, FrameTyped
  <2>3. l.sp \in Nat /\ l.br_arity \in Nat /\ l.pc \in Int
    BY <2>2 DEF Label
  <2>4. SubSeq(Fr.labels, 1, k - 1) \in Seq(Label)
    <3> HIDE DEF k
    <3> QED
      BY <2>1, FrameTyped, Prefix
  <2>5. CanUnwind(stack, l.sp, l.br_arity)
    BY <1>2 DEF CanBranch
  <2>6. vstack' = Unwind(stack, l.sp, l.br_arity) /\ frames' = Append(Front(frames), fr)
    BY <1>2 DEF BranchTo, SetTop
  <2> HIDE DEF l, k
  <2>7. fr \in GoodFrame
    BY <2>3, <2>4, UpdatedFrame
  <2> HIDE DEF fr
  <2> QED
    BY <2>3, <2>5, <2>6, <2>7, UnwindTyped, SetTopTyped
<1> QED
  BY <1>1, <1>2 DEF BranchTo

(* br.                                                                     *)
LEMMA ExecBrStep ==
  ASSUME XInv, UNCHANGED loadVars, ExecBr
  PROVE  XInv'
<1>1. Execute({"br"})
  BY DEF ExecBr
<1>2. /\ Running /\ Instr \in Instruction /\ Instr.op = "br" /\ Safe(Instr)
      /\ vstack \in Seq(ValType)
  BY <1>1, ExecuteFacts
<1>3. Instr.n \in Nat
  BY <1>2, LabelImmediate DEF LabelOps
<1>4. CanBranch(Instr.n, vstack) /\ BranchTo(Instr.n, vstack)
  BY <1>2 DEF ExecBr, Safe
<1> QED
  BY <1>1, <1>2, <1>3, <1>4, BranchTyped, ExecuteKeeps

(* Popping the i32 operand of an instruction that has one.                 *)
LEMMA OperandPopped ==
  ASSUME vstack \in Seq(ValType), HasTop(<<"i32">>)
  PROVE  Drop(vstack, 1) \in Seq(ValType)
<1>1. Len(vstack) >= 1
  BY DEF HasTop
<1> QED
  BY <1>1, DropTyped

(* br_if, with any condition.                                              *)
LEMMA ExecBrIfStep ==
  ASSUME XInv, UNCHANGED loadVars, NEW cond \in BOOLEAN, ExecBrIf(cond)
  PROVE  XInv'
<1>1. Execute({"br_if"})
  BY DEF ExecBrIf
<1>2. /\ Running /\ Instr \in Instruction /\ Instr.op = "br_if" /\ Safe(Instr)
      /\ vstack \in Seq(ValType) /\ Fr.pc + 1 \in Int
  BY <1>1, ExecuteFacts
<1>3. Instr.n \in Nat
  BY <1>2, LabelImmediate DEF LabelOps
<1>4. HasTop(<<"i32">>) /\ CanBranch(Instr.n, Drop(vstack, 1))
  BY <1>2 DEF Safe
<1>5. Drop(vstack, 1) \in Seq(ValType)
  BY <1>2, <1>4, OperandPopped
<1>6. CASE BranchTo(Instr.n, Drop(vstack, 1))
  BY <1>1, <1>2, <1>3, <1>4, <1>5, <1>6, BranchTyped, ExecuteKeeps
<1>7. CASE vstack' = Drop(vstack, 1) /\ SetTop(Advance)
  <2>1. frames' \in Seq(GoodFrame)
    BY <1>2, <1>7, UpdatedFrame, SetTopTyped DEF SetTop, Advance
  <2> QED
    BY <1>1, <1>5, <1>7, <2>1, ExecuteKeeps
<1> QED
  BY <1>6, <1>7 DEF ExecBrIf

(* The labels of a br_table.                                               *)
LEMMA TableImmediate ==
  ASSUME NEW i \in Instruction, i.op = "br_table"
  PROVE  i.default \in Nat /\ \A j \in DOMAIN i.labels : i.labels[j] \in Nat
<1>1. i \in [op : {"br_table"}, labels : Seq(Nat), default : Nat]
  BY DEF Instruction, OpenOps, LabelOps, NumOps, IndexOps, PairOps, BareOps
<1>2. i.default \in Nat /\ i.labels \in Seq(Nat)
  BY <1>1
<1> QED
  BY <1>2

(* br_table, with any operand.                                             *)
LEMMA ExecBrTableStep ==
  ASSUME XInv, UNCHANGED loadVars, ExecBrTable
  PROVE  XInv'
<1>1. Execute({"br_table"})
  BY DEF ExecBrTable
<1>2. /\ Running /\ Instr \in Instruction /\ Instr.op = "br_table"
      /\ Safe(Instr) /\ vstack \in Seq(ValType)
  BY <1>1, ExecuteFacts
<1>3. /\ HasTop(<<"i32">>)
      /\ CanBranch(Instr.default, Drop(vstack, 1))
      /\ \A j \in DOMAIN Instr.labels :
           CanBranch(Instr.labels[j], Drop(vstack, 1))
  BY <1>2 DEF Safe
<1>4. Drop(vstack, 1) \in Seq(ValType)
  BY <1>2, <1>3, OperandPopped
<1>5. \E n \in Nat : /\ CanBranch(n, Drop(vstack, 1))
                     /\ BranchTo(n, Drop(vstack, 1))
  BY <1>2, <1>3, TableImmediate DEF ExecBrTable
<1> QED
  BY <1>1, <1>2, <1>4, <1>5, BranchTyped, ExecuteKeeps

(* return.                                                                 *)
LEMMA ExecReturnStep ==
  ASSUME XInv, UNCHANGED loadVars, ExecReturn
  PROVE  XInv'
<1>1. Execute({"return"})
  BY DEF ExecReturn
<1>2. Running /\ Instr.op = "return" /\ Safe(Instr) /\ vstack \in Seq(ValType)
  BY <1>1, ExecuteFacts
<1>3. CanUnwind(vstack, Fr.sp, Fr.arity) /\ LeaveFunction(vstack)
  BY <1>2 DEF ExecReturn, Safe
<1> QED
  BY <1>1, <1>2, <1>3, LeaveTyped, ExecuteKeeps

-----------------------------------------------------------------------------
(* Calls.                                                                  *)

(* The locals a defined function declares.                                 *)
LEMMA DeclaredLocals ==
  ASSUME NEW f \in Nat, f < FuncCount, ~IsImport(f)
  PROVE  /\ f \in Len(Imports) .. FuncCount - 1
         /\ Funcs[f - Len(Imports) + 1].locals \in Seq(ValType)
<1> DEFINE R == [type : 0 .. Len(Types) - 1, locals : Seq(ValType)]
<1>1. Funcs \in Seq(R) /\ Len(Imports) \in Nat
  BY ModuleAssumption
<1>2. \A r \in R : r.locals \in Seq(ValType)
  OBVIOUS
<1> HIDE DEF R
<1>3. Len(Funcs) \in Nat /\ f >= Len(Imports) /\ f < Len(Imports) + Len(Funcs)
  BY <1>1 DEF FuncCount, IsImport
<1>4. f - Len(Imports) + 1 \in 1 .. Len(Funcs)
  BY <1>1, <1>3
<1>5. Funcs[f - Len(Imports) + 1] \in R
  BY <1>1, <1>4
<1>6. f \in Len(Imports) .. FuncCount - 1
  BY <1>1, <1>3 DEF FuncCount
<1> QED
  BY <1>2, <1>5, <1>6

(* A call of any function, with its arguments on the stack.                *)
LEMMA CallTyped ==
  ASSUME NEW f \in Nat, f < FuncCount, NEW stack \in Seq(ValType),
         CanCall(f, stack), NEW below \in Seq(GoodFrame),
         CallWasm(f, stack, below) \/ CallHost(f, stack, below)
  PROVE  frames' \in Seq(GoodFrame) /\ vstack' \in Seq(ValType)
<1> DEFINE ft == FuncTypeOf(f)
<1>1. ft.params \in Seq(ValType) /\ ft.results \in Seq(ValType)
  BY FuncTypes DEF FuncType
<1> DEFINE n == Len(ft.params)
<1>2. n \in Nat /\ n <= Len(stack) /\ Len(ft.results) \in Nat /\ Len(stack) \in Nat
  BY <1>1 DEF CanCall
<1>3. CASE CallWasm(f, stack, below)
  <2> DEFINE fr == [labels |-> <<>>, arity |-> Len(ft.results), func |-> f,
                    locals |-> TopN(stack, n)
                                 \o Funcs[f - Len(Imports) + 1].locals,
                    pc |-> 0, sp |-> Len(stack) - n]
  <2>1. ~IsImport(f) /\ frames' = Append(below, fr) /\ vstack' = stack
    BY <1>3 DEF CallWasm
  <2>2. TopN(stack, n) \in Seq(ValType)
    BY <1>2, TopNTyped
  <2>3. TopN(stack, n) \o Funcs[f - Len(Imports) + 1].locals \in Seq(ValType)
    BY <2>1, <2>2, DeclaredLocals
  <2>4. fr \in GoodFrame
    <3>1. Len(stack) - n \in Nat /\ <<>> \in Seq(Label)
      BY <1>2
    <3> HIDE DEF n, ft
    <3> QED
      BY <1>2, <2>1, <2>3, <3>1, DeclaredLocals DEF GoodFrame, Frame
  <2> HIDE DEF fr, GoodFrame
  <2> QED
    BY <2>1, <2>4
<1>4. CASE CallHost(f, stack, below)
  <2>1. frames' = below /\ vstack' = Drop(stack, n) \o ft.results
    BY <1>4 DEF CallHost
  <2>2. Drop(stack, n) \in Seq(ValType)
    BY <1>2, DropTyped
  <2> HIDE DEF n, ft
  <2> QED
    BY <1>1, <2>1, <2>2
<1> QED
  BY <1>3, <1>4

(* The frame of the caller goes on after the call.                         *)
LEMMA CallerTyped ==
  ASSUME XInv, NEW ops, Execute(ops)
  PROVE  /\ Advance \in GoodFrame
         /\ Append(Front(frames), Advance) \in Seq(GoodFrame)
<1>1. Running /\ Fr.pc + 1 \in Int
  BY ExecuteFacts
<1>2. Advance \in GoodFrame
  BY <1>1, UpdatedFrame DEF Advance
<1> QED
  BY <1>1, <1>2, SetTopTyped

(* call.                                                                   *)
LEMMA ExecCallStep ==
  ASSUME XInv, UNCHANGED loadVars, ExecCall
  PROVE  XInv'
<1>1. Execute({"call"})
  BY DEF ExecCall
<1>2. /\ Instr \in Instruction /\ Instr.op = "call" /\ Safe(Instr)
      /\ vstack \in Seq(ValType)
  BY <1>1, ExecuteFacts
<1>3. Instr.x \in Nat
  BY <1>2, IndexImmediate DEF IndexOps
<1>4. Instr.x < FuncCount /\ CanCall(Instr.x, vstack)
  BY <1>2 DEF Safe, IndicesExist
<1> DEFINE below == Append(Front(frames), Advance)
<1>5. below \in Seq(GoodFrame)
  BY <1>1, CallerTyped
<1>6. CallWasm(Instr.x, vstack, below) \/ CallHost(Instr.x, vstack, below)
  BY DEF ExecCall
<1> HIDE DEF below
<1>7. frames' \in Seq(GoodFrame) /\ vstack' \in Seq(ValType)
  BY <1>2, <1>3, <1>4, <1>5, <1>6, CallTyped
<1> QED
  BY <1>1, <1>7, ExecuteKeeps

(* call_indirect, whatever function of the type the element is.            *)
LEMMA ExecCallIndirectStep ==
  ASSUME XInv, UNCHANGED loadVars, ExecCallIndirect
  PROVE  XInv'
<1>1. Execute({"call_indirect"})
  BY DEF ExecCallIndirect
<1>2. Instr.op = "call_indirect" /\ Safe(Instr) /\ vstack \in Seq(ValType)
  BY <1>1, ExecuteFacts
<1> DEFINE below == Append(Front(frames), Advance)
           stack == Drop(vstack, 1)
<1>3. PICK f \in 0 .. FuncCount - 1 :
        /\ FuncTypeOf(f) = At(Types, Instr.x)
        /\ CallWasm(f, stack, below) \/ CallHost(f, stack, below)
  BY DEF ExecCallIndirect
<1>4. HasTop(<<"i32">>) /\ CanCall(f, stack)
  BY <1>2, <1>3 DEF Safe
<1>5. stack \in Seq(ValType)
  BY <1>2, <1>4, OperandPopped
<1>6. below \in Seq(GoodFrame)
  BY <1>1, CallerTyped
<1>7. f \in Nat /\ f < FuncCount
  <2>1. FuncCount \in Nat
    BY ModuleAssumption DEF FuncCount
  <2> QED
    BY <2>1
<1> HIDE DEF below, stack
<1>8. frames' \in Seq(GoodFrame) /\ vstack' \in Seq(ValType)
  BY <1>3, <1>4, <1>5, <1>6, <1>7, CallTyped
<1> QED
  BY <1>1, <1>8, ExecuteKeeps

-----------------------------------------------------------------------------
(* The other instructions.                                                 *)

(* An instruction pops a handful of values.                                *)
LEMMA PopsCounted ==
  ASSUME NEW i
  PROVE  Len(Pops(i)) \in Nat
<1>1. Len(<<>>) = 0
  OBVIOUS
<1>2. \A a, b, c : Len(<<a>>) = 1 /\ Len(<<a, b>>) = 2 /\ Len(<<a, b, c>>) = 3
  OBVIOUS
<1>3. \/ Pops(i) = <<>>
      \/ \E a, b, c : \/ Pops(i) = <<a>>
                      \/ Pops(i) = <<a, b>>
                      \/ Pops(i) = <<a, b, c>>
  BY DEF Pops
<1> QED
  BY <1>1, <1>2, <1>3

(* An instruction pushes values.                                           *)
LEMMA PushesTyped ==
  ASSUME XInv, Running, Instr \in Instruction, IndicesExist(Instr)
  PROVE  Pushes(Instr) \in Seq(ValType)
<1> DEFINE i == Instr
<1>1. /\ <<>> \in Seq(ValType)
      /\ \A a \in ValType : <<a>> \in Seq(ValType)
      /\ NumType \subseteq ValType /\ RefType \subseteq ValType
      /\ "i32" \in ValType /\ "funcref" \in ValType
  BY DEF ValType, NumType, RefType
<1>2. CASE i.op \in {"const", "unop", "binop", "load", "ref.null", "cvtop"}
  BY <1>1, <1>2, TypeImmediate DEF Pushes, NumOps
<1>3. CASE i.op = "local.get"
  <2>1. i.x + 1 \in 1 .. Len(Fr.locals)
    BY <1>3, FrameTyped DEF IndicesExist, InRange
  <2>2. At(Fr.locals, i.x) \in ValType
    BY <2>1, FrameTyped DEF At
  <2> QED
    BY <1>1, <1>3, <2>2 DEF Pushes
<1>4. CASE i.op = "global.get"
  <2> DEFINE G == [type : ValType, mut : BOOLEAN]
  <2>1. Globals \in Seq(G)
    BY ModuleAssumption
  <2>2. \A g \in G : g.type \in ValType
    OBVIOUS
  <2> HIDE DEF G
  <2>3. At(Globals, i.x).type \in ValType
    BY <1>4, <2>1, <2>2 DEF IndicesExist, InRange, At
  <2> QED
    BY <1>1, <1>4, <2>3 DEF Pushes
<1>5. CASE i.op = "table.get"
  <2>1. At(Tables, i.x) \in RefType
    BY <1>5, ModuleAssumption DEF IndicesExist, InRange, At
  <2> QED
    BY <1>1, <1>5, <2>1 DEF Pushes
<1>6. CASE i.op \notin {"const", "unop", "binop", "load", "ref.null", "cvtop",
                        "local.get", "global.get", "table.get"}
  BY <1>1, <1>6 DEF Pushes
<1> QED
  BY <1>2, <1>3, <1>4, <1>5, <1>6

(* The instructions that only pop and push.                                *)
LEMMA ExecStackStep ==
  ASSUME XInv, UNCHANGED loadVars, ExecStack
  PROVE  XInv'
<1>1. Execute(StackOps)
  BY DEF ExecStack
<1>2. Running /\ Instr \in Instruction /\ Safe(Instr) /\ vstack \in Seq(ValType)
  BY <1>1, ExecuteFacts
<1>3. IndicesExist(Instr) /\ Len(vstack) >= Len(Pops(Instr))
  BY <1>2 DEF Safe, HasTop
<1>4. Drop(vstack, Len(Pops(Instr))) \in Seq(ValType)
  BY <1>2, <1>3, PopsCounted, DropTyped
<1>5. Pushes(Instr) \in Seq(ValType)
  BY <1>2, <1>3, PushesTyped
<1>6. /\ vstack' = Drop(vstack, Len(Pops(Instr))) \o Pushes(Instr)
      /\ frames' = Append(Front(frames), Advance)
  BY DEF ExecStack, SetTop
<1>7. vstack' \in Seq(ValType)
  BY <1>4, <1>5, <1>6
<1> QED
  BY <1>1, <1>6, <1>7, CallerTyped, ExecuteKeeps

(* select, with any condition.                                             *)
LEMMA ExecSelectStep ==
  ASSUME XInv, UNCHANGED loadVars, NEW cond \in BOOLEAN, ExecSelect(cond)
  PROVE  XInv'
<1>1. Execute({"select", "select_t"})
  BY DEF ExecSelect
<1>2. /\ Instr.op \in {"select", "select_t"} /\ Safe(Instr)
      /\ vstack \in Seq(ValType)
  BY <1>1, ExecuteFacts
<1>3. Len(vstack) >= 3
  BY <1>2 DEF Safe, HasTop
<1> DEFINE top == TopN(vstack, 3)
<1>4. top \in Seq(ValType) /\ Len(top) = 3
  BY <1>2, <1>3, TopNTyped
<1>5. Drop(vstack, 3) \in Seq(ValType)
  BY <1>2, <1>3, DropTyped
<1>6. /\ vstack' = Append(Drop(vstack, 3), IF cond THEN top[1] ELSE top[2])
      /\ frames' = Append(Front(frames), Advance)
  BY DEF ExecSelect, SetTop
<1> HIDE DEF top
<1>7. top[1] \in ValType /\ top[2] \in ValType
  BY <1>4
<1>8. vstack' \in Seq(ValType)
  BY <1>5, <1>6, <1>7
<1> QED
  BY <1>1, <1>6, <1>8, CallerTyped, ExecuteKeeps

(* local.set and local.tee.                                                *)
LEMMA ExecSetLocalStep ==
  ASSUME XInv, UNCHANGED loadVars, ExecSetLocal
  PROVE  XInv'
<1>1. Execute({"local.set", "local.tee"})
  BY DEF ExecSetLocal
<1>2. /\ Running /\ Instr.op \in {"local.set", "local.tee"} /\ Safe(Instr)
      /\ vstack \in Seq(ValType) /\ Fr.pc + 1 \in Int
  BY <1>1, ExecuteFacts
<1>3. Len(vstack) >= 1
  BY <1>2 DEF Safe, HasTop, Pops
<1>4. Last(vstack) \in ValType
  BY <1>2, <1>3 DEF Last
<1>5. Len(vstack) >= Len(Pops(Instr))
  BY <1>2 DEF Safe, HasTop
<1>6. Drop(vstack, Len(Pops(Instr))) \in Seq(ValType)
  BY <1>2, <1>5, PopsCounted, DropTyped
<1> DEFINE ts == [Fr.locals EXCEPT ![Instr.x + 1] = Last(vstack)]
<1>7. ts \in Seq(ValType)
  <2>1. Fr.locals \in Seq(ValType)
    BY <1>2, FrameTyped
  <2>2. Instr.x + 1 \in 1 .. Len(Fr.locals)
    BY <1>2, <2>1 DEF Safe, IndicesExist, InRange
  <2> QED
    BY <1>4, <2>1, <2>2, ExceptSeq
<1>8. [Advance EXCEPT !.locals[Instr.x + 1] = Last(vstack)]
        = [Fr EXCEPT !.pc = Fr.pc + 1, !.locals = ts]
  BY <1>2, FrameTyped DEF Advance, Frame
<1> HIDE DEF ts
<1>9. [Fr EXCEPT !.pc = Fr.pc + 1, !.locals = ts] \in GoodFrame
  BY <1>2, <1>7, UpdatedFrame
<1>10. frames' \in Seq(GoodFrame)
  BY <1>2, <1>8, <1>9, SetTopTyped DEF ExecSetLocal, SetTop
<1>11. vstack' \in Seq(ValType)
  BY <1>6 DEF ExecSetLocal
<1> QED
  BY <1>1, <1>10, <1>11, ExecuteKeeps

-----------------------------------------------------------------------------
(* Invocations.                                                            *)

(* A trap.                                                                 *)
LEMMA TrapStep ==
  ASSUME XInv, UNCHANGED loadVars, Trap
  PROVE  XInv'
<1>1. <<>> \in Seq(GoodFrame) /\ <<>> \in Seq(ValType)
  OBVIOUS
<1>2. status' = "trapped" /\ frames' = <<>> /\ vstack' = <<>> /\ UNCHANGED entry
  BY DEF Trap, Abort
<1> HIDE DEF GoodFrame
<1> QED
  BY <1>1, <1>2, ExecKeeps DEF XInv

(* A host function that fails, called by code or by invoke.                *)
LEMMA HostFailsStep ==
  ASSUME XInv, UNCHANGED loadVars,
         HostFails \/ \E f \in 0 .. FuncCount - 1 : InvokedHostFails(f)
  PROVE  XInv'
<1>1. <<>> \in Seq(GoodFrame) /\ <<>> \in Seq(ValType)
  OBVIOUS
<1>2. status' = "panicked" /\ frames' = <<>> /\ vstack' = <<>>
  BY DEF HostFails, InvokedHostFails, Abort
<1>3. entry' \in Nat
  <2>1. FuncCount \in Nat
    BY ModuleAssumption DEF FuncCount
  <2> QED
    BY <2>1 DEF HostFails, InvokedHostFails, XInv
<1> HIDE DEF GoodFrame
<1> QED
  BY <1>1, <1>2, <1>3, ExecKeeps

(* invoke, with arguments of the parameters' types.                        *)
LEMMA InvokeStep ==
  ASSUME XInv, UNCHANGED loadVars, NEW f \in 0 .. FuncCount - 1, Invoke(f)
  PROVE  XInv'
<1>1. f \in Nat /\ f < FuncCount
  <2>1. FuncCount \in Nat
    BY ModuleAssumption DEF FuncCount
  <2> QED
    BY <2>1
<1>2. FuncTypeOf(f).params \in Seq(ValType)
  BY <1>1, FuncTypes DEF FuncType
<1>3. CanCall(f, FuncTypeOf(f).params)
  BY <1>2 DEF CanCall
<1>4. <<>> \in Seq(GoodFrame)
  OBVIOUS
<1>5. \/ CallWasm(f, FuncTypeOf(f).params, <<>>)
      \/ CallHost(f, FuncTypeOf(f).params, <<>>)
  BY DEF Invoke
<1>6. frames' \in Seq(GoodFrame) /\ vstack' \in Seq(ValType)
  BY <1>1, <1>2, <1>3, <1>4, <1>5, CallTyped
<1> QED
  BY <1>1, <1>6, ExecKeeps DEF Invoke, CanInvoke

(* The results of a finished invocation are split off.                     *)
LEMMA FinishStep ==
  ASSUME XInv, UNCHANGED loadVars, Finish
  PROVE  XInv'
<1> DEFINE n == Len(FuncTypeOf(entry).results)
<1>1. n \in Nat /\ Len(vstack) >= n /\ vstack \in Seq(ValType)
  BY DEF Finish, XInv
<1>2. vstack' = TopN(vstack, n)
  BY DEF Finish
<1> HIDE DEF n
<1>3. vstack' \in Seq(ValType)
  BY <1>1, <1>2, TopNTyped
<1> QED
  BY <1>3, ExecKeeps DEF Finish, XInv

-----------------------------------------------------------------------------
(* The theorem.                                                            *)

(* Loading is over once the module has its bodies.                         *)
LEMMA LoadedIsFinal ==
  ASSUME LoadTypeOK, Loaded
  PROVE  ~LoadNext
<1>1. nest = <<>>
  BY ModuleAssumption DEF LoadTypeOK, Loaded, Loading
<1>2. Len(nest) = 0 /\ ~Loading
  BY <1>1 DEF Loading
<1>3. ~BeginFunction
  BY DEF BeginFunction
<1>4. \A i : ~Read(i) /\ ~Reject(i) /\ ~EndFunction(i)
  BY <1>2 DEF Read, Reject, EndFunction
<1> QED
  BY <1>3, <1>4 DEF LoadNext, Unreachable, BlockOrLoop, If, Else, EndBlock,
     Branch, BranchIf, Select, RefIsNull, Operator

(* No step of the loader or of the interpreter breaks XInv.                *)
LEMMA XInvStep ==
  ASSUME XInv, [Next]_vars
  PROVE  XInv'
<1>1. CASE LoadNext /\ UNCHANGED execVars
  <2>1. IInv'
    BY <1>1, LoadStep DEF XInv
  <2>2. frames = <<>>
    BY <1>1, LoadedIsFinal DEF XInv, IInv
  <2> QED
    BY <1>1, <2>1, <2>2 DEF XInv, execVars
<1>2. CASE ExecNext /\ UNCHANGED loadVars
  <2>1. ASSUME NEW f \in 0 .. FuncCount - 1, Invoke(f)
        PROVE  XInv'
    BY <1>2, <2>1, InvokeStep
  <2>2. ASSUME NEW cond \in BOOLEAN,
               ExecIf(cond) \/ ExecBrIf(cond) \/ ExecSelect(cond)
        PROVE  XInv'
    BY <1>2, <2>2, ExecIfStep, ExecBrIfStep, ExecSelectStep
  <2>3. CASE ExecStack \/ ExecBlock \/ ExecLoop \/ ExecElse \/ ExecEnd
    BY <1>2, <2>3, ExecStackStep, ExecBlockStep, ExecLoopStep, ExecElseStep,
       ExecEndStep
  <2>4. CASE ExecBr \/ ExecBrTable \/ ExecReturn
    BY <1>2, <2>4, ExecBrStep, ExecBrTableStep, ExecReturnStep
  <2>5. CASE ExecCall \/ ExecCallIndirect \/ ExecSetLocal
    BY <1>2, <2>5, ExecCallStep, ExecCallIndirectStep, ExecSetLocalStep
  <2>6. CASE \/ Trap \/ HostFails \/ Finish
             \/ \E f \in 0 .. FuncCount - 1 : InvokedHostFails(f)
    BY <1>2, <2>6, TrapStep, HostFailsStep, FinishStep
  <2> QED
    BY <1>2, <2>1, <2>2, <2>3, <2>4, <2>5, <2>6 DEF ExecNext
<1>3. CASE UNCHANGED vars
  <2>1. UNCHANGED loadVars /\ UNCHANGED execVars
    BY <1>3 DEF vars, loadVars, execVars
  <2> QED
    BY <2>1, ExecKeeps DEF XInv, execVars
<1> QED
  BY <1>1, <1>2, <1>3 DEF Next

(* Before anything is loaded.                                              *)
LEMMA XInvStart ==
  ASSUME Init
  PROVE  XInv
<1>1. <<>> \in Seq(GoodFrame) /\ <<>> \in Seq(ValType)
  OBVIOUS
<1> QED
  BY <1>1, LoadStart DEF Init, ExecInit, XInv

(* XInv is a strengthening of TypeOK.                                      *)
LEMMA XInvTypes ==
  ASSUME XInv
  PROVE  TypeOK
<1>1. GoodFrame \subseteq Frame
  BY DEF GoodFrame
<1> HIDE DEF GoodFrame
<1>2. frames \in Seq(Frame)
  BY <1>1 DEF XInv
<1> QED
  BY <1>2 DEF XInv, IInv, TypeOK

(* Whatever bodies validation lets through, and whatever they are invoked  *)
(* with, the interpreter never builds a frame or a label with a negative   *)
(* stack pointer, nor brings anything but a value onto the value stack or  *)
(* into a local.                                                           *)
THEOREM StateAlwaysTyped == Spec => []TypeOK
<1>1. Init => XInv
  BY XInvStart
<1>2. XInv /\ [Next]_vars => XInv'
  BY XInvStep
<1>3. XInv => TypeOK
  BY XInvTypes
<1> QED
  BY <1>1, <1>2, <1>3, PTL DEF Spec

=============================================================================
