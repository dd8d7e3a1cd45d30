--------------------------- MODULE SoundnessProofs --------------------------
(***************************************************************************)
(* Type soundness of the interpreter, for every module, every body and     *)
(* every depth limit: what validation has accepted never drives execute    *)
(* into an assertion, and the one value stack that all calls share         *)
(* implements an operand stack for each of them.                           *)
(*                                                                         *)
(* The inductive invariant RInv says of every active call, the one that    *)
(* runs and those that wait, that it is at a point of its body's typing    *)
(* (TypingProofs) with the operands and the labels of that point, and that *)
(* nothing above its arguments belongs to a caller.                        *)
(***************************************************************************)
EXTENDS TypingProofs, CallRefinement

-----------------------------------------------------------------------------
(* The invariant.                                                          *)

CodeIndex(fr) == fr.func - Len(Imports) + 1

(* A frame is at a point of its body with the operands ops.                *)
Sound(fr, ops) ==
  LET c == CodeIndex(fr)
  IN  /\ Arrived(code[c], typing[c], fr.pc + 1, ops, fr.labels, Base(fr))
      /\ fr.arity = Len(ResultsOf(c))
      /\ fr.locals = LocalTypes(c)

(* The operands of the k-th of the calls fs on the stack v, when the last  *)
(* of them waits for a callee that is going to leave r at height s.        *)
OpsOf(fs, v, s, r, k) ==
  IF k = Len(fs)
  THEN SubSeq(v, Base(fs[k]) + 1, s) \o r
  ELSE SubSeq(v, Base(fs[k]) + 1, fs[k + 1].sp) \o FuncTypeOf(fs[k + 1].func).results

(* Every one of them is at a point of its body with its own operands; none *)
(* reaches above the stack pointer of a later one; and the outermost is    *)
(* the one that was invoked.                                               *)
Waits(fs, v, s, r) ==
  /\ \A k \in 1 .. Len(fs) : Sound(fs[k], OpsOf(fs, v, s, r, k))
  /\ \A j, k \in 1 .. Len(fs) : j < k => Base(fs[j]) <= fs[k].sp
  /\ \A k \in 1 .. Len(fs) : Base(fs[k]) <= s
  /\ fs # <<>> => fs[1].sp = 0 /\ fs[1].func = entry

CInv == Waits(frames, vstack, Len(vstack), <<>>) /\ ResultsMatchType

RInv == HInv /\ XInv /\ CInv

(* The innermost call: its function, the body and the typing of that, the  *)
(* position in it, its operands, and what is below them.                   *)
FnHere    == CodeIndex(Fr)
IsHere    == code[FnHere]
TsHere    == typing[FnHere]
PcHere    == Fr.pc + 1
OpsHere   == SubSeq(vstack, Base(Fr) + 1, Len(vstack))
BelowHere == SubSeq(vstack, 1, Base(Fr))

RunsAt ==
  /\ FnHere \in 1 .. Len(Funcs) /\ Accepts(FnHere, IsHere, TsHere)
  /\ PcHere \in 1 .. Len(IsHere) /\ IsHere[PcHere] \in Instruction
  /\ OpsHere \in Seq(ValType) /\ BelowHere \in Seq(ValType)
  /\ vstack = BelowHere \o OpsHere
  /\ Base(Fr) \in Nat /\ Len(BelowHere) = Base(Fr) /\ Fr.sp \in 0 .. Base(Fr)
  /\ Fr.labels \in Seq(Label) /\ Fr.pc \in Nat
  /\ Arrived(IsHere, TsHere, PcHere, OpsHere, Fr.labels, Base(Fr))
  /\ Fr.arity = Len(ResultsOf(FnHere)) /\ Fr.locals = LocalTypes(FnHere)
  /\ FuncTypeOf(Fr.func) = At(Types, Funcs[FnHere].type)

(* The function of a frame, and where its operands start.                  *)
LEMMA FrameFunction ==
  ASSUME NEW fr \in GoodFrame
  PROVE  /\ fr \in Frame /\ fr.sp \in Nat
         /\ CodeIndex(fr) \in 1 .. Len(Funcs)
         /\ FuncTypeOf(fr.func) = At(Types, Funcs[CodeIndex(fr)].type)
         /\ FuncTypeOf(fr.func).params \in Seq(ValType)
         /\ FuncTypeOf(fr.func).results \in Seq(ValType)
         /\ FuncTypeOf(fr.func).results = ResultsOf(CodeIndex(fr))
         /\ Base(fr) \in Nat /\ fr.sp <= Base(fr)
         /\ Base(fr) = fr.sp + Len(FuncTypeOf(fr.func).params)
<1> DEFINE c == CodeIndex(fr)
<1>2. /\ fr \in Frame /\ fr.func \in Len(Imports) .. FuncCount - 1 /\ fr.sp \in Nat
  BY DEF GoodFrame, Frame
<1>3. c \in 1 .. Len(Funcs) /\ fr.func = Len(Imports) + c - 1
  <2>1. Len(Imports) \in Nat /\ Len(Funcs) \in Nat
    BY ModuleAssumption
  <2> QED
    BY <1>2, <2>1 DEF CodeIndex, FuncCount
<1> HIDE DEF c
<1>5. FuncTypeOf(fr.func) = At(Types, Funcs[c].type)
  BY <1>3, FunctionOf
<1>6. /\ FuncTypeOf(fr.func).params \in Seq(ValType)
      /\ FuncTypeOf(fr.func).results \in Seq(ValType)
      /\ FuncTypeOf(fr.func).results = ResultsOf(c)
  BY <1>3, <1>5, FunctionOf DEF ResultsOf
<1>7. Base(fr) \in Nat /\ fr.sp <= Base(fr)
  BY <1>2, <1>6 DEF Base
<1> QED
  BY <1>2, <1>3, <1>5, <1>6, <1>7 DEF c, Base

(* Where the innermost call is.                                            *)
LEMMA RunsHere ==
  ASSUME RInv, Running
  PROVE  RunsAt
<1> DEFINE n == Len(frames)
<1> HIDE DEF Instruction
<1>1. frames # <<>> /\ XInv /\ HInv /\ CInv
  BY DEF RInv, Running
<1>2. n \in 1 .. Len(frames) /\ Fr = frames[n]
  <2>1. frames \in Seq(GoodFrame)
    BY <1>1 DEF XInv
  <2>2. n \in Nat \ {0}
    BY <1>1, <2>1, FrontLast
  <2> QED
    BY <2>2 DEF Fr, Last
<1>3. /\ Fr \in Frame /\ Fr.sp \in Nat /\ FnHere \in 1 .. Len(Funcs)
      /\ FnHere \in 1 .. Len(code)
      /\ FuncTypeOf(Fr.func) = At(Types, Funcs[FnHere].type)
      /\ Base(Fr) \in Nat /\ Fr.sp <= Base(Fr)
  <2>1. Fr \in GoodFrame
    <3>1. frames \in Seq(GoodFrame)
      BY <1>1 DEF XInv
    <3> HIDE DEF GoodFrame
    <3> QED
      BY <1>2, <3>1
  <2>2. Len(code) = Len(Funcs)
    BY <1>1 DEF XInv, Loaded
  <2> QED
    BY <2>1, <2>2, FrameFunction DEF FnHere
<1>4. Accepts(FnHere, IsHere, TsHere)
  BY <1>1, <1>3 DEF HInv, IsHere, TsHere
<1>10. vstack \in Seq(ValType) /\ Base(Fr) \in 0 .. Len(vstack)
  <2>1. vstack \in Seq(ValType) /\ Len(vstack) \in Nat
    BY <1>1 DEF XInv
  <2>2. Base(frames[n]) <= Len(vstack)
    BY <1>1, <1>2, Zenon DEF CInv, Waits
  <2> QED
    BY <1>2, <1>3, <2>1, <2>2
<1>5. OpsOf(frames, vstack, Len(vstack), <<>>, n) = OpsHere
  <2>1. OpsOf(frames, vstack, Len(vstack), <<>>, n) = OpsHere \o <<>>
    BY <1>2, Zenon DEF OpsOf, OpsHere
  <2>2. OpsHere \in Seq(ValType)
    BY <1>10, SplitAt DEF OpsHere
  <2>3. OpsHere \o <<>> = OpsHere
    BY <2>2
  <2> QED
    BY <2>1, <2>3
<1>6. /\ Arrived(IsHere, TsHere, PcHere, OpsHere, Fr.labels, Base(Fr))
      /\ Fr.arity = Len(ResultsOf(FnHere)) /\ Fr.locals = LocalTypes(FnHere)
  <2>1. Sound(frames[n], OpsOf(frames, vstack, Len(vstack), <<>>, n))
    BY <1>1, <1>2, Zenon DEF CInv, Waits
  <2> QED
    BY <1>2, <1>5, <2>1, Zenon DEF Sound, IsHere, TsHere, PcHere, FnHere
<1>7. PcHere \in 1 .. Len(IsHere)
  BY <1>6, Zenon DEF Arrived
<1>8. IsHere[PcHere] \in Instruction
  BY <1>4, <1>7, BodyPoint
<1>9. Fr.labels \in Seq(Label) /\ Fr.pc \in Nat
  <2>1. Fr.labels \in Seq(Label) /\ Fr.pc \in Int
    BY <1>3 DEF Frame
  <2> QED
    BY <1>7, <2>1 DEF PcHere
<1>11. /\ OpsHere \in Seq(ValType) /\ BelowHere \in Seq(ValType)
       /\ vstack = BelowHere \o OpsHere /\ Len(BelowHere) = Base(Fr)
  <2> DEFINE b == Base(Fr)
  <2>1. b \in 0 .. Len(vstack) /\ vstack \in Seq(ValType)
    BY <1>10
  <2> HIDE DEF b
  <2>2. /\ SubSeq(vstack, 1, b) \in Seq(ValType) /\ Len(SubSeq(vstack, 1, b)) = b
        /\ SubSeq(vstack, b + 1, Len(vstack)) \in Seq(ValType)
        /\ vstack = SubSeq(vstack, 1, b) \o SubSeq(vstack, b + 1, Len(vstack))
    BY <2>1, SplitAt, ZenonT(90)
  <2> QED
    BY <2>2, Zenon DEF OpsHere, BelowHere, b
<1>12. Fr.sp \in 0 .. Base(Fr)
  BY <1>3
<1> QED
  BY <1>3, <1>4, <1>6, <1>7, <1>8, <1>9, <1>11, <1>12, Zenon DEF RunsAt

(* The instruction is the one at that position.                            *)
LEMMA InstrHere ==
  ASSUME RInv, Running
  PROVE  /\ RunsAt /\ InBody /\ BodyOf(Fr) = IsHere
         /\ Instr = IsHere[PcHere] /\ Instr \in Instruction
         /\ Instr.op = OpAt(IsHere, PcHere)
         /\ Len(vstack) = Base(Fr) + Len(OpsHere)
         /\ Len(OpsHere) \in Nat /\ Base(Fr) \in Nat
<1> HIDE DEF Instruction
<1>1. RunsAt
  BY RunsHere
<1>2. BodyOf(Fr) = IsHere
  BY DEF BodyOf, IsHere, FnHere, CodeIndex
<1>3. Instr = IsHere[PcHere]
  BY <1>2, Zenon DEF Instr, Next1, PcHere
<1>4. Instr.op = OpAt(IsHere, PcHere)
  BY <1>3, Zenon DEF OpAt
<1>5. PcHere \in 1 .. Len(IsHere) /\ IsHere[PcHere] \in Instruction
  BY <1>1, Zenon DEF RunsAt
<1>6. InBody
  <2>1. IsHere \in Seq(Instruction)
    BY <1>1, AcceptedHistory DEF RunsAt
  <2> QED
    BY <1>2, <1>5, <2>1 DEF InBody, PcHere
<1>7. /\ OpsHere \in Seq(ValType) /\ BelowHere \in Seq(ValType)
      /\ vstack = BelowHere \o OpsHere /\ Base(Fr) \in Nat /\ Len(BelowHere) = Base(Fr)
  BY <1>1, Zenon DEF RunsAt
<1>8. Len(vstack) = Base(Fr) + Len(OpsHere)
  BY <1>7, OnTop
<1>9. Len(OpsHere) \in Nat
  BY <1>7
<1> QED
  BY <1>1, <1>2, <1>3, <1>4, <1>5, <1>6, <1>7, <1>8, <1>9

-----------------------------------------------------------------------------
(* No assertion fails.                                                     *)

(* The operands below an index or a condition.                             *)
Popped1 == SubSeq(OpsHere, 1, Len(OpsHere) - 1)

(* Popping a few of its operands leaves those of the callers alone.        *)
LEMMA DropHere ==
  ASSUME RInv, Running, NEW n \in 0 .. Len(OpsHere)
  PROVE  /\ Drop(vstack, n) = BelowHere \o SubSeq(OpsHere, 1, Len(OpsHere) - n)
         /\ SubSeq(OpsHere, 1, Len(OpsHere) - n) \in Seq(ValType)
         /\ Len(SubSeq(OpsHere, 1, Len(OpsHere) - n)) = Len(OpsHere) - n
<1>1. /\ OpsHere \in Seq(ValType) /\ BelowHere \in Seq(ValType)
      /\ vstack = BelowHere \o OpsHere
  BY RunsHere, Zenon DEF RunsAt
<1>2. Len(OpsHere) - n \in 0 .. Len(OpsHere)
  BY <1>1
<1> QED
  BY <1>1, <1>2, DropOnTop, Prefix

(* The rule of an operator, where it runs.                                 *)
LEMMA OperatorHere ==
  ASSUME RInv, Running, Instr.op \notin SpecialOps
  PROVE  OperatorFound(FnHere, IsHere, TsHere, PcHere, OpsHere, Fr.labels, Base(Fr))
<1> HIDE DEF Instruction
<1>1. RunsAt /\ OpAt(IsHere, PcHere) \notin SpecialOps
  BY InstrHere
<1> QED
  BY <1>1, OperatorFinds DEF RunsAt

(* The indices of the module that an instruction uses exist.               *)
LEMMA IndicesHere ==
  ASSUME RInv, Running
  PROVE  IndicesExist(Instr)
<1> DEFINE i == Instr
<1> HIDE DEF Instruction
<1>1. RunsAt /\ Instr = IsHere[PcHere] /\ i.op = OpAt(IsHere, PcHere)
  BY InstrHere
<1>2. CASE i.op \in OpenOps
  <2>1. OpAt(IsHere, PcHere) # "end" /\ OpAt(IsHere, PcHere) \in OpenOps
    BY <1>1, <1>2 DEF OpenOps
  <2>2. OpsHere = Vals(TsHere[PcHere]) /\ Reach(TsHere[PcHere])
    BY <1>1, <2>1, Stands DEF RunsAt
  <2>3. BlockTypeOk(i.bt)
    BY <1>1, <2>1, <2>2, EnteringFits DEF RunsAt
  <2> QED
    BY <1>2, <2>3 DEF IndicesExist, OpenOps, MemoryOps
<1>3. CASE i.op \notin SpecialOps
  <2>1. Immediates(FnHere, i) /\ LocalTypes(FnHere) = Fr.locals
    BY <1>1, <1>3, OperatorHere, Zenon DEF OperatorFound, RunsAt
  <2>2. i.op \notin OpenOps
    BY <1>3 DEF SpecialOps
  <2> HIDE DEF i
  <2>3. IndicesExist(i)
    BY <2>1, <2>2 DEF IndicesExist, Immediates
  <2> QED
    BY <2>3 DEF i
<1>4. CASE i.op \in SpecialOps \ OpenOps
  BY <1>4 DEF IndicesExist, SpecialOps, OpenOps, LabelOps, MemoryOps
<1> QED
  BY <1>2, <1>3, <1>4

(* The operands an instruction pops are there.                             *)
LEMMA OperandsHere ==
  ASSUME RInv, Running
  PROVE  HasTop(Pops(Instr))
<1> DEFINE i == Instr
<1> HIDE DEF Instruction
<1>1. RunsAt /\ Instr = IsHere[PcHere] /\ i.op = OpAt(IsHere, PcHere)
      /\ Instr \in Instruction
  BY InstrHere
<1>2. /\ OpsHere \in Seq(ValType) /\ BelowHere \in Seq(ValType)
      /\ vstack = BelowHere \o OpsHere /\ FnHere \in 1 .. Len(Funcs)
  BY <1>1, Zenon DEF RunsAt
<1>3. CASE i.op \in (StackOps \ {"ref.is_null"}) \cup {"local.set"}
  <2>1. i.op \notin SpecialOps
    BY <1>3 DEF StackOps, SpecialOps, OpenOps, LabelOps
  <2>2. /\ GoodPoint(TsHere[PcHere]) /\ OpsHere = Vals(TsHere[PcHere])
        /\ Vals(TsHere[PcHere]) \in Seq(ValType)
        /\ Immediates(FnHere, i) /\ Gives(TsHere[PcHere], Ins(FnHere, i))
    BY <1>1, <2>1, OperatorHere, Zenon DEF OperatorFound
  <2>3. Len(Ins(FnHere, i)) \in Nat
    BY <1>1, <1>2, <2>2, InsCounted
  <2>4. Takes(Pops(i), Ins(FnHere, i))
    <3>1. CASE i.op = "local.set"
      <4>1. Pops(i) = <<"any">> /\ Ins(FnHere, i) = <<LocalType(FnHere, i.x)>>
        BY <3>1 DEF Pops, Ins
      <4> QED
        BY <4>1, TakesTuples, SelfFits
    <3>2. CASE i.op # "local.set"
      BY <1>1, <1>2, <1>3, <2>2, <3>2, PopsTakeIns
    <3> QED
      BY <3>1, <3>2
  <2> QED
    BY <1>2, <2>2, <2>3, <2>4, HasTopGiven
<1>4. CASE i.op = "ref.is_null"
  <2>1. NullTestFound(IsHere, TsHere, PcHere, OpsHere, Fr.labels, Base(Fr))
    BY <1>1, <1>4, NullTestFinds DEF RunsAt
  <2>2. Len(OpsHere) >= 1 /\ OpsHere[Len(OpsHere)] \in RefType
    BY <2>1, Zenon DEF NullTestFound
  <2>3. /\ Len(vstack) = Len(BelowHere) + Len(OpsHere)
        /\ vstack[Len(BelowHere) + Len(OpsHere)] = OpsHere[Len(OpsHere)]
    <3>1. Len(OpsHere) \in 1 .. Len(OpsHere)
      BY <1>2, <2>2
    <3> QED
      BY <1>2, <3>1, OnTop
  <2>4. Pops(i) = <<"ref">>
    BY <1>4 DEF Pops
  <2>5. /\ Len(vstack) >= 1
        /\ Len(vstack) - 1 + 1 = Len(BelowHere) + Len(OpsHere)
    BY <1>2, <2>2, <2>3
  <2>6. HasTop(<<"ref">>)
    <3>1. Len(<<"ref">>) = 1 /\ <<"ref">>[1] = "ref" /\ 1 .. 1 = {1}
      OBVIOUS
    <3>2. vstack[Len(vstack) - 1 + 1] \in RefType
      BY <2>2, <2>3, <2>5
    <3> QED
      BY <2>5, <3>1, <3>2 DEF HasTop
  <2> QED
    BY <2>4, <2>6
<1>5. CASE i.op \notin StackOps \cup {"local.set"}
  <2>1. Pops(i) = <<>>
    BY <1>5 DEF Pops, StackOps
  <2>2. HasTop(<<>>)
    BY InstrHere DEF HasTop
  <2> QED
    BY <2>1, <2>2
<1>6. \/ i.op \in (StackOps \ {"ref.is_null"}) \cup {"local.set"}
      \/ i.op = "ref.is_null"
      \/ i.op \notin StackOps \cup {"local.set"}
  OBVIOUS
<1> HIDE DEF i
<1> QED
  BY <1>3, <1>4, <1>5, <1>6

(* A condition or an index on top.                                         *)
LEMMA NumberOnTop ==
  ASSUME RInv, Running, NEW W \in Seq(ValType), OpsHere = W \o <<"i32">>
  PROVE  /\ HasTop(<<"i32">>) /\ 1 \in 0 .. Len(OpsHere)
         /\ Popped1 = W /\ Drop(vstack, 1) = BelowHere \o W
<1> DEFINE m == <<"i32">>
<1>1. m \in Seq(ValType) /\ Len(m) = 1 /\ m[1] = "i32"
  BY SomeValTypes
<1> HIDE DEF m
<1>2. /\ OpsHere \in Seq(ValType) /\ BelowHere \in Seq(ValType)
      /\ vstack = BelowHere \o OpsHere
  BY RunsHere, Zenon DEF RunsAt
<1>3. OpsHere = W \o m
  BY DEF m
<1>4. Len(OpsHere) = Len(W) + 1 /\ OpsHere[Len(W) + 1] = "i32"
  <2>1. /\ Len(W \o m) = Len(W) + Len(m)
        /\ \A k \in 1 .. Len(m) : (W \o m)[Len(W) + k] = m[k]
    BY <1>1, OnTop
  <2> QED
    BY <1>1, <1>3, <2>1
<1>5. Len(W) \in Nat /\ 1 \in 0 .. Len(OpsHere) /\ Len(OpsHere) - 1 = Len(W)
  BY <1>4
<1>6. Popped1 = W
  <2>1. SubSeq(W \o m, 1, Len(W)) = SubSeq(W, 1, Len(W))
    BY <1>1, <1>5, SubSeqBelow
  <2>2. SubSeq(W, 1, Len(W)) = W
    BY SubSeqFull
  <2> QED
    BY <1>3, <1>5, <2>1, <2>2 DEF Popped1
<1>7. Drop(vstack, 1) = BelowHere \o W
  BY <1>5, <1>6, DropHere, Zenon DEF Popped1
<1>8. HasTop(<<"i32">>)
  <2>1. /\ Len(vstack) = Len(BelowHere) + Len(OpsHere)
        /\ \A k \in 1 .. Len(OpsHere) : vstack[Len(BelowHere) + k] = OpsHere[k]
    BY <1>2, OnTop
  <2>2. /\ Len(vstack) - 1 + 1 = Len(BelowHere) + (Len(W) + 1)
        /\ Len(W) + 1 \in 1 .. Len(OpsHere) /\ Len(vstack) >= 1
    BY <1>2, <1>4, <1>5, <2>1
  <2>3. vstack[Len(vstack) - 1 + 1] = "i32"
    BY <1>4, <2>1, <2>2
  <2> QED
    BY <1>1, <2>2, <2>3 DEF HasTop, m
<1> QED
  BY <1>5, <1>6, <1>7, <1>8

-----------------------------------------------------------------------------
(* A branch of the instruction that runs.                                  *)
BranchGoes(m, W) ==
  BranchArrives(FnHere, IsHere, TsHere, Fr.labels, Base(Fr), m, W)

LEMMA BranchHere ==
  ASSUME RInv, Running, OpAt(IsHere, PcHere) # "end",
         NEW m \in Nat, NEW more \in Seq(ValType), Branches(TsHere[PcHere], m, more)
  PROVE  /\ BranchGoes(m, Below(OpsHere, more))
         /\ OpsHere = Below(OpsHere, more) \o more
<1>1. /\ Accepts(FnHere, IsHere, TsHere) /\ PcHere \in 1 .. Len(IsHere)
      /\ OpsHere \in Seq(ValType) /\ Fr.labels \in Seq(Label) /\ Base(Fr) \in Nat
      /\ Arrived(IsHere, TsHere, PcHere, OpsHere, Fr.labels, Base(Fr))
  BY RunsHere, Zenon DEF RunsAt
<1> QED
  BY <1>1, BranchesTo DEF BranchGoes

LEMMA BranchAllowed ==
  ASSUME RInv, Running, NEW m, NEW W, BranchGoes(m, W)
  PROVE  CanBranch(m, BelowHere \o W)
<1>0. BelowHere \in Seq(ValType) /\ Len(BelowHere) = Base(Fr)
  BY RunsHere, Zenon DEF RunsAt
<1>1. /\ Base(Fr) \in Nat
      /\ Fr.labels \in Seq(Label) /\ Fr.arity = Len(ResultsOf(FnHere))
      /\ Fr.sp \in 0 .. Base(Fr)
  BY RunsHere, Zenon DEF RunsAt
<1>2. m \in 0 .. Len(Fr.labels) /\ W \in Seq(ValType)
  BY Zenon DEF BranchGoes, BranchArrives
<1>3. Len(BelowHere \o W) = Base(Fr) + Len(W)
  BY <1>0, <1>2, OnTop
<1>4. ASSUME m = Len(Fr.labels)
      PROVE  CanUnwind(BelowHere \o W, Fr.sp, Fr.arity)
  <2>1. Len(ResultsOf(FnHere)) \in 0 .. Len(W)
    BY <1>4, Zenon DEF BranchGoes, BranchArrives
  <2> QED
    BY <1>1, <1>2, <1>3, <2>1 DEF CanUnwind
<1>5. ASSUME m < Len(Fr.labels)
      PROVE  CanUnwind(BelowHere \o W, Fr.labels[Len(Fr.labels) - m].sp,
                       Fr.labels[Len(Fr.labels) - m].br_arity)
  <2> DEFINE l == Fr.labels[Len(Fr.labels) - m]
  <2>1. /\ l.sp - Base(Fr) \in 0 .. Len(W) /\ l.br_arity \in 0 .. Len(W)
        /\ Len(W) - l.br_arity >= l.sp - Base(Fr)
    BY <1>5, Zenon DEF BranchGoes, BranchArrives
  <2>2. Len(Fr.labels) - m \in 1 .. Len(Fr.labels)
    BY <1>1, <1>2, <1>5
  <2>3. l.sp \in Nat
    <3>1. l \in Label
      BY <1>1, <2>2, SMTT(60)
    <3> QED
      BY <3>1 DEF Label
  <2> HIDE DEF l
  <2>4. CanUnwind(BelowHere \o W, l.sp, l.br_arity)
    BY <1>1, <1>2, <1>3, <2>1, <2>3 DEF CanUnwind
  <2> QED
    BY <2>4 DEF l
<1>6. m <= Len(Fr.labels)
  BY <1>1, <1>2
<1> QED
  BY <1>4, <1>5, <1>6, Zenon DEF CanBranch

(* The branches of the instruction that runs.                              *)
LEMMA BranchesHere ==
  ASSUME RInv, Running
  PROVE  /\ Instr.op = "br" => BranchGoes(Instr.n, OpsHere)
         /\ Instr.op \in {"br_if", "br_table"} => OpsHere = Popped1 \o <<"i32">>
         /\ Instr.op = "br_if" => BranchGoes(Instr.n, Popped1)
         /\ Instr.op = "br_table" =>
              /\ BranchGoes(Instr.default, Popped1)
              /\ \A j \in DOMAIN Instr.labels : BranchGoes(Instr.labels[j], Popped1)
<1> DEFINE p == TsHere[PcHere]
           cond == <<"i32">>
<1>1. /\ RunsAt /\ Instr = IsHere[PcHere] /\ Instr.op = OpAt(IsHere, PcHere)
      /\ Instr \in Instruction
  <2> HIDE DEF Instruction
  <2> QED
    BY InstrHere
<1>2. /\ Instr.op \in {"br", "br_if"} => Instr.n \in Nat
      /\ Instr.op = "br_table" => 
           Instr.default \in Nat /\ \A j \in DOMAIN Instr.labels : Instr.labels[j] \in Nat
  BY <1>1, LabelImmediate, TableImmediate DEF LabelOps
<1> HIDE DEF Instruction
<1>3. /\ Accepts(FnHere, IsHere, TsHere) /\ PcHere \in 1 .. Len(IsHere)
      /\ OpsHere \in Seq(ValType)
      /\ Arrived(IsHere, TsHere, PcHere, OpsHere, Fr.labels, Base(Fr))
  BY <1>1, Zenon DEF RunsAt
<1>4. Rule(FnHere, Instr, p)
  BY <1>1, <1>3, BodyPoint
<1>5. Instr.op # "end" => Reach(p)
  BY <1>1, <1>3, Stands
<1>6. /\ Instr.op = "br" => Branches(p, Instr.n, <<>>)
      /\ Instr.op = "br_if" => Branches(p, Instr.n, cond)
      /\ Instr.op = "br_table" =>
           /\ Branches(p, Instr.default, cond)
           /\ \A j \in DOMAIN Instr.labels : Branches(p, Instr.labels[j], cond)
  BY <1>4, <1>5 DEF Rule
<1>7. <<>> \in Seq(ValType) /\ cond \in Seq(ValType) /\ Len(cond) = 1 /\ Len(<<>>) = 0
  BY SomeValTypes
<1> HIDE DEF cond, p
<1>8. Below(OpsHere, cond) = Popped1 /\ Below(OpsHere, <<>>) = OpsHere
  <2>1. SubSeq(OpsHere, 1, Len(OpsHere)) = OpsHere /\ Len(OpsHere) - 0 = Len(OpsHere)
    BY <1>3, SubSeqFull
  <2> QED
    BY <1>7, <2>1, Zenon DEF Below, Popped1
<1>9. ASSUME Instr.op = "br" PROVE BranchGoes(Instr.n, OpsHere)
  <2>1. Branches(TsHere[PcHere], Instr.n, <<>>)
    BY <1>6, <1>9 DEF p
  <2>2. BranchGoes(Instr.n, Below(OpsHere, <<>>))
    BY <1>1, <1>2, <1>7, <1>9, <2>1, BranchHere
  <2> QED
    BY <1>8, <2>2
<1>10. ASSUME NEW m \in Nat, Branches(p, m, cond), Instr.op # "end"
       PROVE  BranchGoes(m, Popped1) /\ OpsHere = Popped1 \o cond
  <2>1. Branches(TsHere[PcHere], m, cond)
    BY <1>10 DEF p
  <2>2. BranchGoes(m, Below(OpsHere, cond)) /\ OpsHere = Below(OpsHere, cond) \o cond
    BY <1>1, <1>7, <1>10, <2>1, BranchHere
  <2> QED
    BY <1>8, <2>2
<1>11. ASSUME Instr.op = "br_if"
       PROVE  BranchGoes(Instr.n, Popped1) /\ OpsHere = Popped1 \o cond
  BY <1>2, <1>6, <1>10, <1>11
<1>12. ASSUME Instr.op = "br_table"
       PROVE  /\ BranchGoes(Instr.default, Popped1) /\ OpsHere = Popped1 \o cond
              /\ \A j \in DOMAIN Instr.labels : BranchGoes(Instr.labels[j], Popped1)
  <2>1. BranchGoes(Instr.default, Popped1) /\ OpsHere = Popped1 \o cond
    BY <1>2, <1>6, <1>10, <1>12
  <2>2. ASSUME NEW j \in DOMAIN Instr.labels
        PROVE  BranchGoes(Instr.labels[j], Popped1)
    <3>1. Instr.labels[j] \in Nat
      BY <1>2, <1>12
    <3> QED
      BY <1>6, <1>10, <1>12, <3>1
  <2> QED
    BY <2>1, <2>2
<1> QED
  BY <1>9, <1>11, <1>12 DEF cond

-----------------------------------------------------------------------------
(* A block, a loop or an if finds its parameters and its end.              *)
LEMMA OpensSafely ==
  ASSUME RInv, Running, Instr.op \in OpenOps
  PROVE  /\ Instr.op \in {"block", "loop"} => Len(vstack) >= BlockParams(Instr.bt)
         /\ Instr.op = "if" => HasTop(<<"i32">>) /\ Len(vstack) > BlockParams(Instr.bt)
         /\ EndsOf(BodyOf(Fr), Fr.pc + 1) # {}
<1> DEFINE p == TsHere[PcHere]
           i == Instr
<1> HIDE DEF Instruction
<1>1. /\ RunsAt /\ BodyOf(Fr) = IsHere /\ i = IsHere[PcHere]
      /\ i.op = OpAt(IsHere, PcHere) /\ PcHere = Fr.pc + 1
      /\ Len(vstack) = Base(Fr) + Len(OpsHere)
      /\ Len(OpsHere) \in Nat /\ Base(Fr) \in Nat
  BY InstrHere DEF PcHere
<1>2. /\ Accepts(FnHere, IsHere, TsHere) /\ PcHere \in 1 .. Len(IsHere)
      /\ OpsHere \in Seq(ValType) /\ BelowHere \in Seq(ValType)
      /\ vstack = BelowHere \o OpsHere
      /\ Arrived(IsHere, TsHere, PcHere, OpsHere, Fr.labels, Base(Fr))
  BY <1>1, Zenon DEF RunsAt
<1>3. i.op # "end"
  BY DEF OpenOps
<1>4. OpsHere = Vals(p) /\ Reach(p) /\ GoodPoint(p)
  BY <1>1, <1>2, <1>3, Stands, BodyPoint
<1>5. /\ BlockStart(i.bt) \in Seq(ValType)
      /\ Vals(TsHere[PcHere + 1]) = Entering(IsHere, PcHere, Vals(p))
      /\ Len(BlockStart(i.bt)) \in 0 .. Len(Vals(TsHere[PcHere + 1]))
      /\ i.op = "if" => /\ Gives(p, Append(BlockStart(i.bt), "i32"))
                        /\ Len(Vals(p)) > Len(BlockStart(i.bt))
  <2>1. /\ OpAt(IsHere, PcHere) \in OpenOps
        /\ Reach(TsHere[PcHere]) /\ Vals(TsHere[PcHere]) \in Seq(ValType)
    BY <1>1, <1>2, <1>4
  <2> DEFINE bt == IsHere[PcHere].bt
  <2>2. /\ BlockStart(bt) \in Seq(ValType)
        /\ Vals(TsHere[PcHere + 1]) = Entering(IsHere, PcHere, Vals(TsHere[PcHere]))
        /\ Len(BlockStart(bt)) \in 0 .. Len(Vals(TsHere[PcHere + 1]))
        /\ OpAt(IsHere, PcHere) = "if" =>
             /\ Gives(TsHere[PcHere], Append(BlockStart(bt), "i32"))
             /\ Len(Vals(TsHere[PcHere])) > Len(BlockStart(bt))
    BY <1>2, <2>1, EnteringFits
  <2>3. bt = i.bt
    BY <1>1, Zenon
  <2> HIDE DEF bt, i
  <2> QED
    BY <1>1, <2>2, <2>3
<1>6. BlockParams(i.bt) = Len(BlockStart(i.bt))
  BY DEF BlockParams, BlockStart
<1>7. EndsOf(IsHere, PcHere) # {}
  BY <1>1, <1>2, EndOfOpened
<1> HIDE DEF i, p
<1>8. ASSUME i.op # "if" PROVE Len(vstack) >= BlockParams(i.bt)
  <2>1. Vals(TsHere[PcHere + 1]) = OpsHere
    BY <1>1, <1>4, <1>5, <1>8, Zenon DEF Entering
  <2> QED
    BY <1>1, <1>5, <1>6, <2>1
<1>9. ASSUME i.op = "if"
      PROVE  HasTop(<<"i32">>) /\ Len(vstack) > BlockParams(i.bt)
  <2> DEFINE S == BlockStart(i.bt)
             t == Append(S, "i32")
             W == SubSeq(Vals(p), 1, Len(Vals(p)) - Len(t))
             U == W \o S
  <2>1. t \in Seq(ValType) /\ Len(t) \in Nat
    BY <1>5, SomeValTypes
  <2>2. W \in Seq(ValType) /\ Vals(p) = W \o t
    BY <1>2, <1>4, <1>5, <1>9, <2>1, TopGiven
  <2>3. OpsHere = U \o <<"i32">> /\ U \in Seq(ValType)
    <3>1. t = S \o <<"i32">> /\ <<"i32">> \in Seq(ValType)
      BY <1>5, SomeValTypes, AppendIsConcat
    <3> HIDE DEF W, t, S
    <3> DEFINE m == <<"i32">>
    <3>2. S \in Seq(ValType) /\ m \in Seq(ValType)
      BY <1>5, <3>1 DEF S
    <3> HIDE DEF m
    <3>3. W \o (S \o m) = (W \o S) \o m
      BY <2>2, <3>2, ConcatAssociative, SMTT(40)
    <3>4. W \o S \in Seq(ValType)
      BY <2>2, <3>2
    <3> QED
      BY <1>4, <2>2, <3>1, <3>3, <3>4 DEF m
  <2>4. HasTop(<<"i32">>)
    <3> HIDE DEF U
    <3> QED
      BY <2>3, NumberOnTop
  <2> QED
    BY <1>1, <1>4, <1>5, <1>6, <1>9, <2>4
<1> QED
  BY <1>1, <1>7, <1>8, <1>9 DEF i

(* Where a block or a function is left there is enough to unwind.          *)
LEMMA LeavesSafely ==
  ASSUME RInv, Running
  PROVE  /\ Instr.op = "else" => Fr.labels # <<>>
         /\ Instr.op = "end" /\ Fr.labels # <<>> =>
              CanUnwind(vstack, Last(Fr.labels).sp, Last(Fr.labels).end_arity)
         /\ Instr.op = "end" /\ Fr.labels = <<>> => OpsHere = ResultsOf(FnHere)
         /\ Instr.op = "return" =>
              /\ Len(ResultsOf(FnHere)) \in 0 .. Len(OpsHere)
              /\ TopN(OpsHere, Len(ResultsOf(FnHere))) = ResultsOf(FnHere)
         /\ Instr.op = "return" \/ (Instr.op = "end" /\ Fr.labels = <<>>) =>
              CanUnwind(vstack, Fr.sp, Fr.arity)
<1> HIDE DEF Instruction
<1>1. /\ RunsAt /\ Instr.op = OpAt(IsHere, PcHere)
      /\ Len(vstack) = Base(Fr) + Len(OpsHere)
      /\ Len(OpsHere) \in Nat /\ Base(Fr) \in Nat
  BY InstrHere
<1>2. /\ Accepts(FnHere, IsHere, TsHere) /\ PcHere \in 1 .. Len(IsHere)
      /\ OpsHere \in Seq(ValType) /\ Fr.labels \in Seq(Label)
      /\ Arrived(IsHere, TsHere, PcHere, OpsHere, Fr.labels, Base(Fr))
  BY <1>1, Zenon DEF RunsAt
<1>3. Fr.arity = Len(ResultsOf(FnHere)) /\ Fr.sp \in 0 .. Base(Fr)
  BY <1>1, Zenon DEF RunsAt
<1>4. Instr.op = "else" => Fr.labels # <<>>
  BY <1>1, <1>2, ElseToEnd
<1>5. ASSUME Instr.op = "end", Fr.labels # <<>>
      PROVE  CanUnwind(vstack, Last(Fr.labels).sp, Last(Fr.labels).end_arity)
  <2>1. /\ Last(Fr.labels).sp - Base(Fr) \in 0 .. Len(OpsHere)
        /\ Last(Fr.labels).end_arity \in 0 .. Len(OpsHere)
        /\ Len(OpsHere) - Last(Fr.labels).end_arity >= Last(Fr.labels).sp - Base(Fr)
    <3>1. OpAt(IsHere, PcHere) = "end" /\ Base(Fr) \in Nat
      BY <1>1, <1>5
    <3> QED
      BY <1>2, <1>5, <3>1, EndOfBlock
  <2>2. Last(Fr.labels) \in Label
    BY <1>2, <1>5, FrontLast
  <2>3. Last(Fr.labels).sp \in Nat
    BY <2>2 DEF Label
  <2> QED
    BY <1>1, <2>1, <2>3 DEF CanUnwind
<1>6. Instr.op = "end" /\ Fr.labels = <<>> => OpsHere = ResultsOf(FnHere)
  BY <1>1, <1>2, EndOfFunction
<1>7. Instr.op = "return" =>
        /\ Len(ResultsOf(FnHere)) \in 0 .. Len(OpsHere)
        /\ TopN(OpsHere, Len(ResultsOf(FnHere))) = ResultsOf(FnHere)
  BY <1>1, <1>2, Returns
<1>8. ASSUME Instr.op = "return" \/ (Instr.op = "end" /\ Fr.labels = <<>>)
      PROVE  CanUnwind(vstack, Fr.sp, Fr.arity)
  <2>1. Len(ResultsOf(FnHere)) \in 0 .. Len(OpsHere)
    BY <1>1, <1>6, <1>7, <1>8
  <2> QED
    BY <1>1, <1>3, <2>1 DEF CanUnwind
<1> QED
  BY <1>4, <1>5, <1>6, <1>7, <1>8

-----------------------------------------------------------------------------
(* What an operator leaves of the operands: all below those it pops.       *)
Rest == SubSeq(OpsHere, 1, Len(OpsHere) - Len(Ins(FnHere, Instr)))

(* A call of f has its arguments on top of those, and above them more; the *)
(* results go on top of them.                                              *)
CallReady(f, more) ==
  /\ Rest \in Seq(ValType)
  /\ FuncTypeOf(f).params \in Seq(ValType) /\ FuncTypeOf(f).results \in Seq(ValType)
  /\ OpsHere = (Rest \o FuncTypeOf(f).params) \o more
  /\ Rest \o FuncTypeOf(f).results \in Seq(ValType)
  /\ Arrived(IsHere, TsHere, PcHere + 1, Rest \o FuncTypeOf(f).results,
             Fr.labels, Base(Fr))

LEMMA CallHere ==
  ASSUME RInv, Running
  PROVE  /\ Instr.op = "call" => Instr.x \in 0 .. FuncCount - 1 /\ CallReady(Instr.x, <<>>)
         /\ Instr.op = "call_indirect" =>
              \A f \in 0 .. FuncCount - 1 :
                FuncTypeOf(f) = At(Types, Instr.x) => CallReady(f, <<"i32">>)
<1> DEFINE i == Instr
           t == Ins(FnHere, i)
<1> HIDE DEF Instruction
<1>1. /\ RunsAt /\ i = IsHere[PcHere] /\ i.op = OpAt(IsHere, PcHere)
      /\ i \in Instruction
  BY InstrHere
<1>2. FnHere \in 1 .. Len(Funcs) /\ OpsHere \in Seq(ValType)
  BY <1>1, Zenon DEF RunsAt
<1>3. ASSUME i.op \in {"call", "call_indirect"}
      PROVE  /\ Immediates(FnHere, i) /\ t \in Seq(ValType)
             /\ Rest \in Seq(ValType) /\ OpsHere = Rest \o t
             /\ Rest \o Outs(FnHere, i) \in Seq(ValType)
             /\ Arrived(IsHere, TsHere, PcHere + 1, Rest \o Outs(FnHere, i),
                        Fr.labels, Base(Fr))
  <2>1. i.op \notin SpecialOps /\ i.op # "drop"
    BY <1>3 DEF SpecialOps, OpenOps, LabelOps
  <2>2. OperatorFound(FnHere, IsHere, TsHere, PcHere, OpsHere, Fr.labels, Base(Fr))
    BY <2>1, OperatorHere
  <2>3. /\ Immediates(FnHere, i) /\ Rest \in Seq(ValType)
        /\ Rest \o Outs(FnHere, i) \in Seq(ValType)
        /\ Arrived(IsHere, TsHere, PcHere + 1, Rest \o Outs(FnHere, i),
                   Fr.labels, Base(Fr))
    BY <1>1, <2>2, Zenon DEF OperatorFound, AfterOperator, Rest
  <2>4. OpAt(IsHere, PcHere) # "drop"
    BY <1>1, <2>1
  <2>5. t \in Seq(ValType) /\ OpsHere = Rest \o t
    <3>1. TakesTop(Ins(FnHere, IsHere[PcHere]), OpsHere)
      BY <1>2, <2>2, <2>4, OperandsOf
    <3> QED
      BY <1>1, <3>1, Zenon DEF Rest, TakesTop
  <2> QED
    BY <2>3, <2>5
<1>4. ASSUME i.op = "call"
      PROVE  i.x \in 0 .. FuncCount - 1 /\ CallReady(i.x, <<>>)
  <2> DEFINE ft == FuncTypeOf(i.x)
  <2>1. i.x \in Nat /\ i.x < FuncCount /\ FuncCount \in Nat /\ ft \in FuncType
    <3>1. i.x \in Nat
      BY <1>1, <1>4, IndexImmediate DEF IndexOps
    <3>2. i.x < FuncCount
      BY <1>3, <1>4 DEF Immediates
    <3>3. FuncCount \in Nat
      BY ModuleAssumption DEF FuncCount
    <3>4. ft \in FuncType
      BY <1>1, <1>2, <1>3, <1>4, IndexedValTypes
    <3> QED
      BY <3>1, <3>2, <3>3, <3>4
  <2>2. t = ft.params /\ Outs(FnHere, i) = ft.results
    BY <1>4 DEF Ins, Outs
  <2>3. ft.params \in Seq(ValType) /\ ft.results \in Seq(ValType)
    BY <2>1 DEF FuncType
  <2> HIDE DEF t, i
  <2>4. OpsHere = (Rest \o ft.params) \o <<>>
    <3> HIDE DEF ft
    <3> DEFINE P == Rest \o ft.params
    <3>1. P \in Seq(ValType) /\ OpsHere = P
      BY <1>3, <1>4, <2>2, <2>3
    <3> HIDE DEF P
    <3>2. P = P \o <<>>
      BY <3>1
    <3> QED
      BY <3>1, <3>2 DEF P
  <2>5. CallReady(i.x, <<>>)
    BY <1>3, <1>4, <2>2, <2>3, <2>4, Zenon DEF CallReady
  <2> QED
    BY <2>1, <2>5
<1>5. ASSUME i.op = "call_indirect", NEW f \in 0 .. FuncCount - 1,
             FuncTypeOf(f) = At(Types, i.x)
      PROVE  CallReady(f, <<"i32">>)
  <2> DEFINE ft == FuncTypeOf(f)
             m  == <<"i32">>
  <2>1. ft \in FuncType
    BY <1>1, <1>2, <1>3, <1>5, IndexedValTypes
  <2>2. t = Append(ft.params, "i32") /\ Outs(FnHere, i) = ft.results
    BY <1>5 DEF Ins, Outs
  <2>3. ft.params \in Seq(ValType) /\ ft.results \in Seq(ValType)
    BY <2>1 DEF FuncType
  <2> HIDE DEF t, i
  <2>4. OpsHere = (Rest \o ft.params) \o m
    <3>1. m \in Seq(ValType)
      BY SomeValTypes
    <3>2. t = ft.params \o m
      BY <2>2, <2>3, SomeValTypes, AppendIsConcat
    <3> HIDE DEF ft, m
    <3>3. Rest \o (ft.params \o m) = (Rest \o ft.params) \o m
      <4> DEFINE P == ft.params
      <4>1. Rest \in Seq(ValType) /\ P \in Seq(ValType)
        BY <1>3, <1>5, <2>3
      <4> HIDE DEF P
      <4>2. Rest \o (P \o m) = (Rest \o P) \o m
        BY <3>1, <4>1, ConcatAssociative, SMTT(40)
      <4> QED
        BY <4>2 DEF P
    <3>4. OpsHere = Rest \o t
      BY <1>3, <1>5
    <3> QED
      BY <3>2, <3>3, <3>4, Zenon
  <2> QED
    BY <1>3, <1>5, <2>2, <2>3, <2>4, Zenon DEF CallReady
<1> HIDE DEF i
<1>6. \A f \in 0 .. FuncCount - 1 :
        i.op = "call_indirect" /\ FuncTypeOf(f) = At(Types, i.x) => CallReady(f, <<"i32">>)
  BY <1>5
<1> QED
  BY <1>4, <1>6 DEF i

(* The arguments are there.                                                *)
LEMMA CallsSafely ==
  ASSUME RInv, Running
  PROVE  /\ Instr.op = "call" => CanCall(Instr.x, vstack)
         /\ Instr.op = "call_indirect" =>
              \A f \in 0 .. FuncCount - 1 :
                FuncTypeOf(f) = At(Types, Instr.x) => CanCall(f, Drop(vstack, 1))
<1>1. BelowHere \in Seq(ValType) /\ vstack = BelowHere \o OpsHere
  BY RunsHere, Zenon DEF RunsAt
<1>2. ASSUME NEW f, NEW V \in Seq(ValType), NEW P \in Seq(ValType),
             FuncTypeOf(f).params = P
      PROVE  CanCall(f, BelowHere \o (V \o P))
  <2>1. Len(V \o P) = Len(V) + Len(P) /\ V \o P \in Seq(ValType)
    BY OnTop
  <2> DEFINE Q == V \o P
  <2> HIDE DEF Q
  <2>2. Len(BelowHere \o Q) = Len(BelowHere) + Len(Q)
    BY <1>1, <2>1, OnTop DEF Q
  <2>3. Len(BelowHere \o Q) >= Len(P)
    BY <1>1, <2>1, <2>2 DEF Q
  <2> QED
    BY <1>2, <2>3 DEF CanCall, Q
<1>3. ASSUME Instr.op = "call" PROVE CanCall(Instr.x, vstack)
  <2> DEFINE P == FuncTypeOf(Instr.x).params
  <2>1. Rest \in Seq(ValType) /\ P \in Seq(ValType) /\ OpsHere = (Rest \o P) \o <<>>
    BY <1>3, CallHere, Zenon DEF CallReady
  <2>2. OpsHere = Rest \o P
    <3> DEFINE Q == Rest \o P
    <3> HIDE DEF P
    <3>1. Q \in Seq(ValType)
      BY <2>1
    <3> HIDE DEF Q
    <3>2. Q \o <<>> = Q
      BY <3>1
    <3> QED
      BY <2>1, <3>2 DEF Q
  <2> QED
    BY <1>1, <1>2, <2>1, <2>2
<1>4. ASSUME Instr.op = "call_indirect", NEW f \in 0 .. FuncCount - 1,
             FuncTypeOf(f) = At(Types, Instr.x)
      PROVE  CanCall(f, Drop(vstack, 1))
  <2> DEFINE P == FuncTypeOf(f).params
             W == Rest \o P
  <2>1. Rest \in Seq(ValType) /\ P \in Seq(ValType) /\ OpsHere = W \o <<"i32">>
    BY <1>4, CallHere, Zenon DEF CallReady
  <2>2. W \in Seq(ValType)
    BY <2>1, OnTop
  <2>3. Drop(vstack, 1) = BelowHere \o W
    <3> HIDE DEF W
    <3> QED
      BY <2>1, <2>2, NumberOnTop
  <2> QED
    BY <1>2, <2>1, <2>3
<1> QED
  BY <1>3, <1>4

-----------------------------------------------------------------------------
(* local.tee looks at the value it keeps, select at three.                 *)
LEMMA TeesSafely ==
  ASSUME RInv, Running, Instr.op \in {"local.set", "local.tee"}
  PROVE  Len(OpsHere) >= 1 /\ HasTop(<<"any">>)
<1> HIDE DEF Instruction
<1>1. /\ RunsAt /\ Instr = IsHere[PcHere]
      /\ Len(vstack) = Base(Fr) + Len(OpsHere)
      /\ Len(OpsHere) \in Nat /\ Base(Fr) \in Nat
  BY InstrHere
<1>2. Instr.op \notin SpecialOps
  BY DEF SpecialOps, OpenOps, LabelOps
<1>3. Len(Ins(FnHere, Instr)) \in 0 .. Len(OpsHere)
  BY <1>1, <1>2, OperatorHere, Zenon DEF OperatorFound
<1>4. Ins(FnHere, Instr) = <<LocalType(FnHere, Instr.x)>>
  BY DEF Ins
<1>5. Len(OpsHere) >= 1
  BY <1>1, <1>3, <1>4
<1> QED
  BY <1>1, <1>5 DEF HasTop

LEMMA SelectsSafely ==
  ASSUME RInv, Running, Instr.op \in {"select", "select_t"}
  PROVE  /\ SelectFound(IsHere, TsHere, PcHere, OpsHere, Fr.labels, Base(Fr))
         /\ HasTop(<<"any", "any", "i32">>)
<1> HIDE DEF Instruction
<1>1. /\ RunsAt /\ Instr.op = OpAt(IsHere, PcHere)
      /\ Len(vstack) = Base(Fr) + Len(OpsHere)
      /\ Len(OpsHere) \in Nat /\ Base(Fr) \in Nat
  BY InstrHere
<1>2. /\ BelowHere \in Seq(ValType) /\ Len(BelowHere) = Base(Fr)
      /\ OpsHere \in Seq(ValType) /\ vstack = BelowHere \o OpsHere
  BY <1>1, Zenon DEF RunsAt
<1>3. SelectFound(IsHere, TsHere, PcHere, OpsHere, Fr.labels, Base(Fr))
  <2>1. /\ FnHere \in 1 .. Len(Funcs) /\ Accepts(FnHere, IsHere, TsHere)
        /\ PcHere \in 1 .. Len(IsHere) /\ Fr.labels \in Seq(Label)
        /\ Arrived(IsHere, TsHere, PcHere, OpsHere, Fr.labels, Base(Fr))
    BY <1>1, Zenon DEF RunsAt
  <2>2. OpAt(IsHere, PcHere) \in {"select", "select_t"}
    BY <1>1
  <2> QED
    BY <1>2, <2>1, <2>2, SelectFinds
<1>4. Len(OpsHere) >= 3 /\ OpsHere[Len(OpsHere)] = "i32"
  BY <1>3, Zenon DEF SelectFound
<1>5. vstack[Len(vstack)] = "i32"
  <2>1. Len(OpsHere) \in 1 .. Len(OpsHere)
    BY <1>1, <1>4
  <2>2. vstack[Len(BelowHere) + Len(OpsHere)] = OpsHere[Len(OpsHere)]
    BY <1>2, <2>1, OnTop
  <2> QED
    BY <1>1, <1>2, <1>4, <2>2
<1>6. HasTop(<<"any", "any", "i32">>)
  <2> DEFINE u == <<"any", "any", "i32">>
  <2>1. Len(u) = 3 /\ u[1] = "any" /\ u[2] = "any" /\ u[3] = "i32"
    OBVIOUS
  <2> HIDE DEF u
  <2>2. \A k \in 1 .. Len(u) : u[k] = "any" \/ (k = 3 /\ u[k] = "i32")
    BY <2>1
  <2>3. Len(vstack) >= Len(u) /\ Len(vstack) - Len(u) + 3 = Len(vstack)
    BY <1>1, <1>4, <2>1
  <2>4. HasTop(u)
    BY <1>5, <2>2, <2>3 DEF HasTop
  <2> QED
    BY <2>4 DEF u
<1> QED
  BY <1>3, <1>6

(* Nothing the interpreter relies on fails.                                *)
LEMMA RunsSafely ==
  ASSUME RInv, Running
  PROVE  InBody /\ Safe(Instr)
<1> DEFINE i == Instr
<1> HIDE DEF Instruction
<1>1. /\ InBody /\ vstack = BelowHere \o OpsHere /\ OpsHere \in Seq(ValType)
      /\ i \in Instruction
  BY InstrHere, Zenon DEF RunsAt
<1>2. IndicesExist(i) /\ HasTop(Pops(i))
  BY IndicesHere, OperandsHere
<1>3. /\ i.op \in {"block", "loop"} => Len(vstack) >= BlockParams(i.bt)
      /\ i.op = "if" => HasTop(<<"i32">>) /\ Len(vstack) > BlockParams(i.bt)
      /\ i.op \in {"block", "if"} => EndsOf(BodyOf(Fr), Fr.pc + 1) # {}
  BY OpensSafely DEF OpenOps
<1>4. /\ i.op = "else" => Fr.labels # <<>>
      /\ i.op = "end" => IF Fr.labels = <<>>
                         THEN CanUnwind(vstack, Fr.sp, Fr.arity)
                         ELSE CanUnwind(vstack, Last(Fr.labels).sp,
                                        Last(Fr.labels).end_arity)
      /\ i.op = "return" => CanUnwind(vstack, Fr.sp, Fr.arity)
  BY LeavesSafely
<1>5. i.op = "br" => CanBranch(i.n, vstack)
  BY <1>1, BranchesHere, BranchAllowed
<1>6. ASSUME i.op \in {"br_if", "br_table"}
      PROVE  HasTop(<<"i32">>) /\ Drop(vstack, 1) = BelowHere \o Popped1
  <2>1. OpsHere = Popped1 \o <<"i32">>
    BY <1>6, BranchesHere
  <2>2. Popped1 \in Seq(ValType)
    <3>1. i.op = "br_if" => BranchGoes(i.n, Popped1)
      BY BranchesHere
    <3>2. i.op = "br_table" => BranchGoes(i.default, Popped1)
      BY BranchesHere
    <3>3. \A m : BranchGoes(m, Popped1) => Popped1 \in Seq(ValType)
      BY Zenon DEF BranchGoes, BranchArrives
    <3> QED
      BY <1>6, <3>1, <3>2, <3>3
  <2> QED
    BY <2>1, <2>2, NumberOnTop
<1>7. i.op = "br_if" => HasTop(<<"i32">>) /\ CanBranch(i.n, Drop(vstack, 1))
  BY <1>6, BranchesHere, BranchAllowed
<1>8. i.op = "br_table" =>
        /\ HasTop(<<"i32">>)
        /\ CanBranch(i.default, Drop(vstack, 1))
        /\ \A j \in DOMAIN i.labels : CanBranch(i.labels[j], Drop(vstack, 1))
  BY <1>6, BranchesHere, BranchAllowed
<1>9. i.op = "call" => CanCall(i.x, vstack)
  BY CallsSafely
<1>10. i.op = "call_indirect" =>
         /\ HasTop(<<"i32">>)
         /\ \A f \in 0 .. FuncCount - 1 :
              FuncTypeOf(f) = At(Types, i.x) => CanCall(f, Drop(vstack, 1))
  <2>1. ASSUME i.op = "call_indirect" PROVE HasTop(<<"i32">>)
    <3> DEFINE u == <<"i32">>
               t == Ins(FnHere, i)
    <3>1. i.op \notin SpecialOps
      BY <2>1 DEF SpecialOps, OpenOps, LabelOps
    <3>2. OperatorFound(FnHere, IsHere, TsHere, PcHere, OpsHere, Fr.labels, Base(Fr))
      BY <3>1, OperatorHere
    <3>3. OpAt(IsHere, PcHere) # "drop" /\ i = IsHere[PcHere]
      BY <2>1, InstrHere
    <3>4. FnHere \in 1 .. Len(Funcs) /\ Immediates(FnHere, i)
      BY <3>2, <3>3, RunsHere, Zenon DEF OperatorFound, RunsAt
    <3>5. TakesTop(Ins(FnHere, IsHere[PcHere]), OpsHere)
      BY <1>1, <3>2, <3>3, <3>4, OperandsOf
    <3>6. TakesTop(t, OpsHere)
      BY <3>3, <3>5, Zenon
    <3> DEFINE S == At(Types, i.x).params
    <3>7. t = Append(S, "i32")
      BY <2>1 DEF Ins
    <3>8. S \in Seq(ValType)
      <4>1. At(Types, i.x) \in FuncType
        BY <1>1, <2>1, <3>4, IndexedValTypes
      <4> QED
        BY <4>1 DEF FuncType
    <3> DEFINE W == SubSeq(OpsHere, 1, Len(OpsHere) - Len(t))
    <3>9. OpsHere = W \o t /\ W \in Seq(ValType)
      <4>1. W \in Seq(ValType)
        BY <3>2, <3>3, Zenon DEF OperatorFound
      <4> QED
        BY <3>6, <4>1, Zenon DEF TakesTop
    <3> HIDE DEF W, S, t
    <3>10. OpsHere = (W \o S) \o u /\ W \o S \in Seq(ValType)
      <4>1. t = S \o u /\ u \in Seq(ValType)
        BY <3>7, <3>8, SomeValTypes, AppendIsConcat
      <4> HIDE DEF u
      <4>2. W \o (S \o u) = (W \o S) \o u
        BY <3>8, <3>9, <4>1, ConcatAssociative, SMTT(40)
      <4>3. W \o S \in Seq(ValType)
        BY <3>8, <3>9
      <4> QED
        BY <3>9, <4>1, <4>2, <4>3
    <3> DEFINE R == W \o S
    <3> HIDE DEF R
    <3>11. R \in Seq(ValType) /\ OpsHere = R \o <<"i32">>
      BY <3>10 DEF R
    <3> QED
      BY <3>11, NumberOnTop
  <2> QED
    BY <2>1, CallsSafely
<1>11. /\ i.op = "local.tee" => HasTop(<<"any">>)
       /\ i.op \in {"select", "select_t"} => HasTop(<<"any", "any", "i32">>)
  BY TeesSafely, SelectsSafely
<1> HIDE DEF i
<1>12. Safe(i)
  BY <1>2, <1>3, <1>4, <1>5, <1>7, <1>8, <1>9, <1>10, <1>11, Zenon DEF Safe
<1> QED
  BY <1>1, <1>12 DEF i

-----------------------------------------------------------------------------
(* Calls that wait.                                                        *)

(* Stacks that agree up to a height have the same operands below it.       *)
LEMMA PartsAgree ==
  ASSUME NEW v \in Seq(ValType), NEW w \in Seq(ValType),
         NEW s \in Nat, s <= Len(v), s <= Len(w), SubSeq(w, 1, s) = SubSeq(v, 1, s),
         NEW a \in Nat \ {0}, NEW b \in Nat, b <= s
  PROVE  SubSeq(w, a, b) = SubSeq(v, a, b)
<1>1. \A k \in 1 .. s : w[k] = v[k]
  <2>1. s \in 0 .. Len(v) /\ s \in 0 .. Len(w)
    OBVIOUS
  <2>2. /\ \A k \in 1 .. s : SubSeq(w, 1, s)[k] = w[k]
        /\ \A k \in 1 .. s : SubSeq(v, 1, s)[k] = v[k]
    BY <2>1, Prefix
  <2> QED
    BY <2>2
<1>2. CASE b < a
  BY <1>2
<1>3. CASE a <= b
  <2> DEFINE x == SubSeq(w, a, b)
             y == SubSeq(v, a, b)
  <2>1. /\ x \in Seq(ValType) /\ y \in Seq(ValType)
        /\ Len(x) = b - a + 1 /\ Len(y) = b - a + 1
        /\ \A k \in 1 .. b - a + 1 : x[k] = w[a + k - 1] /\ y[k] = v[a + k - 1]
    BY <1>3
  <2>2. \A k \in 1 .. b - a + 1 : a + k - 1 \in 1 .. s
    BY <1>3
  <2>3. \A k \in 1 .. b - a + 1 : x[k] = y[k]
    BY <1>1, <2>1, <2>2
  <2> HIDE DEF x, y
  <2>4. x = y
    BY <2>1, <2>3, SeqEqual
  <2> QED
    BY <2>4 DEF x, y
<1> QED
  BY <1>2, <1>3

(* The frames of some calls, by position.                                  *)
LEMMA FramesAt ==
  ASSUME NEW fs \in Seq(GoodFrame), NEW k \in 1 .. Len(fs)
  PROVE  /\ fs[k] \in GoodFrame /\ fs[k].sp \in Nat /\ Base(fs[k]) \in Nat
         /\ fs[k].sp <= Base(fs[k])
<1>1. fs[k] \in GoodFrame
  <2> HIDE DEF GoodFrame
  <2> QED
    OBVIOUS
<1> QED
  BY <1>1, FrameFunction

(* What happens above the height of the callee does not matter.            *)
LEMMA WaitsOn ==
  ASSUME NEW fs \in Seq(GoodFrame), NEW v \in Seq(ValType), NEW w \in Seq(ValType),
         NEW s \in Nat, s <= Len(v), s <= Len(w), SubSeq(w, 1, s) = SubSeq(v, 1, s),
         NEW r, Waits(fs, v, s, r)
  PROVE  Waits(fs, w, s, r)
<1> HIDE DEF GoodFrame
<1>1. ASSUME NEW k \in 1 .. Len(fs)
      PROVE  OpsOf(fs, w, s, r, k) = OpsOf(fs, v, s, r, k)
  <2> DEFINE a == Base(fs[k]) + 1
  <2>1. a \in Nat \ {0}
    BY <1>1, FramesAt
  <2> HIDE DEF a
  <2>2. CASE k = Len(fs)
    <3>1. SubSeq(w, a, s) = SubSeq(v, a, s)
      BY <2>1, PartsAgree
    <3> QED
      BY <2>2, <3>1, Zenon DEF OpsOf, a
  <2>3. CASE k # Len(fs)
    <3> DEFINE b == fs[k + 1].sp
    <3>1. k + 1 \in 1 .. Len(fs)
      BY <1>1, <2>3
    <3>2. b \in Nat /\ b <= Base(fs[k + 1]) /\ Base(fs[k + 1]) \in Nat
      BY <3>1, FramesAt
    <3>3. Base(fs[k + 1]) <= s
      BY <3>1, Zenon DEF Waits
    <3> HIDE DEF b
    <3>4. SubSeq(w, a, b) = SubSeq(v, a, b)
      BY <2>1, <3>2, <3>3, PartsAgree
    <3> QED
      BY <2>3, <3>4, Zenon DEF OpsOf, a, b
  <2> QED
    BY <2>2, <2>3
<1> QED
  BY <1>1, Zenon DEF Waits

(* The calls below the innermost wait for that.                            *)
ResultsOfCall(fr) == FuncTypeOf(fr.func).results

LEMMA OpsBelow ==
  ASSUME NEW fs \in Seq(GoodFrame), NEW fr, NEW v, NEW s, NEW r,
         NEW k \in 1 .. Len(fs)
  PROVE  /\ OpsOf(Append(fs, fr), v, s, r, k) = OpsOf(fs, v, fr.sp, ResultsOfCall(fr), k)
         /\ Append(fs, fr)[k] = fs[k]
<1> HIDE DEF GoodFrame
<1> DEFINE gs == Append(fs, fr)
<1>1. /\ Len(gs) = Len(fs) + 1 /\ gs[Len(fs) + 1] = fr
      /\ \A j \in 1 .. Len(fs) : gs[j] = fs[j]
  OBVIOUS
<1>2. gs[k] = fs[k] /\ k # Len(gs)
  BY <1>1
<1> HIDE DEF gs
<1>3. CASE k = Len(fs)
  <2>1. gs[k + 1] = fr
    BY <1>1, <1>3
  <2> QED
    BY <1>2, <1>3, <2>1, Zenon DEF OpsOf, ResultsOfCall, gs
<1>4. CASE k # Len(fs)
  <2>1. gs[k + 1] = fs[k + 1]
    BY <1>1, <1>4
  <2> QED
    BY <1>2, <1>4, <2>1, Zenon DEF OpsOf, gs
<1> QED
  BY <1>3, <1>4, <1>2 DEF gs

LEMMA WaitsPop ==
  ASSUME NEW fs \in Seq(GoodFrame), NEW fr \in GoodFrame, NEW v, NEW s, NEW r,
         Waits(Append(fs, fr), v, s, r)
  PROVE  Waits(fs, v, fr.sp, ResultsOfCall(fr))
<1> DEFINE gs == Append(fs, fr)
           t == ResultsOfCall(fr)
<1> HIDE DEF GoodFrame
<1>1. /\ Len(gs) = Len(fs) + 1 /\ gs[Len(fs) + 1] = fr /\ Len(fs) \in Nat
      /\ \A j \in 1 .. Len(fs) : gs[j] = fs[j]
      /\ \A j \in 1 .. Len(fs) : j \in 1 .. Len(gs) /\ j < Len(gs)
      /\ Len(gs) \in 1 .. Len(gs)
  OBVIOUS
<1>2. \A k \in 1 .. Len(fs) : OpsOf(gs, v, s, r, k) = OpsOf(fs, v, fr.sp, t, k)
  BY OpsBelow
<1>3. /\ \A k \in 1 .. Len(gs) : Sound(gs[k], OpsOf(gs, v, s, r, k))
      /\ \A j, k \in 1 .. Len(gs) : j < k => Base(gs[j]) <= gs[k].sp
      /\ gs # <<>> => gs[1].sp = 0 /\ gs[1].func = entry
  BY Zenon DEF Waits
<1> HIDE DEF gs, t
<1>4. \A k \in 1 .. Len(fs) : Sound(fs[k], OpsOf(fs, v, fr.sp, t, k))
  BY <1>1, <1>2, <1>3
<1>5. \A j, k \in 1 .. Len(fs) : j < k => Base(fs[j]) <= fs[k].sp
  BY <1>1, <1>3
<1>6. \A k \in 1 .. Len(fs) : Base(fs[k]) <= fr.sp
  BY <1>1, <1>3
<1>7. fs # <<>> => fs[1].sp = 0 /\ fs[1].func = entry
  <2>1. ASSUME fs # <<>> PROVE fs[1].sp = 0 /\ fs[1].func = entry
    <3>1. 1 \in 1 .. Len(fs) /\ gs # <<>>
      BY <1>1, <2>1
    <3> QED
      BY <1>1, <1>3, <3>1
  <2> QED
    BY <2>1
<1> QED
  BY <1>4, <1>5, <1>6, <1>7, Zenon DEF Waits, t

(* And one more call.                                                      *)
LEMMA WaitsPush ==
  ASSUME NEW fs \in Seq(GoodFrame), NEW fr \in GoodFrame, NEW v, NEW s, NEW r,
         Waits(fs, v, fr.sp, ResultsOfCall(fr)),
         Sound(fr, SubSeq(v, Base(fr) + 1, s) \o r), Base(fr) <= s,
         NEW n \in Nat, n = s,
         fs = <<>> => fr.sp = 0 /\ fr.func = entry
  PROVE  Waits(Append(fs, fr), v, s, r)
<1> DEFINE gs == Append(fs, fr)
           t == ResultsOfCall(fr)
<1>0. fr.sp \in Nat /\ Base(fr) \in Nat /\ fr.sp <= Base(fr)
  BY FrameFunction
<1>00. \A k \in 1 .. Len(fs) : Base(fs[k]) \in Nat
  BY FramesAt
<1> HIDE DEF GoodFrame
<1>1. /\ Len(gs) = Len(fs) + 1 /\ gs[Len(fs) + 1] = fr /\ Len(fs) \in Nat
      /\ \A j \in 1 .. Len(fs) : gs[j] = fs[j]
      /\ \A j \in 1 .. Len(gs) : j \in 1 .. Len(fs) \/ j = Len(gs)
  OBVIOUS
<1>2. \A k \in 1 .. Len(fs) : OpsOf(gs, v, s, r, k) = OpsOf(fs, v, fr.sp, t, k)
  BY OpsBelow
<1>3. /\ \A k \in 1 .. Len(fs) : Sound(fs[k], OpsOf(fs, v, fr.sp, t, k))
      /\ \A j, k \in 1 .. Len(fs) : j < k => Base(fs[j]) <= fs[k].sp
      /\ \A k \in 1 .. Len(fs) : Base(fs[k]) <= fr.sp
      /\ fs # <<>> => fs[1].sp = 0 /\ fs[1].func = entry
  BY Zenon DEF Waits, t
<1> HIDE DEF gs, t
<1>4. OpsOf(gs, v, s, r, Len(gs)) = SubSeq(v, Base(fr) + 1, s) \o r
  BY <1>1, Zenon DEF OpsOf
<1>5. \A k \in 1 .. Len(gs) : Sound(gs[k], OpsOf(gs, v, s, r, k))
  <2>1. Sound(gs[Len(gs)], OpsOf(gs, v, s, r, Len(gs)))
    BY <1>1, <1>4
  <2>2. \A k \in 1 .. Len(fs) : Sound(gs[k], OpsOf(gs, v, s, r, k))
    BY <1>1, <1>2, <1>3
  <2> QED
    BY <1>1, <2>1, <2>2
<1>6. \A j, k \in 1 .. Len(gs) : j < k => Base(gs[j]) <= gs[k].sp
  <2>1. ASSUME NEW j \in 1 .. Len(gs), NEW k \in 1 .. Len(gs), j < k
        PROVE  Base(gs[j]) <= gs[k].sp
    <3>1. j \in 1 .. Len(fs)
      BY <1>1, <2>1
    <3>2. CASE k \in 1 .. Len(fs)
      BY <1>1, <1>3, <2>1, <3>1, <3>2
    <3>3. CASE k = Len(gs)
      BY <1>1, <1>3, <3>1, <3>3
    <3> QED
      BY <1>1, <2>1, <3>2, <3>3
  <2> QED
    BY <2>1
<1>7. \A k \in 1 .. Len(gs) : Base(gs[k]) <= s
  <2>1. \A k \in 1 .. Len(fs) : Base(fs[k]) <= s
    BY <1>0, <1>00, <1>3
  <2> QED
    BY <1>1, <2>1
<1>8. gs[1].sp = 0 /\ gs[1].func = entry
  <2>1. CASE fs = <<>>
    BY <1>1, <2>1
  <2>2. CASE fs # <<>>
    <3>1. 1 \in 1 .. Len(fs)
      BY <1>1, <2>2
    <3> QED
      BY <1>1, <1>3, <2>2, <3>1
  <2> QED
    BY <2>1, <2>2
<1> QED
  BY <1>5, <1>6, <1>7, <1>8, Zenon DEF Waits, gs

(* Two items at the end.                                                   *)
LEMMA AppendTwice ==
  ASSUME NEW S, NEW s \in Seq(S), NEW x \in S, NEW y \in S
  PROVE  Append(Append(s, x), y) = s \o <<x, y>>
  OBVIOUS

(* Concatenation is associative.                                           *)
LEMMA ValConcat ==
  \A a, b, d \in Seq(ValType) : a \o (b \o d) = (a \o b) \o d
<1> TAKE a, b, d \in Seq(ValType)
<1>1. a \in Seq(ValType) /\ b \in Seq(ValType) /\ d \in Seq(ValType)
  OBVIOUS
<1> QED
  BY <1>1, ConcatAssociative, SMTT(60)

(* The callee has left its results.                                        *)
LEMMA WaitsReturn ==
  ASSUME NEW fs \in Seq(GoodFrame), NEW v \in Seq(ValType), NEW s \in Nat,
         s <= Len(v), NEW r \in Seq(ValType), Waits(fs, v, s, r),
         NEW w, w = SubSeq(v, 1, s) \o r
  PROVE  Waits(fs, w, Len(w), <<>>)
<1> HIDE DEF GoodFrame
<1> DEFINE A == SubSeq(v, 1, s)
<1>1. A \in Seq(ValType) /\ Len(A) = s /\ w = A \o r
  BY Prefix
<1> HIDE DEF A
<1>2. w \in Seq(ValType) /\ Len(w) = s + Len(r) /\ Len(r) \in Nat
  BY <1>1, OnTop
<1>3. SubSeq(w, 1, s) = SubSeq(v, 1, s)
  <2>1. SubSeq(A \o r, 1, s) = SubSeq(A, 1, s)
    BY <1>1, SubSeqBelow
  <2>2. SubSeq(A, 1, s) = A
    BY <1>1, SubSeqFull
  <2> QED
    BY <1>1, <2>1, <2>2 DEF A
<1>4. Waits(fs, w, s, r)
  <2>1. s <= Len(w)
    BY <1>2
  <2> QED
    BY <1>2, <1>3, <2>1, WaitsOn
<1>5. ASSUME NEW k \in 1 .. Len(fs)
      PROVE  OpsOf(fs, w, Len(w), <<>>, k) = OpsOf(fs, w, s, r, k)
  <2>1. CASE k # Len(fs)
    BY <2>1, Zenon DEF OpsOf
  <2>2. CASE k = Len(fs)
    <3> DEFINE b == Base(fs[k])
               X == SubSeq(A, b + 1, s)
               Y == SubSeq(A, 1, b)
    <3>1. b \in Nat /\ b <= s
      BY <1>4, <1>5, FramesAt, Zenon DEF Waits
    <3> HIDE DEF b
    <3>2. b \in 0 .. Len(A)
      BY <1>1, <3>1
    <3>3. /\ X \in Seq(ValType) /\ Y \in Seq(ValType) /\ A = Y \o X /\ Len(Y) = b
      <4>1. /\ Y \in Seq(ValType) /\ Len(Y) = b
            /\ SubSeq(A, b + 1, Len(A)) \in Seq(ValType)
            /\ A = Y \o SubSeq(A, b + 1, Len(A))
        BY <1>1, <3>2, SplitAt, ZenonT(90)
      <4>2. SubSeq(A, b + 1, Len(A)) = X
        BY <1>1, Zenon
      <4> QED
        BY <4>1, <4>2, Zenon
    <3> HIDE DEF X, Y
    <3>4. w = Y \o (X \o r) /\ X \o r \in Seq(ValType)
      <4>1. Y \o (X \o r) = (Y \o X) \o r
        <5>1. X \in Seq(ValType) /\ Y \in Seq(ValType) /\ r \in Seq(ValType)
          BY <3>3
        <5> QED
          BY <5>1, ValConcat, ZenonT(90)
      <4>2. X \o r \in Seq(ValType)
        BY <3>3
      <4> QED
        BY <1>1, <3>3, <4>1, <4>2, Zenon
    <3>5. SubSeq(w, b + 1, Len(w)) = X \o r
      <4> DEFINE Z == X \o r
      <4>1. Z \in Seq(ValType) /\ w = Y \o Z
        BY <3>4
      <4> HIDE DEF Z
      <4>2. SubSeq(Y \o Z, Len(Y) + 1, Len(Y \o Z)) = Z
        <5>1. Y \in Seq(ValType) /\ Z \in Seq(ValType)
          BY <3>3, <4>1, Zenon
        <5> QED
          BY <5>1, AllOnTop, ZenonT(30)
      <4> QED
        BY <3>3, <4>1, <4>2, Zenon DEF Z
    <3>6. SubSeq(w, b + 1, s) = X
      <4>1. SubSeq(w, 1, s) = SubSeq(A, 1, s) /\ s <= Len(A)
        <5>1. SubSeq(A, 1, s) = A
          BY <1>1, SubSeqFull
        <5> QED
          BY <1>1, <1>3, <5>1 DEF A
      <4> DEFINE a == b + 1
      <4>2. a \in Nat \ {0} /\ s <= s /\ s <= Len(w) /\ w \in Seq(ValType)
        BY <1>2, <3>1
      <4>3. A \in Seq(ValType)
        BY <1>1
      <4> HIDE DEF a
      <4>4. SubSeq(w, a, s) = SubSeq(A, a, s)
        BY <4>1, <4>2, <4>3, PartsAgree
      <4> QED
        BY <4>4 DEF X, a
    <3>7. (X \o r) \o <<>> = X \o r
      <4> DEFINE Z == X \o r
      <4>1. Z \in Seq(ValType)
        BY <3>4
      <4> HIDE DEF Z
      <4>2. Z \o <<>> = Z
        BY <4>1
      <4> QED
        BY <4>2 DEF Z
    <3> QED
      BY <2>2, <3>5, <3>6, <3>7, Zenon DEF OpsOf, b
  <2> QED
    BY <2>1, <2>2
<1>6. \A k \in 1 .. Len(fs) : Base(fs[k]) <= Len(w)
  <2>1. \A k \in 1 .. Len(fs) : Base(fs[k]) <= s /\ Base(fs[k]) \in Nat
    BY <1>4, FramesAt DEF Waits
  <2> QED
    BY <1>2, <2>1
<1> QED
  BY <1>4, <1>5, <1>6, Zenon DEF Waits

-----------------------------------------------------------------------------
(* What a step does to the calls.                                          *)

(* The callers of the innermost call.                                      *)
Outside == Front(frames)

(* fr is the innermost call, further on or back in its body.               *)
SameCall(fr) ==
  /\ fr.func = Fr.func /\ fr.sp = Fr.sp
  /\ fr.arity = Fr.arity /\ fr.locals = Fr.locals

(* It computes and goes on with the operands W.                            *)
LocalGoes(fr, W) ==
  /\ SameCall(fr) /\ W \in Seq(ValType)
  /\ Arrived(IsHere, TsHere, fr.pc + 1, W, fr.labels, Base(Fr))

LocalMove(fr, W) ==
  /\ LocalGoes(fr, W)
  /\ frames' = Append(Outside, fr)
  /\ vstack' = BelowHere \o W
  /\ UNCHANGED <<status, entry, code, typing>>

(* It calls nf: its arguments, and more above them, leave its operands.    *)
Entry(f, nf) ==
  /\ nf.func = f /\ nf.labels = <<>> /\ nf.pc = 0
  /\ nf.arity = Len(FuncTypeOf(f).results)
  /\ nf.locals = LocalTypes(f - Len(Imports) + 1)

CallGoes(f, more, fr, nf) ==
  /\ ~IsImport(f) /\ CallReady(f, more)
  /\ SameCall(fr) /\ fr.labels = Fr.labels /\ fr.pc = PcHere
  /\ Entry(f, nf) /\ nf.sp = Len(BelowHere \o Rest)

CalledStack(f) == (BelowHere \o Rest) \o FuncTypeOf(f).params

CallMove(f, more, fr, nf) ==
  /\ CallGoes(f, more, fr, nf)
  /\ frames' = Append(Append(Outside, fr), nf)
  /\ vstack' = CalledStack(f)
  /\ UNCHANGED <<status, entry, code, typing>>

(* It hands its results to its caller.                                     *)
LeftStack == SubSeq(BelowHere, 1, Fr.sp) \o ResultsOf(FnHere)

LeaveMove ==
  /\ frames' = Outside
  /\ vstack' = LeftStack
  /\ UNCHANGED <<status, entry, code, typing>>

(* The callers wait.                                                       *)
LEMMA OutsideWaits ==
  ASSUME RInv, Running
  PROVE  /\ Outside \in Seq(GoodFrame) /\ Fr \in GoodFrame
         /\ frames = Append(Outside, Fr)
         /\ Waits(Outside, vstack, Fr.sp, ResultsOfCall(Fr))
         /\ ResultsOfCall(Fr) = ResultsOf(FnHere)
         /\ ResultsOf(FnHere) \in Seq(ValType)
         /\ Outside = <<>> => Fr.sp = 0 /\ Fr.func = entry
<1> HIDE DEF GoodFrame
<1>1. frames \in Seq(GoodFrame) /\ frames # <<>>
  BY DEF RInv, XInv, Running
<1>2. /\ Outside \in Seq(GoodFrame) /\ Fr \in GoodFrame
      /\ frames = Append(Outside, Fr)
  <2>1. /\ Front(frames) \in Seq(GoodFrame) /\ Last(frames) \in GoodFrame
        /\ Len(Front(frames)) = Len(frames) - 1 /\ Len(frames) \in Nat \ {0}
    BY <1>1, FrontLast
  <2>2. frames = Append(Front(frames), Last(frames))
    BY <1>1 DEF Front, Last
  <2> QED
    BY <2>1, <2>2, Zenon DEF Outside, Fr
<1>3. Waits(frames, vstack, Len(vstack), <<>>)
  BY DEF RInv, CInv
<1>4. Waits(Outside, vstack, Fr.sp, ResultsOfCall(Fr))
  <2>1. Waits(Append(Outside, Fr), vstack, Len(vstack), <<>>)
    BY <1>2, <1>3, Zenon
  <2> QED
    BY <1>2, <2>1, WaitsPop
<1>5. /\ ResultsOfCall(Fr) = ResultsOf(FnHere) /\ ResultsOf(FnHere) \in Seq(ValType)
  BY <1>2, FrameFunction DEF ResultsOfCall, FnHere
<1>6. ASSUME Outside = <<>> PROVE Fr.sp = 0 /\ Fr.func = entry
  <2>1. frames[1].sp = 0 /\ frames[1].func = entry
    BY <1>1, <1>3, Zenon DEF Waits
  <2>2. frames[1] = Fr
    BY <1>2, <1>6
  <2> QED
    BY <2>1, <2>2
<1> QED
  BY <1>2, <1>4, <1>5, <1>6

(* And they go on waiting.                                                 *)
LEMMA OutsideKept ==
  ASSUME RInv, Running, NEW w \in Seq(ValType), Fr.sp <= Len(w),
         SubSeq(w, 1, Fr.sp) = SubSeq(BelowHere, 1, Fr.sp)
  PROVE  /\ Waits(Outside, w, Fr.sp, ResultsOfCall(Fr))
         /\ SubSeq(w, 1, Fr.sp) = SubSeq(vstack, 1, Fr.sp)
<1> HIDE DEF GoodFrame
<1>1. /\ BelowHere \in Seq(ValType) /\ OpsHere \in Seq(ValType)
      /\ vstack = BelowHere \o OpsHere
      /\ Len(BelowHere) = Base(Fr)
  BY RunsHere, Zenon DEF RunsAt
<1>2. Base(Fr) \in Nat /\ Fr.sp \in 0 .. Base(Fr)
  BY RunsHere, Zenon DEF RunsAt
<1>3. Len(vstack) = Len(BelowHere) + Len(OpsHere) /\ vstack \in Seq(ValType)
  BY <1>1, OnTop
<1> DEFINE s == Fr.sp
<1>4. s \in Nat /\ s \in 0 .. Len(BelowHere) /\ s <= Len(vstack)
  BY <1>1, <1>2, <1>3
<1> HIDE DEF s
<1>5. SubSeq(BelowHere \o OpsHere, 1, s) = SubSeq(BelowHere, 1, s)
  BY <1>1, <1>4, SubSeqBelow
<1>6. SubSeq(w, 1, s) = SubSeq(vstack, 1, s)
  BY <1>1, <1>5 DEF s
<1>7. Waits(Outside, w, s, ResultsOfCall(Fr))
  <2>1. Outside \in Seq(GoodFrame) /\ Waits(Outside, vstack, s, ResultsOfCall(Fr))
    BY OutsideWaits DEF s
  <2>2. s <= Len(w)
    BY DEF s
  <2> QED
    BY <1>3, <1>4, <1>6, <2>1, <2>2, WaitsOn
<1> QED
  BY <1>6, <1>7 DEF s

(* A stack that is BelowHere with anything on top.                         *)
LEMMA OnTopHere ==
  ASSUME RInv, Running, NEW W \in Seq(ValType)
  PROVE  /\ BelowHere \o W \in Seq(ValType)
         /\ Len(BelowHere \o W) = Base(Fr) + Len(W)
         /\ SubSeq(BelowHere \o W, 1, Fr.sp) = SubSeq(BelowHere, 1, Fr.sp)
         /\ Fr.sp <= Len(BelowHere \o W) /\ Base(Fr) <= Len(BelowHere \o W)
         /\ SubSeq(BelowHere \o W, Base(Fr) + 1, Len(BelowHere \o W)) = W
<1>1. /\ BelowHere \in Seq(ValType) /\ Len(BelowHere) = Base(Fr)
  BY RunsHere, Zenon DEF RunsAt
<1>2. Base(Fr) \in Nat /\ Fr.sp \in 0 .. Base(Fr)
  BY RunsHere, Zenon DEF RunsAt
<1>3. BelowHere \o W \in Seq(ValType) /\ Len(BelowHere \o W) = Len(BelowHere) + Len(W)
  BY <1>1, OnTop
<1> DEFINE s == Fr.sp
<1>4. s \in 0 .. Len(BelowHere) /\ Len(W) \in Nat
  BY <1>1, <1>2
<1> HIDE DEF s
<1>5. SubSeq(BelowHere \o W, 1, s) = SubSeq(BelowHere, 1, s)
  BY <1>1, <1>4, SubSeqBelow
<1>6. SubSeq(BelowHere \o W, Len(BelowHere) + 1, Len(BelowHere \o W)) = W
  BY <1>1, AllOnTop
<1> QED
  BY <1>1, <1>2, <1>3, <1>4, <1>5, <1>6, SMTT(40) DEF s

(* The innermost call has moved on: it and its callers are where they      *)
(* should be.                                                              *)
LEMMA LocalWaits ==
  ASSUME RInv, Running, NEW fr \in GoodFrame, NEW W, LocalGoes(fr, W)
  PROVE  Waits(Append(Outside, fr), BelowHere \o W, Len(BelowHere \o W), <<>>)
<1> DEFINE w == BelowHere \o W
<1> HIDE DEF GoodFrame
<1>1. SameCall(fr) /\ W \in Seq(ValType)
      /\ Arrived(IsHere, TsHere, fr.pc + 1, W, fr.labels, Base(Fr))
  BY Zenon DEF LocalGoes
<1>2. /\ w \in Seq(ValType) /\ Fr.sp <= Len(w) /\ Base(Fr) <= Len(w)
      /\ SubSeq(w, 1, Fr.sp) = SubSeq(BelowHere, 1, Fr.sp)
      /\ SubSeq(w, Base(Fr) + 1, Len(w)) = W
  BY <1>1, OnTopHere
<1> HIDE DEF w
<1>3. fr.sp = Fr.sp /\ Base(fr) = Base(Fr) /\ ResultsOfCall(fr) = ResultsOfCall(Fr)
      /\ CodeIndex(fr) = FnHere
  BY <1>1, Zenon DEF SameCall, Base, ResultsOfCall, CodeIndex, FnHere
<1>4. Waits(Outside, w, fr.sp, ResultsOfCall(fr))
  BY <1>2, <1>3, OutsideKept
<1>5. Sound(fr, SubSeq(w, Base(fr) + 1, Len(w)) \o <<>>)
  <2>1. W \o <<>> = W
    BY <1>1
  <2>2. SubSeq(w, Base(fr) + 1, Len(w)) \o <<>> = W
    BY <1>2, <1>3, <2>1
  <2>3. Fr.arity = Len(ResultsOf(FnHere)) /\ Fr.locals = LocalTypes(FnHere)
    BY RunsHere, Zenon DEF RunsAt
  <2>4. Sound(fr, W)
    BY <1>1, <1>3, <2>3, Zenon DEF Sound, SameCall, IsHere, TsHere
  <2> QED
    BY <2>2, <2>4, Zenon
<1>6. Outside \in Seq(GoodFrame) /\ (Outside = <<>> => fr.sp = 0 /\ fr.func = entry)
  BY <1>1, <1>3, OutsideWaits DEF SameCall
<1>7. Len(w) \in Nat /\ Base(fr) <= Len(w)
  BY <1>2, <1>3
<1>8. Waits(Append(Outside, fr), w, Len(w), <<>>)
  BY <1>4, <1>5, <1>6, <1>7, WaitsPush
<1> QED
  BY <1>8 DEF w

(* The innermost call has called another.                                  *)
LEMMA CallWaits ==
  ASSUME RInv, Running, NEW fr \in GoodFrame, NEW nf \in GoodFrame,
         NEW f, NEW more, CallGoes(f, more, fr, nf)
  PROVE  Waits(Append(Append(Outside, fr), nf), CalledStack(f),
               Len(CalledStack(f)), <<>>)
<1> DEFINE w == CalledStack(f)
           P == FuncTypeOf(f).params
           R == FuncTypeOf(f).results
           B == BelowHere \o Rest
<1> HIDE DEF GoodFrame
<1>1. /\ SameCall(fr) /\ fr.labels = Fr.labels /\ fr.pc = PcHere
      /\ Entry(f, nf) /\ nf.sp = Len(B)
      /\ Rest \in Seq(ValType) /\ P \in Seq(ValType) /\ R \in Seq(ValType)
      /\ Rest \o R \in Seq(ValType)
      /\ Arrived(IsHere, TsHere, PcHere + 1, Rest \o R, Fr.labels, Base(Fr))
  BY Zenon DEF CallGoes, CallReady
<1>2. /\ B \in Seq(ValType) /\ Len(B) = Base(Fr) + Len(Rest)
      /\ SubSeq(B, 1, Fr.sp) = SubSeq(BelowHere, 1, Fr.sp)
      /\ Fr.sp <= Len(B) /\ Base(Fr) <= Len(B)
      /\ SubSeq(B, Base(Fr) + 1, Len(B)) = Rest
  BY <1>1, OnTopHere
<1>3. Base(Fr) \in Nat /\ Fr.sp \in 0 .. Base(Fr)
  BY RunsHere, Zenon DEF RunsAt
<1>4. /\ fr.sp = Fr.sp /\ Base(fr) = Base(Fr) /\ ResultsOfCall(fr) = ResultsOfCall(Fr)
      /\ CodeIndex(fr) = FnHere
      /\ ResultsOfCall(nf) = R /\ Base(nf) = Len(B) + Len(P)
      /\ CodeIndex(nf) = f - Len(Imports) + 1
  BY <1>1, Zenon DEF SameCall, Base, ResultsOfCall, CodeIndex, FnHere, Entry
<1> HIDE DEF B, P, R
<1>5. w = B \o P
  BY DEF B, P, CalledStack
<1> HIDE DEF w
<1>6. /\ w \in Seq(ValType) /\ Len(w) = Len(B) + Len(P) /\ Len(P) \in Nat
      /\ SubSeq(w, 1, Len(B)) = B /\ Len(B) \in Nat
  <2>1. w \in Seq(ValType) /\ Len(w) = Len(B) + Len(P)
    <3>1. B \o P \in Seq(ValType) /\ Len(B \o P) = Len(B) + Len(P)
      <4>1. B \in Seq(ValType) /\ P \in Seq(ValType)
        BY <1>1, <1>2
      <4> QED
        BY <4>1, OnTop
    <3> QED
      BY <1>5, <3>1, Zenon
  <2>2. SubSeq(B \o P, 1, Len(B)) = SubSeq(B, 1, Len(B)) /\ SubSeq(B, 1, Len(B)) = B
    <3>1. Len(B) \in 0 .. Len(B)
      BY <1>2
    <3> QED
      BY <1>1, <1>2, <3>1, SubSeqBelow, SubSeqFull
  <2> QED
    BY <1>1, <1>2, <1>5, <2>1, <2>2
<1>7. Waits(Outside, w, fr.sp, ResultsOfCall(fr))
  <2> DEFINE s == Fr.sp
  <2>1. s \in 0 .. Len(B)
    BY <1>2, <1>3
  <2> HIDE DEF s
  <2>2. SubSeq(B \o P, 1, s) = SubSeq(B, 1, s)
    BY <1>1, <1>2, <2>1, SubSeqBelow
  <2>3. SubSeq(w, 1, Fr.sp) = SubSeq(BelowHere, 1, Fr.sp)
    BY <1>2, <1>5, <2>2 DEF s
  <2>4. Fr.sp <= Len(w)
    BY <1>2, <1>3, <1>6
  <2> QED
    BY <1>4, <1>6, <2>3, <2>4, OutsideKept
<1>8. Sound(fr, SubSeq(w, Base(fr) + 1, nf.sp) \o R)
  <2> DEFINE a == Base(fr) + 1
             n == Len(B)
  <2>1. a \in Nat \ {0} /\ n \in Nat /\ n <= n /\ n <= Len(w)
    BY <1>3, <1>4, <1>6
  <2>2. SubSeq(w, 1, n) = SubSeq(B, 1, n)
    BY <1>2, <1>6, SubSeqFull
  <2> HIDE DEF a
  <2>3. SubSeq(w, a, n) = SubSeq(B, a, n)
    <3> HIDE DEF n
    <3>1. n <= Len(B) /\ B \in Seq(ValType) /\ w \in Seq(ValType)
      BY <1>2, <1>6, <2>1 DEF n
    <3>2. /\ a \in Nat \ {0} /\ n \in Nat /\ n <= n /\ n <= Len(w)
          /\ SubSeq(w, 1, n) = SubSeq(B, 1, n)
      BY <2>1, <2>2
    <3> QED
      BY <2>1, <2>2, <3>1, <3>2, PartsAgree
  <2>4. SubSeq(w, Base(fr) + 1, nf.sp) = Rest
    BY <1>1, <1>2, <1>4, <2>3, Zenon DEF a, B
  <2>5. Fr.arity = Len(ResultsOf(FnHere)) /\ Fr.locals = LocalTypes(FnHere)
    BY RunsHere, Zenon DEF RunsAt
  <2>6. Sound(fr, Rest \o R)
    <3>1. Arrived(IsHere, TsHere, fr.pc + 1, Rest \o R, fr.labels, Base(fr))
      BY <1>1, <1>4, Zenon
    <3> QED
      BY <1>1, <1>4, <2>5, <3>1, Zenon DEF Sound, SameCall, IsHere, TsHere
  <2> QED
    BY <2>4, <2>6, Zenon
<1>9. Outside \in Seq(GoodFrame) /\ (Outside = <<>> => fr.sp = 0 /\ fr.func = entry)
  BY <1>1, <1>4, OutsideWaits DEF SameCall
<1>10. Waits(Append(Outside, fr), w, nf.sp, ResultsOfCall(nf))
  <2>1. nf.sp \in Nat /\ Base(fr) <= nf.sp
    BY <1>1, <1>2, <1>4, <1>6 DEF B
  <2> QED
    BY <1>4, <1>7, <1>8, <1>9, <2>1, WaitsPush
<1>11. Sound(nf, SubSeq(w, Base(nf) + 1, Len(w)) \o <<>>)
  <2> DEFINE n == Len(w)
  <2>1. SubSeq(w, n + 1, n) \o <<>> = <<>>
    BY <1>6
  <2>2. Base(nf) = n
    BY <1>4, <1>6
  <2> DEFINE c == CodeIndex(nf)
  <2>3. c \in 1 .. Len(Funcs) /\ ResultsOf(c) = R
    BY <1>4, FrameFunction DEF ResultsOfCall
  <2>4. Accepts(c, code[c], typing[c])
    <3>1. HInv /\ Len(code) = Len(Funcs)
      BY DEF RInv, HInv, XInv, Running, Loaded
    <3> QED
      BY <2>3, <3>1 DEF HInv
  <2>5. Arrived(code[c], typing[c], 1, <<>>, <<>>, Base(nf))
    BY <2>4, Starts
  <2>6. nf.labels = <<>> /\ nf.pc + 1 = 1 /\ nf.arity = Len(ResultsOf(c))
        /\ nf.locals = LocalTypes(c)
    BY <1>1, <1>4, <2>3 DEF Entry, R
  <2>7. Sound(nf, <<>>)
    BY <2>5, <2>6, Zenon DEF Sound
  <2> QED
    BY <2>1, <2>2, <2>7, Zenon
<1>12. Append(Outside, fr) \in Seq(GoodFrame) /\ Append(Outside, fr) # <<>>
  BY <1>9
<1>13. Len(w) \in Nat /\ Base(nf) <= Len(w)
  BY <1>4, <1>6
<1> DEFINE fs == Append(Outside, fr)
<1> HIDE DEF fs
<1>14. Waits(Append(fs, nf), w, Len(w), <<>>)
  <2>1. fs \in Seq(GoodFrame) /\ fs # <<>> /\ Waits(fs, w, nf.sp, ResultsOfCall(nf))
    BY <1>10, <1>12 DEF fs
  <2> QED
    BY <1>11, <1>13, <2>1, WaitsPush
<1> QED
  BY <1>14 DEF fs, w

(* The innermost call has returned: to its caller, or for good.            *)
LEMMA LeaveWaits ==
  ASSUME RInv, Running
  PROVE  /\ Waits(Outside, LeftStack, Len(LeftStack), <<>>)
         /\ Outside = <<>> => LeftStack = FuncTypeOf(entry).results
<1> DEFINE w == LeftStack
<1> HIDE DEF GoodFrame
<1>1. /\ Outside \in Seq(GoodFrame) /\ Waits(Outside, vstack, Fr.sp, ResultsOfCall(Fr))
      /\ ResultsOfCall(Fr) = ResultsOf(FnHere) /\ ResultsOf(FnHere) \in Seq(ValType)
      /\ Outside = <<>> => Fr.sp = 0 /\ Fr.func = entry
  BY OutsideWaits
<1>2. /\ OpsHere \in Seq(ValType) /\ BelowHere \in Seq(ValType)
      /\ vstack = BelowHere \o OpsHere
  BY RunsHere, Zenon DEF RunsAt
<1>3. /\ vstack \in Seq(ValType)
      /\ SubSeq(vstack, 1, Fr.sp) = SubSeq(BelowHere, 1, Fr.sp) /\ Fr.sp <= Len(vstack)
  BY <1>2, OnTopHere
<1>4. Fr.sp \in Nat
  <2>1. Fr.sp \in 0 .. Base(Fr) /\ Base(Fr) \in Nat
    BY RunsHere, Zenon DEF RunsAt
  <2> QED
    BY <2>1
<1> DEFINE s == Fr.sp
           r == ResultsOf(FnHere)
<1> HIDE DEF s, r
<1>5. w = SubSeq(vstack, 1, s) \o r
  BY <1>3, Zenon DEF s, r, LeftStack
<1> HIDE DEF w
<1>6. Waits(Outside, w, Len(w), <<>>)
  <2>1. /\ s \in Nat /\ s <= Len(vstack) /\ r \in Seq(ValType)
        /\ Waits(Outside, vstack, s, r)
    BY <1>1, <1>3, <1>4 DEF s, r
  <2> QED
    BY <1>1, <1>3, <1>5, <2>1, WaitsReturn
<1>7. ASSUME Outside = <<>> PROVE w = FuncTypeOf(entry).results
  <2>1. s = 0 /\ r = FuncTypeOf(entry).results
    BY <1>1, <1>7 DEF s, r, ResultsOfCall
  <2>2. SubSeq(vstack, 1, s) = <<>>
    BY <1>3, <2>1
  <2>3. <<>> \o r = r
    BY <1>1 DEF r
  <2> QED
    BY <1>5, <2>1, <2>2, <2>3, Zenon
<1> QED
  BY <1>6, <1>7 DEF w

-----------------------------------------------------------------------------
(* Such steps keep the invariant.                                          *)

(* The bodies and their typing stay, and so does the invoked function.     *)
LEMMA WaitsNext ==
  ASSUME UNCHANGED <<entry, code, typing>>,
         Waits(frames', vstack', Len(vstack'), <<>>)
  PROVE  Waits(frames, vstack, Len(vstack), <<>>)'
<1>1. entry' = entry /\ code' = code /\ typing' = typing
  OBVIOUS
<1>2. \A fr, ops : Sound(fr, ops) =>
        /\ Arrived(code'[CodeIndex(fr)], typing'[CodeIndex(fr)], fr.pc + 1, ops,
                   fr.labels, Base(fr))
        /\ fr.arity = Len(ResultsOf(CodeIndex(fr)))
        /\ fr.locals = LocalTypes(CodeIndex(fr))
  BY <1>1, Zenon DEF Sound
<1> QED
  BY <1>1, <1>2, Zenon DEF Waits, Sound

LEMMA LocalKeeps ==
  ASSUME RInv, Running, XInv', NEW fr, NEW W, LocalMove(fr, W)
  PROVE  CInv'
<1> HIDE DEF GoodFrame
<1>1. /\ frames' = Append(Outside, fr) /\ vstack' = BelowHere \o W
      /\ LocalGoes(fr, W) /\ UNCHANGED <<status, entry, code, typing>>
  BY Zenon DEF LocalMove
<1>2. frames' # <<>> /\ fr \in GoodFrame
  <2>1. frames' \in Seq(GoodFrame)
    BY DEF XInv
  <2>2. Outside \in Seq(GoodFrame)
    BY OutsideWaits
  <2>3. Len(frames') = Len(Outside) + 1 /\ frames'[Len(Outside) + 1] = fr
    BY <1>1, <2>2
  <2> QED
    BY <2>1, <2>2, <2>3
<1>3. Waits(frames', vstack', Len(vstack'), <<>>)
  <2>1. Waits(Append(Outside, fr), BelowHere \o W, Len(BelowHere \o W), <<>>)
    BY <1>1, <1>2, LocalWaits
  <2> QED
    BY <1>1, <2>1, Zenon
<1>4. Waits(frames, vstack, Len(vstack), <<>>)'
  BY <1>1, <1>3, WaitsNext
<1>5. ResultsMatchType'
  BY <1>2 DEF ResultsMatchType
<1> QED
  BY <1>4, <1>5 DEF CInv

LEMMA CallKeeps ==
  ASSUME RInv, Running, XInv', NEW f, NEW more, NEW fr, NEW nf,
         CallMove(f, more, fr, nf)
  PROVE  CInv'
<1> HIDE DEF GoodFrame
<1>1. /\ frames' = Append(Append(Outside, fr), nf) /\ vstack' = CalledStack(f)
      /\ CallGoes(f, more, fr, nf) /\ UNCHANGED <<status, entry, code, typing>>
  BY Zenon DEF CallMove
<1>2. frames' # <<>> /\ fr \in GoodFrame /\ nf \in GoodFrame
  <2>1. frames' \in Seq(GoodFrame)
    BY DEF XInv
  <2>2. Outside \in Seq(GoodFrame)
    BY OutsideWaits
  <2> DEFINE n == Len(Outside)
  <2>3. /\ Len(frames') = n + 2 /\ n \in Nat
        /\ frames'[n + 1] = fr /\ frames'[n + 2] = nf
    BY <1>1, <2>2
  <2> HIDE DEF n
  <2> QED
    BY <2>1, <2>3
<1>3. Waits(frames', vstack', Len(vstack'), <<>>)
  <2>1. Waits(Append(Append(Outside, fr), nf), CalledStack(f), Len(CalledStack(f)), <<>>)
    BY <1>1, <1>2, CallWaits
  <2> QED
    BY <1>1, <2>1, Zenon
<1>4. Waits(frames, vstack, Len(vstack), <<>>)'
  BY <1>1, <1>3, WaitsNext
<1>5. ResultsMatchType'
  BY <1>2 DEF ResultsMatchType
<1> QED
  BY <1>4, <1>5 DEF CInv

LEMMA LeaveKeeps ==
  ASSUME RInv, Running, LeaveMove
  PROVE  CInv'
<1>1. /\ frames' = Outside /\ vstack' = LeftStack
      /\ UNCHANGED <<status, entry, code, typing>>
  BY Zenon DEF LeaveMove
<1>2. /\ Waits(Outside, LeftStack, Len(LeftStack), <<>>)
      /\ Outside = <<>> => LeftStack = FuncTypeOf(entry).results
  BY LeaveWaits
<1>3. Waits(frames', vstack', Len(vstack'), <<>>)
  BY <1>1, <1>2, Zenon
<1>4. Waits(frames, vstack, Len(vstack), <<>>)'
  BY <1>1, <1>3, WaitsNext
<1>5. ResultsMatchType'
  BY <1>1, <1>2 DEF ResultsMatchType
<1> QED
  BY <1>4, <1>5 DEF CInv

(* With no calls there is nothing to keep but the results.                 *)
LEMMA NoCalls ==
  ASSUME frames' = <<>>, status' = "running" => vstack' = FuncTypeOf(entry').results
  PROVE  CInv'
<1>1. Len(<<>>) = 0 /\ 1 .. 0 = {}
  OBVIOUS
<1>2. Waits(frames, vstack, Len(vstack), <<>>)'
  <2>1. Len(frames') = 0 /\ 1 .. Len(frames') = {}
    BY <1>1
  <2> QED
    BY <2>1 DEF Waits
<1>3. ResultsMatchType'
  BY DEF ResultsMatchType
<1> QED
  BY <1>2, <1>3 DEF CInv

(* The steps that keep the innermost call running, call and leave.         *)
LocalStep == \E fr, W : LocalMove(fr, W)
CallStep  == \E f \in 0 .. FuncCount - 1 : \E more \in {<<>>, <<"i32">>} :
               \E fr, nf : CallMove(f, more, fr, nf)

LEMMA MovesKeep ==
  ASSUME RInv, Running, XInv', LocalStep \/ CallStep \/ LeaveMove
  PROVE  CInv'
BY LocalKeeps, CallKeeps, LeaveKeeps, Zenon DEF LocalStep, CallStep

-----------------------------------------------------------------------------
(* Every iteration of execute is one of those steps.                       *)

(* An iteration keeps all but the frames and the value stack.              *)
LEMMA Iterates ==
  ASSUME RInv, NEW ops, Execute(ops), UNCHANGED loadVars
  PROVE  /\ Running /\ RunsAt /\ Instr.op \in ops /\ Instr = IsHere[PcHere]
         /\ Instr \in Instruction /\ Instr.op = OpAt(IsHere, PcHere)
         /\ UNCHANGED <<status, entry, code, typing>>
<1>1. Running /\ Instr.op \in ops /\ UNCHANGED <<status, entry>>
  BY Zenon DEF Execute
<1>2. UNCHANGED <<code, typing>>
  BY DEF loadVars
<1>3. RunsAt /\ Instr = IsHere[PcHere] /\ Instr \in Instruction
      /\ Instr.op = OpAt(IsHere, PcHere)
  BY <1>1, InstrHere
<1> QED
  BY <1>1, <1>2, <1>3

(* The innermost call, changed in its position, its labels or a local.     *)
LEMMA ChangedHere ==
  ASSUME RInv, Running
  PROVE  /\ \A x : /\ SameCall([Fr EXCEPT !.pc = x])
                   /\ [Fr EXCEPT !.pc = x].pc = x
                   /\ [Fr EXCEPT !.pc = x].labels = Fr.labels
         /\ \A x, ls : /\ SameCall([Fr EXCEPT !.labels = ls, !.pc = x])
                       /\ [Fr EXCEPT !.labels = ls, !.pc = x].pc = x
                       /\ [Fr EXCEPT !.labels = ls, !.pc = x].labels = ls
         /\ SameCall(Advance) /\ Advance.pc = PcHere /\ Advance.labels = Fr.labels
<1>1. Fr \in Frame
  BY FrameTyped DEF RInv
<1> QED
  BY <1>1 DEF Frame, SameCall, Advance, PcHere

(* What makes it go on.                                                    *)
LEMMA GoesOn ==
  ASSUME RInv, NEW ops, Execute(ops), UNCHANGED loadVars,
         NEW fr, SameCall(fr), NEW W \in Seq(ValType),
         Arrived(IsHere, TsHere, fr.pc + 1, W, fr.labels, Base(Fr)),
         SetTop(fr), vstack' = BelowHere \o W
  PROVE  LocalStep
<1>1. UNCHANGED <<status, entry, code, typing>>
  BY Iterates
<1>2. LocalGoes(fr, W)
  BY Zenon DEF LocalGoes
<1>3. frames' = Append(Outside, fr)
  BY Zenon DEF SetTop, Outside
<1>4. LocalMove(fr, W)
  BY <1>1, <1>2, <1>3, Zenon DEF LocalMove
<1> QED
  BY <1>4, Zenon DEF LocalStep

(* And what makes it go on with the next instruction.                      *)
LEMMA GoesNext ==
  ASSUME RInv, NEW ops, Execute(ops), UNCHANGED loadVars,
         NEW W \in Seq(ValType),
         Arrived(IsHere, TsHere, PcHere + 1, W, Fr.labels, Base(Fr)),
         SetTop(Advance), vstack' = BelowHere \o W
  PROVE  LocalStep
<1>1. SameCall(Advance) /\ Advance.pc = PcHere /\ Advance.labels = Fr.labels
  BY Iterates, ChangedHere
<1>2. Arrived(IsHere, TsHere, Advance.pc + 1, W, Advance.labels, Base(Fr))
  BY <1>1, Zenon
<1> QED
  BY <1>1, <1>2, GoesOn

(* ref.is_null.                                                            *)
LEMMA NullTestRuns ==
  ASSUME RInv, ExecStack, UNCHANGED loadVars, Instr.op = "ref.is_null"
  PROVE  LocalStep
<1> HIDE DEF Instruction
<1>1. /\ Execute(StackOps) /\ SetTop(Advance)
      /\ vstack' = Drop(vstack, Len(Pops(Instr))) \o Pushes(Instr)
  BY Zenon DEF ExecStack
<1>2. Running /\ RunsAt /\ OpAt(IsHere, PcHere) = "ref.is_null"
  BY <1>1, Iterates
<1>3. NullTestFound(IsHere, TsHere, PcHere, OpsHere, Fr.labels, Base(Fr))
  <2>1. /\ Accepts(FnHere, IsHere, TsHere) /\ PcHere \in 1 .. Len(IsHere)
        /\ OpsHere \in Seq(ValType) /\ Fr.labels \in Seq(Label)
        /\ Arrived(IsHere, TsHere, PcHere, OpsHere, Fr.labels, Base(Fr))
    BY <1>2, Zenon DEF RunsAt
  <2> QED
    BY <1>2, <2>1, NullTestFinds
<1>4. Pops(Instr) = <<"ref">> /\ Pushes(Instr) = <<"i32">>
  BY DEF Pops, Pushes
<1> DEFINE u == <<"i32">>
           X == SubSeq(OpsHere, 1, Len(OpsHere) - 1)
           W == X \o u
<1>5. W \in Seq(ValType) /\ Len(OpsHere) >= 1
      /\ Arrived(IsHere, TsHere, PcHere + 1, W, Fr.labels, Base(Fr))
  BY <1>3, Zenon DEF NullTestFound
<1>6. Drop(vstack, 1) = BelowHere \o X /\ X \in Seq(ValType)
  <2>1. OpsHere \in Seq(ValType)
    BY <1>2, Zenon DEF RunsAt
  <2>2. 1 \in 0 .. Len(OpsHere)
    BY <1>5, <2>1
  <2> QED
    BY <1>2, <2>2, DropHere
<1>7. vstack' = (BelowHere \o X) \o u
  <2>1. Len(Pops(Instr)) = 1
    BY <1>4
  <2> QED
    BY <1>1, <1>4, <1>6, <2>1, Zenon
<1>8. u \in Seq(ValType) /\ BelowHere \in Seq(ValType)
  <2>1. BelowHere \in Seq(ValType)
    BY <1>2, Zenon DEF RunsAt
  <2>2. u \in Seq(ValType)
    BY SomeValTypes
  <2> QED
    BY <2>1, <2>2
<1> HIDE DEF X, u
<1>9. BelowHere \o (X \o u) = (BelowHere \o X) \o u
  BY <1>6, <1>8, ValConcat, Zenon
<1>10. vstack' = BelowHere \o W
  BY <1>7, <1>9
<1> HIDE DEF W
<1> QED
  BY <1>1, <1>5, <1>10, GoesNext

(* The operators.                                                          *)
LEMMA OperatorRuns ==
  ASSUME RInv, ExecStack, UNCHANGED loadVars, Instr.op # "ref.is_null"
  PROVE  LocalStep
<1> HIDE DEF Instruction
<1>1. /\ Execute(StackOps) /\ SetTop(Advance)
      /\ vstack' = Drop(vstack, Len(Pops(Instr))) \o Pushes(Instr)
  BY Zenon DEF ExecStack
<1>2. /\ Running /\ RunsAt /\ Instr = IsHere[PcHere] /\ Instr.op \in StackOps
      /\ Instr \in Instruction
  BY <1>1, Iterates
<1>3. Instr.op \notin SpecialOps
  BY <1>2 DEF SpecialOps, StackOps, OpenOps, LabelOps
<1> DEFINE t == Ins(FnHere, Instr)
           u == Outs(FnHere, Instr)
           X == SubSeq(OpsHere, 1, Len(OpsHere) - Len(t))
           W == X \o u
<1>4. OperatorFound(FnHere, IsHere, TsHere, PcHere, OpsHere, Fr.labels, Base(Fr))
  BY <1>2, <1>3, OperatorHere
<1>5. /\ Immediates(FnHere, Instr) /\ Len(t) \in 0 .. Len(OpsHere)
      /\ X \in Seq(ValType) /\ W \in Seq(ValType)
      /\ Arrived(IsHere, TsHere, PcHere + 1, W, Fr.labels, Base(Fr))
  <2>1. /\ Immediates(FnHere, IsHere[PcHere])
        /\ Len(Ins(FnHere, IsHere[PcHere])) \in 0 .. Len(OpsHere)
        /\ SubSeq(OpsHere, 1, Len(OpsHere) - Len(Ins(FnHere, IsHere[PcHere])))
             \in Seq(ValType)
        /\ AfterOperator(FnHere, IsHere[PcHere], OpsHere) \in Seq(ValType)
        /\ Arrived(IsHere, TsHere, PcHere + 1,
                   AfterOperator(FnHere, IsHere[PcHere], OpsHere), Fr.labels, Base(Fr))
    BY <1>4, Zenon DEF OperatorFound
  <2>2. AfterOperator(FnHere, IsHere[PcHere], OpsHere) = W
    BY <1>2, Zenon DEF AfterOperator
  <2> QED
    BY <1>2, <2>1, <2>2, Zenon
<1>6. FnHere \in 1 .. Len(Funcs) /\ BelowHere \in Seq(ValType)
      /\ Fr.locals = LocalTypes(FnHere)
  BY <1>2, Zenon DEF RunsAt
<1>7. Len(Pops(Instr)) = Len(t)
  <2>1. Instr.op \in StackOps \ {"ref.is_null"}
    BY <1>2
  <2>2. Takes(Pops(Instr), Ins(FnHere, Instr))
    BY <1>2, <1>5, <1>6, <2>1, PopsTakeIns
  <2> QED
    BY <2>2, Zenon DEF Takes
<1>8. Pushes(Instr) = u
  BY <1>2, <1>6, PushesAreOuts
<1>9. u \in Seq(ValType)
  BY <1>2, <1>5, <1>6, OutsValTyped
<1>10. Drop(vstack, Len(t)) = BelowHere \o X
  BY <1>2, <1>5, DropHere
<1>11. vstack' = (BelowHere \o X) \o u
  BY <1>1, <1>7, <1>8, <1>10, Zenon
<1> HIDE DEF t, u, X
<1>12. BelowHere \o (X \o u) = (BelowHere \o X) \o u
  BY <1>5, <1>6, <1>9, ValConcat, ZenonT(90)
<1>13. vstack' = BelowHere \o W
  BY <1>11, <1>12, Zenon DEF W
<1> HIDE DEF W
<1> QED
  BY <1>1, <1>5, <1>13, GoesNext

-----------------------------------------------------------------------------
(* Blocks.                                                                 *)

(* The operands with which the block is entered, its label, all labels.    *)
EnteredOps == Entering(IsHere, PcHere, OpsHere)
NewLabel   == BlockLabel(IsHere, PcHere, EnteredOps, Base(Fr))
NewLabels  == Append(Fr.labels, NewLabel)

(* A label of the innermost call is pushed.                                *)
LEMMA PushedHere ==
  ASSUME RInv, Running, NEW br, NEW end, NEW pc, NEW sp, NEW l,
         l = [br_arity |-> br, end_arity |-> end, pc |-> pc, sp |-> sp]
  PROVE  /\ SameCall(PushLabel(Advance, br, end, pc, sp))
         /\ PushLabel(Advance, br, end, pc, sp).pc = PcHere
         /\ PushLabel(Advance, br, end, pc, sp).labels = Append(Fr.labels, l)
         /\ \A x : LET fr == [PushLabel(Advance, br, end, pc, sp) EXCEPT !.pc = x]
                   IN  /\ SameCall(fr) /\ fr.pc = x
                       /\ fr.labels = Append(Fr.labels, l)
<1>1. Fr \in Frame
  BY FrameTyped DEF RInv
<1> QED
  BY <1>1 DEF Frame, SameCall, Advance, PcHere, PushLabel

(* What the interpreter computes of a block is its label.                  *)
LEMMA OpensHere ==
  ASSUME RInv, Running, Instr.op \in OpenOps
  PROVE  /\ EnteredOps \in Seq(ValType)
         /\ Arrived(IsHere, TsHere, PcHere + 1, EnteredOps, NewLabels, Base(Fr))
         /\ Instr.op # "if" => vstack = BelowHere \o EnteredOps
         /\ Instr.op = "if" => Drop(vstack, 1) = BelowHere \o EnteredOps
         /\ Instr.op = "block" =>
              NewLabel = [br_arity |-> BlockResults(Instr.bt),
                          end_arity |-> BlockResults(Instr.bt),
                          pc |-> EndOf(BodyOf(Fr), Fr.pc + 1),
                          sp |-> Len(vstack) - BlockParams(Instr.bt)]
         /\ Instr.op = "loop" =>
              NewLabel = [br_arity |-> BlockParams(Instr.bt),
                          end_arity |-> BlockResults(Instr.bt),
                          pc |-> Fr.pc,
                          sp |-> Len(vstack) - BlockParams(Instr.bt)]
         /\ Instr.op = "if" =>
              NewLabel = [br_arity |-> BlockResults(Instr.bt),
                          end_arity |-> BlockResults(Instr.bt),
                          pc |-> EndOf(BodyOf(Fr), Fr.pc + 1),
                          sp |-> Len(vstack) - 1 - BlockParams(Instr.bt)]
<1> HIDE DEF Instruction
<1> DEFINE i == Instr
           bt == Instr.bt
<1>1. /\ RunsAt /\ BodyOf(Fr) = IsHere /\ i = IsHere[PcHere]
      /\ i.op = OpAt(IsHere, PcHere) /\ PcHere = Fr.pc + 1
      /\ Len(vstack) = Base(Fr) + Len(OpsHere)
      /\ Len(OpsHere) \in Nat /\ Base(Fr) \in Nat
  BY InstrHere DEF PcHere
<1>2. /\ Accepts(FnHere, IsHere, TsHere) /\ PcHere \in 1 .. Len(IsHere)
      /\ OpsHere \in Seq(ValType) /\ BelowHere \in Seq(ValType)
      /\ vstack = BelowHere \o OpsHere /\ Fr.labels \in Seq(Label)
      /\ Arrived(IsHere, TsHere, PcHere, OpsHere, Fr.labels, Base(Fr))
      /\ OpAt(IsHere, PcHere) \in OpenOps /\ Base(Fr) \in Nat
  <2>1. OpAt(IsHere, PcHere) \in OpenOps
    BY <1>1
  <2> QED
    BY <1>1, <2>1, Zenon DEF RunsAt
<1>3. LET W == Entering(IsHere, PcHere, OpsHere)
          l == BlockLabel(IsHere, PcHere, W, Base(Fr))
      IN  /\ W \in Seq(ValType) /\ W = Vals(TsHere[PcHere + 1]) /\ l \in Label
          /\ LabelsFit(IsHere, TsHere, Append(Fr.labels, l), Base(Fr), TsHere[PcHere + 1])
          /\ Arrived(IsHere, TsHere, PcHere + 1, W, Append(Fr.labels, l), Base(Fr))
  BY <1>2, Enters
<1>4. /\ EnteredOps \in Seq(ValType)
      /\ Arrived(IsHere, TsHere, PcHere + 1, EnteredOps, NewLabels, Base(Fr))
  BY <1>3, Zenon DEF EnteredOps, NewLabel, NewLabels
<1>5. ASSUME i.op # "if" PROVE EnteredOps = OpsHere
  BY <1>1, <1>5, Zenon DEF EnteredOps, Entering
<1>6. ASSUME i.op = "if"
      PROVE  /\ EnteredOps = SubSeq(OpsHere, 1, Len(OpsHere) - 1)
             /\ 1 \in 0 .. Len(OpsHere)
  <2>1. EnteredOps = SubSeq(OpsHere, 1, Len(OpsHere) - 1)
    BY <1>1, <1>6, Zenon DEF EnteredOps, Entering
  <2>2. 1 \in 0 .. Len(OpsHere)
    <3>1. OpsHere = Vals(TsHere[PcHere]) /\ Reach(TsHere[PcHere])
      <4>1. OpAt(IsHere, PcHere) # "end"
        BY <1>1, <1>6
      <4> QED
        BY <1>2, <4>1, Stands
    <3>2. Vals(TsHere[PcHere]) \in Seq(ValType) /\ OpAt(IsHere, PcHere) = "if"
      BY <1>1, <1>2, <1>6, <3>1
    <3> DEFINE t == BlockStart(IsHere[PcHere].bt)
    <3>3. t \in Seq(ValType) /\ Len(Vals(TsHere[PcHere])) > Len(t)
      BY <1>2, <3>1, <3>2, EnteringFits
    <3> HIDE DEF t
    <3>4. Len(OpsHere) > 0
      BY <1>1, <3>1, <3>3
    <3> QED
      BY <1>1, <3>4
  <2> QED
    BY <2>1, <2>2
<1>7. i.op = "if" => Drop(vstack, 1) = BelowHere \o EnteredOps
  BY <1>6, DropHere
<1>8. i.op # "if" => vstack = BelowHere \o EnteredOps
  BY <1>2, <1>5
<1>9. /\ BlockParams(bt) = Len(BlockStart(bt))
      /\ BlockResults(bt) = Len(BlockEnd(bt))
  BY DEF BlockParams, BlockStart, BlockResults, BlockEnd
<1>10. /\ NewLabel.br_arity = IF i.op = "loop" THEN BlockParams(bt) ELSE BlockResults(bt)
       /\ NewLabel.end_arity = BlockResults(bt)
       /\ NewLabel.pc = IF i.op = "loop" THEN PcHere - 1 ELSE EndOf(IsHere, PcHere)
       /\ NewLabel.sp = Base(Fr) + Len(EnteredOps) - BlockParams(bt)
       /\ NewLabel = [br_arity |-> NewLabel.br_arity, end_arity |-> NewLabel.end_arity,
                      pc |-> NewLabel.pc, sp |-> NewLabel.sp]
  BY <1>1, <1>9 DEF NewLabel, BlockLabel
<1>11. PcHere - 1 = Fr.pc /\ EndOf(IsHere, PcHere) = EndOf(BodyOf(Fr), Fr.pc + 1)
  <2>1. Fr.pc \in Nat
    BY <1>1, Zenon DEF RunsAt
  <2> QED
    BY <1>1, <2>1
<1>0. BlockParams(bt) \in Int
  <2>1. BlockTypeOk(bt)
    BY IndicesHere DEF IndicesExist
  <2>2. bt \in BlockType
    <3>1. IsHere[PcHere].bt \in BlockType
      <4>1. OpsHere = Vals(TsHere[PcHere]) /\ Reach(TsHere[PcHere])
        <5>1. OpAt(IsHere, PcHere) # "end"
          BY <1>2 DEF OpenOps
        <5> QED
          BY <1>2, <5>1, Stands
      <4> QED
        BY <1>2, <4>1, EnteringFits
    <3> QED
      BY <1>1, <3>1
  <2> QED
    BY <2>1, <2>2, AritiesTyped
<1>12. ASSUME i.op # "if"
       PROVE  NewLabel.sp = Len(vstack) - BlockParams(bt)
  <2>1. Len(EnteredOps) = Len(OpsHere)
    BY <1>5, <1>12
  <2>2. Base(Fr) + Len(EnteredOps) - BlockParams(bt) = Len(vstack) - BlockParams(bt)
    BY <1>0, <1>1, <2>1
  <2> QED
    BY <1>10, <2>2, Zenon
<1>13. ASSUME i.op = "if"
       PROVE  NewLabel.sp = Len(vstack) - 1 - BlockParams(bt)
  <2>1. Len(EnteredOps) = Len(OpsHere) - 1
    BY <1>1, <1>2, <1>6, <1>13, DropHere
  <2>2. Base(Fr) + Len(EnteredOps) - BlockParams(bt) = Len(vstack) - 1 - BlockParams(bt)
    BY <1>0, <1>1, <2>1
  <2> QED
    BY <1>10, <2>2, Zenon
<1>14. /\ i.op = "block" => i.op # "if" /\ i.op # "loop"
       /\ i.op = "loop" => i.op # "if"
       /\ i.op = "if" => i.op # "loop"
  OBVIOUS
<1> HIDE DEF bt, i
<1> USE <1>10, <1>11, <1>14
<1>15. i.op = "block" =>
         NewLabel = [br_arity |-> BlockResults(bt), end_arity |-> BlockResults(bt),
                     pc |-> EndOf(BodyOf(Fr), Fr.pc + 1),
                     sp |-> Len(vstack) - BlockParams(bt)]
  BY <1>12
<1>16. i.op = "loop" =>
         NewLabel = [br_arity |-> BlockParams(bt), end_arity |-> BlockResults(bt),
                     pc |-> Fr.pc, sp |-> Len(vstack) - BlockParams(bt)]
  BY <1>12
<1>17. i.op = "if" =>
         NewLabel = [br_arity |-> BlockResults(bt), end_arity |-> BlockResults(bt),
                     pc |-> EndOf(BodyOf(Fr), Fr.pc + 1),
                     sp |-> Len(vstack) - 1 - BlockParams(bt)]
  BY <1>13
<1> QED
  BY <1>4, <1>7, <1>8, <1>15, <1>16, <1>17 DEF i, bt

(* block and loop.                                                         *)
LEMMA BlockRuns ==
  ASSUME RInv, ExecBlock \/ ExecLoop, UNCHANGED loadVars
  PROVE  LocalStep
<1>1. ASSUME NEW br, NEW end, NEW pc, NEW sp,
             Execute({"block", "loop"}),
             SetTop(PushLabel(Advance, br, end, pc, sp)), UNCHANGED vstack,
             NewLabel = [br_arity |-> br, end_arity |-> end, pc |-> pc, sp |-> sp]
      PROVE  LocalStep
  <2> DEFINE fr == PushLabel(Advance, br, end, pc, sp)
  <2>1. Running /\ Instr.op \in {"block", "loop"}
    BY <1>1, Iterates
  <2>2. Instr.op \in OpenOps /\ Instr.op # "if"
    BY <2>1 DEF OpenOps
  <2>3. SameCall(fr) /\ fr.pc = PcHere /\ fr.labels = NewLabels
    BY <1>1, <2>1, PushedHere DEF NewLabels
  <2>4. /\ EnteredOps \in Seq(ValType) /\ vstack' = BelowHere \o EnteredOps
        /\ Arrived(IsHere, TsHere, PcHere + 1, EnteredOps, NewLabels, Base(Fr))
    BY <1>1, <2>1, <2>2, OpensHere
  <2> HIDE DEF fr
  <2>5. Arrived(IsHere, TsHere, fr.pc + 1, EnteredOps, fr.labels, Base(Fr))
    BY <2>3, <2>4, Zenon
  <2>6. SetTop(fr)
    BY <1>1 DEF fr
  <2> QED
    BY <1>1, <2>3, <2>4, <2>5, <2>6, GoesOn
<1>2. CASE ExecBlock
  <2>1. Execute({"block"}) /\ UNCHANGED vstack
    BY <1>2, Zenon DEF ExecBlock
  <2>2. Running /\ Instr.op = "block"
    BY <2>1, Iterates
  <2>3. Execute({"block", "loop"})
    BY <2>1, <2>2, Zenon DEF Execute
  <2>4. NewLabel = [br_arity |-> BlockResults(Instr.bt),
                    end_arity |-> BlockResults(Instr.bt),
                    pc |-> EndOf(BodyOf(Fr), Fr.pc + 1),
                    sp |-> Len(vstack) - BlockParams(Instr.bt)]
    <3>1. Instr.op \in OpenOps
      BY <2>2 DEF OpenOps
    <3> QED
      BY <2>2, <3>1, OpensHere
  <2> QED
    BY <1>1, <1>2, <2>1, <2>3, <2>4, Zenon DEF ExecBlock
<1>3. CASE ExecLoop
  <2>1. Execute({"loop"}) /\ UNCHANGED vstack
    BY <1>3, Zenon DEF ExecLoop
  <2>2. Running /\ Instr.op = "loop"
    BY <2>1, Iterates
  <2>3. Execute({"block", "loop"})
    BY <2>1, <2>2, Zenon DEF Execute
  <2>4. NewLabel = [br_arity |-> BlockParams(Instr.bt),
                    end_arity |-> BlockResults(Instr.bt),
                    pc |-> Fr.pc,
                    sp |-> Len(vstack) - BlockParams(Instr.bt)]
    <3>1. Instr.op \in OpenOps
      BY <2>2 DEF OpenOps
    <3> QED
      BY <2>2, <3>1, OpensHere
  <2> QED
    BY <1>1, <1>3, <2>1, <2>3, <2>4, Zenon DEF ExecLoop
<1> QED
  BY <1>2, <1>3

(* What the interpreter pushes for an if.                                  *)
IfFrame == PushLabel(Advance, BlockResults(Instr.bt), BlockResults(Instr.bt),
                     EndOf(BodyOf(Fr), Fr.pc + 1),
                     Len(vstack) - 1 - BlockParams(Instr.bt))

(* Where an if whose condition is zero goes on.                            *)
LEMMA SkipsHere ==
  ASSUME RInv, Running, Instr.op = "if"
  PROVE  /\ EndOf(IsHere, PcHere) \in Nat
         /\ ElsesOf(IsHere, PcHere) = {} =>
              Arrived(IsHere, TsHere, EndOf(IsHere, PcHere), EnteredOps, NewLabels,
                      Base(Fr))
         /\ \A x \in ElsesOf(IsHere, PcHere) :
              /\ x \in Nat
              /\ Arrived(IsHere, TsHere, x + 1, EnteredOps, NewLabels, Base(Fr))
<1> HIDE DEF Instruction
<1>1. /\ Accepts(FnHere, IsHere, TsHere) /\ PcHere \in 1 .. Len(IsHere)
      /\ OpsHere \in Seq(ValType) /\ Fr.labels \in Seq(Label) /\ Base(Fr) \in Nat
      /\ Arrived(IsHere, TsHere, PcHere, OpsHere, Fr.labels, Base(Fr))
      /\ OpAt(IsHere, PcHere) = "if" /\ OpAt(IsHere, PcHere) \in OpenOps
  <2>1. RunsAt /\ OpAt(IsHere, PcHere) = "if" /\ OpAt(IsHere, PcHere) \in OpenOps
    BY InstrHere DEF OpenOps
  <2> QED
    BY <2>1, Zenon DEF RunsAt
<1>2. EndOf(IsHere, PcHere) \in 1 .. Len(IsHere)
  BY <1>1, EndOfOpened
<1>3. ASSUME ElsesOf(IsHere, PcHere) = {}
      PROVE  Arrived(IsHere, TsHere, EndOf(IsHere, PcHere), EnteredOps, NewLabels,
                     Base(Fr))
  <2>1. LET W == Entering(IsHere, PcHere, OpsHere)
            l == BlockLabel(IsHere, PcHere, W, Base(Fr))
        IN  Arrived(IsHere, TsHere, EndOf(IsHere, PcHere), W, Append(Fr.labels, l),
                    Base(Fr))
    BY <1>1, <1>3, SkipsToEnd
  <2> QED
    BY <2>1, Zenon DEF EnteredOps, NewLabel, NewLabels
<1>4. ASSUME NEW x \in ElsesOf(IsHere, PcHere)
      PROVE  /\ x \in Nat
             /\ Arrived(IsHere, TsHere, x + 1, EnteredOps, NewLabels, Base(Fr))
  <2>1. LET W == Entering(IsHere, PcHere, OpsHere)
            l == BlockLabel(IsHere, PcHere, W, Base(Fr))
        IN  Arrived(IsHere, TsHere, x + 1, W, Append(Fr.labels, l), Base(Fr))
    BY <1>1, <1>4, SkipsToElse
  <2>2. x \in Nat
    BY <1>1, <1>2, <1>4 DEF ElsesOf
  <2> QED
    BY <2>1, <2>2, Zenon DEF EnteredOps, NewLabel, NewLabels
<1> QED
  BY <1>2, <1>3, <1>4

(* if.                                                                     *)
LEMMA IfRuns ==
  ASSUME RInv, NEW cond \in BOOLEAN, ExecIf(cond), UNCHANGED loadVars
  PROVE  LocalStep
<1> DEFINE end   == EndOf(BodyOf(Fr), Fr.pc + 1)
           elses == ElsesOf(BodyOf(Fr), Fr.pc + 1)
<1>1. /\ Execute({"if"}) /\ vstack' = Drop(vstack, 1)
      /\ \/ SetTop(IfFrame)
         \/ elses = {} /\ SetTop([IfFrame EXCEPT !.pc = end - 1])
         \/ \E e \in elses : SetTop([IfFrame EXCEPT !.pc = e])
  BY Zenon DEF ExecIf, IfFrame
<1>2. /\ Running /\ Instr.op = "if" /\ Instr.op \in OpenOps
      /\ BodyOf(Fr) = IsHere /\ PcHere = Fr.pc + 1
  BY <1>1, Iterates, InstrHere DEF OpenOps, PcHere
<1>3. end = EndOf(IsHere, PcHere) /\ elses = ElsesOf(IsHere, PcHere)
  BY <1>2
<1>4. /\ EnteredOps \in Seq(ValType) /\ vstack' = BelowHere \o EnteredOps
      /\ Arrived(IsHere, TsHere, PcHere + 1, EnteredOps, NewLabels, Base(Fr))
      /\ NewLabel = [br_arity |-> BlockResults(Instr.bt),
                     end_arity |-> BlockResults(Instr.bt),
                     pc |-> end,
                     sp |-> Len(vstack) - 1 - BlockParams(Instr.bt)]
  BY <1>1, <1>2, OpensHere
<1> HIDE DEF end, elses
<1>5. /\ SameCall(IfFrame) /\ IfFrame.pc = PcHere /\ IfFrame.labels = NewLabels
      /\ \A x : LET fr == [IfFrame EXCEPT !.pc = x]
                IN  SameCall(fr) /\ fr.pc = x /\ fr.labels = NewLabels
  <2> DEFINE br == BlockResults(Instr.bt)
             sp == Len(vstack) - 1 - BlockParams(Instr.bt)
             l  == [br_arity |-> br, end_arity |-> br, pc |-> end, sp |-> sp]
             g  == PushLabel(Advance, br, br, end, sp)
  <2>1. NewLabel = l /\ IfFrame = g
    BY <1>4 DEF IfFrame, end
  <2> HIDE DEF br, sp
  <2>2. /\ SameCall(g) /\ g.pc = PcHere /\ g.labels = Append(Fr.labels, l)
        /\ \A x : LET fr == [g EXCEPT !.pc = x]
                  IN  SameCall(fr) /\ fr.pc = x /\ fr.labels = Append(Fr.labels, l)
    <3>1. Fr \in Frame
      BY <1>2, FrameTyped DEF RInv
    <3> QED
      BY <3>1 DEF Frame, SameCall, Advance, PcHere, PushLabel
  <2> HIDE DEF l, g
  <2> QED
    BY <2>1, <2>2 DEF NewLabels
<1>6. /\ end \in Nat
      /\ elses = {} =>
           Arrived(IsHere, TsHere, end, EnteredOps, NewLabels, Base(Fr))
      /\ \A x \in elses :
           Arrived(IsHere, TsHere, x + 1, EnteredOps, NewLabels, Base(Fr))
  BY <1>2, <1>3, SkipsHere
<1>7. CASE SetTop(IfFrame)
  <2>1. Arrived(IsHere, TsHere, IfFrame.pc + 1, EnteredOps, IfFrame.labels, Base(Fr))
    BY <1>4, <1>5, Zenon
  <2> QED
    BY <1>1, <1>4, <1>5, <1>7, <2>1, GoesOn
<1>8. ASSUME NEW x, SetTop([IfFrame EXCEPT !.pc = x]),
             Arrived(IsHere, TsHere, x + 1, EnteredOps, NewLabels, Base(Fr))
      PROVE  LocalStep
  <2> DEFINE fr == [IfFrame EXCEPT !.pc = x]
  <2>1. SameCall(fr) /\ fr.pc = x /\ fr.labels = NewLabels /\ SetTop(fr)
    BY <1>5, <1>8
  <2> HIDE DEF fr
  <2>2. Arrived(IsHere, TsHere, fr.pc + 1, EnteredOps, fr.labels, Base(Fr))
    BY <1>8, <2>1, Zenon
  <2> QED
    BY <1>1, <1>4, <2>1, <2>2, GoesOn
<1>9. CASE elses = {} /\ SetTop([IfFrame EXCEPT !.pc = end - 1])
  <2>1. end - 1 + 1 = end
    BY <1>6
  <2>2. Arrived(IsHere, TsHere, end - 1 + 1, EnteredOps, NewLabels, Base(Fr))
    BY <1>6, <1>9, <2>1, Zenon
  <2> QED
    BY <1>8, <1>9, <2>2
<1>10. CASE \E e \in elses : SetTop([IfFrame EXCEPT !.pc = e])
  BY <1>6, <1>8, <1>10, Zenon
<1> QED
  BY <1>1, <1>7, <1>9, <1>10

(* else.                                                                   *)
LEMMA ElseRuns ==
  ASSUME RInv, ExecElse, UNCHANGED loadVars
  PROVE  LocalStep
<1> HIDE DEF Instruction
<1> DEFINE x == Last(Fr.labels).pc
<1>1. Execute({"else"}) /\ SetTop([Fr EXCEPT !.pc = x - 1]) /\ UNCHANGED vstack
  BY DEF ExecElse
<1>2. Running /\ RunsAt /\ OpAt(IsHere, PcHere) = "else"
  BY <1>1, Iterates
<1>3. /\ Accepts(FnHere, IsHere, TsHere) /\ PcHere \in 1 .. Len(IsHere)
      /\ OpsHere \in Seq(ValType) /\ Fr.labels \in Seq(Label) /\ Base(Fr) \in Nat
      /\ Arrived(IsHere, TsHere, PcHere, OpsHere, Fr.labels, Base(Fr))
      /\ vstack = BelowHere \o OpsHere
  BY <1>2, Zenon DEF RunsAt
<1>4. Arrived(IsHere, TsHere, x, OpsHere, Fr.labels, Base(Fr)) /\ Fr.labels # <<>>
  BY <1>2, <1>3, ElseToEnd
<1>5. x - 1 + 1 = x
  <2>1. x \in Int
    BY <1>2, <1>4, TopLabel DEF RInv
  <2> QED
    BY <2>1
<1> DEFINE fr == [Fr EXCEPT !.pc = x - 1]
<1> HIDE DEF x
<1>6. SameCall(fr) /\ fr.pc = x - 1 /\ fr.labels = Fr.labels
  BY <1>2, ChangedHere
<1> HIDE DEF fr
<1>7. Arrived(IsHere, TsHere, fr.pc + 1, OpsHere, fr.labels, Base(Fr))
  BY <1>4, <1>5, <1>6, Zenon
<1>8. SetTop(fr) /\ vstack' = BelowHere \o OpsHere
  BY <1>1, <1>3 DEF fr
<1> QED
  BY <1>1, <1>3, <1>6, <1>7, <1>8, GoesOn

(* A br_if that is not taken.                                              *)
LEMMA BrIfRunsOn ==
  ASSUME RInv, Execute({"br_if"}), UNCHANGED loadVars,
         vstack' = Drop(vstack, 1), SetTop(Advance)
  PROVE  LocalStep
<1> HIDE DEF Instruction
<1>1. Running /\ RunsAt /\ OpAt(IsHere, PcHere) = "br_if" /\ Instr.op = "br_if"
  BY Iterates
<1>2. /\ Accepts(FnHere, IsHere, TsHere) /\ PcHere \in 1 .. Len(IsHere)
      /\ OpsHere \in Seq(ValType) /\ Fr.labels \in Seq(Label)
      /\ Arrived(IsHere, TsHere, PcHere, OpsHere, Fr.labels, Base(Fr))
  BY <1>1, Zenon DEF RunsAt
<1>3. /\ SubSeq(OpsHere, 1, Len(OpsHere) - 1) \in Seq(ValType)
      /\ Arrived(IsHere, TsHere, PcHere + 1, SubSeq(OpsHere, 1, Len(OpsHere) - 1),
                 Fr.labels, Base(Fr))
  BY <1>1, <1>2, BrIfFalls
<1>4. Popped1 \in Seq(ValType)
      /\ Arrived(IsHere, TsHere, PcHere + 1, Popped1, Fr.labels, Base(Fr))
  BY <1>3, Zenon DEF Popped1
<1>5. vstack' = BelowHere \o Popped1
  <2>1. OpsHere = Popped1 \o <<"i32">>
    BY <1>1, BranchesHere
  <2> QED
    BY <1>1, <1>4, <2>1, NumberOnTop
<1> QED
  BY <1>4, <1>5, GoesNext

-----------------------------------------------------------------------------
(* Branches and returns.                                                   *)

(* Where a function is left, its results are handed on.                    *)
LEMMA LeavesHere ==
  ASSUME RInv, NEW ops, Execute(ops), UNCHANGED loadVars,
         NEW W \in Seq(ValType), Len(ResultsOf(FnHere)) \in 0 .. Len(W),
         TopN(W, Len(ResultsOf(FnHere))) = ResultsOf(FnHere),
         LeaveFunction(BelowHere \o W)
  PROVE  LeaveMove
<1>1. /\ vstack' = Unwind(BelowHere \o W, Fr.sp, Fr.arity)
      /\ frames' = Outside
  BY Zenon DEF LeaveFunction, Outside
<1>2. RunsAt /\ UNCHANGED <<status, entry, code, typing>>
  BY Iterates
<1> DEFINE s == Fr.sp
           n == Len(ResultsOf(FnHere))
<1>3. /\ BelowHere \in Seq(ValType) /\ Fr.arity = n
      /\ Len(BelowHere) = Base(Fr) /\ s \in 0 .. Base(Fr)
  BY <1>2, Zenon DEF RunsAt
<1>4. n \in 0 .. Len(W) /\ s \in 0 .. Len(BelowHere)
  BY <1>3
<1> HIDE DEF s, n
<1>5. Unwind(BelowHere \o W, s, n) = SubSeq(BelowHere, 1, s) \o TopN(W, n)
  BY <1>3, <1>4, UnwindBelow
<1>6. vstack' = LeftStack
  BY <1>1, <1>3, <1>5, Zenon DEF LeftStack, s, n
<1> QED
  BY <1>1, <1>2, <1>6, Zenon DEF LeaveMove

(* A branch that is taken.                                                 *)
LEMMA BranchRuns ==
  ASSUME RInv, NEW ops, Execute(ops), UNCHANGED loadVars,
         NEW m, NEW W, BranchGoes(m, W), BranchTo(m, BelowHere \o W)
  PROVE  LocalStep \/ LeaveMove
<1> DEFINE ls == Fr.labels
           k  == Len(ls) - m
           l  == ls[k]
           U  == SubSeq(W, 1, l.sp - Base(Fr)) \o TopN(W, l.br_arity)
<1>1. Running /\ RunsAt
  BY Iterates
<1>2. /\ BelowHere \in Seq(ValType) /\ Len(BelowHere) = Base(Fr) /\ Base(Fr) \in Nat
      /\ ls \in Seq(Label)
  BY <1>1, Zenon DEF RunsAt
<1>3. m \in 0 .. Len(ls) /\ W \in Seq(ValType)
  BY Zenon DEF BranchGoes, BranchArrives
<1>4. CASE m = Len(ls)
  <2>1. LeaveFunction(BelowHere \o W)
    <3>1. ~(m < Len(ls))
      BY <1>2, <1>4
    <3> QED
      BY <3>1, Zenon DEF BranchTo
  <2>2. /\ Len(ResultsOf(FnHere)) \in 0 .. Len(W)
        /\ TopN(W, Len(ResultsOf(FnHere))) = ResultsOf(FnHere)
    BY <1>4, Zenon DEF BranchGoes, BranchArrives
  <2> QED
    BY <1>3, <2>1, <2>2, LeavesHere
<1>5. CASE m < Len(ls)
  <2> DEFINE fr == [Fr EXCEPT !.labels = SubSeq(ls, 1, k - 1), !.pc = l.pc]
  <2>1. m # Len(ls)
    BY <1>2, <1>5
  <2>2. vstack' = Unwind(BelowHere \o W, l.sp, l.br_arity) /\ SetTop(fr)
    BY <2>1 DEF BranchTo
  <2>3. /\ l.sp - Base(Fr) \in 0 .. Len(W) /\ l.br_arity \in 0 .. Len(W)
        /\ Arrived(IsHere, TsHere, l.pc + 1, U,
                   SubSeq(ls, 1, Len(ls) - m - 1), Base(Fr))
    BY <1>5, Zenon DEF BranchGoes, BranchArrives
  <2>4. l \in Label
    <3>1. k \in 1 .. Len(ls)
      BY <1>2, <1>3, <1>5
    <3> HIDE DEF k
    <3> QED
      BY <1>2, <3>1
  <2>5. l.sp \in Nat /\ l.br_arity \in Nat
    BY <2>4 DEF Label
  <2>6. SameCall(fr) /\ fr.pc = l.pc /\ fr.labels = SubSeq(ls, 1, k - 1)
    <3> DEFINE x == l.pc
               L == SubSeq(ls, 1, k - 1)
    <3> HIDE DEF x, L
    <3>1. LET g == [Fr EXCEPT !.labels = L, !.pc = x]
          IN  SameCall(g) /\ g.pc = x /\ g.labels = L
      <4>1. \A y, ms : /\ SameCall([Fr EXCEPT !.labels = ms, !.pc = y])
                       /\ [Fr EXCEPT !.labels = ms, !.pc = y].pc = y
                       /\ [Fr EXCEPT !.labels = ms, !.pc = y].labels = ms
        BY <1>1, ChangedHere, Zenon
      <4> QED
        BY <4>1, Zenon
    <3> QED
      BY <3>1 DEF x, L
  <2> DEFINE h == l.sp - Base(Fr)
             n == l.br_arity
  <2>7. h \in 0 .. Len(W) /\ n \in 0 .. Len(W) /\ l.sp = Len(BelowHere) + h
    BY <1>2, <2>3, <2>5
  <2>8. U = SubSeq(W, 1, h) \o TopN(W, n)
    OBVIOUS
  <2>9. Arrived(IsHere, TsHere, fr.pc + 1, U, fr.labels, Base(Fr))
    BY <2>3, <2>6, Zenon
  <2> HIDE DEF h, n, fr, U, k, l, ls
  <2>10. Unwind(BelowHere \o W, Len(BelowHere) + h, n)
           = BelowHere \o (SubSeq(W, 1, h) \o TopN(W, n))
    BY <1>2, <1>3, <2>7, UnwindOnTop
  <2>11. vstack' = BelowHere \o U
    BY <2>2, <2>7, <2>8, <2>10, Zenon DEF n
  <2>12. U \in Seq(ValType)
    <3>1. SubSeq(W, 1, h) \in Seq(ValType)
      BY <1>3, <2>7, SplitAt
    <3>2. TopN(W, n) \in Seq(ValType)
      BY <1>3, <2>7, TopOf
    <3> QED
      BY <2>8, <3>1, <3>2, OnTop
  <2> QED
    BY <2>2, <2>6, <2>9, <2>11, <2>12, GoesOn
<1> QED
  BY <1>2, <1>3, <1>4, <1>5

(* br, br_if and br_table.                                                 *)
LEMMA BranchesRun ==
  ASSUME RInv, UNCHANGED loadVars,
         ExecBr \/ (\E cond \in BOOLEAN : ExecBrIf(cond)) \/ ExecBrTable
  PROVE  LocalStep \/ LeaveMove
<1>0. ASSUME Running, Instr.op \in {"br_if", "br_table"},
             NEW n, BranchGoes(n, Popped1)
      PROVE  Drop(vstack, 1) = BelowHere \o Popped1
  <2>1. OpsHere = Popped1 \o <<"i32">>
    BY <1>0, BranchesHere
  <2>2. Popped1 \in Seq(ValType)
    BY <1>0, Zenon DEF BranchGoes, BranchArrives
  <2> QED
    BY <1>0, <2>1, <2>2, NumberOnTop
<1>1. CASE ExecBr
  <2>1. Execute({"br"}) /\ BranchTo(Instr.n, vstack)
    BY <1>1, Zenon DEF ExecBr
  <2>2. Running /\ RunsAt /\ Instr.op = "br"
    BY <2>1, Iterates
  <2>3. BranchGoes(Instr.n, OpsHere)
    BY <2>2, BranchesHere
  <2>4. BranchTo(Instr.n, BelowHere \o OpsHere)
    BY <2>1, <2>2, Zenon DEF RunsAt
  <2> QED
    BY <2>1, <2>3, <2>4, BranchRuns
<1>2. ASSUME NEW cond \in BOOLEAN, ExecBrIf(cond)
      PROVE  LocalStep \/ LeaveMove
  <2>1. /\ Execute({"br_if"})
        /\ \/ BranchTo(Instr.n, Drop(vstack, 1))
           \/ vstack' = Drop(vstack, 1) /\ SetTop(Advance)
    BY <1>2, Zenon DEF ExecBrIf
  <2>2. Running /\ Instr.op = "br_if"
    BY <2>1, Iterates
  <2>3. BranchGoes(Instr.n, Popped1)
    BY <2>2, BranchesHere
  <2>4. Drop(vstack, 1) = BelowHere \o Popped1
    BY <1>0, <2>2, <2>3
  <2>5. CASE BranchTo(Instr.n, Drop(vstack, 1))
    <3>1. BranchTo(Instr.n, BelowHere \o Popped1)
      BY <2>4, <2>5, Zenon
    <3> QED
      BY <2>1, <2>3, <3>1, BranchRuns
  <2>6. CASE vstack' = Drop(vstack, 1) /\ SetTop(Advance)
    BY <2>1, <2>6, BrIfRunsOn
  <2> QED
    BY <2>1, <2>5, <2>6
<1>3. CASE ExecBrTable
  <2>1. /\ Execute({"br_table"})
        /\ \/ BranchTo(Instr.default, Drop(vstack, 1))
           \/ \E j \in DOMAIN Instr.labels : BranchTo(Instr.labels[j], Drop(vstack, 1))
    BY <1>3, Zenon DEF ExecBrTable
  <2>2. Running /\ Instr.op = "br_table"
    BY <2>1, Iterates
  <2>3. /\ BranchGoes(Instr.default, Popped1)
        /\ \A j \in DOMAIN Instr.labels : BranchGoes(Instr.labels[j], Popped1)
    BY <2>2, BranchesHere
  <2>4. Drop(vstack, 1) = BelowHere \o Popped1
    BY <1>0, <2>2, <2>3
  <2>5. PICK n : BranchGoes(n, Popped1) /\ BranchTo(n, Drop(vstack, 1))
    BY <2>1, <2>3, Zenon
  <2>6. BranchTo(n, BelowHere \o Popped1)
    BY <2>4, <2>5, Zenon
  <2> QED
    BY <2>1, <2>5, <2>6, BranchRuns
<1> QED
  BY <1>1, <1>2, <1>3

(* return.                                                                 *)
LEMMA ReturnRuns ==
  ASSUME RInv, ExecReturn, UNCHANGED loadVars
  PROVE  LeaveMove
<1>1. Execute({"return"}) /\ LeaveFunction(vstack)
  BY Zenon DEF ExecReturn
<1>2. Running /\ RunsAt /\ Instr.op = "return"
  BY <1>1, Iterates
<1>3. /\ Len(ResultsOf(FnHere)) \in 0 .. Len(OpsHere)
      /\ TopN(OpsHere, Len(ResultsOf(FnHere))) = ResultsOf(FnHere)
  BY <1>2, LeavesSafely
<1>4. OpsHere \in Seq(ValType) /\ LeaveFunction(BelowHere \o OpsHere)
  BY <1>1, <1>2, Zenon DEF RunsAt
<1> QED
  BY <1>1, <1>3, <1>4, LeavesHere

(* end.                                                                    *)
LEMMA EndRuns ==
  ASSUME RInv, ExecEnd, UNCHANGED loadVars
  PROVE  LocalStep \/ LeaveMove
<1> HIDE DEF Instruction
<1> DEFINE ls == Fr.labels
           l  == Last(ls)
<1>1. /\ Execute({"end"})
      /\ \/ /\ ls # <<>>
            /\ vstack' = Unwind(vstack, l.sp, l.end_arity)
            /\ SetTop([Advance EXCEPT !.labels = Front(@)])
         \/ ls = <<>> /\ LeaveFunction(vstack)
  BY Zenon DEF ExecEnd
<1>2. Running /\ RunsAt /\ OpAt(IsHere, PcHere) = "end" /\ Instr.op = "end"
  BY <1>1, Iterates
<1>3. /\ Accepts(FnHere, IsHere, TsHere) /\ PcHere \in 1 .. Len(IsHere)
      /\ OpsHere \in Seq(ValType) /\ ls \in Seq(Label) /\ Base(Fr) \in Nat
      /\ Arrived(IsHere, TsHere, PcHere, OpsHere, ls, Base(Fr))
      /\ vstack = BelowHere \o OpsHere
      /\ BelowHere \in Seq(ValType) /\ Len(BelowHere) = Base(Fr)
  BY <1>2, Zenon DEF RunsAt
<1>4. CASE /\ ls # <<>>
           /\ vstack' = Unwind(vstack, l.sp, l.end_arity)
           /\ SetTop([Advance EXCEPT !.labels = Front(@)])
  <2> DEFINE fr == [Advance EXCEPT !.labels = Front(@)]
             h  == l.sp - Base(Fr)
             n  == l.end_arity
  <2>1. SameCall(fr) /\ fr.pc = PcHere /\ fr.labels = Front(ls)
    <3>1. Fr \in Frame
      BY <1>2, FrameTyped DEF RInv
    <3> QED
      BY <3>1 DEF Frame, SameCall, Advance, PcHere
  <2>2. /\ Arrived(IsHere, TsHere, PcHere + 1, OpsHere, Front(ls), Base(Fr))
        /\ l.sp - Base(Fr) \in 0 .. Len(OpsHere)
        /\ l.end_arity \in 0 .. Len(OpsHere)
        /\ SubSeq(OpsHere, 1, l.sp - Base(Fr)) \o TopN(OpsHere, l.end_arity) = OpsHere
    <3>1. ls # <<>>
      BY <1>4
    <3> HIDE DEF ls
    <3>2. /\ Accepts(FnHere, IsHere, TsHere) /\ PcHere \in 1 .. Len(IsHere)
          /\ OpsHere \in Seq(ValType) /\ ls \in Seq(Label) /\ Base(Fr) \in Nat
          /\ Arrived(IsHere, TsHere, PcHere, OpsHere, ls, Base(Fr))
          /\ OpAt(IsHere, PcHere) = "end"
      BY <1>2, <1>3
    <3>3. Arrived(IsHere, TsHere, PcHere + 1, OpsHere, Front(ls), Base(Fr))
      BY <3>1, <3>2, EndOfBlock
    <3>4. EndKeeps(ls, Base(Fr), OpsHere)
      BY <3>1, <3>2, EndOfBlock
    <3> QED
      BY <3>3, <3>4, Zenon DEF EndKeeps
  <2>3. l.sp \in Nat
    BY <1>2, <1>4, TopLabel DEF RInv
  <2>4. /\ h \in 0 .. Len(OpsHere) /\ n \in 0 .. Len(OpsHere)
        /\ l.sp = Len(BelowHere) + h
        /\ SubSeq(OpsHere, 1, h) \o TopN(OpsHere, n) = OpsHere
    <3>1. h \in 0 .. Len(OpsHere) /\ n \in 0 .. Len(OpsHere)
          /\ SubSeq(OpsHere, 1, h) \o TopN(OpsHere, n) = OpsHere
      BY <2>2, Zenon
    <3> DEFINE s == l.sp
    <3>2. s \in Nat /\ h = s - Base(Fr)
      BY <2>3
    <3> HIDE DEF s, h, n
    <3>3. s = Len(BelowHere) + h
      BY <1>3, <3>2
    <3> QED
      BY <3>1, <3>3 DEF s
  <2>5. Arrived(IsHere, TsHere, fr.pc + 1, OpsHere, fr.labels, Base(Fr))
    BY <2>1, <2>2, Zenon
  <2> HIDE DEF fr, h, n, l, ls
  <2>6. Unwind(BelowHere \o OpsHere, Len(BelowHere) + h, n)
          = BelowHere \o (SubSeq(OpsHere, 1, h) \o TopN(OpsHere, n))
    BY <1>3, <2>4, UnwindOnTop
  <2>7. vstack' = BelowHere \o OpsHere
    BY <1>3, <1>4, <2>4, <2>6, Zenon DEF n
  <2>8. SetTop(fr)
    BY <1>4 DEF fr
  <2> QED
    BY <1>1, <1>3, <2>1, <2>5, <2>7, <2>8, GoesOn
<1>5. CASE ls = <<>> /\ LeaveFunction(vstack)
  <2>1. OpsHere = ResultsOf(FnHere)
    BY <1>2, <1>5, LeavesSafely
  <2>2. Len(OpsHere) \in 0 .. Len(OpsHere) /\ TopN(OpsHere, Len(OpsHere)) = OpsHere
    <3> DEFINE V == OpsHere
    <3>1. V \in Seq(ValType)
      BY <1>3
    <3> HIDE DEF V
    <3>2. Len(V) - Len(V) + 1 = 1 /\ Len(V) \in 0 .. Len(V)
      BY <3>1
    <3>3. SubSeq(V, 1, Len(V)) = V
      BY <3>1, SubSeqFull
    <3>4. TopN(V, Len(V)) = V
      BY <3>2, <3>3, Zenon DEF TopN
    <3> QED
      BY <3>2, <3>4 DEF V
  <2>3. LeaveFunction(BelowHere \o OpsHere)
    BY <1>3, <1>5, Zenon
  <2>4. /\ Len(ResultsOf(FnHere)) \in 0 .. Len(OpsHere)
        /\ TopN(OpsHere, Len(ResultsOf(FnHere))) = ResultsOf(FnHere)
    BY <2>1, <2>2, Zenon
  <2> QED
    BY <1>1, <1>3, <2>3, <2>4, LeavesHere
<1> QED
  BY <1>1, <1>4, <1>5

-----------------------------------------------------------------------------
(* Calls.                                                                  *)

(* A call finds its arguments on top of what its caller keeps.             *)
LEMMA ArgumentsHere ==
  ASSUME RInv, Running, NEW f, NEW more, CallReady(f, more)
  PROVE  /\ CalledStack(f) \in Seq(ValType)
         /\ CalledStack(f) = BelowHere \o (Rest \o FuncTypeOf(f).params)
         /\ more = <<>> => vstack = CalledStack(f)
         /\ more = <<"i32">> => Drop(vstack, 1) = CalledStack(f)
<1> DEFINE P == FuncTypeOf(f).params
           W == Rest \o P
<1>1. /\ Rest \in Seq(ValType) /\ P \in Seq(ValType) /\ OpsHere = W \o more
  BY Zenon DEF CallReady
<1>2. BelowHere \in Seq(ValType) /\ vstack = BelowHere \o OpsHere
  BY RunsHere, Zenon DEF RunsAt
<1> HIDE DEF P
<1>3. W \in Seq(ValType) /\ BelowHere \o W = (BelowHere \o Rest) \o P
  <2>1. W \in Seq(ValType)
    BY <1>1
  <2>2. BelowHere \o (Rest \o P) = (BelowHere \o Rest) \o P
    BY <1>1, <1>2, ValConcat, Zenon
  <2> QED
    BY <2>1, <2>2, Zenon
<1> HIDE DEF W
<1>4. CalledStack(f) = BelowHere \o W
  BY <1>3, Zenon DEF CalledStack, P
<1>5. CalledStack(f) \in Seq(ValType)
  <2>1. BelowHere \o W \in Seq(ValType)
    BY <1>2, <1>3, OnTop
  <2> QED
    BY <1>4, <2>1, Zenon
<1>6. ASSUME more = <<>> PROVE vstack = CalledStack(f)
  <2>1. W \o <<>> = W
    BY <1>3
  <2>2. OpsHere = W
    BY <1>1, <1>6, <2>1, Zenon
  <2> QED
    BY <1>2, <1>4, <2>2, Zenon
<1>7. ASSUME more = <<"i32">> PROVE Drop(vstack, 1) = CalledStack(f)
  <2>1. OpsHere = W \o <<"i32">>
    BY <1>1, <1>7, Zenon
  <2>2. Drop(vstack, 1) = BelowHere \o W
    BY <1>3, <2>1, NumberOnTop
  <2> QED
    BY <1>4, <2>2, Zenon
<1> QED
  BY <1>4, <1>5, <1>6, <1>7, Zenon DEF W, P

(* The arguments come off that stack again.                                *)
LEMMA ArgumentsOff ==
  ASSUME RInv, Running, NEW f, NEW more, CallReady(f, more)
  PROVE  /\ TopN(CalledStack(f), Len(FuncTypeOf(f).params)) = FuncTypeOf(f).params
         /\ Drop(CalledStack(f), Len(FuncTypeOf(f).params)) = BelowHere \o Rest
         /\ Len(CalledStack(f)) - Len(FuncTypeOf(f).params) = Len(BelowHere \o Rest)
<1> DEFINE P == FuncTypeOf(f).params
           B == BelowHere \o Rest
<1>1. Rest \in Seq(ValType) /\ P \in Seq(ValType) /\ CalledStack(f) = B \o P
  BY Zenon DEF CallReady, CalledStack
<1>2. B \in Seq(ValType)
  <2>1. BelowHere \in Seq(ValType)
    BY RunsHere, Zenon DEF RunsAt
  <2> QED
    BY <1>1, <2>1, OnTop
<1> HIDE DEF B, P
<1>3. TopN(B \o P, Len(P)) = P
  BY <1>1, <1>2, TopExact
<1>4. Drop(B \o P, Len(P)) = B
  <2>1. Len(P) \in 0 .. Len(P) /\ Len(P) - Len(P) = 0
    BY <1>1
  <2>2. Drop(B \o P, Len(P)) = B \o SubSeq(P, 1, Len(P) - Len(P))
    BY <1>1, <1>2, <2>1, DropOnTop
  <2>3. B \o SubSeq(P, 1, 0) = B
    <3>1. SubSeq(P, 1, 0) = <<>> /\ B \o <<>> = B
      BY <1>1, <1>2
    <3> QED
      BY <3>1, Zenon
  <2> QED
    BY <2>1, <2>2, <2>3, Zenon
<1>5. Len(B \o P) - Len(P) = Len(B)
  <2>1. Len(B \o P) = Len(B) + Len(P) /\ Len(B) \in Nat /\ Len(P) \in Nat
    BY <1>1, <1>2, OnTop
  <2> QED
    BY <2>1
<1> QED
  BY <1>1, <1>3, <1>4, <1>5, Zenon DEF B, P

(* The frame of a callee.                                                  *)
LEMMA EntryHere ==
  ASSUME RInv, Running, NEW f \in 0 .. FuncCount - 1, ~IsImport(f),
         NEW more, CallReady(f, more), NEW below,
         CallWasm(f, CalledStack(f), below)
  PROVE  \E nf : /\ Entry(f, nf) /\ nf.sp = Len(BelowHere \o Rest)
                 /\ frames' = Append(below, nf) /\ vstack' = CalledStack(f)
<1> DEFINE ft == FuncTypeOf(f)
           c  == f - Len(Imports) + 1
           ts == TopN(CalledStack(f), Len(ft.params)) \o Funcs[c].locals
           n  == Len(CalledStack(f)) - Len(ft.params)
           nf == [labels |-> <<>>, arity |-> Len(ft.results), func |-> f,
                  locals |-> ts, pc |-> 0, sp |-> n]
<1>1. frames' = Append(below, nf) /\ vstack' = CalledStack(f)
  BY DEF CallWasm
<1>2. ts = LocalTypes(c)
  <2>1. c \in 1 .. Len(Funcs)
    <3>1. f \in Nat /\ f < FuncCount
      BY ModuleAssumption DEF FuncCount
    <3>2. f \in Len(Imports) .. FuncCount - 1
      BY <3>1, DeclaredLocals
    <3> QED
      BY <3>2, ModuleAssumption DEF FuncCount
  <2> DEFINE g == Len(Imports) + c - 1
  <2>2. FuncTypeOf(g) = At(Types, Funcs[c].type)
    <3> HIDE DEF c
    <3> QED
      BY <2>1, FunctionOf
  <2>3. g = f
    BY ModuleAssumption
  <2>4. TopN(CalledStack(f), Len(ft.params)) = ft.params
    BY ArgumentsOff
  <2> HIDE DEF g, c
  <2> QED
    BY <2>2, <2>3, <2>4, Zenon DEF LocalTypes
<1>3. n = Len(BelowHere \o Rest)
  BY ArgumentsOff
<1> HIDE DEF ts, n, c
<1>4. Entry(f, nf) /\ nf.sp = Len(BelowHere \o Rest)
  BY <1>2, <1>3 DEF Entry, c
<1> QED
  BY <1>1, <1>4

(* A call of a function, by code or by a host.                             *)
LEMMA CallRuns ==
  ASSUME RInv, NEW ops, Execute(ops), UNCHANGED loadVars,
         NEW f \in 0 .. FuncCount - 1, NEW more \in {<<>>, <<"i32">>},
         CallReady(f, more),
         \/ CallWasm(f, CalledStack(f), Append(Outside, Advance))
         \/ CallHost(f, CalledStack(f), Append(Outside, Advance))
  PROVE  LocalStep \/ CallStep
<1>1. Running /\ RunsAt /\ UNCHANGED <<status, entry, code, typing>>
  BY Iterates
<1>2. CASE CallWasm(f, CalledStack(f), Append(Outside, Advance))
  <2>1. ~IsImport(f)
    BY <1>2 DEF CallWasm
  <2>2. PICK nf : /\ Entry(f, nf) /\ nf.sp = Len(BelowHere \o Rest)
                  /\ frames' = Append(Append(Outside, Advance), nf)
                  /\ vstack' = CalledStack(f)
    BY <1>1, <1>2, <2>1, EntryHere
  <2>3. SameCall(Advance) /\ Advance.labels = Fr.labels /\ Advance.pc = PcHere
    BY <1>1, ChangedHere
  <2>4. CallMove(f, more, Advance, nf)
    BY <1>1, <2>1, <2>2, <2>3, Zenon DEF CallMove, CallGoes
  <2> QED
    BY <2>4, Zenon DEF CallStep
<1>3. CASE CallHost(f, CalledStack(f), Append(Outside, Advance))
  <2> DEFINE P == FuncTypeOf(f).params
             R == FuncTypeOf(f).results
             W == Rest \o R
  <2>1. /\ frames' = Append(Outside, Advance)
        /\ vstack' = Drop(CalledStack(f), Len(P)) \o R
    BY <1>3 DEF CallHost
  <2>2. Drop(CalledStack(f), Len(P)) = BelowHere \o Rest
    BY <1>1, ArgumentsOff
  <2>3. /\ Rest \in Seq(ValType) /\ R \in Seq(ValType) /\ W \in Seq(ValType)
        /\ Arrived(IsHere, TsHere, PcHere + 1, W, Fr.labels, Base(Fr))
    BY Zenon DEF CallReady
  <2>4. BelowHere \in Seq(ValType)
    BY <1>1, Zenon DEF RunsAt
  <2> HIDE DEF P, R
  <2>5. BelowHere \o (Rest \o R) = (BelowHere \o Rest) \o R
    BY <2>3, <2>4, ValConcat, Zenon
  <2>6. vstack' = BelowHere \o W
    BY <2>1, <2>2, <2>5, Zenon
  <2>7. SetTop(Advance)
    BY <2>1, Zenon DEF SetTop, Outside
  <2> HIDE DEF W
  <2> QED
    BY <2>3, <2>6, <2>7, GoesNext
<1> QED
  BY <1>2, <1>3

(* call and call_indirect.                                                 *)
LEMMA CallsRun ==
  ASSUME RInv, UNCHANGED loadVars, ExecCall \/ ExecCallIndirect
  PROVE  LocalStep \/ CallStep
<1>1. CASE ExecCall
  <2>1. /\ Execute({"call"})
        /\ \/ CallWasm(Instr.x, vstack, Append(Outside, Advance))
           \/ CallHost(Instr.x, vstack, Append(Outside, Advance))
    BY <1>1, Zenon DEF ExecCall, Outside
  <2>2. Running /\ Instr.op = "call"
    BY <2>1, Iterates
  <2>3. Instr.x \in 0 .. FuncCount - 1 /\ CallReady(Instr.x, <<>>)
    BY <2>2, CallHere
  <2>4. vstack = CalledStack(Instr.x)
    BY <2>2, <2>3, ArgumentsHere
  <2>5. \/ CallWasm(Instr.x, CalledStack(Instr.x), Append(Outside, Advance))
        \/ CallHost(Instr.x, CalledStack(Instr.x), Append(Outside, Advance))
    BY <2>1, <2>4, Zenon
  <2> QED
    BY <2>1, <2>3, <2>5, CallRuns
<1>2. CASE ExecCallIndirect
  <2>1. Execute({"call_indirect"})
    BY <1>2, Zenon DEF ExecCallIndirect
  <2>2. PICK f \in 0 .. FuncCount - 1 :
          /\ FuncTypeOf(f) = At(Types, Instr.x)
          /\ \/ CallWasm(f, Drop(vstack, 1), Append(Outside, Advance))
             \/ CallHost(f, Drop(vstack, 1), Append(Outside, Advance))
    BY <1>2, Zenon DEF ExecCallIndirect, Outside
  <2>3. Running /\ Instr.op = "call_indirect"
    BY <2>1, Iterates
  <2> DEFINE more == <<"i32">>
  <2>4. CallReady(f, more) /\ more \in {<<>>, <<"i32">>}
    BY <2>2, <2>3, CallHere
  <2>5. Drop(vstack, 1) = CalledStack(f)
    BY <2>3, <2>4, ArgumentsHere
  <2>6. \/ CallWasm(f, CalledStack(f), Append(Outside, Advance))
        \/ CallHost(f, CalledStack(f), Append(Outside, Advance))
    BY <2>2, <2>5, Zenon
  <2> HIDE DEF more
  <2> QED
    BY <2>1, <2>4, <2>6, CallRuns
<1> QED
  BY <1>1, <1>2

-----------------------------------------------------------------------------
(* select, and the locals.                                                 *)

(* select, with any condition.                                             *)
LEMMA SelectRuns ==
  ASSUME RInv, NEW cond \in BOOLEAN, ExecSelect(cond), UNCHANGED loadVars
  PROVE  LocalStep
<1> HIDE DEF Instruction
<1> DEFINE n == Len(OpsHere)
           X == SubSeq(OpsHere, 1, n - 3)
           x == OpsHere[n - 1]
           W == Append(X, x)
           top == TopN(vstack, 3)
<1>1. /\ Execute({"select", "select_t"}) /\ SetTop(Advance)
      /\ vstack' = Append(Drop(vstack, 3), IF cond THEN top[1] ELSE top[2])
  BY DEF ExecSelect
<1>2. /\ Running /\ RunsAt /\ Instr.op \in {"select", "select_t"}
      /\ Len(vstack) = Base(Fr) + Len(OpsHere)
  BY <1>1, Iterates, InstrHere
<1>3. SelectFound(IsHere, TsHere, PcHere, OpsHere, Fr.labels, Base(Fr))
  BY <1>2, SelectsSafely
<1>4. /\ n >= 3 /\ OpsHere[n - 1] = OpsHere[n - 2]
      /\ W \in Seq(ValType)
      /\ Arrived(IsHere, TsHere, PcHere + 1, W, Fr.labels, Base(Fr))
  BY <1>3, Zenon DEF SelectFound
<1>5. /\ BelowHere \in Seq(ValType) /\ Len(BelowHere) = Base(Fr)
      /\ OpsHere \in Seq(ValType) /\ vstack = BelowHere \o OpsHere
      /\ Base(Fr) \in Nat /\ n \in Nat
  <2>1. /\ BelowHere \in Seq(ValType) /\ Len(BelowHere) = Base(Fr)
        /\ OpsHere \in Seq(ValType) /\ vstack = BelowHere \o OpsHere
        /\ Base(Fr) \in Nat
    BY <1>2, Zenon DEF RunsAt
  <2> QED
    BY <2>1
<1>6. 3 \in 0 .. Len(OpsHere)
  BY <1>4, <1>5
<1>7. Drop(vstack, 3) = BelowHere \o X /\ X \in Seq(ValType)
  BY <1>2, <1>6, DropHere
<1>8. top[1] = x /\ top[2] = x
  <2>1. 3 \in 0 .. Len(vstack) /\ vstack \in Seq(ValType)
    BY <1>2, <1>5, <1>6
  <2>2. \A k \in 1 .. 3 : top[k] = vstack[Len(vstack) - 3 + k]
    BY <2>1, TopOf
  <2>3. \A k \in 1 .. Len(OpsHere) : vstack[Len(BelowHere) + k] = OpsHere[k]
    BY <1>5, OnTop
  <2>4. /\ Len(vstack) - 3 + 1 = Len(BelowHere) + (n - 2)
        /\ Len(vstack) - 3 + 2 = Len(BelowHere) + (n - 1)
        /\ n - 2 \in 1 .. Len(OpsHere) /\ n - 1 \in 1 .. Len(OpsHere)
    BY <1>2, <1>4, <1>5, SMTT(40)
  <2> HIDE DEF n, top
  <2>5. top[1] = OpsHere[n - 2] /\ top[2] = OpsHere[n - 1]
    BY <2>2, <2>3, <2>4
  <2> QED
    BY <1>4, <2>5
<1>9. x \in ValType
  <2>1. n - 1 \in 1 .. Len(OpsHere)
    BY <1>4, <1>5
  <2> HIDE DEF n
  <2> QED
    BY <1>5, <2>1
<1> HIDE DEF top, X, x
<1>10. vstack' = Append(BelowHere \o X, x)
  BY <1>1, <1>7, <1>8
<1>11. vstack' = BelowHere \o W
  <2> DEFINE u == <<x>>
  <2>1. u \in Seq(ValType)
    BY <1>9
  <2>2. BelowHere \o X \in Seq(ValType)
    BY <1>5, <1>7, OnTop
  <2>3. Append(BelowHere \o X, x) = (BelowHere \o X) \o u /\ Append(X, x) = X \o u
    BY <1>7, <1>9, <2>2, AppendIsConcat
  <2> HIDE DEF u
  <2>4. BelowHere \o (X \o u) = (BelowHere \o X) \o u
    BY <1>5, <1>7, <2>1, ValConcat, Zenon
  <2> QED
    BY <1>10, <2>3, <2>4, Zenon
<1> HIDE DEF W
<1> QED
  BY <1>1, <1>4, <1>11, GoesNext

(* What local.set and local.tee store is of the type of the local.         *)
LEMMA StoresHere ==
  ASSUME RInv, Running, Instr.op \in {"local.set", "local.tee"}
  PROVE  /\ Last(vstack) = LocalType(FnHere, Instr.x)
         /\ Popped1 \in Seq(ValType) /\ 1 \in 0 .. Len(OpsHere)
         /\ OpsHere = Popped1 \o <<LocalType(FnHere, Instr.x)>>
         /\ Arrived(IsHere, TsHere, PcHere + 1, Popped1 \o Outs(FnHere, Instr),
                    Fr.labels, Base(Fr))
         /\ LocalType(FnHere, Instr.x) \in ValType
<1> HIDE DEF Instruction
<1> DEFINE T == LocalType(FnHere, Instr.x)
           t == Ins(FnHere, Instr)
           n == Len(OpsHere)
<1>1. /\ RunsAt /\ Instr = IsHere[PcHere] /\ Instr \in Instruction
      /\ Instr.op = OpAt(IsHere, PcHere)
  BY InstrHere
<1>2. Instr.op \notin SpecialOps /\ Instr.op # "drop"
  BY DEF SpecialOps, OpenOps, LabelOps
<1>3. OperatorFound(FnHere, IsHere, TsHere, PcHere, OpsHere, Fr.labels, Base(Fr))
  BY <1>2, OperatorHere
<1>4. FnHere \in 1 .. Len(Funcs) /\ BelowHere \in Seq(ValType)
      /\ OpsHere \in Seq(ValType) /\ vstack = BelowHere \o OpsHere
  BY <1>1, Zenon DEF RunsAt
<1>5. t = <<T>> /\ Len(t) = 1
  BY DEF Ins
<1>6. /\ Immediates(FnHere, Instr)
      /\ Len(t) \in 0 .. Len(OpsHere)
      /\ SubSeq(OpsHere, 1, Len(OpsHere) - Len(t)) \in Seq(ValType)
      /\ Arrived(IsHere, TsHere, PcHere + 1, AfterOperator(FnHere, Instr, OpsHere),
                 Fr.labels, Base(Fr))
  <2>1. /\ Immediates(FnHere, IsHere[PcHere])
        /\ Len(Ins(FnHere, IsHere[PcHere])) \in 0 .. Len(OpsHere)
        /\ SubSeq(OpsHere, 1, Len(OpsHere) - Len(Ins(FnHere, IsHere[PcHere])))
             \in Seq(ValType)
        /\ Arrived(IsHere, TsHere, PcHere + 1,
                   AfterOperator(FnHere, IsHere[PcHere], OpsHere), Fr.labels, Base(Fr))
    BY <1>3, Zenon DEF OperatorFound
  <2> QED
    BY <1>1, <2>1, Zenon
<1>7. T \in ValType
  BY <1>1, <1>4, <1>6, IndexedValTypes
<1>8. /\ Popped1 = SubSeq(OpsHere, 1, Len(OpsHere) - Len(t))
      /\ AfterOperator(FnHere, Instr, OpsHere) = Popped1 \o Outs(FnHere, Instr)
  BY <1>5, Zenon DEF Popped1, AfterOperator
<1>9. OpsHere = Popped1 \o t
  <2>1. OpAt(IsHere, PcHere) # "drop"
    BY <1>1, <1>2
  <2>2. TakesTop(Ins(FnHere, IsHere[PcHere]), OpsHere)
    BY <1>3, <1>4, <2>1, OperandsOf
  <2>3. TakesTop(t, OpsHere)
    BY <1>1, <2>2, Zenon
  <2> QED
    BY <1>8, <2>3, Zenon DEF TakesTop
<1>10. Popped1 \in Seq(ValType) /\ 1 \in 0 .. Len(OpsHere)
  <2>1. 1 \in 0 .. Len(OpsHere)
    BY <1>5, <1>6, Zenon
  <2> QED
    BY <1>6, <1>8, <2>1, Zenon
<1>11. Last(vstack) = T
  <2>1. t \in Seq(ValType) /\ t[1] = T
    BY <1>5, <1>7
  <2> HIDE DEF t, T
  <2> DEFINE S == Popped1
  <2>2. /\ Len(OpsHere) = Len(S) + 1 /\ OpsHere[Len(S) + 1] = T
    <3>1. /\ Len(S \o t) = Len(S) + Len(t)
          /\ \A k \in 1 .. Len(t) : (S \o t)[Len(S) + k] = t[k]
      BY <1>10, <2>1, OnTop
    <3>2. 1 \in 1 .. Len(t)
      BY <1>5
    <3> QED
      BY <1>5, <1>9, <2>1, <3>1, <3>2
  <2>3. /\ Len(vstack) = Len(BelowHere) + Len(OpsHere)
        /\ \A k \in 1 .. Len(OpsHere) : vstack[Len(BelowHere) + k] = OpsHere[k]
    BY <1>4, OnTop
  <2>4. Len(S) \in Nat /\ Len(S) + 1 \in 1 .. Len(OpsHere)
    BY <1>10, <2>2
  <2> HIDE DEF S
  <2>5. vstack[Len(vstack)] = T
    BY <1>4, <2>2, <2>3, <2>4
  <2> QED
    BY <2>5 DEF Last
<1> QED
  BY <1>5, <1>6, <1>7, <1>8, <1>9, <1>10, <1>11, Zenon

(* local.set and local.tee.                                                *)
LEMMA SetLocalRuns ==
  ASSUME RInv, ExecSetLocal, UNCHANGED loadVars
  PROVE  LocalStep
<1> HIDE DEF Instruction
<1> DEFINE T  == LocalType(FnHere, Instr.x)
           u  == Outs(FnHere, Instr)
           W  == Popped1 \o u
           fr == [Advance EXCEPT !.locals[Instr.x + 1] = Last(vstack)]
<1>1. /\ Execute({"local.set", "local.tee"}) /\ SetTop(fr)
      /\ vstack' = Drop(vstack, Len(Pops(Instr)))
  BY DEF ExecSetLocal
<1>2. Running /\ RunsAt /\ Instr.op \in {"local.set", "local.tee"}
  BY <1>1, Iterates
<1>3. /\ Last(vstack) = T /\ Popped1 \in Seq(ValType) /\ 1 \in 0 .. Len(OpsHere)
      /\ OpsHere = Popped1 \o <<T>>
      /\ Arrived(IsHere, TsHere, PcHere + 1, W, Fr.labels, Base(Fr))
      /\ T \in ValType
  BY <1>2, StoresHere
<1>4. SameCall(fr) /\ fr.pc = PcHere /\ fr.labels = Fr.labels
  <2>1. Fr \in Frame
    BY <1>2, FrameTyped DEF RInv
  <2>2. Fr.locals \in Seq(ValType) /\ Fr.locals[Instr.x + 1] = T
    <3>1. Fr.locals = LocalTypes(FnHere)
      BY <1>2, Zenon DEF RunsAt
    <3>2. Fr.locals \in Seq(ValType)
      BY <2>1 DEF Frame
    <3> QED
      BY <3>1, <3>2 DEF LocalType, At
  <2> HIDE DEF T
  <2>3. [Fr.locals EXCEPT ![Instr.x + 1] = T] = Fr.locals
    BY <2>2
  <2>4. fr = [Fr EXCEPT !.pc = Fr.pc + 1,
                        !.locals = [Fr.locals EXCEPT ![Instr.x + 1] = T]]
    BY <1>3, <2>1 DEF Advance, Frame
  <2>5. fr = [Fr EXCEPT !.pc = Fr.pc + 1, !.locals = Fr.locals]
    BY <2>3, <2>4
  <2> HIDE DEF fr
  <2> QED
    BY <2>1, <2>5 DEF Frame, SameCall, PcHere
<1>5. W \in Seq(ValType) /\ vstack' = BelowHere \o W
  <2>1. CASE Instr.op = "local.set"
    <3>1. Pops(Instr) = <<"any">> /\ Len(Pops(Instr)) = 1
      BY <2>1 DEF Pops
    <3>2. u = <<>>
      BY <2>1 DEF Outs
    <3>3. Drop(vstack, 1) = BelowHere \o Popped1
      BY <1>2, <1>3, DropHere, Zenon DEF Popped1
    <3>4. Popped1 \o <<>> = Popped1
      BY <1>3
    <3>5. W = Popped1
      BY <3>2, <3>4, Zenon
    <3> QED
      BY <1>1, <1>3, <3>1, <3>3, <3>5, Zenon
  <2>2. CASE Instr.op = "local.tee"
    <3>1. Pops(Instr) = <<>> /\ Len(Pops(Instr)) = 0
      BY <2>2 DEF Pops
    <3>2. u = <<T>>
      BY <2>2 DEF Outs
    <3>3. Drop(vstack, 0) = vstack
      <4>1. vstack \in Seq(ValType)
        BY DEF RInv, XInv
      <4>2. SubSeq(vstack, 1, Len(vstack)) = vstack /\ Len(vstack) - 0 = Len(vstack)
        BY <4>1, SubSeqFull
      <4> QED
        BY <4>2, Zenon DEF Drop
    <3>4. W = OpsHere
      BY <1>3, <3>2, Zenon
    <3>5. OpsHere \in Seq(ValType) /\ vstack = BelowHere \o OpsHere
      BY <1>2, Zenon DEF RunsAt
    <3> QED
      BY <1>1, <3>1, <3>3, <3>4, <3>5, Zenon
  <2> QED
    BY <1>2, <2>1, <2>2
<1> HIDE DEF fr, W
<1>6. Arrived(IsHere, TsHere, fr.pc + 1, W, fr.labels, Base(Fr))
  BY <1>3, <1>4, Zenon
<1> QED
  BY <1>1, <1>4, <1>5, <1>6, GoesOn

-----------------------------------------------------------------------------
(* The invariant holds.                                                    *)

(* One iteration of the loop of execute.                                   *)
Iteration ==
  \/ ExecStack \/ ExecBlock \/ ExecLoop \/ ExecElse \/ ExecEnd
  \/ ExecBr \/ ExecBrTable \/ ExecReturn \/ ExecCall \/ ExecCallIndirect
  \/ ExecSetLocal
  \/ \E cond \in BOOLEAN : ExecIf(cond) \/ ExecBrIf(cond) \/ ExecSelect(cond)

(* It computes, calls or leaves.                                           *)
LEMMA IterationMoves ==
  ASSUME RInv, UNCHANGED loadVars, Iteration
  PROVE  Running /\ (LocalStep \/ CallStep \/ LeaveMove)
<1>1. Running
  BY Zenon DEF Iteration, ExecStack, ExecBlock, ExecLoop, ExecElse, ExecEnd, ExecBr,
     ExecBrTable, ExecReturn, ExecCall, ExecCallIndirect, ExecSetLocal, ExecIf,
     ExecBrIf, ExecSelect, Execute
<1>2. ExecStack => LocalStep
  BY NullTestRuns, OperatorRuns, Zenon
<1>3. ExecBlock \/ ExecLoop \/ ExecElse \/ ExecSetLocal => LocalStep
  BY BlockRuns, ElseRuns, SetLocalRuns, Zenon
<1>4. \A cond \in BOOLEAN : ExecIf(cond) \/ ExecSelect(cond) => LocalStep
  BY IfRuns, SelectRuns, Zenon
<1>5. ExecEnd \/ ExecReturn => LocalStep \/ LeaveMove
  BY EndRuns, ReturnRuns, Zenon
<1>6. ExecBr \/ (\E cond \in BOOLEAN : ExecBrIf(cond)) \/ ExecBrTable
        => LocalStep \/ LeaveMove
  BY BranchesRun, Zenon
<1>7. ExecCall \/ ExecCallIndirect => LocalStep \/ CallStep
  BY CallsRun, Zenon
<1> QED
  BY <1>1, <1>2, <1>3, <1>4, <1>5, <1>6, <1>7, Zenon DEF Iteration

(* invoke: the one call there is starts its body.                          *)
LEMMA InvokeKeeps ==
  ASSUME RInv, XInv', UNCHANGED loadVars, NEW f \in 0 .. FuncCount - 1, Invoke(f)
  PROVE  CInv'
<1> HIDE DEF GoodFrame
<1> DEFINE ft == FuncTypeOf(f)
           P  == ft.params
           R  == ft.results
           nf == frames'[1]
<1>1. /\ entry' = f /\ code' = code /\ typing' = typing
      /\ CallWasm(f, P, <<>>) \/ CallHost(f, P, <<>>)
      /\ Loaded
  BY DEF Invoke, CanInvoke, loadVars
<1>2. ft \in FuncType /\ P \in Seq(ValType) /\ R \in Seq(ValType)
  <2>1. ft \in FuncType
    <3>1. f \in Nat /\ f < FuncCount
      BY ModuleAssumption DEF FuncCount
    <3> QED
      BY <3>1, FuncTypes
  <2> QED
    BY <2>1 DEF FuncType
<1>3. CASE CallHost(f, P, <<>>)
  <2>1. frames' = <<>> /\ vstack' = Drop(P, Len(P)) \o R
    BY <1>3 DEF CallHost
  <2> HIDE DEF P, R
  <2>2. Drop(P, Len(P)) = <<>>
    BY <1>2 DEF Drop
  <2>3. <<>> \o R = R
    BY <1>2
  <2>4. vstack' = FuncTypeOf(entry').results
    BY <1>1, <2>1, <2>2, <2>3, Zenon DEF R
  <2> QED
    BY <2>1, <2>4, NoCalls
<1>4. CASE CallWasm(f, P, <<>>)
  <2> DEFINE c == CodeIndex(nf)
             n == Len(P)
  <2>1. /\ ~IsImport(f) /\ vstack' = P
        /\ Len(frames') = 1 /\ frames' # <<>>
        /\ nf.labels = <<>> /\ nf.arity = Len(R) /\ nf.func = f /\ nf.pc = 0
        /\ nf.locals = TopN(P, n) \o Funcs[f - Len(Imports) + 1].locals
        /\ nf.sp = n - n
    <3> DEFINE g == [labels |-> <<>>, arity |-> Len(R), func |-> f,
                     locals |-> TopN(P, n) \o Funcs[f - Len(Imports) + 1].locals,
                     pc |-> 0, sp |-> n - n]
    <3>1. ~IsImport(f) /\ vstack' = P /\ frames' = Append(<<>>, g)
      BY <1>4 DEF CallWasm
    <3>2. /\ g.labels = <<>> /\ g.arity = Len(R) /\ g.func = f /\ g.pc = 0
          /\ g.locals = TopN(P, n) \o Funcs[f - Len(Imports) + 1].locals
          /\ g.sp = n - n
      OBVIOUS
    <3> HIDE DEF g
    <3>3. Append(<<>>, g) # <<>> /\ Len(Append(<<>>, g)) = 1 /\ Append(<<>>, g)[1] = g
      OBVIOUS
    <3> QED
      BY <3>1, <3>2, <3>3, Zenon
  <2>2. nf \in GoodFrame /\ n \in Nat
    <3>1. frames' \in Seq(GoodFrame)
      BY DEF XInv
    <3> QED
      BY <1>2, <2>1, <3>1
  <2>3. /\ c \in 1 .. Len(Funcs) /\ ft = At(Types, Funcs[c].type)
        /\ R = ResultsOf(c) /\ Base(nf) = nf.sp + n
        /\ c = f - Len(Imports) + 1
    BY <2>1, <2>2, FrameFunction DEF CodeIndex
  <2>4. nf.sp = 0 /\ Base(nf) = n
    <3>1. nf.sp = n - n /\ n \in Nat /\ Base(nf) = nf.sp + n
      BY <2>1, <2>2, <2>3, Zenon
    <3> HIDE DEF n
    <3> QED
      BY <3>1
  <2>5. nf.locals = LocalTypes(c)
    <3>1. TopN(P, n) = P
      <4> HIDE DEF P
      <4>1. n - n + 1 = 1 /\ SubSeq(P, 1, n) = P
        BY <1>2, <2>2, SubSeqFull
      <4> QED
        BY <4>1, Zenon DEF TopN
    <3> QED
      BY <2>1, <2>3, <3>1, Zenon DEF LocalTypes
  <2> HIDE DEF nf
  <2>6. Arrived(code[c], typing[c], nf.pc + 1, <<>>, nf.labels, Base(nf))
    <3>1. Accepts(c, code[c], typing[c])
      <4>1. HInv /\ Len(code) = Len(Funcs)
        BY <1>1 DEF RInv, HInv, Loaded
      <4> QED
        BY <2>3, <4>1 DEF HInv
    <3>2. Arrived(code[c], typing[c], 1, <<>>, <<>>, Base(nf))
      BY <3>1, Starts
    <3>3. nf.pc + 1 = 1
      BY <2>1
    <3> QED
      BY <2>1, <3>2, <3>3, Zenon
  <2>7. OpsOf(frames', vstack', Len(vstack'), <<>>, 1) = <<>>
    <3>1. SubSeq(P, n + 1, n) \o <<>> = <<>>
      BY <1>2, <2>2
    <3> QED
      BY <2>1, <2>4, <3>1, Zenon DEF OpsOf, nf
  <2>8. Waits(frames, vstack, Len(vstack), <<>>)'
    <3>1. \A k \in 1 .. Len(frames') : k = 1
      BY <2>1
    <3>2. Base(nf) <= Len(vstack')
      BY <2>1, <2>2, <2>4
    <3>3. \A k \in 1 .. Len(frames') :
            Sound(frames[k], OpsOf(frames, vstack, Len(vstack), <<>>, k))'
      <4>1. ASSUME NEW k \in 1 .. Len(frames')
            PROVE  /\ Arrived(code'[CodeIndex(frames'[k])], typing'[CodeIndex(frames'[k])],
                              frames'[k].pc + 1,
                              OpsOf(frames', vstack', Len(vstack'), <<>>, k),
                              frames'[k].labels, Base(frames'[k]))
                   /\ frames'[k].arity = Len(ResultsOf(CodeIndex(frames'[k])))
                   /\ frames'[k].locals = LocalTypes(CodeIndex(frames'[k]))
        <5>1. k = 1
          BY <3>1
        <5> QED
          BY <1>1, <2>1, <2>3, <2>5, <2>6, <2>7, <5>1, Zenon DEF nf
      <4> QED
        BY <4>1, Zenon DEF Sound
    <3>4. \A k \in 1 .. Len(frames') : Base(frames'[k]) <= Len(vstack')
      BY <3>1, <3>2 DEF nf
    <3>5. \A j, k \in 1 .. Len(frames') : j < k => Base(frames'[j]) <= frames'[k].sp
      BY <2>1
    <3>6. frames'[1].sp = 0 /\ frames'[1].func = entry'
      BY <1>1, <2>1, <2>4 DEF nf
    <3> QED
      BY <3>3, <3>4, <3>5, <3>6, Zenon DEF Waits
  <2>9. ResultsMatchType'
    BY <2>1 DEF ResultsMatchType
  <2> QED
    BY <2>8, <2>9 DEF CInv
<1> QED
  BY <1>1, <1>3, <1>4

(* No step breaks it.                                                      *)
LEMMA CInvStep ==
  ASSUME RInv, XInv', [Next]_vars
  PROVE  CInv'
<1>1. CASE LoadNext /\ UNCHANGED execVars
  <2>1. frames = <<>>
    BY <1>1, LoadedIsFinal DEF RInv, XInv, IInv
  <2>2. /\ frames' = <<>> /\ status' = status /\ vstack' = vstack /\ entry' = entry
    BY <1>1, <2>1 DEF execVars
  <2>3. status' = "running" => vstack' = FuncTypeOf(entry').results
    BY <2>1, <2>2 DEF RInv, CInv, ResultsMatchType
  <2> QED
    BY <2>2, <2>3, NoCalls
<1>2. CASE ExecNext /\ UNCHANGED loadVars
  <2>1. CASE Iteration
    BY <1>2, <2>1, IterationMoves, MovesKeep
  <2>2. CASE \/ Trap \/ HostFails \/ Finish
             \/ \E f \in 0 .. FuncCount - 1 : InvokedHostFails(f)
    <3>1. frames' = <<>> /\ status' # "running"
      BY <2>2 DEF Trap, HostFails, Finish, InvokedHostFails, Abort
    <3> QED
      BY <3>1, NoCalls
  <2>3. CASE \E f \in 0 .. FuncCount - 1 : Invoke(f)
    BY <1>2, <2>3, InvokeKeeps
  <2> QED
    BY <1>2, <2>1, <2>2, <2>3, Zenon DEF ExecNext, Iteration
<1>3. CASE UNCHANGED vars
  <2>1. /\ frames' = frames /\ status' = status /\ vstack' = vstack /\ entry' = entry
        /\ code' = code /\ typing' = typing
    BY <1>3 DEF vars
  <2>2. Waits(frames', vstack', Len(vstack'), <<>>)
    BY <2>1, Zenon DEF RInv, CInv
  <2>3. Waits(frames, vstack, Len(vstack), <<>>)'
    BY <2>1, <2>2, WaitsNext
  <2>4. ResultsMatchType'
    BY <2>1 DEF RInv, CInv, ResultsMatchType
  <2> QED
    BY <2>3, <2>4 DEF CInv
<1> QED
  BY <1>1, <1>2, <1>3 DEF Next

LEMMA RInvStep ==
  ASSUME RInv, [Next]_vars
  PROVE  RInv'
<1>1. XInv'
  BY XInvStep DEF RInv
<1>2. HInv'
  BY LoadOrStutter, HInvStep DEF RInv
<1> QED
  BY <1>1, <1>2, CInvStep DEF RInv

(* Before anything is loaded.                                              *)
LEMMA RInvStart ==
  ASSUME Init
  PROVE  RInv
<1>1. XInv /\ HInv
  BY XInvStart, HInvStart DEF Init
<1>2. status = "idle" /\ frames = <<>>
  BY DEF Init, ExecInit
<1>3. Waits(frames, vstack, Len(vstack), <<>>)
  <2>1. Len(<<>>) = 0 /\ 1 .. 0 = {}
    OBVIOUS
  <2>2. 1 .. Len(frames) = {}
    BY <1>2, <2>1
  <2> QED
    BY <1>2, <2>2 DEF Waits
<1>4. ResultsMatchType
  BY <1>2 DEF ResultsMatchType
<1> QED
  BY <1>1, <1>3, <1>4 DEF RInv, CInv

(* Every active call is, at all times, at a point of its body's typing,    *)
(* with the operands and the labels of that point.                         *)
THEOREM CallsAlwaysSound == Spec => []RInv
<1>1. Init => RInv
  BY RInvStart
<1>2. RInv /\ [Next]_vars => RInv'
  BY RInvStep
<1> QED
  BY <1>1, <1>2, PTL DEF Spec

-----------------------------------------------------------------------------
(* What it says of the interpreter.                                        *)

(* A call, by position: what its operands and its point are.               *)
LEMMA CallAt ==
  ASSUME RInv, NEW k \in 1 .. Len(frames)
  PROVE  /\ frames[k] \in GoodFrame
         /\ Accepts(CodeIndex(frames[k]), code[CodeIndex(frames[k])],
                    typing[CodeIndex(frames[k])])
         /\ Arrived(code[CodeIndex(frames[k])], typing[CodeIndex(frames[k])],
                    frames[k].pc + 1, Operands(k), frames[k].labels, Base(frames[k]))
         /\ frames[k].locals = LocalTypes(CodeIndex(frames[k]))
         /\ Operands(k) = OpsOf(frames, vstack, Len(vstack), <<>>, k)
<1> HIDE DEF GoodFrame
<1>1. frames \in Seq(GoodFrame) /\ vstack \in Seq(ValType) /\ Loaded
  <2>1. frames # <<>>
    <3>1. frames \in Seq(GoodFrame)
      BY DEF RInv, XInv
    <3> QED
      BY <3>1
  <2> QED
    BY <2>1 DEF RInv, XInv
<1> DEFINE fr == frames[k]
           c  == CodeIndex(fr)
<1>2. fr \in GoodFrame
  BY <1>1
<1>3. Base(fr) \in Nat /\ c \in 1 .. Len(Funcs)
  BY <1>2, FrameFunction
<1>4. Accepts(c, code[c], typing[c])
  <2>1. HInv /\ Len(code) = Len(Funcs)
    BY <1>1 DEF RInv, HInv, Loaded
  <2> HIDE DEF c
  <2> QED
    BY <1>3, <2>1 DEF HInv
<1>5. Operands(k) = OpsOf(frames, vstack, Len(vstack), <<>>, k)
  <2>1. CASE k = Len(frames)
    <3> DEFINE S == SubSeq(vstack, Base(fr) + 1, Len(vstack))
    <3>1. S \in Seq(ValType)
      BY <1>1, <1>3
    <3> HIDE DEF S
    <3>2. S \o <<>> = S
      BY <3>1
    <3> QED
      BY <2>1, <3>2, Zenon DEF Operands, OpsOf, S
  <2>2. CASE k # Len(frames)
    BY <2>2, Zenon DEF Operands, OpsOf
  <2> QED
    BY <2>1, <2>2
<1>6. Sound(fr, Operands(k))
  <2>1. Sound(fr, OpsOf(frames, vstack, Len(vstack), <<>>, k))
    BY Zenon DEF RInv, CInv, Waits
  <2> QED
    BY <1>5, <2>1, Zenon
<1> QED
  BY <1>2, <1>4, <1>5, <1>6, Zenon DEF Sound

(* The interpreter never runs into an assertion, an expect or an           *)
(* unreachable!() that "is guaranteed by validation", whatever the bodies  *)
(* are that validation has accepted.                                       *)
THEOREM NeverPanics == Spec => []NoPanic
<1>1. RInv => NoPanic
  <2>1. ASSUME RInv, status = "running", frames = <<>>
        PROVE  Len(vstack) >= Len(FuncTypeOf(entry).results)
    <3>1. vstack \in Seq(ValType) /\ vstack = FuncTypeOf(entry).results
      BY <2>1 DEF RInv, XInv, CInv, ResultsMatchType
    <3>2. Len(vstack) \in Nat
      BY <3>1
    <3> QED
      BY <3>1, <3>2
  <2> QED
    BY <2>1, RunsSafely DEF NoPanic
<1> QED
  BY <1>1, CallsAlwaysSound, PTL

(* Every call finds exactly the operands that validation computed for the  *)
(* instruction it has come to, and code that validation took for           *)
(* unreachable is never reached.                                           *)
THEOREM OperandsAlwaysMatch == Spec => []OperandsMatchValidation
<1>1. ASSUME RInv, NEW k \in 1 .. Len(frames)
      PROVE  LET fr == frames[k]
             IN  /\ Operands(k) = Expected(fr)
                 /\ Next1(fr).op # "end" => ~Last(Point(fr).ctrls).unreachable
                 /\ fr.locals = LocalTypes(fr.func - Len(Imports) + 1)
  <2> HIDE DEF GoodFrame
  <2> DEFINE fr == frames[k]
             c  == CodeIndex(fr)
             is == code[c]
             ts == typing[c]
             n  == fr.pc + 1
  <2>1. /\ Arrived(is, ts, n, Operands(k), fr.labels, Base(fr))
        /\ Accepts(c, is, ts)
        /\ fr.locals = LocalTypes(c)
    BY <1>1, CallAt
  <2>2. /\ n \in 1 .. Len(is)
        /\ OpAt(is, n) # "end" => Reach(ts[n])
        /\ Operands(k) = ExpectedAt(is, ts, n)
    BY <2>1, Zenon DEF Arrived
  <2>3. /\ Next1(fr) = is[n] /\ Point(fr) = ts[n]
        /\ c = fr.func - Len(Imports) + 1
    BY Zenon DEF Next1, BodyOf, Point, CodeIndex
  <2> HIDE DEF fr, c, is, ts, n
  <2>4. Last(ts[n].ctrls) = ts[n].ctrls[Blocks(ts[n])]
    <3>1. GoodPoint(ts[n])
      BY <2>1, <2>2, BodyPoint
    <3> QED
      BY <3>1, PointTyped
  <2>5. ExpectedAt(is, ts, n) = Expected(fr)
    <3>1. Expected(fr) = IF is[n].op = "end"
                         THEN SubSeq(ts[n].vals, 1, Last(ts[n].ctrls).height)
                                \o Last(ts[n].ctrls).end
                         ELSE ts[n].vals
      BY <2>3, Zenon DEF Expected
    <3> QED
      BY <2>4, <3>1, Zenon DEF ExpectedAt, Under, EndTypes, Vals, OpAt
  <2>6. Next1(fr).op # "end" => ~Last(Point(fr).ctrls).unreachable
    <3>1. OpAt(is, n) # "end" => ~Last(ts[n].ctrls).unreachable
      BY <2>2, Zenon DEF Reach
    <3> QED
      BY <2>3, <3>1, Zenon DEF OpAt
  <2> QED
    BY <2>1, <2>2, <2>3, <2>5, <2>6, Zenon DEF fr, c
<1>2. RInv => OperandsMatchValidation
  BY <1>1, Zenon DEF OperandsMatchValidation
<1> QED
  BY <1>2, CallsAlwaysSound, PTL

(* The labels that the interpreter pushes and pops are at all times the    *)
(* control frames of validation at that point: as many, with the arities   *)
(* and the heights of those.                                               *)
THEOREM LabelsAlwaysMirror == Spec => []LabelsMirrorCtrls
<1>1. ASSUME RInv, NEW k \in 1 .. Len(frames)
      PROVE  LET fr == frames[k]
                 cs == Point(fr).ctrls
             IN  /\ Len(fr.labels) = Len(cs) - 1
                 /\ \A m \in DOMAIN fr.labels :
                      LET l == fr.labels[m]
                          c == cs[m + 1]
                      IN  /\ l.sp = Base(fr) + c.height
                          /\ l.end_arity = Len(c.end)
                          /\ l.br_arity = Len(IF c.opcode = "loop" THEN c.start
                                                                   ELSE c.end)
  <2> HIDE DEF GoodFrame
  <2> DEFINE fr == frames[k]
             c  == CodeIndex(fr)
             is == code[c]
             ts == typing[c]
             n  == fr.pc + 1
             p  == ts[n]
             ls == fr.labels
  <2>1. Arrived(is, ts, n, Operands(k), ls, Base(fr)) /\ fr \in GoodFrame
        /\ Accepts(c, is, ts)
    BY <1>1, CallAt
  <2>2. n \in 1 .. Len(is) /\ LabelsFit(is, ts, ls, Base(fr), p)
    BY <2>1, Zenon DEF Arrived
  <2>3. /\ Blocks(p) = Len(ls) + 1
        /\ \A j \in 2 .. Blocks(p) : LabelFits(is, ts, ls[j - 1], Base(fr), p, j)
    BY <2>2, Zenon DEF LabelsFit
  <2>4. ls \in Seq(Label)
    <3>1. fr \in Frame
      BY <2>1, FrameFunction
    <3> QED
      BY <3>1 DEF Frame
  <2>5. Point(fr) = p
    BY Zenon DEF Point, CodeIndex
  <2> HIDE DEF p, ls, is, ts, fr
  <2>6. Len(ls) = Len(p.ctrls) - 1
    <3>1. Len(ls) = Blocks(p) - 1
      BY <2>3, <2>4
    <3> QED
      BY <3>1, Zenon DEF Blocks
  <2>7. ASSUME NEW m \in DOMAIN ls
        PROVE  /\ ls[m].sp = Base(fr) + p.ctrls[m + 1].height
               /\ ls[m].end_arity = Len(p.ctrls[m + 1].end)
               /\ ls[m].br_arity = Len(IF p.ctrls[m + 1].opcode = "loop"
                                       THEN p.ctrls[m + 1].start
                                       ELSE p.ctrls[m + 1].end)
    <3>1. m + 1 \in 2 .. Blocks(p) /\ (m + 1) - 1 = m
      BY <2>3, <2>4, <2>7
    <3>2. LabelFits(is, ts, ls[m], Base(fr), p, m + 1)
      BY <2>3, <3>1
    <3> QED
      BY <3>2, Zenon DEF LabelFits, Height, EndTypes, Carries, Looping
  <2> QED
    BY <2>5, <2>6, <2>7, Zenon DEF fr, ls
<1>2. RInv => LabelsMirrorCtrls
  BY <1>1, Zenon DEF LabelsMirrorCtrls
<1> QED
  BY <1>2, CallsAlwaysSound, PTL

(* When the last call is gone, the value stack holds the results of the    *)
(* invoked function and nothing else.                                      *)
THEOREM ResultsAlwaysMatch == Spec => []ResultsMatchType
<1>1. RInv => ResultsMatchType
  BY DEF RInv, CInv
<1> QED
  BY <1>1, CallsAlwaysSound, PTL

-----------------------------------------------------------------------------
(* The shared value stack implements one operand stack for each call.      *)

Activation(fr, ops) == [func |-> fr.func, ops |-> ops]
ActivationSet       == [func : Nat, ops : Seq(ValType)]

(* The operand stacks of the calls fs, the last of which ends at height s. *)
SegmentOf(fs, v, s, k) ==
  SubSeq(v, Base(fs[k]) + 1, IF k = Len(fs) THEN s ELSE fs[k + 1].sp)

ActsOf(fs, v, s) ==
  [k \in 1 .. Len(fs) |-> Activation(fs[k], SegmentOf(fs, v, s, k))]

LEMMA SegmentTyped ==
  ASSUME NEW v \in Seq(ValType), NEW a \in Nat, NEW b \in Nat, b <= Len(v)
  PROVE  SubSeq(v, a + 1, b) \in Seq(ValType)
<1>1. \A k \in a + 1 .. b : v[k] \in ValType
  OBVIOUS
<1> QED
  BY <1>1

(* They are a sequence of activations.                                     *)
LEMMA ActsTyped ==
  ASSUME NEW fs \in Seq(GoodFrame), NEW v \in Seq(ValType), NEW s \in Nat,
         s <= Len(v), NEW r, Waits(fs, v, s, r)
  PROVE  /\ ActsOf(fs, v, s) \in Seq(ActivationSet)
         /\ Len(ActsOf(fs, v, s)) = Len(fs)
         /\ \A k \in 1 .. Len(fs) :
              ActsOf(fs, v, s)[k] = Activation(fs[k], SegmentOf(fs, v, s, k))
<1> HIDE DEF GoodFrame
<1>1. ASSUME NEW k \in 1 .. Len(fs)
      PROVE  Activation(fs[k], SegmentOf(fs, v, s, k)) \in ActivationSet
  <2>1. /\ fs[k] \in GoodFrame /\ fs[k].sp \in Nat /\ Base(fs[k]) \in Nat
        /\ Base(fs[k]) <= s
    BY FramesAt DEF Waits
  <2>2. fs[k].func \in Nat
    BY <2>1, FrameFunction DEF Frame
  <2>3. CASE k = Len(fs)
    <3>1. SubSeq(v, Base(fs[k]) + 1, s) \in Seq(ValType)
      BY <2>1, SegmentTyped
    <3> QED
      BY <2>2, <2>3, <3>1, Zenon DEF Activation, ActivationSet, SegmentOf
  <2>4. CASE k # Len(fs)
    <3>1. k + 1 \in 1 .. Len(fs)
      BY <2>4
    <3>2. fs[k + 1].sp \in Nat /\ fs[k + 1].sp <= Base(fs[k + 1]) /\ Base(fs[k + 1]) <= s
          /\ Base(fs[k + 1]) \in Nat
      BY <3>1, FramesAt DEF Waits
    <3>3. fs[k + 1].sp <= Len(v)
      BY <3>2
    <3>4. SubSeq(v, Base(fs[k]) + 1, fs[k + 1].sp) \in Seq(ValType)
      BY <2>1, <3>2, <3>3, SegmentTyped
    <3> QED
      BY <2>2, <2>4, <3>4, Zenon DEF Activation, ActivationSet, SegmentOf
  <2> QED
    BY <2>3, <2>4
<1>2. Len(fs) \in Nat
  OBVIOUS
<1> HIDE DEF ActivationSet
<1>3. ActsOf(fs, v, s) \in [1 .. Len(fs) -> ActivationSet]
  BY <1>1 DEF ActsOf
<1>4. ActsOf(fs, v, s) \in Seq(ActivationSet) /\ Len(ActsOf(fs, v, s)) = Len(fs)
  <2> DEFINE A == ActsOf(fs, v, s)
             n == Len(fs)
  <2>1. A \in [1 .. n -> ActivationSet] /\ n \in Nat
    BY <1>2, <1>3
  <2> HIDE DEF A, n
  <2> QED
    BY <2>1 DEF A, n
<1> QED
  BY <1>4 DEF ActsOf

(* The innermost call has an operand stack of its own on top.              *)
LEMMA ActsAppend ==
  ASSUME NEW fs \in Seq(GoodFrame), NEW fr \in GoodFrame, NEW v \in Seq(ValType),
         NEW s \in Nat, s <= Len(v), NEW r, Waits(Append(fs, fr), v, s, r)
  PROVE  /\ ActsOf(Append(fs, fr), v, s)
              = Append(ActsOf(fs, v, fr.sp), Activation(fr, SubSeq(v, Base(fr) + 1, s)))
         /\ ActsOf(fs, v, fr.sp) \in Seq(ActivationSet)
         /\ Activation(fr, SubSeq(v, Base(fr) + 1, s)) \in ActivationSet
         /\ Waits(fs, v, fr.sp, ResultsOfCall(fr))
<1> HIDE DEF GoodFrame
<1> DEFINE gs == Append(fs, fr)
           A  == ActsOf(gs, v, s)
           B  == ActsOf(fs, v, fr.sp)
           a  == Activation(fr, SubSeq(v, Base(fr) + 1, s))
<1>1. /\ gs \in Seq(GoodFrame) /\ Len(gs) = Len(fs) + 1 /\ gs[Len(fs) + 1] = fr
      /\ \A k \in 1 .. Len(fs) : gs[k] = fs[k]
      /\ Len(fs) \in Nat
  OBVIOUS
<1>2. Waits(fs, v, fr.sp, ResultsOfCall(fr))
  BY WaitsPop
<1> HIDE DEF gs
<1>3. Waits(gs, v, s, r)
  BY DEF gs
<1>4. fr.sp \in Nat /\ fr.sp <= Base(fr) /\ Base(fr) <= s /\ Base(fr) \in Nat
  <2>1. Len(gs) \in 1 .. Len(gs) /\ gs[Len(gs)] = fr
    BY <1>1
  <2>2. /\ gs[Len(gs)].sp \in Nat /\ Base(gs[Len(gs)]) \in Nat
        /\ gs[Len(gs)].sp <= Base(gs[Len(gs)])
    BY <1>1, <2>1, FramesAt
  <2>3. Base(gs[Len(gs)]) <= s
    BY <1>3, <2>1 DEF Waits
  <2> QED
    BY <2>1, <2>2, <2>3
<1>5. /\ A \in Seq(ActivationSet) /\ Len(A) = Len(gs)
      /\ \A k \in 1 .. Len(gs) : A[k] = Activation(gs[k], SegmentOf(gs, v, s, k))
  BY <1>1, <1>3, ActsTyped
<1>6. /\ B \in Seq(ActivationSet) /\ Len(B) = Len(fs)
      /\ \A k \in 1 .. Len(fs) : B[k] = Activation(fs[k], SegmentOf(fs, v, fr.sp, k))
  <2>1. fr.sp <= Len(v)
    BY <1>4
  <2> QED
    BY <1>2, <1>4, <2>1, ActsTyped
<1>7. \A k \in 1 .. Len(fs) : A[k] = B[k]
  <2>1. ASSUME NEW k \in 1 .. Len(fs)
        PROVE  SegmentOf(gs, v, s, k) = SegmentOf(fs, v, fr.sp, k)
    <3>1. gs[k] = fs[k] /\ k # Len(gs)
      BY <1>1
    <3>2. CASE k = Len(fs)
      <4>1. gs[k + 1] = fr
        BY <1>1, <3>2
      <4> QED
        BY <3>1, <3>2, <4>1, Zenon DEF SegmentOf
    <3>3. CASE k # Len(fs)
      <4>1. gs[k + 1] = fs[k + 1]
        <5>1. k + 1 \in 1 .. Len(fs)
          BY <1>1, <3>3
        <5> QED
          BY <1>1, <5>1
      <4> QED
        BY <3>1, <3>3, <4>1, Zenon DEF SegmentOf
    <3> QED
      BY <3>2, <3>3
  <2>2. ASSUME NEW k \in 1 .. Len(fs) PROVE A[k] = B[k]
    <3>1. k \in 1 .. Len(gs)
      BY <1>1
    <3> QED
      BY <1>1, <1>5, <1>6, <2>1, <3>1, Zenon
  <2> QED
    BY <2>2
<1>8. A[Len(fs) + 1] = a /\ a \in ActivationSet
  <2>1. Len(gs) \in 1 .. Len(gs) /\ gs[Len(gs)] = fr
    BY <1>1
  <2>2. A[Len(gs)] = Activation(gs[Len(gs)], SegmentOf(gs, v, s, Len(gs)))
    BY <1>5, <2>1
  <2>3. A[Len(gs)] = a
    BY <2>1, <2>2, Zenon DEF SegmentOf
  <2>4. A[Len(gs)] \in ActivationSet
    BY <1>5, <2>1
  <2> QED
    BY <1>1, <2>3, <2>4
<1> HIDE DEF A, B, a, ActivationSet
<1>9. A = Append(B, a)
  BY <1>1, <1>5, <1>6, <1>7, <1>8
<1> QED
  BY <1>2, <1>6, <1>8, <1>9 DEF A, B, a, gs

(* What happens above that height does not disturb them.                   *)
LEMMA ActsKept ==
  ASSUME NEW fs \in Seq(GoodFrame), NEW v \in Seq(ValType), NEW w \in Seq(ValType),
         NEW s \in Nat, s <= Len(v), s <= Len(w), SubSeq(w, 1, s) = SubSeq(v, 1, s),
         NEW r, Waits(fs, v, s, r)
  PROVE  ActsOf(fs, w, s) = ActsOf(fs, v, s)
<1> HIDE DEF GoodFrame
<1>1. ASSUME NEW k \in 1 .. Len(fs)
      PROVE  SegmentOf(fs, w, s, k) = SegmentOf(fs, v, s, k)
  <2>1. Base(fs[k]) + 1 \in Nat \ {0}
    BY FramesAt
  <2>2. CASE k = Len(fs)
    <3>1. SubSeq(w, Base(fs[k]) + 1, s) = SubSeq(v, Base(fs[k]) + 1, s)
      BY <2>1, PartsAgree, SMTT(40)
    <3> QED
      BY <2>2, <3>1, Zenon DEF SegmentOf
  <2>3. CASE k # Len(fs)
    <3> DEFINE b == fs[k + 1].sp
    <3>1. k + 1 \in 1 .. Len(fs)
      BY <2>3
    <3>2. b \in Nat /\ b <= s
      <4>1. b \in Nat /\ Base(fs[k + 1]) \in Nat /\ b <= Base(fs[k + 1])
        BY <3>1, FramesAt
      <4>2. Base(fs[k + 1]) <= s
        BY <3>1 DEF Waits
      <4> QED
        BY <4>1, <4>2
    <3> HIDE DEF b
    <3>3. SubSeq(w, Base(fs[k]) + 1, b) = SubSeq(v, Base(fs[k]) + 1, b)
      BY <2>1, <3>2, PartsAgree, SMTT(40)
    <3> QED
      BY <2>3, <3>3, Zenon DEF SegmentOf, b
  <2> QED
    BY <2>2, <2>3
<1> QED
  BY <1>1 DEF ActsOf

-----------------------------------------------------------------------------
(* Every step of the interpreter is a step of CallMachine, or none.        *)

(* The activations now, and after a step.                                  *)
LEMMA ActivationsAre ==
  /\ Activations = ActsOf(frames, vstack, Len(vstack))
  /\ Activations' = ActsOf(frames', vstack', Len(vstack'))
<1>1. Activations = ActsOf(frames, vstack, Len(vstack))
  BY Zenon DEF Activations, ActsOf, Activation, Segment, SegmentOf
<1>2. Activations' = ActsOf(frames', vstack', Len(vstack'))
  BY Zenon DEF Activations, ActsOf, Activation, Segment, SegmentOf, Base
<1> QED
  BY <1>1, <1>2

LEMMA NoActivations ==
  /\ frames = <<>> => Activations = <<>> /\ Produced = vstack
  /\ frames # <<>> => Produced = <<>>
  /\ frames' = <<>> => Activations' = <<>> /\ Produced' = vstack'
  /\ frames' # <<>> => Produced' = <<>>
<1>1. ASSUME NEW v, NEW s PROVE ActsOf(<<>>, v, s) = <<>>
  BY DEF ActsOf
<1> QED
  BY <1>1, ActivationsAre, Zenon DEF Produced

(* Those of the callers, and that of the innermost call.                   *)
CallerActs == ActsOf(Outside, vstack, Fr.sp)
ActHere    == Activation(Fr, OpsHere)

LEMMA ActsHere ==
  ASSUME RInv, Running
  PROVE  /\ CallerActs \in Seq(ActivationSet) /\ ActHere \in ActivationSet
         /\ Activations = Append(CallerActs, ActHere)
         /\ Produced = <<>> /\ status = "running"
         /\ ActHere.func = Fr.func /\ ActHere.ops = OpsHere
         /\ Len(CallerActs) = Len(Outside)
<1> HIDE DEF GoodFrame, ActivationSet
<1>1. /\ Outside \in Seq(GoodFrame) /\ Fr \in GoodFrame
      /\ frames = Append(Outside, Fr)
      /\ Waits(Outside, vstack, Fr.sp, ResultsOfCall(Fr))
  BY OutsideWaits
<1>2. vstack \in Seq(ValType) /\ Len(vstack) \in Nat /\ Len(vstack) <= Len(vstack)
  <2>1. vstack \in Seq(ValType)
    BY DEF RInv, XInv
  <2> QED
    BY <2>1
<1>3. Waits(Append(Outside, Fr), vstack, Len(vstack), <<>>)
  BY <1>1, Zenon DEF RInv, CInv
<1>4. /\ ActsOf(Append(Outside, Fr), vstack, Len(vstack)) = Append(CallerActs, ActHere)
      /\ CallerActs \in Seq(ActivationSet) /\ ActHere \in ActivationSet
  <2>1. /\ ActsOf(Append(Outside, Fr), vstack, Len(vstack))
             = Append(ActsOf(Outside, vstack, Fr.sp),
                      Activation(Fr, SubSeq(vstack, Base(Fr) + 1, Len(vstack))))
        /\ ActsOf(Outside, vstack, Fr.sp) \in Seq(ActivationSet)
        /\ Activation(Fr, SubSeq(vstack, Base(Fr) + 1, Len(vstack))) \in ActivationSet
    BY <1>1, <1>2, <1>3, ActsAppend
  <2> QED
    BY <2>1, Zenon DEF CallerActs, ActHere, OpsHere
<1>5. Activations = Append(CallerActs, ActHere)
  BY <1>1, <1>4, ActivationsAre, Zenon
<1>6. Produced = <<>> /\ status = "running"
  BY NoActivations DEF Running
<1>7. ActHere.func = Fr.func /\ ActHere.ops = OpsHere
  BY DEF ActHere, Activation
<1>8. Len(CallerActs) = Len(Outside)
  <2>1. Fr.sp \in Nat /\ Fr.sp <= Len(vstack)
    <3>1. Fr.sp \in 0 .. Base(Fr) /\ Base(Fr) \in Nat
          /\ Len(vstack) = Base(Fr) + Len(OpsHere) /\ Len(OpsHere) \in Nat
      BY InstrHere, Zenon DEF RunsAt
    <3> QED
      BY <3>1
  <2> QED
    BY <1>1, <1>2, <2>1, ActsTyped DEF CallerActs
<1> QED
  BY <1>4, <1>5, <1>6, <1>7, <1>8

(* The callers keep theirs as long as the stack is as it was up to the     *)
(* stack pointer of the innermost call.                                    *)
LEMMA CallersKept ==
  ASSUME RInv, Running, NEW w \in Seq(ValType), Fr.sp <= Len(w),
         SubSeq(w, 1, Fr.sp) = SubSeq(BelowHere, 1, Fr.sp)
  PROVE  ActsOf(Outside, w, Fr.sp) = CallerActs
<1> HIDE DEF GoodFrame
<1>1. Waits(Outside, w, Fr.sp, ResultsOfCall(Fr)) /\ SubSeq(w, 1, Fr.sp) = SubSeq(vstack, 1, Fr.sp)
  BY OutsideKept
<1>2. Outside \in Seq(GoodFrame) /\ Waits(Outside, vstack, Fr.sp, ResultsOfCall(Fr))
  BY OutsideWaits
<1>3. Fr.sp \in Nat /\ Fr.sp <= Len(vstack) /\ vstack \in Seq(ValType)
  <2>1. Fr.sp \in 0 .. Base(Fr) /\ Base(Fr) \in Nat
        /\ Len(vstack) = Base(Fr) + Len(OpsHere) /\ Len(OpsHere) \in Nat
    BY InstrHere, Zenon DEF RunsAt
  <2> QED
    BY <2>1 DEF RInv, XInv
<1>4. ActsOf(Outside, w, Fr.sp) = ActsOf(Outside, vstack, Fr.sp)
  BY <1>1, <1>2, <1>3, ActsKept
<1> QED
  BY <1>4, Zenon DEF CallerActs

(* A computation of the innermost call.                                    *)
LEMMA AbstractLocal ==
  ASSUME NEW A \in Seq(ActivationSet), NEW a \in ActivationSet, NEW b \in ActivationSet,
         Activations = Append(A, a), Activations' = Append(A, b), a.func = b.func,
         status = "running", UNCHANGED <<status, Produced>>
  PROVE  Abstract!AMLocal
<1> HIDE DEF ActivationSet
<1>1. /\ Append(A, a) # <<>> /\ Len(Append(A, a)) = Len(A) + 1 /\ Len(A) \in Nat
      /\ Append(A, a)[Len(A) + 1] = a /\ \A k \in 1 .. Len(A) : Append(A, a)[k] = A[k]
      /\ Len(Append(A, b)) = Len(A) + 1
      /\ Append(A, b)[Len(A) + 1] = b /\ \A k \in 1 .. Len(A) : Append(A, b)[k] = A[k]
  OBVIOUS
<1> DEFINE X == Append(A, a)
           Y == Append(A, b)
<1> HIDE DEF X, Y
<1>2. /\ X # <<>> /\ Len(Y) = Len(X) /\ Y[Len(X)].func = X[Len(X)].func
      /\ \A k \in 1 .. Len(X) - 1 : Y[k] = X[k]
  <2>1. \A k \in 1 .. Len(X) - 1 : k \in 1 .. Len(A)
    BY <1>1 DEF X
  <2> QED
    BY <1>1, <2>1 DEF X, Y
<1>3. Activations = X /\ Activations' = Y
  BY DEF X, Y
<1> QED
  BY <1>2, <1>3, Zenon DEF Abstract!AMLocal, Abstract!Inner

LEMMA LocalRefines ==
  ASSUME RInv, Running, XInv', NEW fr, NEW W, LocalMove(fr, W)
  PROVE  Abstract!AMLocal
<1> HIDE DEF GoodFrame, ActivationSet
<1>1. /\ SameCall(fr) /\ W \in Seq(ValType) /\ LocalGoes(fr, W)
      /\ frames' = Append(Outside, fr) /\ vstack' = BelowHere \o W
      /\ status' = status
  BY Zenon DEF LocalMove, LocalGoes
<1>2. Outside \in Seq(GoodFrame) /\ fr \in GoodFrame
  <2>1. Outside \in Seq(GoodFrame)
    BY OutsideWaits
  <2>2. Append(Outside, fr) \in Seq(GoodFrame)
    BY <1>1, Zenon DEF XInv
  <2>3. fr = Append(Outside, fr)[Len(Outside) + 1] /\ Len(Outside) + 1 \in 1 .. Len(Append(Outside, fr))
    BY <2>1
  <2> QED
    BY <2>1, <2>2, <2>3
<1>3. fr.func = Fr.func /\ fr.sp = Fr.sp /\ Base(fr) = Base(Fr)
  BY <1>1, Zenon DEF SameCall, Base
<1> DEFINE w == BelowHere \o W
<1>4. /\ w \in Seq(ValType) /\ Fr.sp <= Len(w) /\ SubSeq(w, 1, Fr.sp) = SubSeq(BelowHere, 1, Fr.sp)
      /\ SubSeq(w, Base(Fr) + 1, Len(w)) = W
  BY <1>1, OnTopHere
<1>5. Waits(Append(Outside, fr), w, Len(w), <<>>)
  BY <1>1, <1>2, LocalWaits
<1> HIDE DEF w
<1>6. ActsOf(Outside, w, Fr.sp) = CallerActs
  BY <1>4, CallersKept
<1> DEFINE b == Activation(fr, W)
<1>7. ActsOf(Append(Outside, fr), w, Len(w)) = Append(CallerActs, b) /\ b \in ActivationSet
  <2>1. Len(w) \in Nat /\ Len(w) <= Len(w)
    BY <1>4
  <2>2. /\ ActsOf(Append(Outside, fr), w, Len(w))
             = Append(ActsOf(Outside, w, fr.sp),
                      Activation(fr, SubSeq(w, Base(fr) + 1, Len(w))))
        /\ Activation(fr, SubSeq(w, Base(fr) + 1, Len(w))) \in ActivationSet
    BY <1>2, <1>4, <1>5, <2>1, ActsAppend
  <2> QED
    BY <1>3, <1>4, <1>6, <2>2, Zenon
<1>8. Activations' = Append(CallerActs, b)
  BY <1>1, <1>7, ActivationsAre, Zenon DEF w
<1>9. b.func = ActHere.func
  BY <1>3 DEF ActHere, Activation
<1>10. Produced' = Produced
  <2>1. frames' # <<>>
    BY <1>1, <1>2
  <2> QED
    BY <2>1, ActsHere, NoActivations
<1> HIDE DEF b
<1>11. /\ CallerActs \in Seq(ActivationSet) /\ ActHere \in ActivationSet
       /\ Activations = Append(CallerActs, ActHere) /\ status = "running"
  BY ActsHere
<1> QED
  BY <1>1, <1>7, <1>8, <1>9, <1>10, <1>11, AbstractLocal

-----------------------------------------------------------------------------
(* A call finds in CallMachine what it finds on the value stack.           *)
LEMMA KeptBelow ==
  ASSUME NEW R \in Seq(ValType), NEW P \in Seq(ValType), NEW m \in Seq(ValType)
  PROVE  /\ Len((R \o P) \o m) - Len(P) - Len(m) = Len(R) /\ Len(R) \in Nat
         /\ SubSeq((R \o P) \o m, 1, Len(R)) = R
<1> DEFINE Q == R \o P
<1>1. Q \in Seq(ValType) /\ Len(Q) = Len(R) + Len(P) /\ Len(R) \in Nat /\ Len(P) \in Nat
  BY OnTop
<1>2. SubSeq(Q, 1, Len(R)) = R
  <2>1. Len(R) \in 0 .. Len(R)
    BY <1>1
  <2>2. SubSeq(R \o P, 1, Len(R)) = SubSeq(R, 1, Len(R))
    BY <2>1, SubSeqBelow
  <2> QED
    BY <2>2, SubSeqFull, Zenon
<1> HIDE DEF Q
<1>3. Len(Q \o m) = Len(Q) + Len(m) /\ Len(m) \in Nat
  BY <1>1
<1>4. SubSeq(Q \o m, 1, Len(R)) = SubSeq(Q, 1, Len(R))
  <2>1. Len(R) \in 0 .. Len(Q)
    BY <1>1
  <2> QED
    BY <1>1, <2>1, SubSeqBelow
<1>5. Len(Q \o m) - Len(P) - Len(m) = Len(R)
  BY <1>1, <1>3
<1> QED
  BY <1>1, <1>2, <1>4, <1>5, Zenon DEF Q

(* The innermost activation is the last one.                               *)
LEMMA InnerHere ==
  ASSUME RInv, Running
  PROVE  /\ Activations # <<>> /\ Activations[Len(Activations)] = ActHere
         /\ Abstract!Inner = ActHere /\ Abstract!Callers = CallerActs
         /\ Len(Activations) = Len(CallerActs) + 1
<1> HIDE DEF ActivationSet
<1>1. /\ CallerActs \in Seq(ActivationSet) /\ ActHere \in ActivationSet
      /\ Activations = Append(CallerActs, ActHere)
  BY ActsHere
<1>2. \A A \in Seq(ActivationSet) : \A a \in ActivationSet :
        /\ Append(A, a) # <<>> /\ Append(A, a)[Len(Append(A, a))] = a
        /\ Len(Append(A, a)) = Len(A) + 1
        /\ SubSeq(Append(A, a), 1, Len(Append(A, a)) - 1) = A
  <2>1. ASSUME NEW A \in Seq(ActivationSet), NEW a \in ActivationSet
        PROVE  /\ Append(A, a) # <<>> /\ Append(A, a)[Len(Append(A, a))] = a
               /\ Len(Append(A, a)) = Len(A) + 1
               /\ SubSeq(Append(A, a), 1, Len(Append(A, a)) - 1) = A
    OBVIOUS
  <2> QED
    BY <2>1
<1>3. /\ Append(CallerActs, ActHere) # <<>>
      /\ Append(CallerActs, ActHere)[Len(Append(CallerActs, ActHere))] = ActHere
      /\ Len(Append(CallerActs, ActHere)) = Len(CallerActs) + 1
      /\ SubSeq(Append(CallerActs, ActHere), 1, Len(Append(CallerActs, ActHere)) - 1)
           = CallerActs
  BY <1>1, <1>2, Zenon
<1> QED
  BY <1>1, <1>3, Zenon DEF Abstract!Inner, Abstract!Callers

LEMMA AbstractCalls ==
  ASSUME RInv, Running, NEW f \in 0 .. FuncCount - 1, NEW more \in {<<>>, <<"i32">>},
         CallReady(f, more)
  PROVE  /\ Abstract!Calls(f, more)
         /\ SubSeq(ActHere.ops, 1, Abstract!Kept(f, more)) = Rest
<1> DEFINE P == FuncTypeOf(f).params
<1>1. ParamTypes[f] = P /\ Len(ParamTypes[f]) = Len(P)
  BY DEF ParamTypes, Callable
<1>2. /\ Rest \in Seq(ValType) /\ P \in Seq(ValType) /\ OpsHere = (Rest \o P) \o more
  BY Zenon DEF CallReady
<1>3. more \in Seq(ValType)
  <2>1. <<>> \in Seq(ValType) /\ <<"i32">> \in Seq(ValType)
    BY SomeValTypes
  <2> QED
    BY <2>1, Zenon
<1>4. ActHere.ops = OpsHere /\ status = "running"
  BY ActsHere
<1>5. Abstract!Inner = ActHere /\ Activations # <<>>
  BY InnerHere
<1> HIDE DEF P
<1>6. Len(OpsHere) - Len(P) - Len(more) = Len(Rest) /\ Len(Rest) \in Nat
      /\ SubSeq(OpsHere, 1, Len(Rest)) = Rest
  <2>1. /\ Len((Rest \o P) \o more) - Len(P) - Len(more) = Len(Rest) /\ Len(Rest) \in Nat
        /\ SubSeq((Rest \o P) \o more, 1, Len(Rest)) = Rest
    BY <1>2, <1>3, KeptBelow
  <2> QED
    BY <1>2, <2>1, Zenon
<1>7. Abstract!Kept(f, more) = Len(Rest)
  <2>1. Abstract!Kept(f, more) = Len(OpsHere) - Len(P) - Len(more)
    BY <1>1, <1>4, <1>5, Zenon DEF Abstract!Kept
  <2> QED
    BY <1>6, <2>1, Zenon
<1>8. SubSeq(ActHere.ops, 1, Abstract!Kept(f, more)) = Rest
  BY <1>4, <1>6, <1>7, Zenon
<1>9. Abstract!Kept(f, more) >= 0
  BY <1>6, <1>7
<1>10. Abstract!Calls(f, more)
  <2>1. Abstract!Inner.ops
          = (SubSeq(Abstract!Inner.ops, 1, Abstract!Kept(f, more)) \o ParamTypes[f]) \o more
    BY <1>1, <1>2, <1>4, <1>5, <1>8, Zenon
  <2> QED
    BY <1>4, <1>5, <1>9, <2>1, Zenon DEF Abstract!Calls
<1> QED
  BY <1>8, <1>10

(* A call of a wasm function.                                              *)
LEMMA CallRefines ==
  ASSUME RInv, Running, XInv', NEW f \in 0 .. FuncCount - 1,
         NEW more \in {<<>>, <<"i32">>}, NEW fr, NEW nf, CallMove(f, more, fr, nf)
  PROVE  Abstract!AMCall(f, more)
<1> HIDE DEF GoodFrame, ActivationSet
<1> DEFINE w == CalledStack(f)
           P == FuncTypeOf(f).params
           B == BelowHere \o Rest
<1>1. /\ CallGoes(f, more, fr, nf) /\ CallReady(f, more) /\ SameCall(fr)
      /\ ~IsImport(f) /\ nf.func = f /\ nf.sp = Len(B)
      /\ frames' = Append(Append(Outside, fr), nf) /\ vstack' = w
      /\ status' = status
  BY Zenon DEF CallMove, CallGoes, Entry
<1>2. /\ Outside \in Seq(GoodFrame) /\ fr \in GoodFrame /\ nf \in GoodFrame
      /\ Append(Outside, fr) \in Seq(GoodFrame)
  <2>1. Outside \in Seq(GoodFrame)
    BY OutsideWaits
  <2>2. Append(Append(Outside, fr), nf) \in Seq(GoodFrame)
    BY <1>1, Zenon DEF XInv
  <2> DEFINE gs == Append(Outside, fr)
             hs == Append(gs, nf)
             n  == Len(Outside)
  <2>3. n \in Nat /\ Len(gs) = n + 1 /\ gs[n + 1] = fr
    BY <2>1
  <2>4. Len(hs) = n + 2 /\ hs[n + 2] = nf /\ hs[n + 1] = fr
    BY <2>1, <2>3
  <2>5. hs \in Seq(GoodFrame)
    BY <2>2
  <2> HIDE DEF hs, n
  <2>6. hs[n + 2] \in GoodFrame /\ hs[n + 1] \in GoodFrame
    <3>1. n + 2 \in 1 .. Len(hs) /\ n + 1 \in 1 .. Len(hs)
      BY <2>3, <2>4
    <3> QED
      BY <2>5, <3>1
  <2>7. fr \in GoodFrame /\ nf \in GoodFrame
    BY <2>4, <2>6
  <2> QED
    BY <2>1, <2>7
<1>3. /\ fr.func = Fr.func /\ fr.sp = Fr.sp /\ Base(fr) = Base(Fr)
  BY <1>1, Zenon DEF SameCall, Base
<1>4. /\ Rest \in Seq(ValType) /\ P \in Seq(ValType) /\ BelowHere \in Seq(ValType)
      /\ w = B \o P
  <2>1. BelowHere \in Seq(ValType)
    BY RunsHere, Zenon DEF RunsAt
  <2> QED
    BY <1>1, <2>1, Zenon DEF CallReady, CalledStack
<1>5. /\ B \in Seq(ValType) /\ Len(B) = Base(Fr) + Len(Rest)
      /\ SubSeq(B, 1, Fr.sp) = SubSeq(BelowHere, 1, Fr.sp)
      /\ Fr.sp <= Len(B) /\ Base(Fr) <= Len(B)
      /\ SubSeq(B, Base(Fr) + 1, Len(B)) = Rest
  BY <1>4, OnTopHere
<1>6. Base(nf) = Len(B) + Len(P) /\ Base(Fr) \in Nat /\ Fr.sp \in Nat
  <2>1. Base(nf) = Len(B) + Len(P)
    BY <1>1, Zenon DEF Base
  <2>2. Base(Fr) \in Nat /\ Fr.sp \in 0 .. Base(Fr)
    BY RunsHere, Zenon DEF RunsAt
  <2> QED
    BY <2>1, <2>2
<1>7. Waits(Append(Append(Outside, fr), nf), w, Len(w), <<>>)
  BY <1>1, <1>2, CallWaits
<1> HIDE DEF P, B
<1>8. /\ w \in Seq(ValType) /\ Len(w) = Len(B) + Len(P) /\ Len(B) \in Nat /\ Len(P) \in Nat
  <2>1. B \o P \in Seq(ValType) /\ Len(B \o P) = Len(B) + Len(P)
    BY <1>4, <1>5, OnTop
  <2> QED
    BY <1>4, <1>5, <2>1
<1>9. SubSeq(w, 1, Len(B)) = B
  <2>1. Len(B) \in 0 .. Len(B)
    BY <1>8
  <2>2. SubSeq(B \o P, 1, Len(B)) = SubSeq(B, 1, Len(B))
    BY <1>4, <1>5, <2>1, SubSeqBelow
  <2> QED
    BY <1>4, <1>5, <2>2, SubSeqFull, Zenon
<1>10. SubSeq(w, 1, Fr.sp) = SubSeq(BelowHere, 1, Fr.sp)
  <2>1. Fr.sp \in 0 .. Len(B)
    BY <1>5, <1>6, <1>8
  <2>2. SubSeq(B \o P, 1, Fr.sp) = SubSeq(B, 1, Fr.sp)
    BY <1>4, <1>5, <2>1, SubSeqBelow
  <2> QED
    BY <1>4, <1>5, <2>2, Zenon
<1>11. SubSeq(w, Base(Fr) + 1, Len(B)) = Rest
  <2>1. SubSeq(w, Base(Fr) + 1, Len(B)) = SubSeq(B, Base(Fr) + 1, Len(B))
    <3>1. Len(B) <= Len(w) /\ Len(B) <= Len(B) /\ Base(Fr) + 1 \in Nat \ {0}
      BY <1>6, <1>8
    <3>2. SubSeq(w, 1, Len(B)) = SubSeq(B, 1, Len(B))
      BY <1>5, <1>9, SubSeqFull, Zenon
    <3> HIDE DEF w
    <3> QED
      BY <1>5, <1>8, <3>1, <3>2, PartsAgree, SMTT(40)
  <2> QED
    BY <1>5, <2>1, Zenon
<1>12. SubSeq(w, Base(nf) + 1, Len(w)) = <<>>
  <2>1. Base(nf) = Len(w) /\ Len(w) \in Nat
    BY <1>6, <1>8
  <2> HIDE DEF w
  <2> QED
    BY <1>8, <2>1
<1> HIDE DEF w
<1> DEFINE x == Activation(fr, Rest)
           y == Activation(nf, <<>>)
<1>13. ActsOf(Append(Append(Outside, fr), nf), w, Len(w)) = Append(Append(CallerActs, x), y)
       /\ x \in ActivationSet /\ y \in ActivationSet
  <2>1. Len(w) \in Nat /\ Len(w) <= Len(w) /\ nf.sp \in Nat /\ nf.sp <= Len(w)
    BY <1>1, <1>8 DEF B
  <2>2. /\ ActsOf(Append(Append(Outside, fr), nf), w, Len(w))
             = Append(ActsOf(Append(Outside, fr), w, nf.sp),
                      Activation(nf, SubSeq(w, Base(nf) + 1, Len(w))))
        /\ Activation(nf, SubSeq(w, Base(nf) + 1, Len(w))) \in ActivationSet
        /\ Waits(Append(Outside, fr), w, nf.sp, ResultsOfCall(nf))
    BY <1>2, <1>7, <1>8, <2>1, ActsAppend
  <2>3. /\ ActsOf(Append(Outside, fr), w, nf.sp)
             = Append(ActsOf(Outside, w, fr.sp),
                      Activation(fr, SubSeq(w, Base(fr) + 1, nf.sp)))
        /\ Activation(fr, SubSeq(w, Base(fr) + 1, nf.sp)) \in ActivationSet
    BY <1>2, <1>8, <2>1, <2>2, ActsAppend
  <2>4. ActsOf(Outside, w, Fr.sp) = CallerActs
    <3>1. Fr.sp <= Len(w)
      BY <1>5, <1>6, <1>8
    <3> QED
      BY <1>8, <1>10, <3>1, CallersKept
  <2>5. nf.sp = Len(B)
    BY <1>1 DEF B
  <2> QED
    BY <1>3, <1>11, <1>12, <2>2, <2>3, <2>4, <2>5, Zenon
<1>14. Activations' = Append(Append(CallerActs, x), y)
  BY <1>1, <1>13, ActivationsAre, Zenon DEF w
<1>15. x = [func |-> ActHere.func, ops |-> SubSeq(ActHere.ops, 1, Abstract!Kept(f, more))]
       /\ y = [func |-> f, ops |-> <<>>]
  <2>1. SubSeq(ActHere.ops, 1, Abstract!Kept(f, more)) = Rest
    BY <1>1, AbstractCalls
  <2>2. ActHere.func = fr.func
    BY <1>3, ActsHere
  <2> QED
    BY <1>1, <2>1, <2>2, Zenon DEF Activation
<1>16. Produced' = Produced
  <2>1. frames' # <<>>
    BY <1>1, <1>2
  <2> QED
    BY <2>1, ActsHere, NoActivations
<1> HIDE DEF x, y
<1>17. Append(Append(CallerActs, x), y) = CallerActs \o <<x, y>>
  <2>1. CallerActs \in Seq(ActivationSet)
    BY ActsHere
  <2>2. x \in ActivationSet /\ y \in ActivationSet
    BY <1>13
  <2> QED
    BY <2>1, <2>2, AppendTwice, ZenonT(30)
<1>18. f \notin HostFuncs
  BY <1>1 DEF HostFuncs
<1>19. Activations' = Abstract!Callers \o
         << Abstract!Activation(Abstract!Inner.func,
                                SubSeq(Abstract!Inner.ops, 1, Abstract!Kept(f, more))),
            Abstract!Activation(f, <<>>) >>
  <2>1. Abstract!Inner = ActHere /\ Abstract!Callers = CallerActs
    BY InnerHere
  <2>2. x = Abstract!Activation(Abstract!Inner.func,
                                SubSeq(Abstract!Inner.ops, 1, Abstract!Kept(f, more)))
        /\ y = Abstract!Activation(f, <<>>)
    BY <1>15, <2>1, Zenon DEF Abstract!Activation
  <2> QED
    BY <1>14, <1>17, <2>1, <2>2, Zenon
<1>20. Abstract!Calls(f, more)
  BY <1>1, AbstractCalls
<1> QED
  BY <1>1, <1>16, <1>18, <1>19, <1>20, Zenon DEF Abstract!AMCall

-----------------------------------------------------------------------------
(* A return hands its results to the caller, and to no other call.         *)
Returned(v, s, r) == SubSeq(v, 1, s) \o r

LEMMA ReturnedOperands ==
  ASSUME NEW v \in Seq(ValType), NEW s \in Nat, s <= Len(v), NEW r \in Seq(ValType),
         NEW b \in Nat, b <= s
  PROVE  /\ Returned(v, s, r) \in Seq(ValType)
         /\ Len(Returned(v, s, r)) = s + Len(r) /\ Len(r) \in Nat
         /\ SubSeq(Returned(v, s, r), 1, s) = SubSeq(v, 1, s)
         /\ SubSeq(Returned(v, s, r), b + 1, Len(Returned(v, s, r)))
              = SubSeq(v, b + 1, s) \o r
<1> DEFINE A == SubSeq(v, 1, s)
           X == SubSeq(A, b + 1, s)
           Y == SubSeq(A, 1, b)
           w == Returned(v, s, r)
<1>1. A \in Seq(ValType) /\ Len(A) = s
  BY Prefix
<1>2. w = A \o r
  BY Zenon DEF Returned
<1> HIDE DEF A, w
<1>3. w \in Seq(ValType) /\ Len(w) = s + Len(r) /\ Len(r) \in Nat
  <2>1. A \o r \in Seq(ValType) /\ Len(A \o r) = s + Len(r) /\ Len(r) \in Nat
    BY <1>1
  <2> QED
    BY <1>2, <2>1, Zenon
<1>4. SubSeq(A, 1, s) = A
  BY <1>1, SubSeqFull
<1>5. SubSeq(w, 1, s) = A
  <2>1. SubSeq(A \o r, 1, s) = SubSeq(A, 1, s)
    BY <1>1, SubSeqBelow
  <2> QED
    BY <1>2, <1>4, <2>1, Zenon
<1>6. /\ X \in Seq(ValType) /\ Y \in Seq(ValType) /\ A = Y \o X /\ Len(Y) = b
  <2>1. b \in 0 .. Len(A)
    BY <1>1
  <2> QED
    BY <1>1, <2>1, SplitAt
<1>7. X = SubSeq(v, b + 1, s)
  <2>1. s <= Len(A) /\ s <= s /\ b + 1 \in Nat \ {0}
    BY <1>1
  <2>2. SubSeq(A, 1, s) = SubSeq(v, 1, s)
    BY <1>4, Zenon DEF A
  <2> QED
    BY <1>1, <2>1, <2>2, PartsAgree
<1> HIDE DEF X, Y
<1> DEFINE Z == X \o r
<1>8. Z \in Seq(ValType) /\ w = Y \o Z
  <2>1. Y \o (X \o r) = (Y \o X) \o r
    BY <1>6, ValConcat, Zenon
  <2>2. X \o r \in Seq(ValType)
    BY <1>6
  <2> QED
    BY <1>2, <1>6, <2>1, <2>2, Zenon
<1> HIDE DEF Z
<1>9. SubSeq(w, b + 1, Len(w)) = Z
  <2>1. SubSeq(Y \o Z, Len(Y) + 1, Len(Y \o Z)) = Z
    BY <1>6, <1>8, AllOnTop
  <2> QED
    BY <1>6, <1>8, <2>1, Zenon
<1> QED
  BY <1>3, <1>5, <1>7, <1>9, Zenon DEF A, Z, w

(* The last of the activations X gets r on top of its operands.            *)
CallerGot(X, Y, r) ==
  Len(X) # 0 /\ Y = [X EXCEPT ![Len(X)].ops = @ \o r]

LEMMA CallerGets ==
  ASSUME NEW C \in Seq(ActivationSet), NEW a \in ActivationSet, NEW b \in ActivationSet,
         NEW r, b.func = a.func, b.ops = a.ops \o r
  PROVE  CallerGot(Append(C, a), Append(C, b), r)
<1> DEFINE X == Append(C, a)
           Y == Append(C, b)
           n == Len(C) + 1
<1>1. b = [a EXCEPT !.ops = a.ops \o r]
  <2> DEFINE t == a.ops \o r
  <2>1. b.ops = t /\ b.func = a.func
    OBVIOUS
  <2> HIDE DEF t
  <2> QED
    BY <2>1 DEF ActivationSet
<1> HIDE DEF ActivationSet
<1>2. /\ X \in Seq(ActivationSet) /\ Y \in Seq(ActivationSet)
      /\ Len(X) = n /\ Len(Y) = n /\ n \in Nat \ {0}
      /\ X[n] = a /\ Y[n] = b
      /\ \A k \in 1 .. n : k # n => X[k] = C[k] /\ Y[k] = C[k]
  OBVIOUS
<1>3. X[n].ops = a.ops /\ [X[n] EXCEPT !.ops = X[n].ops \o r] = b
  BY <1>1, <1>2, Zenon
<1> DEFINE Z == [X EXCEPT ![n] = b]
<1> HIDE DEF X, Y, n
<1>4. Y = Z
  <2>1. Z \in Seq(ActivationSet) /\ Len(Z) = n /\ Z[n] = b
    BY <1>2
  <2>2. \A k \in 1 .. n : Z[k] = Y[k]
    BY <1>2
  <2> HIDE DEF Z
  <2>3. Y \in Seq(ActivationSet) /\ Z \in Seq(ActivationSet) /\ Len(Y) = Len(Z)
    BY <1>2, <2>1, Zenon
  <2>4. \A k \in 1 .. Len(Y) : Y[k] = Z[k]
    BY <1>2, <2>2, Zenon
  <2> QED
    BY <2>3, <2>4, SeqEqual, ZenonT(30)
<1>5. [X EXCEPT ![n].ops = @ \o r] = Z
  BY <1>3
<1> QED
  <2>1. Len(X) # 0
    BY <1>2
  <2> QED
    BY <1>2, <1>4, <1>5, <2>1, Zenon DEF X, Y, CallerGot

LEMMA ActsReturn ==
  ASSUME NEW G \in Seq(GoodFrame), NEW g \in GoodFrame, NEW v \in Seq(ValType),
         NEW s \in Nat, s <= Len(v), NEW r \in Seq(ValType),
         Waits(Append(G, g), v, s, r)
  PROVE  CallerGot(ActsOf(Append(G, g), v, s),
                   ActsOf(Append(G, g), Returned(v, s, r), Len(Returned(v, s, r))), r)
<1> HIDE DEF GoodFrame, ActivationSet
<1> DEFINE w == Returned(v, s, r)
           C == ActsOf(G, v, g.sp)
           a == Activation(g, SubSeq(v, Base(g) + 1, s))
           b == Activation(g, SubSeq(v, Base(g) + 1, s) \o r)
           gs == Append(G, g)
<1>1. /\ ActsOf(gs, v, s) = Append(C, a) /\ C \in Seq(ActivationSet)
      /\ a \in ActivationSet /\ Waits(G, v, g.sp, ResultsOfCall(g))
  BY ActsAppend
<1>2. gs \in Seq(GoodFrame) /\ Len(gs) \in 1 .. Len(gs) /\ gs[Len(gs)] = g
  BY DEF gs
<1>3. g.sp \in Nat /\ g.sp <= Base(g) /\ Base(g) \in Nat /\ Base(g) <= s
  <2> HIDE DEF gs
  <2>1. /\ gs[Len(gs)].sp \in Nat /\ Base(gs[Len(gs)]) \in Nat
        /\ gs[Len(gs)].sp <= Base(gs[Len(gs)])
    BY <1>2, FramesAt
  <2>2. Base(gs[Len(gs)]) <= s
    BY <1>2 DEF Waits, gs
  <2> QED
    BY <1>2, <2>1, <2>2
<1>4. /\ w \in Seq(ValType) /\ Len(w) = s + Len(r) /\ Len(r) \in Nat
      /\ SubSeq(w, 1, s) = SubSeq(v, 1, s)
      /\ SubSeq(w, Base(g) + 1, Len(w)) = SubSeq(v, Base(g) + 1, s) \o r
  <2> DEFINE h == Base(g)
  <2>1. h \in Nat /\ h <= s
    BY <1>3
  <2> HIDE DEF h, w, C, a, b, gs
  <2>2. /\ Returned(v, s, r) \in Seq(ValType)
        /\ Len(Returned(v, s, r)) = s + Len(r) /\ Len(r) \in Nat
        /\ SubSeq(Returned(v, s, r), 1, s) = SubSeq(v, 1, s)
        /\ SubSeq(Returned(v, s, r), h + 1, Len(Returned(v, s, r)))
             = SubSeq(v, h + 1, s) \o r
    <3>1. v \in Seq(ValType) /\ s \in Nat /\ s <= Len(v) /\ r \in Seq(ValType)
      OBVIOUS
    <3> QED
      BY <2>1, <3>1, ReturnedOperands, ZenonT(90)
  <2> QED
    BY <2>2, Zenon DEF h, w
<1>5. Waits(gs, w, Len(w), <<>>)
  <2>1. Waits(Append(G, g), SubSeq(v, 1, s) \o r, Len(SubSeq(v, 1, s) \o r), <<>>)
    <3> HIDE DEF gs
    <3>1. Waits(gs, v, s, r)
      BY DEF gs
    <3>2. Waits(gs, SubSeq(v, 1, s) \o r, Len(SubSeq(v, 1, s) \o r), <<>>)
      BY <1>2, <3>1, WaitsReturn
    <3> QED
      BY <3>2 DEF gs
  <2> QED
    BY <2>1, Zenon DEF Returned
<1> HIDE DEF w
<1>6. /\ ActsOf(gs, w, Len(w))
           = Append(ActsOf(G, w, g.sp), Activation(g, SubSeq(w, Base(g) + 1, Len(w))))
      /\ Activation(g, SubSeq(w, Base(g) + 1, Len(w))) \in ActivationSet
  <2>1. Len(w) \in Nat /\ Len(w) <= Len(w)
    BY <1>4
  <2> QED
    BY <1>4, <1>5, <2>1, ActsAppend
<1>7. ActsOf(G, w, g.sp) = C
  <2>1. g.sp <= Len(v) /\ g.sp <= Len(w) /\ g.sp <= s /\ s <= Len(w)
    BY <1>3, <1>4, SMTT(40)
  <2>2. SubSeq(w, 1, g.sp) = SubSeq(v, 1, g.sp)
    <3>1. 1 \in Nat \ {0}
      OBVIOUS
    <3> QED
      BY <1>3, <1>4, <2>1, <3>1, PartsAgree, SMTT(40)
  <2> QED
    BY <1>1, <1>3, <1>4, <2>1, <2>2, ActsKept
<1>8. ActsOf(gs, w, Len(w)) = Append(C, b) /\ b \in ActivationSet
  BY <1>4, <1>6, <1>7, Zenon
<1>9. b.func = a.func /\ b.ops = a.ops \o r
  <2> DEFINE X == SubSeq(v, Base(g) + 1, s)
  <2> HIDE DEF X
  <2>1. /\ Activation(g, X).func = g.func /\ Activation(g, X).ops = X
        /\ Activation(g, X \o r).func = g.func /\ Activation(g, X \o r).ops = X \o r
    BY DEF Activation
  <2> QED
    BY <2>1, Zenon DEF X
<1> HIDE DEF a, b, C
<1>10. CallerGot(Append(C, a), Append(C, b), r)
  BY <1>1, <1>8, <1>9, CallerGets
<1> QED
  BY <1>1, <1>8, <1>10, Zenon DEF w, gs

-----------------------------------------------------------------------------
(* The steps one by one.                                                   *)
LEMMA LeaveRefines ==
  ASSUME RInv, Running, LeaveMove
  PROVE  Abstract!AMReturn
<1> HIDE DEF GoodFrame, ActivationSet
<1> DEFINE R == ResultsOf(FnHere)
<1>1. frames' = Outside /\ vstack' = LeftStack /\ status' = status
  BY Zenon DEF LeaveMove
<1>2. /\ Outside \in Seq(GoodFrame) /\ Fr \in GoodFrame
      /\ Waits(Outside, vstack, Fr.sp, R) /\ R \in Seq(ValType)
      /\ R = FuncTypeOf(Fr.func).results
      /\ Outside = <<>> => Fr.func = entry
  BY OutsideWaits DEF ResultsOfCall
<1>3. /\ Abstract!Inner = ActHere /\ Abstract!Callers = CallerActs
      /\ Activations # <<>> /\ Len(Activations) = Len(CallerActs) + 1
  BY InnerHere
<1>4. /\ ActHere.func = Fr.func /\ status = "running" /\ Produced = <<>>
      /\ CallerActs \in Seq(ActivationSet) /\ Len(CallerActs) = Len(Outside)
  BY ActsHere
<1>5. ResultTypes[Fr.func] = R
  <2>1. Fr.func \in Callable
    <3>1. Fr.func \in Len(Imports) .. FuncCount - 1
      BY <1>2 DEF GoodFrame
    <3> QED
      BY <3>1, ModuleAssumption DEF Callable
  <2> QED
    BY <1>2, <2>1, Zenon DEF ResultTypes
<1> HIDE DEF R
<1>6. CASE Outside = <<>>
  <2>1. LeftStack = R
    <3>1. LeftStack = FuncTypeOf(entry).results
      BY <1>6, LeaveWaits
    <3> QED
      BY <1>2, <1>6, <3>1, Zenon
  <2>2. Activations' = <<>> /\ Produced' = R
    BY <1>1, <1>6, <2>1, NoActivations, Zenon
  <2>3. Len(Activations) = 1
    BY <1>3, <1>4, <1>6
  <2> QED
    BY <1>1, <1>3, <1>4, <1>5, <2>2, <2>3, Zenon DEF Abstract!AMReturn
<1>7. CASE Outside # <<>>
  <2>1. PICK G \in Seq(GoodFrame) : \E g \in GoodFrame : Outside = Append(G, g)
    <3>1. Front(Outside) \in Seq(GoodFrame) /\ Last(Outside) \in GoodFrame
      BY <1>2, <1>7, FrontLast
    <3>2. Outside = Append(Front(Outside), Last(Outside))
      BY <1>2, <1>7 DEF Front, Last
    <3> QED
      BY <3>1, <3>2, Zenon
  <2>2. PICK g \in GoodFrame : Outside = Append(G, g)
    BY <2>1
  <2>3. Fr.sp \in Nat /\ Fr.sp <= Len(vstack) /\ vstack \in Seq(ValType)
    <3>1. Fr.sp \in 0 .. Base(Fr) /\ Base(Fr) \in Nat
          /\ Len(vstack) = Base(Fr) + Len(OpsHere) /\ Len(OpsHere) \in Nat
      BY InstrHere, Zenon DEF RunsAt
    <3> QED
      BY <3>1 DEF RInv, XInv
  <2>4. CallerGot(ActsOf(Append(G, g), vstack, Fr.sp),
                  ActsOf(Append(G, g), Returned(vstack, Fr.sp, R),
                         Len(Returned(vstack, Fr.sp, R))), R)
    <3> DEFINE s == Fr.sp
    <3>1. Waits(Append(G, g), vstack, s, R)
      BY <1>2, <2>2, Zenon
    <3>2. s \in Nat /\ s <= Len(vstack)
      BY <2>3
    <3> HIDE DEF s
    <3>3. CallerGot(ActsOf(Append(G, g), vstack, s),
                    ActsOf(Append(G, g), Returned(vstack, s, R),
                           Len(Returned(vstack, s, R))), R)
      BY <1>2, <2>3, <3>1, <3>2, ActsReturn
    <3> QED
      BY <3>3, Zenon DEF s
  <2>5. Returned(vstack, Fr.sp, R) = LeftStack
    <3>1. SubSeq(vstack, 1, Fr.sp) = SubSeq(BelowHere, 1, Fr.sp)
      <4>1. /\ OpsHere \in Seq(ValType) /\ vstack = BelowHere \o OpsHere
        BY RunsHere, Zenon DEF RunsAt
      <4> QED
        BY <4>1, OnTopHere
    <3> QED
      BY <3>1, Zenon DEF Returned, LeftStack, R
  <2>6. CallerGot(CallerActs, Activations', R)
    <3>1. Activations' = ActsOf(Append(G, g), LeftStack, Len(LeftStack))
      BY <1>1, <2>2, ActivationsAre, Zenon
    <3>2. CallerActs = ActsOf(Append(G, g), vstack, Fr.sp)
      BY <2>2, Zenon DEF CallerActs
    <3> QED
      BY <2>4, <2>5, <3>1, <3>2, Zenon
  <2>7. /\ Len(CallerActs) # 0
        /\ Activations' = [CallerActs EXCEPT ![Len(CallerActs)].ops = @ \o R]
    BY <2>6, Zenon DEF CallerGot
  <2>8. Len(Activations) # 1 /\ Len(Activations) - 1 = Len(CallerActs)
    <3>1. Len(CallerActs) \in Nat
      BY <1>4
    <3> QED
      BY <1>3, <2>7, <3>1
  <2>9. Produced' = Produced
    BY <1>1, <1>4, <1>7, NoActivations, Zenon
  <2> QED
    BY <1>1, <1>3, <1>4, <1>5, <2>7, <2>8, <2>9, Zenon DEF Abstract!AMReturn
<1> QED
  BY <1>6, <1>7

(* A host function that fails was called with its arguments.               *)
LEMMA HostFailsRefines ==
  ASSUME RInv, HostFails
  PROVE  \E f \in Callable : \E more \in {<<>>, <<"i32">>} : Abstract!AMHostFails(f, more)
<1>1. /\ Running /\ CallsHost(Instr)
      /\ status' = "panicked" /\ frames' = <<>> /\ vstack' = <<>>
  BY Zenon DEF HostFails, Abort
<1>2. Activations' = <<>> /\ Produced' = <<>>
  BY <1>1, NoActivations, Zenon
<1>3. ASSUME NEW f \in 0 .. FuncCount - 1, NEW more \in {<<>>, <<"i32">>},
             CallReady(f, more), IsImport(f)
      PROVE  f \in Callable /\ Abstract!AMHostFails(f, more)
  <2>1. f \in Callable /\ f \in HostFuncs
    BY <1>3, Zenon DEF Callable, HostFuncs
  <2>2. Abstract!Calls(f, more)
    BY <1>1, <1>3, AbstractCalls
  <2> QED
    BY <1>1, <1>2, <2>1, <2>2, Zenon DEF Abstract!AMHostFails
<1>4. CASE Instr.op = "call" /\ IsImport(Instr.x)
  <2>1. Instr.x \in 0 .. FuncCount - 1 /\ CallReady(Instr.x, <<>>)
    BY <1>1, <1>4, CallHere
  <2> QED
    BY <1>3, <1>4, <2>1
<1>5. CASE Instr.op = "call_indirect"
           /\ \E f \in 0 .. FuncCount - 1 : IsImport(f) /\ FuncTypeOf(f) = At(Types, Instr.x)
  <2>1. PICK f \in 0 .. FuncCount - 1 : IsImport(f) /\ FuncTypeOf(f) = At(Types, Instr.x)
    BY <1>5
  <2>2. CallReady(f, <<"i32">>)
    BY <1>1, <1>5, <2>1, CallHere
  <2> QED
    BY <1>3, <2>1, <2>2
<1> QED
  BY <1>1, <1>4, <1>5, Zenon DEF CallsHost

(* invoke.                                                                 *)
LEMMA OneActivation ==
  ASSUME NEW fr, NEW v, NEW s
  PROVE  ActsOf(Append(<<>>, fr), v, s) = <<Activation(fr, SubSeq(v, Base(fr) + 1, s))>>
<1> DEFINE gs == Append(<<>>, fr)
           a  == Activation(fr, SubSeq(v, Base(fr) + 1, s))
<1>1. Len(gs) = 1 /\ gs[1] = fr
  OBVIOUS
<1> HIDE DEF gs
<1>2. \A k \in 1 .. 1 : Activation(gs[k], SegmentOf(gs, v, s, k)) = a
  <2>1. SegmentOf(gs, v, s, 1) = SubSeq(v, Base(fr) + 1, s)
    BY <1>1, Zenon DEF SegmentOf
  <2>2. Activation(gs[1], SegmentOf(gs, v, s, 1)) = a
    BY <1>1, <2>1, Zenon
  <2>3. \A k \in 1 .. 1 : k = 1
    OBVIOUS
  <2> QED
    BY <2>2, <2>3, Zenon
<1> HIDE DEF a
<1>3. ActsOf(gs, v, s) = [k \in 1 .. 1 |-> a]
  BY <1>1, <1>2 DEF ActsOf
<1>4. [k \in 1 .. 1 |-> a] = <<a>>
  OBVIOUS
<1> QED
  BY <1>3, <1>4, Zenon DEF a, gs

LEMMA InvokeRefines ==
  ASSUME NEW f \in 0 .. FuncCount - 1, Invoke(f)
  PROVE  Abstract!AMInvoke(f)
<1> DEFINE ft == FuncTypeOf(f)
           P  == ft.params
           R  == ft.results
<1>1. /\ status # "running" /\ status' = "running"
      /\ CallWasm(f, P, <<>>) \/ CallHost(f, P, <<>>)
  BY Zenon DEF Invoke, CanInvoke
<1>2. P \in Seq(ValType) /\ R \in Seq(ValType)
  <2>1. ft \in FuncType
    <3>1. f \in Nat /\ f < FuncCount
      BY ModuleAssumption DEF FuncCount
    <3> QED
      BY <3>1, FuncTypes
  <2> QED
    BY <2>1 DEF FuncType
<1>3. ResultTypes[f] = R
  BY Zenon DEF ResultTypes, Callable
<1>4. CASE CallHost(f, P, <<>>)
  <2>1. IsImport(f) /\ frames' = <<>> /\ vstack' = Drop(P, Len(P)) \o R
    BY <1>4, Zenon DEF CallHost
  <2>2. f \in HostFuncs
    BY <2>1, Zenon DEF HostFuncs, Callable
  <2> HIDE DEF P, R
  <2>3. Drop(P, Len(P)) = <<>>
    BY <1>2 DEF Drop
  <2>4. <<>> \o R = R
    BY <1>2
  <2>5. Activations' = <<>> /\ Produced' = R
    BY <2>1, <2>3, <2>4, NoActivations, Zenon
  <2> QED
    BY <1>1, <1>3, <2>2, <2>5, Zenon DEF Abstract!AMInvoke
<1>5. CASE CallWasm(f, P, <<>>)
  <2> DEFINE n  == Len(P)
             nf == [labels |-> <<>>, arity |-> Len(R), func |-> f,
                    locals |-> TopN(P, n) \o Funcs[f - Len(Imports) + 1].locals,
                    pc |-> 0, sp |-> n - n]
  <2>1. ~IsImport(f) /\ vstack' = P /\ frames' = Append(<<>>, nf)
    BY <1>5, Zenon DEF CallWasm
  <2>2. nf.func = f /\ nf.sp = n - n
    OBVIOUS
  <2> HIDE DEF nf
  <2>3. Base(nf) = n /\ n \in Nat
    <3>1. Base(nf) = nf.sp + n
      BY <2>2, Zenon DEF Base
    <3>2. n \in Nat
      BY <1>2
    <3> HIDE DEF n
    <3> QED
      BY <2>2, <3>1, <3>2
  <2>4. SubSeq(P, Base(nf) + 1, n) = <<>>
    <3> HIDE DEF P
    <3> QED
      BY <1>2, <2>3
  <2>5. Activations' = <<Activation(nf, <<>>)>>
    <3>1. Activations' = ActsOf(Append(<<>>, nf), P, n)
      BY <2>1, ActivationsAre, Zenon
    <3> HIDE DEF P
    <3>2. ActsOf(Append(<<>>, nf), P, n) = <<Activation(nf, SubSeq(P, Base(nf) + 1, n))>>
      BY OneActivation, Zenon
    <3> QED
      BY <2>4, <3>1, <3>2, Zenon
  <2>6. Activation(nf, <<>>) = Abstract!Activation(f, <<>>)
    BY <2>2, Zenon DEF Activation, Abstract!Activation
  <2>7. Produced' = <<>>
    <3>1. frames' # <<>>
      BY <2>1
    <3> QED
      BY <3>1, NoActivations
  <2>8. f \notin HostFuncs
    BY <2>1, Zenon DEF HostFuncs
  <2> QED
    BY <1>1, <2>5, <2>6, <2>7, <2>8, Zenon DEF Abstract!AMInvoke
<1> QED
  BY <1>1, <1>4, <1>5

-----------------------------------------------------------------------------
(* Together.                                                               *)
LEMMA StepRefines ==
  ASSUME RInv, XInv', [Next]_vars
  PROVE  [Abstract!AMNext]_(Abstract!amVars)
<1>1. ASSUME status' = status, frames' = frames, vstack' = vstack
      PROVE  UNCHANGED Abstract!amVars
  <2>1. Activations' = Activations
    BY <1>1, ActivationsAre, Zenon
  <2>2. Produced' = Produced
    BY <1>1, Zenon DEF Produced
  <2> QED
    BY <1>1, <2>1, <2>2, Zenon DEF Abstract!amVars
<1>2. CASE LoadNext /\ UNCHANGED execVars
  BY <1>1, <1>2 DEF execVars
<1>3. CASE UNCHANGED vars
  BY <1>1, <1>3 DEF vars
<1>4. CASE ExecNext /\ UNCHANGED loadVars
  <2>1. CASE Iteration
    <3>1. Running /\ (LocalStep \/ CallStep \/ LeaveMove)
      BY <1>4, <2>1, IterationMoves
    <3>2. LocalStep => Abstract!AMLocal
      BY <3>1, LocalRefines DEF LocalStep
    <3>3. CallStep => \E f \in Callable : \E index \in {<<>>, <<"i32">>} :
                        Abstract!AMCall(f, index)
      <4>1. ASSUME NEW f \in 0 .. FuncCount - 1, NEW more \in {<<>>, <<"i32">>},
                   NEW fr, NEW nf, CallMove(f, more, fr, nf)
            PROVE  f \in Callable /\ Abstract!AMCall(f, more)
        BY <3>1, <4>1, CallRefines DEF Callable
      <4> QED
        BY <4>1, Zenon DEF CallStep
    <3>4. LeaveMove => Abstract!AMReturn
      BY <3>1, LeaveRefines
    <3> QED
      BY <3>1, <3>2, <3>3, <3>4, Zenon DEF Abstract!AMNext
  <2>2. CASE Trap
    <3>1. /\ Running /\ status' = "trapped" /\ frames' = <<>> /\ vstack' = <<>>
      BY <2>2, Zenon DEF Trap, Abort
    <3>2. Activations # <<>> /\ status = "running"
      BY <3>1, InnerHere, ActsHere
    <3>3. Activations' = <<>> /\ Produced' = <<>>
      BY <3>1, NoActivations, Zenon
    <3> QED
      BY <3>1, <3>2, <3>3, Zenon DEF Abstract!AMNext, Abstract!AMTrap
  <2>3. CASE HostFails
    BY <2>3, HostFailsRefines, Zenon DEF Abstract!AMNext
  <2>4. CASE Finish
    <3>1. /\ status = "running" /\ frames = <<>> /\ status' = "returned"
          /\ vstack' = TopN(vstack, Len(FuncTypeOf(entry).results)) /\ frames' = frames
      BY <2>4, Zenon DEF Finish
    <3>2. vstack = FuncTypeOf(entry).results /\ vstack \in Seq(ValType)
      BY <3>1 DEF RInv, XInv, CInv, ResultsMatchType
    <3>3. TopN(vstack, Len(vstack)) = vstack
      <4>1. Len(vstack) - Len(vstack) + 1 = 1 /\ SubSeq(vstack, 1, Len(vstack)) = vstack
        BY <3>2
      <4> QED
        BY <4>1, Zenon DEF TopN
    <3>4. vstack' = vstack
      BY <3>1, <3>2, <3>3, Zenon
    <3>5. Activations = <<>> /\ Activations' = <<>> /\ Produced' = Produced
      BY <3>1, <3>4, NoActivations, Zenon
    <3> QED
      BY <3>1, <3>5, Zenon DEF Abstract!AMNext, Abstract!AMFinish
  <2>5. ASSUME NEW f \in 0 .. FuncCount - 1, InvokedHostFails(f)
        PROVE  f \in Callable /\ Abstract!AMHostFails(f, <<>>)
    <3>1. /\ status # "running" /\ IsImport(f) /\ status' = "panicked"
          /\ frames' = <<>> /\ vstack' = <<>>
      BY <2>5, Zenon DEF InvokedHostFails, CanInvoke, Abort
    <3>2. f \in HostFuncs /\ f \in Callable
      BY <3>1, Zenon DEF HostFuncs, Callable
    <3>3. Activations' = <<>> /\ Produced' = <<>>
      BY <3>1, NoActivations, Zenon
    <3> QED
      BY <3>1, <3>2, <3>3, Zenon DEF Abstract!AMHostFails
  <2>6. ASSUME NEW f \in 0 .. FuncCount - 1, Invoke(f)
        PROVE  f \in Callable /\ Abstract!AMInvoke(f)
    BY <2>6, InvokeRefines DEF Callable
  <2>7. (\E f \in 0 .. FuncCount - 1 : Invoke(f) \/ InvokedHostFails(f)) => Abstract!AMNext
    <3>1. (\E f \in 0 .. FuncCount - 1 : InvokedHostFails(f)) => Abstract!AMNext
      <4>1. <<>> \in {<<>>, <<"i32">>}
        OBVIOUS
      <4> QED
        BY <2>5, <4>1, Zenon DEF Abstract!AMNext
    <3>2. (\E f \in 0 .. FuncCount - 1 : Invoke(f)) => Abstract!AMNext
      BY <2>6, Zenon DEF Abstract!AMNext
    <3> QED
      BY <3>1, <3>2
  <2> QED
    BY <1>4, <2>1, <2>2, <2>3, <2>4, <2>7, Zenon DEF ExecNext, Iteration
<1> QED
  BY <1>2, <1>3, <1>4 DEF Next

LEMMA StartRefines == ASSUME Init PROVE Abstract!AMInit
<1>1. status = "idle" /\ frames = <<>> /\ vstack = <<>>
  BY DEF Init, ExecInit
<1>2. Activations = <<>> /\ Produced = <<>>
  BY <1>1, NoActivations, Zenon
<1> QED
  BY <1>1, <1>2, Zenon DEF Abstract!AMInit

(* One value stack that all calls share is as good as an operand stack for *)
(* each: a call neither reads nor disturbs the operands of its callers,    *)
(* and hands exactly its results to the one that waits for it.             *)
THEOREM CallsImplemented == Spec => ImplementsCallMachine
<1>1. Init => Abstract!AMInit
  BY StartRefines
<1>2. RInv /\ [Next]_vars => [Abstract!AMNext]_(Abstract!amVars)
  <2>1. RInv /\ [Next]_vars => XInv'
    BY RInvStep DEF RInv
  <2> QED
    BY <2>1, StepRefines
<1> QED
  BY <1>1, <1>2, CallsAlwaysSound, PTL DEF Spec, ImplementsCallMachine, Abstract!AMSpec

=============================================================================
