----------------------------- MODULE Validator ------------------------------
(***************************************************************************)
(* Loading the bodies of a module: the decoder's nesting check and the     *)
(* stack-based type checker (Validator), one instruction at a time.        *)
(*                                                                         *)
(* The program decodes all bodies and then validates them one after the    *)
(* other.  The two passes share nothing but the instructions they read,    *)
(* so here an instruction is decoded and validated in one step: a prefix   *)
(* of a body is in the same pair of states either way.  An error of either *)
(* pass makes load_module return Err and drop all it has built (Reject).   *)
(*                                                                         *)
(* The bodies are not given: every step reads an arbitrary member of       *)
(* Instrs, so a run covers every body over Instrs of at most MaxBody       *)
(* instructions.                                                           *)
(***************************************************************************)
EXTENDS Wasm

CONSTANT MaxBody      \* bound: no body is longer

ASSUME MaxBodyAssumption == MaxBody \in Nat \ {0}

VARIABLES
  nest,    \* the decoder's control stack
  vals,    \* the validator's operand types
  ctrls,   \* the validator's control frames
  body,    \* instructions read of the body being loaded
  trace,   \* history: vals and ctrls before each of them
  code,    \* bodies accepted so far
  typing   \* history: the trace of each

loadVars == <<nest, vals, ctrls, body, trace, code, typing>>

Nesting == {"function", "block", "loop", "if", "if-else"}
Opcode  == {"call", "block", "loop", "if", "else"}
Ctrl == [opcode : Opcode, start : Seq(ValueType), end : Seq(ValueType),
         height : Nat, unreachable : BOOLEAN]
Typed == [vals : Seq(ValueType), ctrls : Seq(Ctrl)]

Last(s)  == s[Len(s)]
Front(s) == SubSeq(s, 1, Len(s) - 1)

Loading == nest # <<>>
Loaded  == Len(code) = Len(Funcs)

(* The function whose body is being loaded.                                *)
Current   == Len(code) + 1

(* Fault: the locals are numbered before the parameters.                   *)
LocalTypeLocalsFirst(c, x) ==
  At(Funcs[c].locals \o At(Types, Funcs[c].type).params, x)

(* The locals of the c-th function.                                        *)
LocalType(c, x) == At(LocalTypes(c), x)

-----------------------------------------------------------------------------
(* The decoder: what it refuses, and its control stack afterwards.         *)

DecoderAccepts(i) == i.op = "else" => Last(nest) = "if"

(* Fault: else leaves the if as it was, so that it may take another one.   *)
NestAfterKeepsIf(i) ==
  CASE i.op \in OpenOps -> Append(nest, i.op)
    [] i.op = "end"     -> Front(nest)
    [] OTHER            -> nest

NestAfter(i) ==
  CASE i.op \in OpenOps -> Append(nest, i.op)
    [] i.op = "else"    -> Append(Front(nest), "if-else")
    [] i.op = "end"     -> Front(nest)
    [] OTHER            -> nest

(* Bound: room is left for the ends of all the open blocks.                *)
Fits(i) == i.op # "end" => Len(body) + 1 + Len(NestAfter(i)) <= MaxBody

-----------------------------------------------------------------------------
(* The validator's operand stack.                                          *)

Top == Last(ctrls)

(* Operands of the innermost block, all that a pop may take.               *)
Avail == Len(vals) - Top.height

Matches(actual, expected) ==
  actual = expected \/ actual = Unknown \/ expected = Unknown

(* pop_vals_expect(ts): the k-th pop takes the k-th operand from the top;  *)
(* past the block's own operands an unreachable block yields Unknown and a *)
(* reachable one underflows.                                               *)
CanPop(ts) ==
  \A k \in 1 .. Len(ts) :
    IF k <= Avail
    THEN Matches(vals[Len(vals) - k + 1], ts[Len(ts) - k + 1])
    ELSE Top.unreachable

AfterPop(ts) ==
  IF Len(ts) <= Avail THEN SubSeq(vals, 1, Len(vals) - Len(ts))
                      ELSE SubSeq(vals, 1, Top.height)

(* What the k-th pop returns.                                              *)
Popped(k) == IF k <= Avail THEN vals[Len(vals) - k + 1] ELSE Unknown

PushCtrl(stack, frames, opcode, start, end) ==
  /\ vals'  = stack \o start
  /\ ctrls' = Append(frames, [opcode |-> opcode, start |-> start, end |-> end,
                              height |-> Len(stack), unreachable |-> FALSE])

(* pop_ctrl: the innermost block leaves exactly its results.               *)
CanPopCtrl ==
  /\ CanPop(Top.end)
  /\ Len(AfterPop(Top.end)) = Top.height

(* Fault: the operands of the enclosing blocks are dropped as well.        *)
MarkUnreachableDropsAll ==
  /\ vals'  = <<>>
  /\ ctrls' = [ctrls EXCEPT ![Len(ctrls)].unreachable = TRUE]

MarkUnreachable ==
  /\ vals'  = SubSeq(vals, 1, Top.height)
  /\ ctrls' = [ctrls EXCEPT ![Len(ctrls)].unreachable = TRUE]

BlockTypeOk(bt) == bt.kind = "index" => InRange(Types, bt.x)
BlockStart(bt) ==
  IF bt.kind = "index" THEN At(Types, bt.x).params ELSE <<>>
BlockEnd(bt) ==
  CASE bt.kind = "empty" -> <<>>
    [] bt.kind = "value" -> <<bt.t>>
    [] OTHER             -> At(Types, bt.x).results

(* Fault: a branch to a loop carries the results of the loop.              *)
LabelTypesOfEnd(n) == ctrls[Len(ctrls) - n].end

LabelTypes(n) ==
  LET c == ctrls[Len(ctrls) - n]
  IN  IF c.opcode = "loop" THEN c.start ELSE c.end

-----------------------------------------------------------------------------
(* Instructions with a fixed typing rule Ins -> Outs, and the indices and  *)
(* immediates each of them checks, in the body of function c.              *)

MemoryOps == {"load", "store", "memory.size", "memory.grow", "memory.copy",
              "memory.fill", "memory.init"}

Immediates(c, i) ==
  /\ i.op \in MemoryOps => Memories > 0
  /\ i.op \in {"load", "store"} => 2 ^ i.align <= i.bytes
  /\ i.op \in {"memory.init", "data.drop"} => i.x < Datas
  /\ i.op \in {"call", "ref.func"} => i.x < FuncCount
  /\ i.op = "ref.func" => i.x \in Declared
  /\ i.op \in {"local.get", "local.set", "local.tee"} =>
       InRange(LocalTypes(c), i.x)
  /\ i.op \in {"global.get", "global.set"} => InRange(Globals, i.x)
  /\ i.op = "global.set" => At(Globals, i.x).mut
  /\ i.op \in {"table.get", "table.set", "table.size", "table.grow",
               "table.fill"} => InRange(Tables, i.x)
  /\ i.op = "table.copy" => /\ InRange(Tables, i.x) /\ InRange(Tables, i.y)
                            /\ At(Tables, i.x) = At(Tables, i.y)
  /\ i.op = "table.init" => /\ InRange(Elems, i.x) /\ InRange(Tables, i.y)
                            /\ At(Elems, i.x) = At(Tables, i.y)
  /\ i.op = "elem.drop" => InRange(Elems, i.x)
  /\ i.op = "call_indirect" => /\ InRange(Tables, i.y)
                               /\ At(Tables, i.y) = "funcref"
                               /\ InRange(Types, i.x)
  /\ i.op = "select_t" => Len(i.ts) = 1

(* Fault: table.grow takes its operands in the other order.                *)
InsGrowSwapped(c, i) ==
  CASE i.op \in {"unop", "testop"} -> <<i.t>>
    [] i.op \in {"binop", "relop"} -> <<i.t, i.t>>
    [] i.op = "drop"               -> <<Unknown>>
    [] i.op = "table.grow"         -> <<"i32", At(Tables, i.x)>>
    [] OTHER                       -> <<>>

Ins(c, i) ==
  CASE i.op \in {"unop", "testop"}   -> <<i.t>>
    [] i.op \in {"binop", "relop"}   -> <<i.t, i.t>>
    [] i.op = "cvtop"                -> <<i.from>>
    [] i.op = "load"                 -> <<"i32">>
    [] i.op = "store"                -> <<"i32", i.t>>
    [] i.op \in {"memory.grow", "table.get"} -> <<"i32">>
    [] i.op \in {"memory.init", "memory.copy", "memory.fill",
                 "table.init", "table.copy"} -> <<"i32", "i32", "i32">>
    [] i.op = "drop"                 -> <<Unknown>>
    [] i.op = "select_t"             -> <<i.ts[1], i.ts[1], "i32">>
    [] i.op \in {"local.set", "local.tee"} -> <<LocalType(c, i.x)>>
    [] i.op = "global.set"           -> <<At(Globals, i.x).type>>
    [] i.op = "table.set"            -> <<"i32", At(Tables, i.x)>>
    [] i.op = "table.grow"           -> <<At(Tables, i.x), "i32">>
    [] i.op = "table.fill"           -> <<"i32", At(Tables, i.x), "i32">>
    [] i.op = "call"                 -> FuncTypeOf(i.x).params
    [] i.op = "call_indirect"        -> Append(At(Types, i.x).params, "i32")
    [] OTHER                         -> <<>>

(* Fault: memory.grow leaves nothing.                                      *)
OutsGrowLeavesNothing(c, i) ==
  CASE i.op \in {"const", "unop", "binop", "load", "ref.null"} -> <<i.t>>
    [] i.op = "local.get"          -> <<LocalType(c, i.x)>>
    [] OTHER                       -> <<>>

Outs(c, i) ==
  CASE i.op \in {"const", "unop", "binop", "load", "ref.null"} -> <<i.t>>
    [] i.op \in {"testop", "relop", "memory.size", "memory.grow",
                 "table.size", "table.grow"} -> <<"i32">>
    [] i.op = "cvtop"                -> <<i.to>>
    [] i.op = "select_t"             -> i.ts
    [] i.op \in {"local.get", "local.tee"} -> <<LocalType(c, i.x)>>
    [] i.op = "global.get"           -> <<At(Globals, i.x).type>>
    [] i.op = "table.get"            -> <<At(Tables, i.x)>>
    [] i.op = "ref.func"             -> <<"funcref">>
    [] i.op = "call"                 -> FuncTypeOf(i.x).results
    [] i.op = "call_indirect"        -> At(Types, i.x).results
    [] OTHER                         -> <<>>

SpecialOps == OpenOps \cup LabelOps \cup
  {"unreachable", "else", "end", "br_table", "return", "select", "ref.is_null"}

-----------------------------------------------------------------------------
(* When validate_instruction returns Ok.                                   *)

TargetOk(n) == n < Len(ctrls)

NumOrVec(t) == t \in NumType \cup {Unknown}

Accepted(i) ==
  /\ DecoderAccepts(i)
  /\ i.op \in {"block", "loop"} =>
       BlockTypeOk(i.bt) /\ CanPop(BlockStart(i.bt))
  /\ i.op = "if" =>
       BlockTypeOk(i.bt) /\ CanPop(Append(BlockStart(i.bt), "i32"))
  /\ i.op = "else" => CanPopCtrl /\ Top.opcode = "if"
  /\ i.op = "end" => CanPopCtrl /\ (Top.opcode = "if" => Top.start = Top.end)
  /\ i.op = "br" => TargetOk(i.n) /\ CanPop(LabelTypes(i.n))
  /\ i.op = "br_if" =>
       TargetOk(i.n) /\ CanPop(Append(LabelTypes(i.n), "i32"))
  /\ i.op = "br_table" =>
       /\ TargetOk(i.default)
       /\ CanPop(Append(LabelTypes(i.default), "i32"))
       /\ \A j \in DOMAIN i.labels :
            LET n == i.labels[j]
            IN  /\ TargetOk(n)
                /\ Len(LabelTypes(n)) = Len(LabelTypes(i.default))
                /\ CanPop(Append(LabelTypes(n), "i32"))
  /\ i.op = "return" => CanPop(ctrls[1].end)
  /\ i.op = "select" =>
       /\ CanPop(<<Unknown, Unknown, "i32">>)
       /\ NumOrVec(Popped(2)) /\ NumOrVec(Popped(3))
       /\ Matches(Popped(2), Popped(3))
  /\ i.op = "ref.is_null" =>
       CanPop(<<Unknown>>) /\ Popped(1) \in RefType \cup {Unknown}
  /\ i.op \notin SpecialOps => Immediates(Current, i) /\ CanPop(Ins(Current, i))

-----------------------------------------------------------------------------
(* The steps.  Read is what every instruction that does not finish the     *)
(* body does.                                                              *)

Here == [vals |-> vals, ctrls |-> ctrls]

Read(i) ==
  /\ Loading
  /\ Fits(i)
  /\ Accepted(i)
  /\ nest' = NestAfter(i)
  /\ body' = Append(body, i)
  /\ trace' = Append(trace, Here)
  /\ UNCHANGED <<code, typing>>

(* validate_function pushes a frame of its own; a new Validator each time. *)
BeginFunction ==
  /\ ~Loading
  /\ ~Loaded
  /\ nest' = <<"function">>
  /\ PushCtrl(<<>>, <<>>, "call", <<>>, At(Types, Funcs[Current].type).results)
  /\ UNCHANGED <<body, trace, code, typing>>

Unreachable(i) ==
  /\ i.op = "unreachable"
  /\ Read(i)
  /\ MarkUnreachable

BlockOrLoop(i) ==
  /\ i.op \in {"block", "loop"}
  /\ Read(i)
  /\ PushCtrl(AfterPop(BlockStart(i.bt)), ctrls, i.op,
              BlockStart(i.bt), BlockEnd(i.bt))

If(i) ==
  /\ i.op = "if"
  /\ Read(i)
  /\ PushCtrl(AfterPop(Append(BlockStart(i.bt), "i32")), ctrls, "if",
              BlockStart(i.bt), BlockEnd(i.bt))

Else(i) ==
  /\ i.op = "else"
  /\ Read(i)
  /\ PushCtrl(AfterPop(Top.end), Front(ctrls), "else", Top.start, Top.end)

EndBlock(i) ==
  /\ i.op = "end"
  /\ Len(nest) > 1
  /\ Read(i)
  /\ vals' = AfterPop(Top.end) \o Top.end
  /\ ctrls' = Front(ctrls)

(* The end that empties the decoder's control stack finishes the body.     *)
EndFunction(i) ==
  /\ i.op = "end"
  /\ Len(nest) = 1
  /\ Accepted(i)
  /\ code'   = Append(code, Append(body, i))
  /\ typing' = Append(typing, Append(trace, Here))
  /\ nest' = <<>> /\ vals' = <<>> /\ ctrls' = <<>>
  /\ body' = <<>> /\ trace' = <<>>

Branch(i) ==
  /\ i.op \in {"br", "br_table", "return"}
  /\ Read(i)
  /\ MarkUnreachable

(* Fault: br_if, like br, makes the code after it unreachable.             *)
BranchIfAlways(i) ==
  /\ i.op = "br_if"
  /\ Read(i)
  /\ MarkUnreachable

BranchIf(i) ==
  /\ i.op = "br_if"
  /\ Read(i)
  /\ vals' = AfterPop(Append(LabelTypes(i.n), "i32")) \o LabelTypes(i.n)
  /\ UNCHANGED ctrls

Select(i) ==
  /\ i.op = "select"
  /\ Read(i)
  /\ vals' = Append(AfterPop(<<Unknown, Unknown, "i32">>),
                    IF Popped(2) = Unknown THEN Popped(3) ELSE Popped(2))
  /\ UNCHANGED ctrls

RefIsNull(i) ==
  /\ i.op = "ref.is_null"
  /\ Read(i)
  /\ vals' = Append(AfterPop(<<Unknown>>), "i32")
  /\ UNCHANGED ctrls

Operator(i) ==
  /\ i.op \notin SpecialOps
  /\ Read(i)
  /\ vals' = AfterPop(Ins(Current, i)) \o Outs(Current, i)
  /\ UNCHANGED ctrls

(* A decoding or validation error: nothing of the module is kept.          *)
Reject(i) ==
  /\ Loading
  /\ ~Accepted(i)
  /\ nest' = <<>> /\ vals' = <<>> /\ ctrls' = <<>>
  /\ body' = <<>> /\ trace' = <<>>
  /\ code' = <<>> /\ typing' = <<>>

LoadInit ==
  /\ nest = <<>> /\ vals = <<>> /\ ctrls = <<>>
  /\ body = <<>> /\ trace = <<>>
  /\ code = <<>> /\ typing = <<>>

LoadNext ==
  \/ BeginFunction
  \/ \E i \in Instrs :
       \/ Unreachable(i) \/ BlockOrLoop(i) \/ If(i) \/ Else(i)
       \/ EndBlock(i) \/ EndFunction(i) \/ Branch(i) \/ BranchIf(i)
       \/ Select(i) \/ RefIsNull(i) \/ Operator(i) \/ Reject(i)

LoadSpec == LoadInit /\ [][LoadNext]_loadVars

-----------------------------------------------------------------------------
(* Properties.                                                             *)

(* Types of the validator's and the decoder's state.                       *)
LoadTypeOK ==
  /\ nest \in Seq(Nesting)
  /\ vals \in Seq(ValueType)
  /\ ctrls \in Seq(Ctrl)
  /\ body \in Seq(Instruction)
  /\ trace \in Seq(Typed)
  /\ code \in Seq(Seq(Instruction))
  /\ typing \in Seq(Seq(Typed))
  /\ Len(code) + (IF Loading THEN 1 ELSE 0) <= Len(Funcs)

(* Heights of the control frames grow from the bottom and never pass the   *)
(* operand stack.  This is what lets pop_val, pop_ctrl and unreachable     *)
(* take heights for granted: "unexpected empty value stack" cannot happen, *)
(* and resize only ever shrinks.                                           *)
HeightsNested ==
  /\ \A k \in 1 .. Len(ctrls) : ctrls[k].height <= Len(vals)
  /\ \A j, k \in 1 .. Len(ctrls) : j <= k => ctrls[j].height <= ctrls[k].height

(* The opcode of the control frame for an entry of the decoder's stack.     *)
OpcodeOf(n) ==
  CASE n = "function" -> "call"
    [] n = "if-else"  -> "else"
    [] OTHER          -> n

(* The decoder and the validator agree on the blocks that are open and on  *)
(* which of them is an if that may still take an else.  So every           *)
(* "unexpected empty control stack" of the validator is unreachable, the   *)
(* frame return looks at is the function's, and "else without matching if" *)
(* is an error only the decoder can report.                                *)
DecoderAgrees ==
  /\ Len(nest) = Len(ctrls)
  /\ \A k \in 1 .. Len(nest) : ctrls[k].opcode = OpcodeOf(nest[k])

=============================================================================
