------------------------------ MODULE Executor ------------------------------
(***************************************************************************)
(* The interpreter (ExecutionContext::execute) running the functions that  *)
(* Validator has accepted: value stack, call frames, labels, branches,     *)
(* calls, traps and the call-depth limit.                                  *)
(*                                                                         *)
(* A value is abstracted to its type, the only thing the interpreter's     *)
(* assertions look at; whatever depends on the number itself (a condition, *)
(* a br_table operand, a table element, whether an operation traps) is a   *)
(* nondeterministic choice.                                                *)
(*                                                                         *)
(* The functions have one address each, their index: one module is loaded  *)
(* and its imports are host functions.  pc counts from 0 before the first  *)
(* instruction (the program's pc + 1), so that the next instruction is     *)
(* code[c][pc + 1].                                                        *)
(***************************************************************************)
EXTENDS Validator, FiniteSets

CONSTANT MaxDepth     \* MAX_STACK_DEPTH

ASSUME MaxDepthAssumption == MaxDepth \in Nat \ {0}

VARIABLES
  status,   \* "idle", "running", "returned", "trapped" or "panicked"
  entry,    \* the function invoke was called with
  frames,   \* call_stack
  vstack    \* value_stack

execVars == <<status, entry, frames, vstack>>
vars == <<nest, vals, ctrls, body, trace, code, typing,
          status, entry, frames, vstack>>

Label == [br_arity : Nat, end_arity : Nat, pc : Int, sp : Nat]
Frame == [labels : Seq(Label), arity : Nat, func : Nat,
          locals : Seq(ValType), pc : Int, sp : Nat]

-----------------------------------------------------------------------------
(* Value stack.                                                            *)

HasTop(ts) ==     \* the operands an instruction pops, and their types
  /\ Len(vstack) >= Len(ts)
  /\ \A k \in 1 .. Len(ts) :
       LET v == vstack[Len(vstack) - Len(ts) + k]
       IN  ts[k] = v \/ ts[k] = "any" \/ (ts[k] = "ref" /\ v \in RefType)

TopN(stack, n)     == SubSeq(stack, Len(stack) - n + 1, Len(stack))
Drop(stack, n)     == SubSeq(stack, 1, Len(stack) - n)
CanUnwind(stack, sp, arity) == Len(stack) - arity >= sp

(* Fault: the operands between the stack pointer and the results stay.     *)
UnwindKeeps(stack, sp, arity) == stack

Unwind(stack, sp, arity)    == SubSeq(stack, 1, sp) \o TopN(stack, arity)

-----------------------------------------------------------------------------
(* Frames.                                                                 *)

Running == status = "running" /\ frames # <<>>
Fr      == Last(frames)
BodyOf(fr) == code[fr.func - Len(Imports) + 1]
Next1(fr)  == BodyOf(fr)[fr.pc + 1]
Instr      == Next1(Fr)

SetTop(fr) == frames' = Append(Front(frames), fr)
Advance    == [Fr EXCEPT !.pc = @ + 1]

BlockParams(bt) == IF bt.kind = "index" THEN Len(At(Types, bt.x).params) ELSE 0
BlockResults(bt) ==
  CASE bt.kind = "empty" -> 0
    [] bt.kind = "value" -> 1
    [] OTHER             -> Len(At(Types, bt.x).results)

(* find_block_end and find_if_else_end scan forward for the position where *)
(* the openings and the ends seen so far balance.                          *)
Depth(is, from, to) ==
  Cardinality({j \in from .. to : is[j].op \in OpenOps})
    - Cardinality({j \in from .. to : is[j].op = "end"})

EndsOf(is, k) == {e \in k .. Len(is) : Depth(is, k, e) = 0}
EndOf(is, k)  == CHOOSE e \in EndsOf(is, k) : \A f \in EndsOf(is, k) : e <= f
ElsesOf(is, k) ==
  {e \in k .. EndOf(is, k) : is[e].op = "else" /\ Depth(is, k, e) = 1}

PushLabel(fr, br, end, pc, sp) ==
  [fr EXCEPT !.labels =
     Append(@, [br_arity |-> br, end_arity |-> end, pc |-> pc, sp |-> sp])]

(* branch: out of the function, or to the n-th label from the innermost.   *)
CanBranch(n, stack) ==
  /\ n <= Len(Fr.labels)
  /\ n = Len(Fr.labels) => CanUnwind(stack, Fr.sp, Fr.arity)
  /\ n < Len(Fr.labels) =>
       LET l == Fr.labels[Len(Fr.labels) - n]
       IN  CanUnwind(stack, l.sp, l.br_arity)

(* Fault: leaving a function unwinds nothing, so its arguments stay.       *)
LeaveFunctionKeeps(stack) ==
  /\ vstack' = stack
  /\ frames' = Front(frames)

LeaveFunction(stack) ==
  /\ vstack' = Unwind(stack, Fr.sp, Fr.arity)
  /\ frames' = Front(frames)

BranchTo(n, stack) ==
  \/ /\ n = Len(Fr.labels)
     /\ LeaveFunction(stack)
  \/ /\ n < Len(Fr.labels)
     /\ LET k == Len(Fr.labels) - n
            l == Fr.labels[k]
        IN  /\ vstack' = Unwind(stack, l.sp, l.br_arity)
            /\ SetTop([Fr EXCEPT !.labels = SubSeq(@, 1, k - 1), !.pc = l.pc])

(* call: a wasm function gets a frame and leaves its arguments on the      *)
(* stack below it; a host function replaces them by its results.  When the *)
(* host returns values they are assumed to be of its declared type.        *)
CanCall(f, stack) == Len(stack) >= Len(FuncTypeOf(f).params)

(* Fault: the frame's stack pointer leaves no room for the results.        *)
CallWasmBelowArgs(f, stack, below) ==
  LET ft == FuncTypeOf(f)
  IN  /\ ~IsImport(f)
      /\ frames' = Append(below,
           [labels |-> <<>>, arity |-> Len(ft.results), func |-> f,
            locals |-> TopN(stack, Len(ft.params))
                         \o Funcs[f - Len(Imports) + 1].locals,
            pc |-> 0,
            sp |-> Len(stack) - Len(ft.params) - Len(ft.results)])
      /\ vstack' = stack

CallWasm(f, stack, below) ==
  LET ft == FuncTypeOf(f)
  IN  /\ ~IsImport(f)
      /\ frames' = Append(below,
           [labels |-> <<>>, arity |-> Len(ft.results), func |-> f,
            locals |-> TopN(stack, Len(ft.params))
                         \o Funcs[f - Len(Imports) + 1].locals,
            pc |-> 0, sp |-> Len(stack) - Len(ft.params)])
      /\ vstack' = stack

(* Fault: the arguments of a host function stay below its results.         *)
CallHostKeepsArgs(f, stack, below) ==
  LET ft == FuncTypeOf(f)
  IN  /\ IsImport(f)
      /\ frames' = below
      /\ vstack' = stack \o ft.results

CallHost(f, stack, below) ==
  LET ft == FuncTypeOf(f)
  IN  /\ IsImport(f)
      /\ frames' = below
      /\ vstack' = Drop(stack, Len(ft.params)) \o ft.results

-----------------------------------------------------------------------------
(* Instructions that only pop and push, with the types execute matches on. *)

Pops(i) ==
  CASE i.op \in {"unop", "testop"}   -> <<i.t>>
    [] i.op \in {"binop", "relop"}   -> <<i.t, i.t>>
    [] i.op = "cvtop"                -> <<i.from>>
    [] i.op \in {"load", "memory.grow", "table.get"} -> <<"i32">>
    [] i.op = "store"                -> <<"i32", i.t>>
    [] i.op \in {"memory.init", "memory.copy", "memory.fill",
                 "table.init", "table.copy"} -> <<"i32", "i32", "i32">>
    [] i.op \in {"drop", "local.set"} -> <<"any">>
    [] i.op = "global.set"           -> <<At(Globals, i.x).type>>
    [] i.op = "ref.is_null"          -> <<"ref">>
    [] i.op = "table.set"            -> <<"i32", "ref">>
    [] i.op = "table.grow"           -> <<"ref", "i32">>
    [] i.op = "table.fill"           -> <<"i32", "ref", "i32">>
    [] OTHER                         -> <<>>

Pushes(i) ==
  CASE i.op \in {"const", "unop", "binop", "load", "ref.null"} -> <<i.t>>
    [] i.op \in {"testop", "relop", "memory.size", "memory.grow",
                 "table.size", "table.grow", "ref.is_null"} -> <<"i32">>
    [] i.op = "cvtop"                -> <<i.to>>
    [] i.op = "local.get"            -> <<At(Fr.locals, i.x)>>
    [] i.op = "global.get"           -> <<At(Globals, i.x).type>>
    [] i.op = "table.get"            -> <<At(Tables, i.x)>>
    [] i.op = "ref.func"             -> <<"funcref">>
    [] OTHER                         -> <<>>

(* Indices into the module instance; [] panics when one is out of range.   *)
IndicesExist(i) ==
  /\ i.op \in OpenOps => BlockTypeOk(i.bt)
  /\ i.op \in MemoryOps => Memories > 0
  /\ i.op \in {"memory.init", "data.drop"} => i.x < Datas
  /\ i.op \in {"call", "ref.func"} => i.x < FuncCount
  /\ i.op \in {"local.get", "local.set", "local.tee"} => InRange(Fr.locals, i.x)
  /\ i.op \in {"global.get", "global.set"} => InRange(Globals, i.x)
  /\ i.op \in {"table.get", "table.set", "table.size", "table.grow",
               "table.fill", "table.copy"} => InRange(Tables, i.x)
  /\ i.op \in {"table.init", "table.copy", "call_indirect"} =>
       InRange(Tables, i.y)
  /\ i.op \in {"table.init", "elem.drop"} => InRange(Elems, i.x)
  /\ i.op = "call_indirect" => InRange(Types, i.x)

(* Division, truncation, and everything that addresses memory or a table.  *)
TrapOps == {"unreachable", "binop", "cvtop", "load", "store", "memory.init",
            "memory.copy", "memory.fill", "table.get", "table.set",
            "table.init", "table.copy", "table.fill", "call_indirect"}

StackOps == {"nop", "const", "unop", "testop", "binop", "relop", "cvtop",
             "load", "store", "memory.size", "memory.grow", "memory.init",
             "memory.copy", "memory.fill", "data.drop", "drop",
             "local.get", "global.get", "global.set",
             "table.get", "table.set", "table.size", "table.grow",
             "table.fill", "table.copy", "table.init", "elem.drop",
             "ref.null", "ref.is_null", "ref.func"}

(* Every assertion, expect, unwrap and unreachable!() the interpreter runs *)
(* into on instruction i: "guaranteed by validation".                      *)
Safe(i) ==
  /\ IndicesExist(i)
  /\ HasTop(Pops(i))
  /\ i.op \in {"block", "loop"} => Len(vstack) >= BlockParams(i.bt)
  /\ i.op = "if" => HasTop(<<"i32">>) /\ Len(vstack) > BlockParams(i.bt)
  /\ i.op \in {"block", "if"} => EndsOf(BodyOf(Fr), Fr.pc + 1) # {}
  /\ i.op = "else" => Fr.labels # <<>>
  /\ i.op = "end" => IF Fr.labels = <<>>
                     THEN CanUnwind(vstack, Fr.sp, Fr.arity)
                     ELSE CanUnwind(vstack, Last(Fr.labels).sp,
                                    Last(Fr.labels).end_arity)
  /\ i.op = "return" => CanUnwind(vstack, Fr.sp, Fr.arity)
  /\ i.op = "br" => CanBranch(i.n, vstack)
  /\ i.op = "br_if" => HasTop(<<"i32">>) /\ CanBranch(i.n, Drop(vstack, 1))
  /\ i.op = "br_table" =>
       /\ HasTop(<<"i32">>)
       /\ CanBranch(i.default, Drop(vstack, 1))
       /\ \A j \in DOMAIN i.labels : CanBranch(i.labels[j], Drop(vstack, 1))
  /\ i.op = "call" => CanCall(i.x, vstack)
  /\ i.op = "call_indirect" =>
       /\ HasTop(<<"i32">>)
       /\ \A f \in 0 .. FuncCount - 1 :
            FuncTypeOf(f) = At(Types, i.x) => CanCall(f, Drop(vstack, 1))
  /\ i.op = "local.tee" => HasTop(<<"any">>)
  /\ i.op \in {"select", "select_t"} => HasTop(<<"any", "any", "i32">>)

-----------------------------------------------------------------------------
(* The loop of execute: one iteration each.                                *)

InBody == Fr.pc + 1 \in DOMAIN BodyOf(Fr)

Execute(ops) ==
  /\ Running
  /\ Len(frames) <= MaxDepth
  /\ InBody
  /\ Instr.op \in ops
  /\ Safe(Instr)
  /\ UNCHANGED <<status, entry>>

ExecStack ==
  /\ Execute(StackOps)
  /\ vstack' = Drop(vstack, Len(Pops(Instr))) \o Pushes(Instr)
  /\ SetTop(Advance)

(* Fault: a branch to a block goes back to its start.                      *)
ExecBlockBackwards ==
  /\ Execute({"block"})
  /\ SetTop(PushLabel(Advance, BlockResults(Instr.bt), BlockResults(Instr.bt),
                      Fr.pc, Len(vstack) - BlockParams(Instr.bt)))
  /\ UNCHANGED vstack

ExecBlock ==
  /\ Execute({"block"})
  /\ SetTop(PushLabel(Advance, BlockResults(Instr.bt), BlockResults(Instr.bt),
                      EndOf(BodyOf(Fr), Fr.pc + 1),
                      Len(vstack) - BlockParams(Instr.bt)))
  /\ UNCHANGED vstack

(* Fault: a branch to a loop carries the results of the loop.              *)
ExecLoopArity ==
  /\ Execute({"loop"})
  /\ SetTop(PushLabel(Advance, BlockResults(Instr.bt), BlockResults(Instr.bt),
                      Fr.pc, Len(vstack) - BlockParams(Instr.bt)))
  /\ UNCHANGED vstack

(* The label's pc is the one before the loop: a branch makes it again.     *)
ExecLoop ==
  /\ Execute({"loop"})
  /\ SetTop(PushLabel(Advance, BlockParams(Instr.bt), BlockResults(Instr.bt),
                      Fr.pc, Len(vstack) - BlockParams(Instr.bt)))
  /\ UNCHANGED vstack

ExecIf(cond) ==
  /\ Execute({"if"})
  /\ vstack' = Drop(vstack, 1)
  /\ LET end   == EndOf(BodyOf(Fr), Fr.pc + 1)
         elses == ElsesOf(BodyOf(Fr), Fr.pc + 1)
         fr    == PushLabel(Advance, BlockResults(Instr.bt),
                            BlockResults(Instr.bt), end,
                            Len(vstack) - 1 - BlockParams(Instr.bt))
     IN  \/ /\ cond
            /\ SetTop(fr)
         \/ /\ ~cond /\ elses = {}
            /\ SetTop([fr EXCEPT !.pc = end - 1])
         \/ /\ ~cond
            /\ \E e \in elses : /\ \A f \in elses : f <= e
                                /\ SetTop([fr EXCEPT !.pc = e])

(* The then-arm is done: go on with the end.                               *)
ExecElse ==
  /\ Execute({"else"})
  /\ SetTop([Fr EXCEPT !.pc = Last(Fr.labels).pc - 1])
  /\ UNCHANGED vstack

ExecEnd ==
  /\ Execute({"end"})
  /\ \/ /\ Fr.labels # <<>>
        /\ vstack' = Unwind(vstack, Last(Fr.labels).sp,
                            Last(Fr.labels).end_arity)
        /\ SetTop([Advance EXCEPT !.labels = Front(@)])
     \/ /\ Fr.labels = <<>>
        /\ LeaveFunction(vstack)

ExecBr ==
  /\ Execute({"br"})
  /\ BranchTo(Instr.n, vstack)

ExecBrIf(cond) ==
  /\ Execute({"br_if"})
  /\ \/ /\ cond
        /\ BranchTo(Instr.n, Drop(vstack, 1))
     \/ /\ ~cond
        /\ vstack' = Drop(vstack, 1)
        /\ SetTop(Advance)

(* Any of the labels, or the default when the operand is past them.        *)
ExecBrTable ==
  /\ Execute({"br_table"})
  /\ \/ BranchTo(Instr.default, Drop(vstack, 1))
     \/ \E j \in DOMAIN Instr.labels :
          BranchTo(Instr.labels[j], Drop(vstack, 1))

ExecReturn ==
  /\ Execute({"return"})
  /\ LeaveFunction(vstack)

ExecCall ==
  /\ Execute({"call"})
  /\ LET below == Append(Front(frames), Advance)
     IN  CallWasm(Instr.x, vstack, below) \/ CallHost(Instr.x, vstack, below)

(* The element is any function of the expected type; the other elements    *)
(* (none, null, of another type) trap.                                     *)
ExecCallIndirect ==
  /\ Execute({"call_indirect"})
  /\ \E f \in 0 .. FuncCount - 1 :
       LET below == Append(Front(frames), Advance)
           stack == Drop(vstack, 1)
       IN  /\ FuncTypeOf(f) = At(Types, Instr.x)
           /\ CallWasm(f, stack, below) \/ CallHost(f, stack, below)

ExecSelect(cond) ==
  /\ Execute({"select", "select_t"})
  /\ LET top == TopN(vstack, 3)
     IN  vstack' = Append(Drop(vstack, 3), IF cond THEN top[1] ELSE top[2])
  /\ SetTop(Advance)

ExecSetLocal ==
  /\ Execute({"local.set", "local.tee"})
  /\ vstack' = Drop(vstack, Len(Pops(Instr)))
  /\ SetTop([Advance EXCEPT !.locals[Instr.x + 1] = Last(vstack)])

(* The invocation is over; the stacks were invoke's own.                   *)
Abort(how) ==
  /\ status' = how
  /\ frames' = <<>>
  /\ vstack' = <<>>

(* A trap leaves execute with an error.                                    *)
Trap ==
  /\ Running
  /\ \/ Len(frames) > MaxDepth
     \/ /\ Len(frames) <= MaxDepth
        /\ InBody
        /\ Instr.op \in TrapOps
        /\ Safe(Instr)
  /\ Abort("trapped")
  /\ UNCHANGED entry

(* A host function may return an error, which call unwraps: a panic, not a *)
(* trap, out of execute and of invoke.                                     *)
CallsHost(i) ==
  \/ i.op = "call" /\ IsImport(i.x)
  \/ /\ i.op = "call_indirect"
     /\ \E f \in 0 .. FuncCount - 1 : IsImport(f) /\ FuncTypeOf(f) = At(Types, i.x)

HostFails ==
  /\ Running
  /\ Len(frames) <= MaxDepth
  /\ InBody /\ Safe(Instr)
  /\ CallsHost(Instr)
  /\ Abort("panicked")
  /\ UNCHANGED entry

-----------------------------------------------------------------------------
(* invoke: arguments of the parameters' types are the caller's business.   *)

(* Whatever has become of the last one: a caller may catch a panic, and    *)
(* nothing of the failed invocation is left in the runtime.                *)
CanInvoke == Loaded /\ ~Loading /\ status # "running"

Invoke(f) ==
  /\ CanInvoke
  /\ status' = "running"
  /\ entry' = f
  /\ LET args == FuncTypeOf(f).params
     IN  CallWasm(f, args, <<>>) \/ CallHost(f, args, <<>>)

InvokedHostFails(f) ==
  /\ CanInvoke
  /\ IsImport(f)
  /\ Abort("panicked")
  /\ entry' = f

(* The call stack is empty: execute is left and the results split off.     *)
Finish ==
  /\ status = "running"
  /\ frames = <<>>
  /\ Len(vstack) >= Len(FuncTypeOf(entry).results)
  /\ status' = "returned"
  /\ vstack' = TopN(vstack, Len(FuncTypeOf(entry).results))
  /\ UNCHANGED <<entry, frames>>

ExecNext ==
  \/ \E f \in 0 .. FuncCount - 1 : Invoke(f) \/ InvokedHostFails(f)
  \/ ExecStack \/ ExecBlock \/ ExecLoop \/ ExecElse \/ ExecEnd
  \/ ExecBr \/ ExecBrTable \/ ExecReturn \/ ExecCall \/ ExecCallIndirect
  \/ ExecSetLocal
  \/ \E cond \in BOOLEAN : ExecIf(cond) \/ ExecBrIf(cond) \/ ExecSelect(cond)
  \/ Trap \/ HostFails
  \/ Finish

ExecInit ==
  /\ status = "idle"
  /\ entry = 0
  /\ frames = <<>>
  /\ vstack = <<>>

Init == LoadInit /\ ExecInit

Next ==
  \/ LoadNext /\ UNCHANGED execVars
  \/ ExecNext /\ UNCHANGED loadVars

(* execute is a plain loop: once invoked it runs until it returns.         *)
Fairness == WF_vars(ExecNext /\ status = "running" /\ UNCHANGED loadVars)

Spec == Init /\ [][Next]_vars
FairSpec == Spec /\ Fairness

-----------------------------------------------------------------------------
(* Properties.                                                             *)

(* Types of the interpreter's state.                                       *)
TypeOK ==
  /\ LoadTypeOK
  /\ status \in {"idle", "running", "returned", "trapped", "panicked"}
  /\ entry \in Nat
  /\ frames \in Seq(Frame)
  /\ vstack \in Seq(ValType)

(* No body the validator has accepted can drive the interpreter into one   *)
(* of the assertions that rely on validation, off the end of a body, or    *)
(* into invoke's "invalid stack len".                                      *)
NoPanic ==
  /\ Running /\ Len(frames) <= MaxDepth => InBody /\ Safe(Instr)
  /\ status = "running" /\ frames = <<>> =>
       Len(vstack) >= Len(FuncTypeOf(entry).results)

(* What validation says of the point a frame has reached.  The innermost   *)
(* block's own operands are not known before an end: the end may be        *)
(* reached from the else, from a then-arm, or from an if without else.     *)
Point(fr) == typing[fr.func - Len(Imports) + 1][fr.pc + 1]
Expected(fr) ==
  LET p == Point(fr)
      c == Last(p.ctrls)
  IN  IF Next1(fr).op = "end" THEN SubSeq(p.vals, 1, c.height) \o c.end
                              ELSE p.vals

(* The operands of the k-th frame: above its arguments, up to the next     *)
(* frame; a pending call counts as having returned.                        *)
Base(fr) == fr.sp + Len(FuncTypeOf(fr.func).params)
Operands(k) ==
  IF k = Len(frames)
  THEN SubSeq(vstack, Base(frames[k]) + 1, Len(vstack))
  ELSE SubSeq(vstack, Base(frames[k]) + 1, frames[k + 1].sp)
         \o FuncTypeOf(frames[k + 1].func).results

(* At every instruction every active call finds on the value stack exactly *)
(* the operands the validator computed for that instruction, and code the  *)
(* validator took for unreachable is never reached.                        *)
OperandsMatchValidation ==
  \A k \in 1 .. Len(frames) :
    LET fr == frames[k]
    IN  /\ Operands(k) = Expected(fr)
        /\ Next1(fr).op # "end" => ~Last(Point(fr).ctrls).unreachable
        /\ fr.locals = LocalTypes(fr.func - Len(Imports) + 1)

(* The labels of a frame are the control frames of the validator at that   *)
(* instruction: same nesting, arities and stack heights.                   *)
LabelsMirrorCtrls ==
  \A k \in 1 .. Len(frames) :
    LET fr == frames[k]
        cs == Point(fr).ctrls
    IN  /\ Len(fr.labels) = Len(cs) - 1
        /\ \A m \in DOMAIN fr.labels :
             LET l == fr.labels[m]
                 c == cs[m + 1]
             IN  /\ l.sp = Base(fr) + c.height
                 /\ l.end_arity = Len(c.end)
                 /\ l.br_arity = Len(IF c.opcode = "loop" THEN c.start
                                                          ELSE c.end)

(* When the last frame is gone the value stack is the results of the       *)
(* invoked function and nothing else: no argument or operand of any of the *)
(* calls survives for split_off to hide.                                   *)
ResultsMatchType ==
  status = "running" /\ frames = <<>> => vstack = FuncTypeOf(entry).results

(* Without a loop in the module every invocation ends, whatever it calls:  *)
(* the call-depth limit turns endless recursion into a trap.               *)
NoLoops == \A c \in DOMAIN code : \A k \in DOMAIN code[c] : code[c][k].op # "loop"
LoopFreeCallsEnd ==
  (status = "running" /\ NoLoops) ~> (status \in {"returned", "trapped", "panicked"})

=============================================================================
