--------------------------- MODULE CallRefinement ---------------------------
(***************************************************************************)
(* The interpreter's one value stack implements an operand stack for each  *)
(* activation: those of a frame are what lies between its arguments and    *)
(* the stack pointer of the next frame.                                    *)
(***************************************************************************)
EXTENDS Executor

Segment(k) ==
  SubSeq(vstack, Base(frames[k]) + 1,
         IF k = Len(frames) THEN Len(vstack) ELSE frames[k + 1].sp)

Activations ==
  [k \in 1 .. Len(frames) |-> [func |-> frames[k].func, ops |-> Segment(k)]]

Callable == 0 .. FuncCount - 1

(* What is left on the stack when the last frame is gone.                  *)
Produced == IF frames = <<>> THEN vstack ELSE <<>>

HostFuncs   == {f \in Callable : IsImport(f)}
ParamTypes  == [f \in Callable |-> FuncTypeOf(f).params]
ResultTypes == [f \in Callable |-> FuncTypeOf(f).results]

Abstract == INSTANCE CallMachine WITH
  FuncIds <- Callable,
  Hosts   <- HostFuncs,
  Params  <- ParamTypes,
  Results <- ResultTypes,
  phase   <- status,
  acts    <- Activations,
  out     <- Produced

(* A call never reads or disturbs the operands of its callers and returns  *)
(* exactly its results to them: unwind by sp and arity, arguments that     *)
(* stay on the stack, and branches out of functions add up to separate     *)
(* operand stacks.                                                         *)
ImplementsCallMachine == Abstract!AMSpec

=============================================================================
