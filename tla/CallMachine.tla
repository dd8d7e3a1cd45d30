---------------------------- MODULE CallMachine -----------------------------
(***************************************************************************)
(* What the interpreter promises about calls, without a value stack that   *)
(* all calls share: every activation has operands of its own, a callee     *)
(* cannot see or touch those of its callers, and the one thing a finished  *)
(* call does is to hand its results, of the declared types, to its caller. *)
(***************************************************************************)
EXTENDS Naturals, Sequences

CONSTANTS
  FuncIds,   \* the functions that can be called
  Hosts,     \* those of them that are host functions
  Params,    \* [FuncIds -> sequences of value types]
  Results    \* [FuncIds -> sequences of value types]

VARIABLES
  phase,     \* "idle", "running", "returned", "trapped", "panicked"
  acts,      \* activations, outermost first: [func, ops]
  out        \* what the outermost call has produced

amVars == <<phase, acts, out>>

Inner    == acts[Len(acts)]
Callers  == SubSeq(acts, 1, Len(acts) - 1)
Activation(f, ops) == [func |-> f, ops |-> ops]

AMInit == phase = "idle" /\ acts = <<>> /\ out = <<>>

(* A host function is done at once; a wasm function gets an activation.    *)
AMInvoke(f) ==
  /\ phase # "running"
  /\ phase' = "running"
  /\ IF f \in Hosts THEN acts' = <<>> /\ out' = Results[f]
                    ELSE acts' = <<Activation(f, <<>>)>> /\ out' = <<>>

(* The innermost activation has the arguments of f, above them the operand *)
(* that chose f in an indirect call, and below what it keeps.              *)
Kept(f, index) == Len(Inner.ops) - Len(Params[f]) - Len(index)

Calls(f, index) ==
  /\ phase = "running" /\ acts # <<>>
  /\ Kept(f, index) >= 0
  /\ Inner.ops = SubSeq(Inner.ops, 1, Kept(f, index)) \o Params[f] \o index

(* The arguments leave the caller, and so does that operand.               *)
AMCall(f, index) ==
  /\ f \notin Hosts
  /\ Calls(f, index)
  /\ acts' = Callers \o << Activation(Inner.func,
                                      SubSeq(Inner.ops, 1, Kept(f, index))),
                           Activation(f, <<>>) >>
  /\ UNCHANGED <<phase, out>>

(* Nothing but a host function that was called with its arguments can      *)
(* bring the machine down.                                                 *)
AMHostFails(f, index) ==
  /\ f \in Hosts
  /\ \/ Calls(f, index)
     \/ phase # "running"
  /\ phase' = "panicked" /\ acts' = <<>> /\ out' = <<>>

AMReturn ==
  /\ phase = "running"
  /\ acts # <<>>
  /\ IF Len(acts) = 1
     THEN /\ acts' = <<>>
          /\ out' = Results[Inner.func]
     ELSE /\ acts' = [Callers EXCEPT ![Len(acts) - 1].ops =
                                       @ \o Results[Inner.func]]
          /\ UNCHANGED out
  /\ UNCHANGED phase

(* Any computation of the innermost activation, a host call included.      *)
AMLocal ==
  /\ phase = "running"
  /\ acts # <<>>
  /\ Len(acts') = Len(acts)
  /\ \A k \in 1 .. Len(acts) - 1 : acts'[k] = acts[k]
  /\ acts'[Len(acts)].func = Inner.func
  /\ UNCHANGED <<phase, out>>

AMTrap ==
  /\ phase = "running"
  /\ acts # <<>>
  /\ phase' = "trapped" /\ acts' = <<>> /\ out' = <<>>

AMFinish ==
  /\ phase = "running"
  /\ acts = <<>>
  /\ phase' = "returned"
  /\ UNCHANGED <<acts, out>>

AMNext ==
  \/ \E f \in FuncIds :
       \/ AMInvoke(f)
       \/ \E index \in {<<>>, <<"i32">>} : AMCall(f, index) \/ AMHostFails(f, index)
  \/ AMReturn \/ AMLocal \/ AMTrap \/ AMFinish

AMSpec == AMInit /\ [][AMNext]_amVars

=============================================================================
