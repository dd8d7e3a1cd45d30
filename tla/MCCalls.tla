------------------------------ MODULE MCCalls -------------------------------
(***************************************************************************)
(* Calls: one imported host function and two defined ones that may call    *)
(* the host, each other and themselves, directly or through a table, with  *)
(* two results, locals, operands of the caller left below the arguments,   *)
(* and the call-depth limit.                                               *)
(***************************************************************************)
EXTENDS CallRefinement

MCTypes == << [params |-> <<"i32">>, results |-> <<"i64", "i32">>],
              [params |-> <<"i64", "i32">>, results |-> <<>>] >>
MCImports == <<1>>
MCFuncs == << [type |-> 0, locals |-> <<"i64">>], [type |-> 1, locals |-> <<>>] >>
MCTables == <<"funcref">>
MCEmpty == <<>>
MCNone  == {}

MCInstrs ==
  { [op |-> o] : o \in {"end", "return", "drop"} }
  \cup { [op |-> "call", x |-> f] : f \in 0 .. 3 }
  \cup { [op |-> "call_indirect", x |-> 0, y |-> 0],
         [op |-> "local.get", x |-> 0],
         [op |-> "local.get", x |-> 1],
         [op |-> "local.set", x |-> 0] }

=============================================================================
