---------------------------- MODULE MCOperators -----------------------------
(***************************************************************************)
(* Typing rules against what the interpreter pops and pushes: one of each  *)
(* family of instructions, with good and bad indices and immediates.       *)
(***************************************************************************)
EXTENDS Executor

MCTypes == << [params |-> <<"i32", "funcref">>, results |-> <<>>] >>
MCFuncs == << [type |-> 0, locals |-> <<"externref">>] >>
MCGlobals == << [type |-> "i64", mut |-> TRUE], [type |-> "f32", mut |-> FALSE] >>
MCTables == <<"funcref", "externref">>
MCElems == <<"funcref">>
MCEmpty == <<>>
MCDeclared == {0}

MCInstrs ==
  { [op |-> o] : o \in {"end", "nop", "drop", "ref.is_null",
                        "memory.size", "memory.grow",
                        "memory.copy", "memory.fill"} }
  \cup { [op |-> o, t |-> "i32"] : o \in NumOps }
  \cup { [op |-> o, t |-> "i64"] : o \in {"testop"} }
  \cup { [op |-> "cvtop", from |-> "i32", to |-> "i64"],
         [op |-> "load", t |-> "i64", bytes |-> 4, align |-> 2],
         [op |-> "load", t |-> "i32", bytes |-> 1, align |-> 1],
         [op |-> "store", t |-> "i64", bytes |-> 8, align |-> 3],
         [op |-> "ref.null", t |-> "externref"],
         [op |-> "memory.init", x |-> 0],
         [op |-> "table.copy", x |-> 0, y |-> 1],
         [op |-> "table.copy", x |-> 1, y |-> 1],
         [op |-> "table.init", x |-> 0, y |-> 0],
         [op |-> "table.init", x |-> 0, y |-> 1],
         [op |-> "call_indirect", x |-> 0, y |-> 1],
         [op |-> "call", x |-> 0],
         [op |-> "block", bt |-> [kind |-> "empty"]],
         [op |-> "if", bt |-> [kind |-> "empty"]],
         [op |-> "br_if", n |-> 0] }
  \cup { [op |-> o, x |-> 0] : o \in {"ref.func", "local.get", "local.set",
              "global.get", "global.set", "elem.drop", "data.drop"} }
  \cup { [op |-> o, x |-> 1] : o \in {"ref.func", "local.get", "local.tee",
              "global.get", "global.set", "table.get", "table.set",
              "table.size", "table.grow", "table.fill", "elem.drop"} }
  \cup { [op |-> o, x |-> 2] : o \in {"local.get", "local.set",
                                      "table.get"} }

=============================================================================
