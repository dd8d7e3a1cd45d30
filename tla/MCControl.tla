----------------------------- MODULE MCControl ------------------------------
(***************************************************************************)
(* Structured control: every body over blocks, loops with parameters, ifs  *)
(* with and without else, and all the branches, for one function; and the  *)
(* polymorphic instructions, which after an unconditional branch pop       *)
(* operands that are not there.                                            *)
(***************************************************************************)
EXTENDS Executor

MCTypes == << [params |-> <<"i32">>, results |-> <<"i32">>],
              [params |-> <<"i32">>, results |-> <<>>] >>
MCFuncs == << [type |-> 0, locals |-> <<>>] >>
MCEmpty == <<>>
MCNone  == {}

Value(t) == [kind |-> "value", t |-> t]

MCInstrs ==
  { [op |-> o] : o \in {"else", "end", "return", "unreachable", "drop",
                        "select", "ref.is_null"} }
  \cup { [op |-> "const", t |-> t] : t \in {"i32", "i64"} }
  \cup { [op |-> "select_t", ts |-> <<"i32">>],
         [op |-> "select_t", ts |-> <<>>],
         [op |-> "ref.null", t |-> "funcref"],
         [op |-> "block", bt |-> Value("i32")],
         [op |-> "loop", bt |-> [kind |-> "index", x |-> 1]],
         [op |-> "if", bt |-> Value("i32")],
         [op |-> "if", bt |-> [kind |-> "index", x |-> 0]],
         [op |-> "br", n |-> 0],
         [op |-> "br", n |-> 1],
         [op |-> "br_if", n |-> 0],
         [op |-> "br_table", labels |-> <<0>>, default |-> 1] }

=============================================================================
