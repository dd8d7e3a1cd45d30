----------------------------- MODULE MCDecoder ------------------------------
(***************************************************************************)
(* Sections of a few bytes.  u32 and u64 are scaled to 11 and 15 bits,     *)
(* which leave as many bits to the last byte as 32 and 64 do; each byte    *)
(* has the values the branches that may read it tell apart.                *)
(***************************************************************************)
EXTENDS DecoderRefinement

Of(kind, bytes) == [kind |-> kind, bytes |-> bytes]

(* Every section of a kind with at most n bytes of the set B.              *)
UpTo(kind, n, B) == {Of(kind, [k \in 1 .. m |-> B]) : m \in 0 .. n}

(* The bytes at which a digit, a sign or the last byte of a number changes *)
(* its meaning.                                                            *)
Boundaries ==
  {0, 1, \h07, \h08, \h0f, \h10, \h3f, \h40, \h78, \h7e, \h7f, \h80, \h81, \h8f, \hff}

Numbers ==
  UNION {UpTo(t, 4, Boundaries) : t \in {"start", "u64", "i32", "i64"}}

(* One entry, or two, of every kind, with counts and sizes that are right  *)
(* and that are not.                                                       *)
Entry(kind, bytes) == Of(kind, <<{0, 1, 2}>> \o bytes)

Plain ==
  UpTo("custom", 4, {0, 1, 2, \h80}) \cup UpTo("datacount", 2, {0, \h80})
  \cup UpTo("type", 6, {0, 1, \h60, \h7f, \h6f})
  \cup UpTo("function", 4, {0, 1, 2, \h8f})
  \cup UpTo("memory", 5, {0, 1, 2})
  \cup UpTo("export", 5, {0, 1, 3, 4})
  \cup {Entry("import", <<{0, 1}, {0, 1}, {0, 1, 2, 3, 4}, {0, 1, \h70}, {0, 1}, {0, 1}>>),
        Entry("table", <<{\h40, \h70, \h41}, {0, 1, \h6f}, {0, 1, \h70}, {0, 1},
                         {0, 1, \h0b}, {0, 1, \hd0}, {\h0b, \h70}, {\h0b}>>),
        Entry("global", <<{\h7f, \h7a}, {0, 1, 2}, {\h41, \h23, \h0b, \h06}, {0, \h80},
                          {0, \h0b}, {\h0b}>>)}

Segments ==
  {Entry("element", <<0 .. 8, {0, \h0b, \h70}, {0, 1, \h0b, \h6f}, {0, 1, \h0b, \h70},
                      {0, 1, \h0b}, {0, \h0b}, {0, 1, \h0b}>>),
   Entry("data", <<0 .. 3, {0, 1, \h0b, \h41}, {0, 1, \h0b}, {0, 1, 2, \h0b}, {0, 1, \hff},
                   {0, 1, \h0b}>>)}

(* Bodies with nested and missing ends and else, a size too large or too   *)
(* small, and groups of locals at the limit, past it and past u32.         *)
Functions ==
  {Of("code", <<{1}, 4 .. 8, {0}>> \o [k \in 1 .. 6 |-> {\h01, \h02, \h04, \h05, \h0b, \h40}]),
   Of("code", <<{2}, {2, 3}, {0}, {\h01, \h0b}, {2, 3}, {0, 2}, {0, \h0b}>>),
   Of("code", <<{1}, {6}, {2}, 0 .. 3, {\h7f}, 0 .. 3, {\h7f, \h7a}, {\h0b}>>),
   Of("code", <<{1}, {7}, {2}, {\hff}, {\h0f, \h1f}, {\h7f}, 0 .. 3, {\h7f}, {\h0b}>>)}

(* One instruction of every shape of arguments, in an expression.          *)
Instructions ==
  {Of("expr", <<{\h02, \h04}, {0, \h40, \h41, \h70, \h7f, \hff}, {0, \h07, \h0f, \h8f}, {0, \h0b}, {\h0b}>>),
   Of("expr", <<{\h0e, \h1c}, 0 .. 2, {0, \h7f}, {0, \h0b, \h70}, {0, \h0b}, {\h0b}>>),
   Of("expr", <<{\h11, \h20, \h26, \h28, \h3e, \h3f, \h40, \h45, \hd0, \hd1, \hd2, \hc5},
                {0, 31, 32, \h70}, {0, \h0b}, {\h0b}>>),
   Of("expr", <<{\h43}>> \o [k \in 1 .. 3 |-> {0}] \o <<{0, \hff}, {\h0b}>>),
   Of("expr", <<{\h44}>> \o [k \in 1 .. 7 |-> {0}] \o <<{0, \hff}, {\h0b}>>),
   Of("expr", <<{Bulk}, 0 .. 18, {0, 1, \h0b}, {0, 1, \h0b}, {\h0b}>>)}

MCInputs == Numbers \cup Plain \cup Segments \cup Functions \cup Instructions

(* A section that has been decoded or refused is left; decoding must not   *)
(* stop anywhere else.                                                     *)
Left == outcome # "reading" /\ UNCHANGED vars

MCSpec == Init /\ [][Next \/ Left]_vars

=============================================================================
