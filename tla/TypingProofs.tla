---------------------------- MODULE TypingProofs -----------------------------
(***************************************************************************)
(* What validation has established of a body once it is accepted, as the   *)
(* interpreter needs it: the history the validator leaves in typing says   *)
(* of every instruction which operands it finds and which it leaves, and   *)
(* where the block ends that a branch or a skipped arm goes on after.      *)
(*                                                                         *)
(* Validation looks at one instruction after the other and never at the    *)
(* end of a block from its start.  That what a block leaves below its      *)
(* height is the same at its start and at its end, and that the ends the   *)
(* interpreter finds by counting are those the validator has closed its    *)
(* frames at, are facts about histories (Hist) which every step of the     *)
(* loader extends.                                                         *)
(*                                                                         *)
(* The second half is about the interpreter at such a point: an execution  *)
(* that has arrived with the operands and the labels of a point (Arrived)  *)
(* arrives, after the instruction, at the point it goes on with.           *)
(***************************************************************************)
EXTENDS ExecutorProofs, FiniteSetTheorems

-----------------------------------------------------------------------------
(* Points of a history: the validator's stacks before an instruction.      *)

(* The innermost block is not in code that follows a jump.                 *)
Reach(p) == ~Last(p.ctrls).unreachable

(* The innermost block of p has operands that match ts on top.             *)
Gives(p, ts) ==
  /\ Len(ts) <= Len(p.vals) - Last(p.ctrls).height
  /\ \A k \in 1 .. Len(ts) : Matches(p.vals[Len(p.vals) - Len(ts) + k], ts[k])

Left(p, n) == SubSeq(p.vals, 1, Len(p.vals) - n)

LabelAt(p, n) ==
  LET f == p.ctrls[Len(p.ctrls) - n]
  IN  IF f.opcode = "loop" THEN f.start ELSE f.end

Branches(p, n, more) == n < Len(p.ctrls) /\ Gives(p, LabelAt(p, n) \o more)

(* What instruction i of function c needs is there at p.                   *)
Rule(c, i, p) ==
  LET f == Last(p.ctrls)
  IN  /\ i.op = "else" => f.opcode = "if"
      /\ i.op = "end" /\ f.opcode = "if" => f.start = f.end
      /\ Reach(p) =>
           /\ i.op \in {"else", "end"} =>
                Gives(p, f.end) /\ Len(p.vals) = f.height + Len(f.end)
           /\ i.op \in {"block", "loop"} =>
                BlockTypeOk(i.bt) /\ Gives(p, BlockStart(i.bt))
           /\ i.op = "if" =>
                BlockTypeOk(i.bt) /\ Gives(p, Append(BlockStart(i.bt), "i32"))
           /\ i.op = "br" => Branches(p, i.n, <<>>)
           /\ i.op = "br_if" => Branches(p, i.n, <<"i32">>)
           /\ i.op = "br_table" =>
                /\ Branches(p, i.default, <<"i32">>)
                /\ \A j \in DOMAIN i.labels : Branches(p, i.labels[j], <<"i32">>)
           /\ i.op = "return" => Gives(p, p.ctrls[1].end)
           /\ i.op = "select" => Gives(p, <<Unknown, Unknown, "i32">>)
                /\ Matches(p.vals[Len(p.vals) - 1], p.vals[Len(p.vals) - 2])
           /\ i.op = "ref.is_null" =>
                Gives(p, <<Unknown>>) /\ Last(p.vals) \in RefType \cup {Unknown}
           /\ i.op \notin SpecialOps => Immediates(c, i) /\ Gives(p, Ins(c, i))

Opened(i, height) ==
  [opcode |-> i.op, start |-> BlockStart(i.bt), end |-> BlockEnd(i.bt),
   height |-> height, unreachable |-> FALSE]

(* At most the innermost frame changes, and nothing below its height.      *)
MovesFrames(i, p, q) ==
  LET f == Last(p.ctrls)
  IN  /\ \A x \in 1 .. f.height : q.vals[x] = p.vals[x]
      /\ i.op \in OpenOps =>
           q.ctrls = Append(p.ctrls, Opened(i, Len(q.vals) - Len(BlockStart(i.bt))))
      /\ i.op = "else" =>
           /\ q.vals = SubSeq(p.vals, 1, f.height) \o f.start
           /\ q.ctrls = Append(Front(p.ctrls),
                          [f EXCEPT !.opcode = "else", !.unreachable = FALSE])
      /\ i.op = "end" =>
           /\ q.vals = SubSeq(p.vals, 1, f.height) \o f.end
           /\ q.ctrls = Front(p.ctrls)
      /\ i.op \notin OpenOps \cup {"else", "end"} =>
           q.ctrls \in {p.ctrls, [p.ctrls EXCEPT ![Len(p.ctrls)].unreachable = TRUE]}

(* From p, control falls through to q with the operands of the rule.       *)
MovesOperands(c, i, p, q) ==
  Reach(p) =>
    /\ i.op \in {"block", "loop"} =>
         q.vals = Left(p, Len(BlockStart(i.bt))) \o BlockStart(i.bt)
    /\ i.op = "if" =>
         q.vals = Left(p, Len(BlockStart(i.bt)) + 1) \o BlockStart(i.bt)
    /\ i.op \in {"br_if", "select", "ref.is_null"} \/ i.op \notin SpecialOps =>
         q.ctrls = p.ctrls
    /\ i.op = "br_if" =>
         q.vals = Left(p, Len(LabelAt(p, i.n)) + 1) \o LabelAt(p, i.n)
    /\ i.op = "select" =>
         q.vals = Append(Left(p, 3), LET n == Len(p.vals)
                                     IN  IF p.vals[n - 1] = Unknown
                                         THEN p.vals[n - 2] ELSE p.vals[n - 1])
    /\ i.op = "ref.is_null" => q.vals = Append(Left(p, 1), "i32")
    /\ i.op \notin SpecialOps =>
         q.vals = Left(p, Len(Ins(c, i))) \o Outs(c, i)

-----------------------------------------------------------------------------
(* Blocks, from their start to their end.                                  *)

(* The j-th block is the same at p and at q, and so is all below it.       *)
Same(p, q, j) ==
  /\ j \in 1 .. Len(p.ctrls) /\ j \in 1 .. Len(q.ctrls)
  /\ \A m \in 1 .. j - 1 : p.ctrls[m] = q.ctrls[m]
  /\ p.ctrls[j].height = q.ctrls[j].height
  /\ p.ctrls[j].start = q.ctrls[j].start
  /\ p.ctrls[j].end = q.ctrls[j].end
  /\ p.ctrls[j].opcode = "loop" <=> q.ctrls[j].opcode = "loop"
  /\ \A x \in 1 .. p.ctrls[j].height : p.vals[x] = q.vals[x]

(* The j-th block is open all the way from k to q.                         *)
OpenFrom(ts, k, q, j) == \A x \in k .. q : j \in 1 .. Len(ts[x].ctrls)

GoodPoint(p) ==
  /\ p \in Typed
  /\ p.ctrls # <<>>
  /\ \A k \in 1 .. Len(p.ctrls) :
       /\ p.ctrls[k].height <= Len(p.vals)
       /\ p.ctrls[k].start \in Seq(ValType)
       /\ p.ctrls[k].end \in Seq(ValType)
  /\ \A j, k \in 1 .. Len(p.ctrls) :
       j <= k => p.ctrls[j].height <= p.ctrls[k].height

StartPoint(c) ==
  [vals |-> <<>>,
   ctrls |-> << [opcode |-> "call", start |-> <<>>,
                 end |-> At(Types, Funcs[c].type).results,
                 height |-> 0, unreachable |-> FALSE] >>]

(* An if has become an else since k only if there was an else.             *)
OpcodeKept(is, ts, k, q, j) ==
  \/ ts[q].ctrls[j].opcode = ts[k].ctrls[j].opcode
  \/ \E x \in k .. q - 1 : is[x].op = "else" /\ Len(ts[x].ctrls) = j

(* ts is a history of the instructions is, with the point after them.      *)
Hist(c, is, ts) ==
  /\ is \in Seq(Instruction) /\ ts \in Seq(Typed)
  /\ Len(ts) = Len(is) + 1
  /\ ts[1] = StartPoint(c)
  /\ \A k \in 1 .. Len(ts) : GoodPoint(ts[k])
  /\ \A k \in 1 .. Len(is) : /\ Rule(c, is[k], ts[k])
                             /\ MovesFrames(is[k], ts[k], ts[k + 1])
                             /\ MovesOperands(c, is[k], ts[k], ts[k + 1])
  /\ \A q \in 1 .. Len(is) : \A k \in 1 .. q :
       Depth(is, k, q) = Len(ts[q + 1].ctrls) - Len(ts[k].ctrls)
  /\ \A q \in 1 .. Len(ts) : \A k \in 1 .. q : \A j \in 1 .. Len(ts[k].ctrls) :
       OpenFrom(ts, k, q, j) => Same(ts[k], ts[q], j) /\ OpcodeKept(is, ts, k, q, j)

(* is is an accepted body and ts its typing.                               *)
Accepts(c, is, ts) ==
  /\ is \in Seq(Instruction) /\ is # <<>>
  /\ Hist(c, Front(is), ts)
  /\ Last(is).op = "end"
  /\ Len(Last(ts).ctrls) = 1
  /\ Rule(c, Last(is), Last(ts))

(* The strengthening: the body under way and all the accepted ones.        *)
HInv ==
  /\ IInv
  /\ Len(typing) = Len(code)
  /\ \A c \in 1 .. Len(code) : Accepts(c, code[c], typing[c])
  /\ Loading => Hist(Current, body, Append(trace, Here))
  /\ ~Loading => body = <<>> /\ trace = <<>>

-----------------------------------------------------------------------------
(* Same is an equivalence, and what is the same is so from below.          *)

LEMMA SameTransitive ==
  ASSUME NEW p, NEW q, NEW r, NEW j, Same(p, q, j), Same(q, r, j)
  PROVE  Same(p, r, j)
  BY DEF Same

LEMMA SameSymmetric ==
  ASSUME NEW p, NEW q, NEW j, Same(p, q, j)
  PROVE  Same(q, p, j)
  BY DEF Same

LEMMA SameReflexive ==
  ASSUME NEW p, NEW j \in 1 .. Len(p.ctrls)
  PROVE  Same(p, p, j)
  BY DEF Same

(* The frames of a good point.                                             *)
LEMMA GoodFrames ==
  ASSUME NEW p, GoodPoint(p)
  PROVE  /\ p.vals \in Seq(ValueType) /\ p.ctrls \in Seq(Ctrl)
         /\ Len(p.vals) \in Nat /\ Len(p.ctrls) \in Nat \ {0}
         /\ \A k \in 1 .. Len(p.ctrls) :
              /\ p.ctrls[k] \in Ctrl
              /\ p.ctrls[k].height \in 0 .. Len(p.vals)
              /\ Len(p.ctrls[k].start) \in Nat /\ Len(p.ctrls[k].end) \in Nat
         /\ Last(p.ctrls) = p.ctrls[Len(p.ctrls)]
<1>1. p.vals \in Seq(ValueType) /\ p.ctrls \in Seq(Ctrl) /\ p.ctrls # <<>>
  BY DEF GoodPoint, Typed
<1>2. Len(p.ctrls) \in Nat \ {0} /\ Last(p.ctrls) = p.ctrls[Len(p.ctrls)]
  BY <1>1, FrontLast DEF Last
<1>3. \A k \in 1 .. Len(p.ctrls) : p.ctrls[k] \in Ctrl
  BY <1>1
<1>4. \A k \in 1 .. Len(p.ctrls) : p.ctrls[k].height \in 0 .. Len(p.vals)
  BY <1>1, <1>3 DEF GoodPoint, Ctrl
<1>5. \A k \in 1 .. Len(p.ctrls) :
        Len(p.ctrls[k].start) \in Nat /\ Len(p.ctrls[k].end) \in Nat
  <2>1. ASSUME NEW k \in 1 .. Len(p.ctrls)
        PROVE  Len(p.ctrls[k].start) \in Nat /\ Len(p.ctrls[k].end) \in Nat
    <3>1. p.ctrls[k] \in Ctrl
      BY <1>3, <2>1, Zenon
    <3>2. p.ctrls[k].start \in Seq(ValueType) /\ p.ctrls[k].end \in Seq(ValueType)
      BY <3>1 DEF Ctrl
    <3> QED
      BY <3>2
  <2> QED
    BY <2>1, Zenon
<1>6. Len(p.vals) \in Nat
  BY <1>1
<1> QED
  BY <1>1, <1>2, <1>3, <1>4, <1>5, <1>6, Zenon

LEMMA SameBelow ==
  ASSUME NEW p, NEW q, GoodPoint(p), GoodPoint(q), NEW j, Same(p, q, j),
         NEW m \in 1 .. j
  PROVE  Same(p, q, m)
<1>1. j \in 1 .. Len(p.ctrls) /\ j \in 1 .. Len(q.ctrls)
  BY DEF Same
<1>2. CASE m = j
  BY <1>2
<1>3. CASE m # j
  <2>1. m \in 1 .. j - 1 /\ m \in 1 .. Len(p.ctrls) /\ m \in 1 .. Len(q.ctrls)
    BY <1>1, <1>3, GoodFrames
  <2>2. p.ctrls[m] = q.ctrls[m]
    BY <2>1 DEF Same
  <2>3. p.ctrls[m].height \in Nat /\ p.ctrls[j].height \in Nat
    <3>1. \A k \in 1 .. Len(p.ctrls) : p.ctrls[k].height \in 0 .. Len(p.vals)
      BY GoodFrames
    <3> QED
      BY <1>1, <2>1, <3>1
  <2>4. p.ctrls[m].height <= p.ctrls[j].height
    BY <1>1, <2>1, GoodFrames DEF GoodPoint
  <2>5. \A x \in 1 .. p.ctrls[m].height : x \in 1 .. p.ctrls[j].height
    BY <2>3, <2>4
  <2> QED
    BY <2>1, <2>2, <2>5 DEF Same
<1> QED
  BY <1>2, <1>3

-----------------------------------------------------------------------------
(* Histories grow.                                                         *)

Delta(i) == CASE i.op \in OpenOps -> 1 [] i.op = "end" -> -1 [] OTHER -> 0

(* The sets that Depth counts.                                             *)
LEMMA DepthSets ==
  ASSUME NEW is \in Seq(Instruction), NEW k \in Nat, NEW q \in Nat
  PROVE  /\ IsFiniteSet({j \in k .. q : is[j].op \in OpenOps})
         /\ IsFiniteSet({j \in k .. q : is[j].op = "end"})
         /\ Depth(is, k, q) \in Int
<1>1. IsFiniteSet(k .. q)
  BY FS_Interval
<1>2. \A T \in SUBSET (k .. q) : IsFiniteSet(T)
  BY <1>1, FS_Subset
<1> QED
  BY <1>2, FS_CardinalityType DEF Depth

(* One more instruction changes the depth by what it opens or closes.      *)
LEMMA DepthGrows ==
  ASSUME NEW is \in Seq(Instruction), NEW i, NEW k \in Nat \ {0}, k <= Len(is) + 1
  PROVE  Depth(Append(is, i), k, Len(is) + 1)
           = (IF k = Len(is) + 1 THEN 0 ELSE Depth(is, k, Len(is))) + Delta(i)
<1> DEFINE n == Len(is)
           new == Append(is, i)
           O(s, q) == {j \in k .. q : s[j].op \in OpenOps}
           E(s, q) == {j \in k .. q : s[j].op = "end"}
<1>1. n \in Nat /\ new[n + 1] = i /\ \A j \in 1 .. n : new[j] = is[j]
  OBVIOUS
<1>2. IsFiniteSet(O(is, n)) /\ IsFiniteSet(E(is, n))
  BY <1>1, DepthSets
<1>3. \A j \in k .. n + 1 : j = n + 1 \/ j \in k .. n
  BY <1>1
<1>4. n + 1 \notin O(is, n) /\ n + 1 \notin E(is, n) /\ n + 1 \in k .. n + 1
  BY <1>1
<1>5. k > 0 => \A j \in k .. n : new[j] = is[j]
  BY <1>1
<1>6. "end" \notin OpenOps
  BY DEF OpenOps
<1>7. Cardinality(O(new, n + 1)) =
        Cardinality(O(is, n)) + (IF i.op \in OpenOps THEN 1 ELSE 0)
  <2>1. CASE i.op \in OpenOps
    <3>1. O(new, n + 1) = O(is, n) \cup {n + 1}
      BY <1>1, <1>3, <1>4, <1>5, <2>1
    <3>2. Cardinality(O(is, n) \cup {n + 1}) = Cardinality(O(is, n)) + 1
      BY <1>2, <1>4, FS_AddElement
    <3> QED
      BY <2>1, <3>1, <3>2
  <2>2. CASE i.op \notin OpenOps
    <3>1. O(new, n + 1) = O(is, n)
      BY <1>1, <1>3, <1>4, <1>5, <2>2
    <3>2. Cardinality(O(is, n)) \in Nat
      BY <1>2, FS_CardinalityType
    <3> HIDE DEF O
    <3> QED
      BY <2>2, <3>1, <3>2
  <2> QED
    BY <2>1, <2>2
<1>8. Cardinality(E(new, n + 1)) =
        Cardinality(E(is, n)) + (IF i.op = "end" THEN 1 ELSE 0)
  <2>1. CASE i.op = "end"
    <3>1. E(new, n + 1) = E(is, n) \cup {n + 1}
      BY <1>1, <1>3, <1>4, <1>5, <2>1
    <3>2. Cardinality(E(is, n) \cup {n + 1}) = Cardinality(E(is, n)) + 1
      BY <1>2, <1>4, FS_AddElement
    <3> QED
      BY <2>1, <3>1, <3>2
  <2>2. CASE i.op # "end"
    <3>1. E(new, n + 1) = E(is, n)
      BY <1>1, <1>3, <1>4, <1>5, <2>2
    <3>2. Cardinality(E(is, n)) \in Nat
      BY <1>2, FS_CardinalityType
    <3> HIDE DEF E
    <3> QED
      BY <2>2, <3>1, <3>2
  <2> QED
    BY <2>1, <2>2
<1>9. Depth(new, k, n + 1) = Depth(is, k, n) + Delta(i)
  <2>1. Cardinality(O(is, n)) \in Nat /\ Cardinality(E(is, n)) \in Nat
    BY <1>2, FS_CardinalityType
  <2>2. Depth(new, k, n + 1) = Cardinality(O(new, n + 1)) - Cardinality(E(new, n + 1))
    BY DEF Depth
  <2>3. Depth(is, k, n) = Cardinality(O(is, n)) - Cardinality(E(is, n))
    BY DEF Depth
  <2> HIDE DEF O, E, n, new
  <2> QED
    BY <1>6, <1>7, <1>8, <2>1, <2>2, <2>3 DEF Delta
<1>10. ASSUME k = n + 1
       PROVE  Depth(is, k, n) = 0
  <2>1. k .. n = {}
    BY <1>1, <1>10
  <2>2. O(is, n) = {} /\ E(is, n) = {}
    BY <2>1
  <2>3. Depth(is, k, n) = Cardinality(O(is, n)) - Cardinality(E(is, n))
    BY DEF Depth
  <2> HIDE DEF O, E
  <2> QED
    BY <2>2, <2>3, FS_EmptySet
<1> QED
  BY <1>9, <1>10

(* A longer body has the depths of the shorter one.                        *)
LEMMA DepthKept ==
  ASSUME NEW is \in Seq(Instruction), NEW i,
         NEW k \in Nat \ {0}, NEW q \in 1 .. Len(is)
  PROVE  Depth(Append(is, i), k, q) = Depth(is, k, q)
<1>1. \A j \in k .. q : Append(is, i)[j] = is[j]
  OBVIOUS
<1> QED
  BY <1>1 DEF Depth

(* An instruction changes no block that is open before and after it.       *)
LEMMA StepSame ==
  ASSUME NEW i, NEW p, NEW q, GoodPoint(p), GoodPoint(q), MovesFrames(i, p, q),
         i.op = "else" => Last(p.ctrls).opcode = "if"
  PROVE  /\ Len(q.ctrls) = Len(p.ctrls) + Delta(i)
         /\ \A j \in 1 .. Len(p.ctrls) : j <= Len(q.ctrls) =>
              /\ Same(p, q, j)
              /\ \/ q.ctrls[j].opcode = p.ctrls[j].opcode
                 \/ i.op = "else" /\ j = Len(p.ctrls)
<1> DEFINE n == Len(p.ctrls)
           f == p.ctrls[n]
           Agree(j) ==
             /\ p.ctrls[j].height = q.ctrls[j].height
             /\ p.ctrls[j].start = q.ctrls[j].start
             /\ p.ctrls[j].end = q.ctrls[j].end
             /\ p.ctrls[j].opcode = "loop" <=> q.ctrls[j].opcode = "loop"
             /\ \/ q.ctrls[j].opcode = p.ctrls[j].opcode
                \/ i.op = "else" /\ j = n
           Unchanged(m) == \A j \in 1 .. m : q.ctrls[j] = p.ctrls[j]
<1>1. n \in Nat \ {0} /\ Last(p.ctrls) = f /\ p.ctrls \in Seq(Ctrl)
  BY GoodFrames
<1>2. "end" \notin OpenOps /\ "else" \notin OpenOps
  BY DEF OpenOps
<1>3. \A j \in 1 .. n : \A x \in 1 .. p.ctrls[j].height : q.vals[x] = p.vals[x]
  <2>1. \A j \in 1 .. n : p.ctrls[j].height \in 0 .. Len(p.vals)
    BY GoodFrames
  <2>2. \A j \in 1 .. n : p.ctrls[j].height <= f.height
    BY <1>1 DEF GoodPoint
  <2>3. \A x \in 1 .. f.height : q.vals[x] = p.vals[x]
    BY <1>1 DEF MovesFrames
  <2> QED
    BY <1>1, <2>1, <2>2, <2>3
<1>4. ASSUME i.op \in OpenOps
      PROVE  Len(q.ctrls) = n + Delta(i) /\ Unchanged(n - 1) /\ Agree(n)
  <2>1. PICK g : q.ctrls = Append(p.ctrls, g)
    BY <1>4 DEF MovesFrames
  <2>2. Len(q.ctrls) = n + 1 /\ \A j \in 1 .. n : q.ctrls[j] = p.ctrls[j]
    BY <1>1, <2>1
  <2>3. Delta(i) = 1 /\ Unchanged(n)
    BY <1>2, <1>4, <2>2 DEF Delta
  <2> QED
    BY <1>1, <2>2, <2>3
<1>5. ASSUME i.op = "else"
      PROVE  Len(q.ctrls) = n + Delta(i) /\ Unchanged(n - 1) /\ Agree(n)
  <2> DEFINE g == [f EXCEPT !.opcode = "else", !.unreachable = FALSE]
  <2>1. q.ctrls = Append(Front(p.ctrls), g)
    BY <1>1, <1>2, <1>5 DEF MovesFrames
  <2>2. /\ Front(p.ctrls) \in Seq(Ctrl) /\ Len(Front(p.ctrls)) = n - 1
        /\ \A j \in 1 .. n - 1 : Front(p.ctrls)[j] = p.ctrls[j]
    BY <1>1, FrontLast DEF GoodPoint
  <2>3. Len(q.ctrls) = n /\ q.ctrls[n] = g /\ \A j \in 1 .. n - 1 : q.ctrls[j] = p.ctrls[j]
    BY <1>1, <2>1, <2>2
  <2>4. f \in Ctrl
    BY <1>1
  <2>5. g.start = f.start /\ g.end = f.end /\ g.height = f.height /\ g.opcode = "else"
    BY <2>4 DEF Ctrl
  <2>6. f.opcode = "if"
    BY <1>1, <1>5
  <2>7. Delta(i) = 0
    BY <1>2, <1>5 DEF Delta
  <2> QED
    BY <1>1, <1>5, <2>3, <2>5, <2>6, <2>7
<1>6. ASSUME i.op = "end"
      PROVE  Len(q.ctrls) = n + Delta(i) /\ Unchanged(n - 1)
  <2>1. q.ctrls = Front(p.ctrls)
    BY <1>1, <1>2, <1>6 DEF MovesFrames
  <2>2. /\ Len(Front(p.ctrls)) = n - 1
        /\ \A j \in 1 .. n - 1 : Front(p.ctrls)[j] = p.ctrls[j]
    BY <1>1, FrontLast DEF GoodPoint
  <2>3. Len(q.ctrls) = n - 1 /\ \A j \in 1 .. n - 1 : q.ctrls[j] = p.ctrls[j]
    BY <1>1, <2>1, <2>2
  <2>4. Delta(i) = -1
    BY <1>2, <1>6 DEF Delta
  <2> QED
    BY <1>1, <2>3, <2>4
<1>7. ASSUME i.op \notin OpenOps \cup {"else", "end"}
      PROVE  Len(q.ctrls) = n + Delta(i) /\ Unchanged(n - 1) /\ Agree(n)
  <2>1. q.ctrls \in {p.ctrls, [p.ctrls EXCEPT ![n].unreachable = TRUE]}
    BY <1>1, <1>7 DEF MovesFrames
  <2>2. f \in Ctrl
    BY <1>1
  <2>3. /\ Len(q.ctrls) = n /\ \A j \in 1 .. n - 1 : q.ctrls[j] = p.ctrls[j]
        /\ q.ctrls[n] \in {f, [f EXCEPT !.unreachable = TRUE]}
    BY <1>1, <2>1
  <2>4. /\ q.ctrls[n].start = f.start /\ q.ctrls[n].end = f.end
        /\ q.ctrls[n].height = f.height /\ q.ctrls[n].opcode = f.opcode
    BY <2>2, <2>3 DEF Ctrl
  <2>5. Delta(i) = 0
    BY <1>7 DEF Delta
  <2> QED
    BY <1>1, <2>3, <2>4, <2>5
<1>8. /\ Len(q.ctrls) = n + Delta(i) /\ Unchanged(n - 1)
      /\ n <= Len(q.ctrls) => Agree(n)
  <2>1. CASE i.op = "end"
    <3>1. Len(q.ctrls) = n - 1
      BY <1>2, <1>6, <2>1 DEF Delta
    <3> QED
      BY <1>1, <1>6, <2>1, <3>1
  <2> QED
    BY <1>4, <1>5, <1>7, <2>1
<1>9. ASSUME NEW j \in 1 .. n, j <= Len(q.ctrls)
      PROVE  Agree(j) /\ Unchanged(j - 1)
  <2>1. CASE j = n
    BY <1>8, <1>9, <2>1
  <2>2. CASE j # n
    <3>1. j \in 1 .. n - 1
      BY <1>1, <2>2
    <3> QED
      BY <1>1, <1>8, <3>1
  <2> QED
    BY <2>1, <2>2
<1>10. \A j \in 1 .. n : j <= Len(q.ctrls) => j \in 1 .. Len(q.ctrls)
  BY <1>1, GoodFrames
<1> QED
  BY <1>3, <1>8, <1>9, <1>10 DEF Same

(* A block that is open from k to the last point was open up to the point  *)
(* before.                                                                 *)
LEMMA OpenBefore ==
  ASSUME NEW S, NEW ts \in Seq(S), NEW q, NEW k \in 1 .. Len(ts), NEW j,
         OpenFrom(Append(ts, q), k, Len(ts) + 1, j)
  PROVE  OpenFrom(ts, k, Len(ts), j) /\ j \in 1 .. Len(q.ctrls)
<1>1. /\ Append(ts, q)[Len(ts) + 1] = q
      /\ \A x \in 1 .. Len(ts) : Append(ts, q)[x] = ts[x]
  OBVIOUS
<1>2. /\ Len(ts) + 1 \in k .. Len(ts) + 1
      /\ \A x \in k .. Len(ts) : x \in k .. Len(ts) + 1 /\ x \in 1 .. Len(ts)
  OBVIOUS
<1> QED
  BY <1>1, <1>2 DEF OpenFrom

(* A history followed by a step is a history.                              *)
LEMMA HistGrows ==
  ASSUME NEW c, NEW is, NEW ts, Hist(c, is, ts), NEW i \in Instruction, NEW q,
         GoodPoint(q), Rule(c, i, Last(ts)),
         MovesFrames(i, Last(ts), q), MovesOperands(c, i, Last(ts), q)
  PROVE  Hist(c, Append(is, i), Append(ts, q))
<1> DEFINE n == Len(is)
           p == ts[n + 1]
           js == Append(is, i)
           us == Append(ts, q)
<1>1. /\ is \in Seq(Instruction) /\ ts \in Seq(Typed) /\ n \in Nat
      /\ Len(ts) = n + 1 /\ Last(ts) = p /\ GoodPoint(p)
  BY DEF Hist, Last
<1>2. /\ js \in Seq(Instruction) /\ Len(js) = n + 1 /\ js[n + 1] = i
      /\ \A k \in 1 .. n : js[k] = is[k]
  BY <1>1
<1>3. /\ us \in Seq(Typed) /\ Len(us) = n + 2 /\ us[n + 2] = q
      /\ \A k \in 1 .. n + 1 : us[k] = ts[k]
  BY <1>1 DEF GoodPoint
<1>4. /\ Len(q.ctrls) = Len(p.ctrls) + Delta(i)
      /\ \A j \in 1 .. Len(p.ctrls) : j <= Len(q.ctrls) =>
           /\ Same(p, q, j)
           /\ \/ q.ctrls[j].opcode = p.ctrls[j].opcode
              \/ i.op = "else" /\ j = Len(p.ctrls)
  BY <1>1, StepSame, SMTT(40) DEF Rule
<1>5. us[1] = StartPoint(c)
  BY <1>1, <1>3 DEF Hist
<1>6. \A k \in 1 .. Len(us) : GoodPoint(us[k])
  BY <1>1, <1>3 DEF Hist
<1>7. ASSUME NEW k \in 1 .. Len(js)
      PROVE  /\ Rule(c, js[k], us[k])
             /\ MovesFrames(js[k], us[k], us[k + 1])
             /\ MovesOperands(c, js[k], us[k], us[k + 1])
  <2>1. CASE k = n + 1
    BY <1>1, <1>2, <1>3, <2>1
  <2>2. CASE k # n + 1
    <3>1. k \in 1 .. n /\ k + 1 \in 1 .. n + 1
      BY <1>1, <1>2, <2>2
    <3>2. js[k] = is[k] /\ us[k] = ts[k] /\ us[k + 1] = ts[k + 1]
      BY <1>2, <1>3, <3>1
    <3> QED
      BY <3>1, <3>2 DEF Hist
  <2> QED
    BY <2>1, <2>2
<1>8. ASSUME NEW x \in 1 .. Len(js), NEW k \in 1 .. x
      PROVE  Depth(js, k, x) = Len(us[x + 1].ctrls) - Len(us[k].ctrls)
  <2>1. k \in Nat \ {0} /\ k \in 1 .. n + 1 /\ k <= Len(is) + 1
    BY <1>1, <1>2
  <2>2. CASE x = n + 1
    <3>1. Depth(js, k, n + 1) = (IF k = n + 1 THEN 0 ELSE Depth(is, k, n)) + Delta(i)
      BY <1>1, <2>1, DepthGrows
    <3>2. us[x + 1] = q /\ us[k] = ts[k]
      BY <1>1, <1>3, <2>1, <2>2
    <3>3. Len(p.ctrls) \in Nat /\ Len(ts[k].ctrls) \in Nat /\ Delta(i) \in Int
      BY <1>1, <2>1, GoodFrames DEF Hist, Delta
    <3>4. ASSUME k # n + 1
          PROVE  Depth(is, k, n) = Len(p.ctrls) - Len(ts[k].ctrls)
      <4>1. n \in 1 .. Len(is) /\ k \in 1 .. n
        BY <1>1, <2>1, <3>4
      <4>2. \A y \in 1 .. Len(is) : \A z \in 1 .. y :
              Depth(is, z, y) = Len(ts[y + 1].ctrls) - Len(ts[z].ctrls)
        BY DEF Hist
      <4> QED
        BY <4>1, <4>2
    <3>5. Depth(js, k, n + 1) = Len(q.ctrls) - Len(ts[k].ctrls)
      <4> HIDE DEF js, us
      <4>1. CASE k = n + 1
        <5>1. ts[k] = p
          BY <4>1
        <5> HIDE DEF p, n
        <5> QED
          BY <1>4, <3>1, <3>3, <4>1, <5>1
      <4>2. CASE k # n + 1
        <5>1. Depth(is, k, n) = Len(p.ctrls) - Len(ts[k].ctrls)
          BY <3>4, <4>2
        <5>2. Depth(js, k, n + 1) = Depth(is, k, n) + Delta(i)
          BY <3>1, <4>2
        <5>3. Len(q.ctrls) = Len(p.ctrls) + Delta(i)
          BY <1>4
        <5> HIDE DEF p, n
        <5> QED
          <6> DEFINE a == Len(p.ctrls)
                     b == Len(ts[k].ctrls)
                     d == Delta(i)
                     z == Depth(is, k, n)
          <6>1. a \in Nat /\ b \in Nat /\ d \in Int /\ z = a - b
            BY <3>3, <5>1
          <6>2. Depth(js, k, n + 1) = z + d /\ Len(q.ctrls) = a + d
            BY <5>2, <5>3
          <6> HIDE DEF a, b, d, z
          <6>3. z + d = (a + d) - b
            BY <6>1
          <6> QED
            BY <6>2, <6>3 DEF b
      <4> QED
        BY <4>1, <4>2
    <3> HIDE DEF js, us
    <3> QED
      BY <2>2, <3>2, <3>5
  <2>3. CASE x # n + 1
    <3>1. x \in 1 .. n /\ x + 1 \in 1 .. n + 1
      BY <1>1, <1>2, <2>3
    <3>2. us[x + 1] = ts[x + 1] /\ us[k] = ts[k]
      BY <1>3, <2>1, <3>1
    <3>3. Depth(js, k, x) = Depth(is, k, x)
      BY <1>1, <2>1, <3>1, DepthKept
    <3> QED
      BY <3>1, <3>2, <3>3 DEF Hist
  <2> QED
    BY <2>2, <2>3
<1>9. ASSUME NEW x \in 1 .. Len(us), NEW k \in 1 .. x,
             NEW j \in 1 .. Len(us[k].ctrls), OpenFrom(us, k, x, j)
      PROVE  Same(us[k], us[x], j) /\ OpcodeKept(js, us, k, x, j)
  <2>1. CASE x = n + 2 /\ k = n + 2
    BY <1>3, <2>1, SameReflexive DEF OpcodeKept
  <2>2. CASE x = n + 2 /\ k # n + 2
    <3>1. k \in 1 .. n + 1 /\ us[k] = ts[k] /\ us[x] = q
      BY <1>1, <1>3, <2>2
    <3>2. OpenFrom(ts, k, n + 1, j) /\ j \in 1 .. Len(q.ctrls)
      BY <1>1, <1>9, <2>2, <3>1, OpenBefore
    <3>3. Same(ts[k], p, j) /\ OpcodeKept(is, ts, k, n + 1, j)
      <4>1. j \in 1 .. Len(ts[k].ctrls) /\ n + 1 \in 1 .. Len(ts) /\ k \in 1 .. n + 1
        BY <1>1, <3>1
      <4> QED
        BY <3>2, <4>1 DEF Hist
    <3>4. j \in 1 .. Len(p.ctrls) /\ j <= Len(q.ctrls)
      BY <3>2, <3>3 DEF Same
    <3>5. Same(p, q, j)
      BY <1>4, <3>4
    <3>6. OpcodeKept(js, us, k, x, j)
      <4>1. CASE \E y \in k .. n : is[y].op = "else" /\ Len(ts[y].ctrls) = j
        <5>1. PICK y \in k .. n : is[y].op = "else" /\ Len(ts[y].ctrls) = j
          BY <4>1
        <5>2. y \in 1 .. n /\ y \in 1 .. n + 1 /\ y \in k .. x - 1
          BY <1>1, <2>2, <3>1
        <5>3. js[y] = is[y] /\ us[y] = ts[y]
          BY <1>2, <1>3, <5>2
        <5> QED
          BY <5>1, <5>2, <5>3 DEF OpcodeKept
      <4>2. CASE i.op = "else" /\ j = Len(p.ctrls)
        <5>1. n + 1 \in k .. x - 1 /\ js[n + 1] = i /\ us[n + 1] = p
          BY <1>1, <1>2, <1>3, <2>2, <3>1
        <5> QED
          BY <4>2, <5>1 DEF OpcodeKept
      <4>3. CASE /\ p.ctrls[j].opcode = ts[k].ctrls[j].opcode
                 /\ q.ctrls[j].opcode = p.ctrls[j].opcode
        BY <3>1, <4>3 DEF OpcodeKept
      <4>4. \/ p.ctrls[j].opcode = ts[k].ctrls[j].opcode
            \/ \E y \in k .. n : is[y].op = "else" /\ Len(ts[y].ctrls) = j
        <5>1. (n + 1) - 1 = n
          BY <1>1
        <5> QED
          BY <3>3, <5>1 DEF OpcodeKept
      <4>5. \/ q.ctrls[j].opcode = p.ctrls[j].opcode
            \/ i.op = "else" /\ j = Len(p.ctrls)
        BY <1>4, <3>4
      <4> QED
        BY <4>1, <4>2, <4>3, <4>4, <4>5
    <3> QED
      BY <3>1, <3>3, <3>5, <3>6, SameTransitive
  <2>3. CASE x # n + 2
    <3>1. x \in 1 .. n + 1 /\ k \in 1 .. n + 1
      BY <1>1, <1>3, <2>3
    <3>2. \A y \in k .. x : y \in 1 .. n + 1 /\ us[y] = ts[y]
      BY <1>3, <3>1
    <3>3. OpenFrom(ts, k, x, j) /\ us[x] = ts[x] /\ us[k] = ts[k]
      BY <1>3, <1>9, <3>1, <3>2 DEF OpenFrom
    <3>4. Same(ts[k], ts[x], j) /\ OpcodeKept(is, ts, k, x, j)
      BY <1>1, <3>1, <3>3 DEF Hist
    <3>5. \A y \in k .. x - 1 : y \in 1 .. n /\ js[y] = is[y] /\ us[y] = ts[y]
      BY <1>1, <1>2, <3>1, <3>2
    <3>6. OpcodeKept(js, us, k, x, j)
      BY <3>3, <3>4, <3>5 DEF OpcodeKept
    <3> QED
      BY <3>3, <3>4, <3>6
  <2> QED
    BY <2>1, <2>2, <2>3
<1> HIDE DEF js, us, p
<1>10. Len(us) = Len(js) + 1
  BY <1>1, <1>2, <1>3
<1> QED
  BY <1>2, <1>3, <1>5, <1>6, <1>7, <1>8, <1>9, <1>10 DEF Hist, js, us

-----------------------------------------------------------------------------
(* Validation, point by point.                                             *)

(* The parameters and results of a block type are types of values.         *)
LEMMA BlockValTypes ==
  ASSUME NEW bt \in BlockType, BlockTypeOk(bt)
  PROVE  /\ BlockStart(bt) \in Seq(ValType) /\ BlockEnd(bt) \in Seq(ValType)
         /\ BlockParams(bt) = Len(BlockStart(bt))
         /\ BlockResults(bt) = Len(BlockEnd(bt))
<1>1. CASE bt.kind = "index"
  <2>1. At(Types, bt.x) \in FuncType
    BY <1>1, ModuleAssumption DEF BlockType, BlockTypeOk, InRange, At
  <2> QED
    BY <1>1, <2>1 DEF BlockStart, BlockEnd, BlockParams, BlockResults, FuncType
<1>2. CASE bt.kind = "value"
  BY <1>2 DEF BlockType, BlockStart, BlockEnd, BlockParams, BlockResults
<1>3. CASE bt.kind = "empty"
  BY <1>3 DEF BlockStart, BlockEnd, BlockParams, BlockResults
<1> QED
  BY <1>1, <1>2, <1>3 DEF BlockType

(* What IInv and HInv say of the point that has been reached.              *)
LEMMA HereGood ==
  ASSUME HInv, Loading
  PROVE  /\ IInv /\ ctrls # <<>> /\ GoodPoint(Here)
         /\ Last(Here.ctrls) = Top /\ Here.vals = vals /\ Here.ctrls = ctrls
         /\ Top \in Ctrl /\ Top.height \in 0 .. Len(vals)
         /\ vals \in Seq(ValueType) /\ Len(vals) \in Nat
         /\ Top = ctrls[Len(ctrls)] /\ Len(ctrls) \in Nat \ {0}
<1>1. IInv /\ Hist(Current, body, Append(trace, Here))
  BY DEF HInv
<1>2. ctrls # <<>>
  BY <1>1, FrameExists DEF IInv
<1>3. trace \in Seq(Typed) /\ Here \in Typed
  BY <1>1 DEF IInv, LoadTypeOK, Here, Typed
<1>4. /\ Len(trace) + 1 \in 1 .. Len(Append(trace, Here))
      /\ Append(trace, Here)[Len(trace) + 1] = Here
  BY <1>3
<1>5. GoodPoint(Here)
  BY <1>1, <1>4 DEF Hist
<1>6. Here.vals = vals /\ Here.ctrls = ctrls
  BY DEF Here
<1>7. vals \in Seq(ValueType) /\ Len(vals) \in Nat
  BY <1>1 DEF IInv, LoadTypeOK
<1>8. /\ Top \in Ctrl /\ Top = ctrls[Len(ctrls)] /\ Top.height \in Nat
      /\ Len(ctrls) \in Nat \ {0}
  BY <1>1, <1>2, TopFrame DEF IInv
<1>9. Top.height <= Len(vals)
  BY <1>1, <1>8 DEF IInv, HeightsNested
<1> QED
  BY <1>1, <1>2, <1>5, <1>6, <1>7, <1>8, <1>9 DEF Top

(* In code that is reached, a pop takes operands the block has.            *)
LEMMA PopGives ==
  ASSUME HInv, Loading, NEW ts, Len(ts) \in Nat, CanPop(ts), Reach(Here)
  PROVE  /\ Gives(Here, ts) /\ Len(ts) <= Avail
         /\ AfterPop(ts) = Left(Here, Len(ts))
<1>1. ~Top.unreachable
  BY HereGood DEF Reach
<1>2. Avail \in Nat /\ Avail = Len(vals) - Top.height
  BY HereGood DEF Avail
<1>3. \A k \in 1 .. Len(ts) :
        k <= Avail /\ Matches(vals[Len(vals) - k + 1], ts[Len(ts) - k + 1])
  BY <1>1 DEF CanPop
<1>4. Len(ts) <= Avail
  <2>1. CASE Len(ts) = 0
    BY <1>2, <2>1
  <2>2. CASE Len(ts) # 0
    <3>1. Len(ts) \in 1 .. Len(ts)
      BY <2>2
    <3> QED
      BY <1>3, <3>1
  <2> QED
    BY <2>1, <2>2
<1>5. ASSUME NEW k \in 1 .. Len(ts)
      PROVE  Matches(vals[Len(vals) - Len(ts) + k], ts[k])
  <2>1. Len(ts) - k + 1 \in 1 .. Len(ts)
    OBVIOUS
  <2>2. Matches(vals[Len(vals) - (Len(ts) - k + 1) + 1],
                ts[Len(ts) - (Len(ts) - k + 1) + 1])
    BY <1>3, <2>1
  <2>3. /\ Len(vals) - (Len(ts) - k + 1) + 1 = Len(vals) - Len(ts) + k
        /\ Len(ts) - (Len(ts) - k + 1) + 1 = k
    BY HereGood
  <2> QED
    BY <2>2, <2>3
<1>6. Gives(Here, ts)
  BY <1>2, <1>4, <1>5, HereGood DEF Gives
<1>7. AfterPop(ts) = Left(Here, Len(ts))
  BY <1>4, HereGood DEF AfterPop, Left
<1> QED
  BY <1>4, <1>6, <1>7

(* The types a branch to an open block carries.                            *)
LEMMA LabelHere ==
  ASSUME HInv, Loading, NEW n \in Nat, TargetOk(n)
  PROVE  LabelTypes(n) = LabelAt(Here, n) /\ LabelAt(Here, n) \in Seq(ValType)
<1>1. Len(ctrls) - n \in 1 .. Len(ctrls)
  BY HereGood DEF TargetOk
<1>2. /\ ctrls[Len(ctrls) - n].start \in Seq(ValType)
      /\ ctrls[Len(ctrls) - n].end \in Seq(ValType)
  BY <1>1, HereGood DEF GoodPoint
<1> QED
  BY <1>2, HereGood DEF LabelTypes, LabelAt

(* A branch that validation lets through has its operands.                 *)
LEMMA BranchGives ==
  ASSUME HInv, Loading, NEW n \in Nat, TargetOk(n), Reach(Here)
  PROVE  /\ CanPop(LabelTypes(n)) => Branches(Here, n, <<>>)
         /\ CanPop(Append(LabelTypes(n), "i32")) =>
              /\ Branches(Here, n, <<"i32">>)
              /\ AfterPop(Append(LabelTypes(n), "i32"))
                   = Left(Here, Len(LabelAt(Here, n)) + 1)
<1> DEFINE l == LabelAt(Here, n)
<1>1. LabelTypes(n) = l /\ l \in Seq(ValType)
  BY LabelHere
<1>2. n < Len(Here.ctrls)
  BY HereGood DEF TargetOk
<1> HIDE DEF l
<1>3. l \o <<>> = l /\ l \o <<"i32">> = Append(l, "i32")
  BY <1>1
<1>4. /\ Len(l) \in Nat /\ Len(Append(l, "i32")) = Len(l) + 1
      /\ Len(Append(l, "i32")) \in Nat
  BY <1>1
<1>5. CanPop(l) => Gives(Here, l)
  BY <1>4, PopGives
<1>6. CanPop(Append(l, "i32")) =>
        /\ Gives(Here, Append(l, "i32"))
        /\ AfterPop(Append(l, "i32")) = Left(Here, Len(l) + 1)
  BY <1>4, PopGives
<1> QED
  BY <1>1, <1>2, <1>3, <1>5, <1>6 DEF Branches, l

(* A pop of the results of the innermost block leaves nothing of its own.  *)
LEMMA PopCtrlHere ==
  ASSUME HInv, Loading, CanPopCtrl
  PROVE  AfterPop(Top.end) = SubSeq(vals, 1, Top.height)
<1>1. Len(Top.end) \in Nat /\ Top.height \in 0 .. Len(vals)
  BY HereGood DEF Ctrl
<1>2. CASE Len(Top.end) <= Avail
  <2>1. AfterPop(Top.end) = SubSeq(vals, 1, Len(vals) - Len(Top.end))
    BY <1>2 DEF AfterPop
  <2>2. Len(vals) - Len(Top.end) \in 0 .. Len(vals)
    BY <1>1, <1>2, HereGood DEF Avail
  <2>3. Len(AfterPop(Top.end)) = Len(vals) - Len(Top.end)
    <3>1. Len(SubSeq(vals, 1, Len(vals) - Len(Top.end))) = Len(vals) - Len(Top.end)
      BY <2>2, Prefix, HereGood
    <3> QED
      BY <2>1, <3>1, Zenon
  <2> QED
    BY <2>1, <2>3 DEF CanPopCtrl
<1>3. CASE ~(Len(Top.end) <= Avail)
  BY <1>3 DEF AfterPop
<1> QED
  BY <1>2, <1>3

(* What validation accepts satisfies the rules.                            *)
LEMMA RuleHere ==
  ASSUME HInv, Loading, NEW i \in Instruction, Accepted(i)
  PROVE  Rule(Current, i, Here)
<1>1. /\ Last(Here.ctrls) = Top /\ Here.ctrls = ctrls /\ Here.vals = vals
      /\ Len(vals) \in Nat /\ Top.height \in 0 .. Len(vals) /\ Top \in Ctrl
  BY HereGood
<1>2. /\ i.op = "else" => Top.opcode = "if"
      /\ i.op = "end" /\ Top.opcode = "if" => Top.start = Top.end
  BY DEF Accepted
<1>3. ASSUME Reach(Here), i.op \in {"else", "end"}
      PROVE  Gives(Here, Top.end) /\ Len(vals) = Top.height + Len(Top.end)
  <2>1. CanPopCtrl
    BY <1>3 DEF Accepted
  <2>2. Len(Top.end) \in Nat
    BY <1>1 DEF Ctrl
  <2>3. Gives(Here, Top.end) /\ Len(Top.end) <= Avail
        /\ AfterPop(Top.end) = SubSeq(vals, 1, Len(vals) - Len(Top.end))
    BY <1>1, <1>3, <2>1, <2>2, PopGives DEF CanPopCtrl, Left
  <2>4. Len(vals) - Len(Top.end) \in 0 .. Len(vals)
    BY <1>1, <2>2, <2>3 DEF Avail
  <2>5. Len(AfterPop(Top.end)) = Len(vals) - Len(Top.end)
    <3>1. Len(SubSeq(vals, 1, Len(vals) - Len(Top.end))) = Len(vals) - Len(Top.end)
      BY <2>4, Prefix, HereGood
    <3> QED
      BY <2>3, <3>1, Zenon
  <2>6. Len(vals) - Len(Top.end) = Top.height
    BY <2>1, <2>5 DEF CanPopCtrl
  <2>7. Len(vals) = Top.height + Len(Top.end)
    BY <1>1, <2>2, <2>6
  <2> QED
    BY <2>3, <2>7
<1>4. ASSUME Reach(Here), i.op \in OpenOps
      PROVE  /\ BlockTypeOk(i.bt)
             /\ i.op \in {"block", "loop"} => Gives(Here, BlockStart(i.bt))
             /\ i.op = "if" => Gives(Here, Append(BlockStart(i.bt), "i32"))
  <2>1. BlockTypeOk(i.bt)
    BY <1>4 DEF Accepted, OpenOps
  <2>2. BlockStart(i.bt) \in Seq(ValType)
    BY <1>4, <2>1, BlockImmediate, BlockValTypes
  <2>3. Len(BlockStart(i.bt)) \in Nat /\ Len(Append(BlockStart(i.bt), "i32")) \in Nat
    BY <2>2
  <2>4. /\ i.op \in {"block", "loop"} => CanPop(BlockStart(i.bt))
        /\ i.op = "if" => CanPop(Append(BlockStart(i.bt), "i32"))
    BY DEF Accepted
  <2> QED
    BY <1>4, <2>1, <2>3, <2>4, PopGives
<1>5. ASSUME Reach(Here)
      PROVE  /\ i.op = "br" => Branches(Here, i.n, <<>>)
             /\ i.op = "br_if" => Branches(Here, i.n, <<"i32">>)
  <2>1. i.op \in {"br", "br_if"} => i.n \in Nat
    BY LabelImmediate DEF LabelOps
  <2> QED
    BY <1>5, <2>1, BranchGives DEF Accepted
<1>6. ASSUME Reach(Here), i.op = "br_table"
      PROVE  /\ Branches(Here, i.default, <<"i32">>)
             /\ \A j \in DOMAIN i.labels : Branches(Here, i.labels[j], <<"i32">>)
  <2>1. i.default \in Nat /\ \A j \in DOMAIN i.labels : i.labels[j] \in Nat
    BY <1>6, TableImmediate
  <2>2. /\ TargetOk(i.default) /\ CanPop(Append(LabelTypes(i.default), "i32"))
        /\ \A j \in DOMAIN i.labels :
             /\ TargetOk(i.labels[j])
             /\ CanPop(Append(LabelTypes(i.labels[j]), "i32"))
    BY <1>6 DEF Accepted
  <2> QED
    BY <1>6, <2>1, <2>2, BranchGives
<1>7. ASSUME Reach(Here), i.op = "return"
      PROVE  Gives(Here, ctrls[1].end)
  <2>1. 1 \in 1 .. Len(ctrls)
    BY HereGood
  <2>2. Len(ctrls[1].end) \in Nat
    BY <1>1, <2>1, HereGood, GoodFrames
  <2> QED
    BY <1>7, <2>2, PopGives DEF Accepted
<1>8. ASSUME Reach(Here), i.op = "select"
      PROVE  /\ Gives(Here, <<Unknown, Unknown, "i32">>)
             /\ Matches(vals[Len(vals) - 1], vals[Len(vals) - 2])
  <2>1. Len(<<Unknown, Unknown, "i32">>) = 3
    OBVIOUS
  <2>2. CanPop(<<Unknown, Unknown, "i32">>) /\ Matches(Popped(2), Popped(3))
    BY <1>8 DEF Accepted
  <2>3. Gives(Here, <<Unknown, Unknown, "i32">>) /\ 3 <= Avail
    BY <1>8, <2>1, <2>2, PopGives
  <2>4. Popped(2) = vals[Len(vals) - 1] /\ Popped(3) = vals[Len(vals) - 2]
    BY <1>1, <2>3 DEF Popped, Avail
  <2> QED
    BY <2>2, <2>3, <2>4
<1>9. ASSUME Reach(Here), i.op = "ref.is_null"
      PROVE  Gives(Here, <<Unknown>>) /\ Last(vals) \in RefType \cup {Unknown}
  <2>1. Len(<<Unknown>>) = 1
    OBVIOUS
  <2>2. CanPop(<<Unknown>>) /\ Popped(1) \in RefType \cup {Unknown}
    BY <1>9 DEF Accepted
  <2>3. Gives(Here, <<Unknown>>) /\ 1 <= Avail
    BY <1>9, <2>1, <2>2, PopGives
  <2>4. Popped(1) = Last(vals)
    BY <1>1, <2>3 DEF Popped, Avail, Last
  <2> QED
    BY <2>2, <2>3, <2>4
<1>10. ASSUME Reach(Here), i.op \notin SpecialOps
       PROVE  Immediates(Current, i) /\ Gives(Here, Ins(Current, i))
  <2>1. Immediates(Current, i) /\ CanPop(Ins(Current, i))
    BY <1>10 DEF Accepted
  <2>2. Len(Ins(Current, i)) \in Nat
    BY <2>1, InsTyped, HereGood DEF IInv
  <2> QED
    BY <1>10, <2>1, <2>2, PopGives
<1> QED
  BY <1>1, <1>2, <1>3, <1>4, <1>5, <1>6, <1>7, <1>8, <1>9, <1>10 DEF Rule, OpenOps

-----------------------------------------------------------------------------
(* The steps of the loader extend the history.                             *)

(* What is left after a pop is as it was, up to the height of the block.   *)
LEMMA PopKeepsBelow ==
  ASSUME HInv, Loading, NEW ts \in Seq(ValueType), NEW us \in Seq(ValueType)
  PROVE  /\ \A x \in 1 .. Top.height : (AfterPop(ts) \o us)[x] = vals[x]
         /\ AfterPop(ts) \in Seq(ValueType)
<1>1. /\ AfterPop(ts) \in Seq(ValueType) /\ Len(AfterPop(ts)) \in Nat
      /\ Top.height <= Len(AfterPop(ts))
  BY PopStaysAboveHeight, HereGood DEF IInv
<1>2. \A x \in 1 .. Top.height : AfterPop(ts)[x] = vals[x]
  <2>1. CASE Len(ts) <= Avail
    <3>1. Len(vals) - Len(ts) \in 0 .. Len(vals) /\ Top.height <= Len(vals) - Len(ts)
      BY <2>1, HereGood DEF Avail
    <3>2. AfterPop(ts) = SubSeq(vals, 1, Len(vals) - Len(ts))
      BY <2>1 DEF AfterPop
    <3>3. \A x \in 1 .. Len(vals) - Len(ts) :
            SubSeq(vals, 1, Len(vals) - Len(ts))[x] = vals[x]
      BY <3>1, HereGood, Prefix
    <3>4. \A x \in 1 .. Top.height : x \in 1 .. Len(vals) - Len(ts)
      BY <3>1, HereGood
    <3> QED
      BY <3>2, <3>3, <3>4
  <2>2. CASE ~(Len(ts) <= Avail)
    <3>1. AfterPop(ts) = SubSeq(vals, 1, Top.height)
      BY <2>2 DEF AfterPop
    <3> QED
      BY <3>1, HereGood, Prefix
  <2> QED
    BY <2>1, <2>2
<1>3. \A x \in 1 .. Top.height : x \in 1 .. Len(AfterPop(ts))
  BY <1>1, HereGood
<1>4. \A x \in 1 .. Len(AfterPop(ts)) : (AfterPop(ts) \o us)[x] = AfterPop(ts)[x]
  BY <1>1
<1> QED
  BY <1>1, <1>2, <1>3, <1>4

(* The next point is good if the stacks are and the types are of values.   *)
LEMMA NextGood ==
  ASSUME IInv', ctrls' # <<>>,
         \A k \in 1 .. Len(ctrls') : /\ ctrls'[k].start \in Seq(ValType)
                                     /\ ctrls'[k].end \in Seq(ValType)
  PROVE  GoodPoint(Here') /\ Here'.vals = vals' /\ Here'.ctrls = ctrls'
<1>1. Here' = [vals |-> vals', ctrls |-> ctrls']
  BY DEF Here
<1>2. vals' \in Seq(ValueType) /\ ctrls' \in Seq(Ctrl)
  BY DEF IInv, LoadTypeOK
<1>3. [vals |-> vals', ctrls |-> ctrls'] \in Typed
  BY <1>2 DEF Typed
<1> QED
  BY <1>1, <1>3 DEF GoodPoint, IInv, HeightsNested

(* What has to be shown of a step that reads an instruction.               *)
LEMMA ReadExtends ==
  ASSUME HInv, IInv', NEW i \in Instruction, Read(i), GoodPoint(Here'),
         MovesFrames(i, Here, Here'), MovesOperands(Current, i, Here, Here')
  PROVE  HInv'
<1>1. Loading /\ Accepted(i)
  BY DEF Read
<1>2. Hist(Current, body, Append(trace, Here)) /\ Rule(Current, i, Here)
  BY <1>1, RuleHere DEF HInv
<1>3. trace \in Seq(Typed) /\ Here \in Typed
  BY HereGood, <1>1 DEF HInv, IInv, LoadTypeOK, Here, Typed
<1>4. Last(Append(trace, Here)) = Here
  BY <1>3 DEF Last
<1>5. /\ body' = Append(body, i) /\ trace' = Append(trace, Here)
      /\ code' = code /\ typing' = typing /\ Current' = Current
  BY DEF Read, Current
<1>6. Hist(Current, Append(body, i), Append(Append(trace, Here), Here'))
  BY <1>2, <1>4, HistGrows
<1>7. Hist(Current', body', Append(trace', Here'))
  BY <1>5, <1>6
<1>8. Loading'
  <2>1. ctrls' # <<>> /\ Len(ctrls') \in Nat \ {0} /\ Len(nest') = Len(ctrls')
    <3>1. Here'.ctrls = ctrls'
      BY DEF Here
    <3> QED
      BY <3>1, GoodFrames DEF GoodPoint, IInv, DecoderAgrees
  <2> QED
    BY <2>1 DEF Loading
<1>9. \A c \in 1 .. Len(code') : Accepts(c, code'[c], typing'[c])
  BY <1>5 DEF HInv
<1>10. Len(typing') = Len(code')
  BY <1>5 DEF HInv
<1> QED
  BY <1>7, <1>8, <1>9, <1>10 DEF HInv

(* Instructions that keep all the frames.                                  *)
LEMMA KeepsFrames ==
  ASSUME HInv, IInv', NEW i \in Instruction, Read(i),
         i.op \notin OpenOps \cup {"else", "end"},
         NEW ts \in Seq(ValueType), NEW us \in Seq(ValueType),
         vals' = AfterPop(ts) \o us, UNCHANGED ctrls
  PROVE  GoodPoint(Here') /\ MovesFrames(i, Here, Here')
<1>1. Loading
  BY DEF Read
<1>2. GoodPoint(Here') /\ Here'.vals = vals' /\ Here'.ctrls = ctrls
  <2>1. \A k \in 1 .. Len(ctrls) : /\ ctrls[k].start \in Seq(ValType)
                                   /\ ctrls[k].end \in Seq(ValType)
    BY <1>1, HereGood DEF GoodPoint
  <2> QED
    BY <1>1, <2>1, HereGood, NextGood
<1>3. \A x \in 1 .. Top.height : vals'[x] = vals[x]
  BY <1>1, PopKeepsBelow
<1> QED
  BY <1>1, <1>2, <1>3, HereGood DEF MovesFrames

(* Instructions after which the block is not reached.                      *)
LEMMA UnreachedExtends ==
  ASSUME HInv, IInv', NEW i \in Instruction, Read(i),
         i.op \in {"unreachable", "br", "br_table", "return"}, MarkUnreachable
  PROVE  HInv'
<1>1. Loading /\ Top \in Ctrl
  BY HereGood DEF Read
<1>2. /\ vals' = SubSeq(vals, 1, Top.height)
      /\ ctrls' = [ctrls EXCEPT ![Len(ctrls)].unreachable = TRUE]
  BY DEF MarkUnreachable
<1>3. \A k \in 1 .. Len(ctrls) : /\ ctrls[k] \in Ctrl
                                 /\ ctrls[k].start \in Seq(ValType)
                                 /\ ctrls[k].end \in Seq(ValType)
  BY <1>1, HereGood, GoodFrames DEF GoodPoint
<1>4. /\ Len(ctrls') = Len(ctrls) /\ ctrls' # <<>>
      /\ \A k \in 1 .. Len(ctrls) : ctrls'[k] \in {ctrls[k],
           [ctrls[k] EXCEPT !.unreachable = TRUE]}
  <2>1. ctrls \in Seq(Ctrl) /\ Len(ctrls) \in Nat \ {0}
    BY <1>1, HereGood DEF IInv, LoadTypeOK
  <2>2. ctrls' = [ctrls EXCEPT ![Len(ctrls)] =
                    [ctrls[Len(ctrls)] EXCEPT !.unreachable = TRUE]]
    BY <1>2
  <2>3. Len(ctrls') = Len(ctrls)
    BY <2>1, <2>2
  <2>4. ctrls' # <<>>
    <3>1. Len(<<>>) = 0
      OBVIOUS
    <3> QED
      BY <2>1, <2>3, <3>1
  <2>5. \A k \in 1 .. Len(ctrls) :
          ctrls'[k] = IF k = Len(ctrls)
                      THEN [ctrls[Len(ctrls)] EXCEPT !.unreachable = TRUE]
                      ELSE ctrls[k]
    BY <2>1, <2>2
  <2> QED
    BY <2>3, <2>4, <2>5
<1>5. \A k \in 1 .. Len(ctrls') : /\ ctrls'[k].start \in Seq(ValType)
                                  /\ ctrls'[k].end \in Seq(ValType)
  BY <1>3, <1>4, SMTT(90) DEF Ctrl
<1>6. GoodPoint(Here') /\ Here'.vals = vals' /\ Here'.ctrls = ctrls'
  BY <1>4, <1>5, NextGood
<1>7. \A x \in 1 .. Top.height : vals'[x] = vals[x]
  BY <1>1, <1>2, HereGood, Prefix
<1>8. i.op \notin OpenOps \cup {"else", "end"} /\ i.op \in SpecialOps
  BY DEF OpenOps, LabelOps, SpecialOps
<1>9. MovesFrames(i, Here, Here')
  BY <1>1, <1>2, <1>6, <1>7, <1>8, HereGood DEF MovesFrames
<1>10. MovesOperands(Current, i, Here, Here')
  BY <1>8 DEF MovesOperands, OpenOps
<1> QED
  BY <1>6, <1>9, <1>10, ReadExtends

(* block, loop and if.                                                     *)
LEMMA OpensExtends ==
  ASSUME HInv, IInv', NEW i \in Instruction, Read(i), i.op \in OpenOps,
         NEW ts \in Seq(ValType),
         ts = IF i.op = "if" THEN Append(BlockStart(i.bt), "i32") ELSE BlockStart(i.bt),
         PushCtrl(AfterPop(ts), ctrls, i.op, BlockStart(i.bt), BlockEnd(i.bt))
  PROVE  HInv'
<1> DEFINE bs == BlockStart(i.bt)
           f == [opcode |-> i.op, start |-> bs, end |-> BlockEnd(i.bt),
                 height |-> Len(AfterPop(ts)), unreachable |-> FALSE]
<1>1. Loading /\ Accepted(i) /\ BlockTypeOk(i.bt) /\ i.bt \in BlockType
  BY BlockImmediate DEF Read, Accepted, OpenOps
<1>2. bs \in Seq(ValType) /\ BlockEnd(i.bt) \in Seq(ValType)
  BY <1>1, BlockValTypes
<1>3. bs \in Seq(ValueType) /\ ts \in Seq(ValueType)
  BY <1>2, SomeTypes
<1>4. vals' = AfterPop(ts) \o bs /\ ctrls' = Append(ctrls, f)
  BY DEF PushCtrl
<1>5. AfterPop(ts) \in Seq(ValueType) /\ \A x \in 1 .. Top.height : vals'[x] = vals[x]
  BY <1>1, <1>3, <1>4, PopKeepsBelow
<1>6. Len(AfterPop(ts)) = Len(vals') - Len(bs)
  <2> HIDE DEF bs
  <2>1. \A a, b \in Seq(ValueType) : /\ Len(a) \in Nat /\ Len(b) \in Nat
                                     /\ Len(a \o b) = Len(a) + Len(b)
    OBVIOUS
  <2>2. Len(vals') = Len(AfterPop(ts)) + Len(bs)
    BY <1>3, <1>4, <1>5, <2>1
  <2> QED
    BY <1>3, <1>5, <2>1, <2>2
<1>7. GoodPoint(Here') /\ Here'.vals = vals' /\ Here'.ctrls = ctrls'
  <2> HIDE DEF f
  <2>1. /\ ctrls' # <<>> /\ Len(ctrls') = Len(ctrls) + 1
        /\ \A k \in 1 .. Len(ctrls) : ctrls'[k] = ctrls[k]
        /\ ctrls'[Len(ctrls) + 1] = f
    <3>1. ctrls \in Seq(Ctrl) /\ ctrls' \in Seq(Ctrl)
      BY <1>1, HereGood DEF IInv, LoadTypeOK
    <3>2. /\ Len(Append(ctrls, f)) = Len(ctrls) + 1
          /\ \A k \in 1 .. Len(ctrls) : Append(ctrls, f)[k] = ctrls[k]
          /\ Append(ctrls, f)[Len(ctrls) + 1] = f
      BY <3>1
    <3>3. Len(<<>>) = 0 /\ Len(ctrls) \in Nat
      BY <3>1
    <3> QED
      BY <1>4, <3>2, <3>3
  <2>2. ASSUME NEW k \in 1 .. Len(ctrls')
        PROVE  ctrls'[k].start \in Seq(ValType) /\ ctrls'[k].end \in Seq(ValType)
    <3>1. CASE k = Len(ctrls) + 1
      BY <1>2, <2>1, <3>1 DEF f
    <3>2. CASE k # Len(ctrls) + 1
      <4>1. k \in 1 .. Len(ctrls)
        BY <1>1, <2>1, <3>2, HereGood
      <4> QED
        BY <1>1, <2>1, <4>1, HereGood DEF GoodPoint
    <3> QED
      BY <3>1, <3>2
  <2> QED
    BY <2>1, <2>2, NextGood
<1>8. MovesFrames(i, Here, Here')
  <2>1. f = Opened(i, Len(vals') - Len(bs))
    BY <1>6 DEF Opened
  <2>2. i.op \notin {"else", "end"}
    BY DEF OpenOps
  <2> HIDE DEF f, bs
  <2> QED
    BY <1>1, <1>4, <1>5, <1>7, <2>1, <2>2, HereGood DEF MovesFrames, bs
<1>9. MovesOperands(Current, i, Here, Here')
  <2>1. ASSUME Reach(Here)
        PROVE  AfterPop(ts) = Left(Here, Len(ts))
    <3>1. CanPop(ts) /\ Len(ts) \in Nat
      BY <1>1 DEF Accepted, OpenOps
    <3> QED
      BY <1>1, <2>1, <3>1, PopGives
  <2>2. i.op = "if" => Len(ts) = Len(bs) + 1
    BY <1>2
  <2>3. i.op \in SpecialOps /\ i.op \in {"block", "loop", "if"}
    BY DEF SpecialOps, OpenOps
  <2>4. ASSUME Reach(Here)
        PROVE  /\ i.op \in {"block", "loop"} => vals' = Left(Here, Len(bs)) \o bs
               /\ i.op = "if" => vals' = Left(Here, Len(bs) + 1) \o bs
    BY <1>4, <2>1, <2>2, <2>4
  <2> QED
    BY <1>7, <2>3, <2>4 DEF MovesOperands
<1> QED
  BY <1>7, <1>8, <1>9, ReadExtends

(* The frames below the innermost one, with another in its place.          *)
LEMMA FrontFrames ==
  ASSUME HInv, Loading
  PROVE  /\ Front(ctrls) \in Seq(Ctrl) /\ Len(Front(ctrls)) = Len(ctrls) - 1
         /\ \A k \in 1 .. Len(ctrls) - 1 : Front(ctrls)[k] = ctrls[k]
         /\ \A k \in 1 .. Len(ctrls) : /\ ctrls[k].start \in Seq(ValType)
                                       /\ ctrls[k].end \in Seq(ValType)
  BY FrontLast, HereGood DEF IInv, LoadTypeOK, GoodPoint

(* else.                                                                   *)
LEMMA ElseExtends ==
  ASSUME HInv, IInv', NEW i \in Instruction, Else(i)
  PROVE  HInv'
<1>1. Read(i) /\ i.op = "else" /\ Loading /\ Accepted(i) /\ CanPopCtrl
  BY DEF Else, Read, Accepted
<1> DEFINE g == [Top EXCEPT !.opcode = "else", !.unreachable = FALSE]
<1>2. /\ Top \in Ctrl /\ Top.height \in 0 .. Len(vals)
      /\ Top.start \in Seq(ValType) /\ Top.end \in Seq(ValType)
      /\ Len(ctrls) \in Nat \ {0} /\ vals \in Seq(ValueType)
  BY <1>1, FrontFrames, HereGood
<1>3. AfterPop(Top.end) = SubSeq(vals, 1, Top.height)
  BY <1>1, PopCtrlHere
<1>4. Len(SubSeq(vals, 1, Top.height)) = Top.height
  BY <1>2, Prefix
<1>5. vals' = SubSeq(vals, 1, Top.height) \o Top.start
      /\ ctrls' = Append(Front(ctrls), g)
  <2>1. /\ g \in Ctrl /\ g.opcode = "else" /\ g.start = Top.start /\ g.end = Top.end
        /\ g.height = Top.height /\ g.unreachable = FALSE
    BY <1>2 DEF Ctrl, Opcode
  <2> HIDE DEF g
  <2>2. [opcode |-> "else", start |-> Top.start, end |-> Top.end,
         height |-> Top.height, unreachable |-> FALSE] = g
    BY <2>1 DEF Ctrl
  <2> QED
    BY <1>3, <1>4, <2>2 DEF Else, PushCtrl
<1>6. \A x \in 1 .. Top.height : vals'[x] = vals[x]
  <2>1. Top.end \in Seq(ValueType) /\ Top.start \in Seq(ValueType)
    BY <1>2, SomeTypes
  <2>2. \A x \in 1 .. Top.height : (AfterPop(Top.end) \o Top.start)[x] = vals[x]
    BY <1>1, <2>1, PopKeepsBelow
  <2> QED
    BY <1>3, <1>5, <2>2
<1>7. GoodPoint(Here') /\ Here'.vals = vals' /\ Here'.ctrls = ctrls'
  <2>1. g.start = Top.start /\ g.end = Top.end
    BY <1>2 DEF Ctrl
  <2> HIDE DEF g
  <2>2. /\ ctrls' # <<>> /\ Len(ctrls') = Len(ctrls)
        /\ \A k \in 1 .. Len(ctrls) - 1 : ctrls'[k] = ctrls[k]
        /\ ctrls'[Len(ctrls)] = g
    BY <1>1, <1>2, <1>5, FrontFrames
  <2>3. ASSUME NEW k \in 1 .. Len(ctrls')
        PROVE  ctrls'[k].start \in Seq(ValType) /\ ctrls'[k].end \in Seq(ValType)
    <3>1. CASE k = Len(ctrls)
      BY <1>2, <2>1, <2>2, <3>1
    <3>2. CASE k # Len(ctrls)
      <4>1. k \in 1 .. Len(ctrls) - 1 /\ k \in 1 .. Len(ctrls)
        BY <1>2, <2>2, <3>2
      <4> QED
        BY <1>1, <2>2, <4>1, FrontFrames
    <3> QED
      BY <3>1, <3>2
  <2> QED
    BY <2>2, <2>3, NextGood
<1>8. i.op \notin OpenOps /\ i.op \in SpecialOps
      /\ i.op \notin {"block", "loop", "if", "br_if", "select", "ref.is_null", "end"}
  BY <1>1 DEF OpenOps, SpecialOps
<1>9. MovesFrames(i, Here, Here')
  <2> HIDE DEF g
  <2> QED
    BY <1>1, <1>5, <1>6, <1>7, <1>8, HereGood DEF MovesFrames, g
<1>10. MovesOperands(Current, i, Here, Here')
  BY <1>8 DEF MovesOperands
<1> QED
  BY <1>1, <1>7, <1>9, <1>10, ReadExtends

(* end of a block.                                                         *)
LEMMA EndBlockExtends ==
  ASSUME HInv, IInv', NEW i \in Instruction, EndBlock(i)
  PROVE  HInv'
<1>1. /\ Read(i) /\ i.op = "end" /\ Loading /\ Accepted(i) /\ CanPopCtrl
      /\ Len(nest) > 1
  BY DEF EndBlock, Read, Accepted
<1>2. /\ Top \in Ctrl /\ Top.height \in 0 .. Len(vals) /\ Top.end \in Seq(ValType)
      /\ Len(ctrls) \in Nat \ {0} /\ vals \in Seq(ValueType)
      /\ Len(ctrls) > 1
  BY <1>1, FrontFrames, HereGood DEF IInv, DecoderAgrees
<1>3. AfterPop(Top.end) = SubSeq(vals, 1, Top.height)
  BY <1>1, PopCtrlHere
<1>4. /\ vals' = SubSeq(vals, 1, Top.height) \o Top.end
      /\ ctrls' = Front(ctrls)
  BY <1>3 DEF EndBlock
<1>5. \A x \in 1 .. Top.height : vals'[x] = vals[x]
  <2>1. Top.end \in Seq(ValueType)
    BY <1>2, SomeTypes
  <2>2. \A x \in 1 .. Top.height : (AfterPop(Top.end) \o Top.end)[x] = vals[x]
    BY <1>1, <2>1, PopKeepsBelow
  <2> QED
    BY <1>3, <1>4, <2>2
<1>6. GoodPoint(Here') /\ Here'.vals = vals' /\ Here'.ctrls = ctrls'
  <2>1. /\ Len(ctrls') = Len(ctrls) - 1
        /\ \A k \in 1 .. Len(ctrls) - 1 : ctrls'[k] = ctrls[k] /\ k \in 1 .. Len(ctrls)
    BY <1>1, <1>2, <1>4, FrontFrames
  <2>2. ctrls' # <<>>
    <3>1. Len(<<>>) = 0
      OBVIOUS
    <3> QED
      BY <1>2, <2>1, <3>1
  <2>3. \A k \in 1 .. Len(ctrls') : /\ ctrls'[k].start \in Seq(ValType)
                                    /\ ctrls'[k].end \in Seq(ValType)
    BY <1>1, <2>1, FrontFrames
  <2> QED
    BY <2>2, <2>3, NextGood
<1>7. i.op \notin OpenOps /\ i.op \in SpecialOps
      /\ i.op \notin {"block", "loop", "if", "br_if", "select", "ref.is_null", "else"}
  BY <1>1 DEF OpenOps, SpecialOps
<1>8. MovesFrames(i, Here, Here')
  BY <1>1, <1>4, <1>5, <1>6, <1>7, HereGood DEF MovesFrames
<1>9. MovesOperands(Current, i, Here, Here')
  BY <1>7 DEF MovesOperands
<1> QED
  BY <1>1, <1>6, <1>8, <1>9, ReadExtends

(* br_if.                                                                  *)
LEMMA BranchIfExtends ==
  ASSUME HInv, IInv', NEW i \in Instruction, BranchIf(i)
  PROVE  HInv'
<1>1. /\ Read(i) /\ i.op = "br_if" /\ Loading /\ Accepted(i)
      /\ TargetOk(i.n) /\ CanPop(Append(LabelTypes(i.n), "i32"))
  BY DEF BranchIf, Read, Accepted
<1>2. i.n \in Nat
  BY <1>1, LabelImmediate DEF LabelOps
<1>3. LabelTypes(i.n) = LabelAt(Here, i.n) /\ LabelTypes(i.n) \in Seq(ValType)
  BY <1>1, <1>2, LabelHere
<1>4. LabelTypes(i.n) \in Seq(ValueType) /\ Append(LabelTypes(i.n), "i32") \in Seq(ValueType)
  <2>1. LabelTypes(i.n) \in Seq(ValueType)
    BY <1>3, SomeTypes
  <2> QED
    BY <2>1, SomeTypes
<1>5. /\ vals' = AfterPop(Append(LabelTypes(i.n), "i32")) \o LabelTypes(i.n)
      /\ UNCHANGED ctrls
  BY DEF BranchIf
<1>6. i.op \notin OpenOps \cup {"else", "end"} /\ i.op \in SpecialOps
  BY <1>1 DEF OpenOps, SpecialOps, LabelOps
<1>7. GoodPoint(Here') /\ MovesFrames(i, Here, Here')
  BY <1>1, <1>4, <1>5, <1>6, KeepsFrames
<1>8. ASSUME Reach(Here)
      PROVE  vals' = Left(Here, Len(LabelAt(Here, i.n)) + 1) \o LabelAt(Here, i.n)
  BY <1>1, <1>2, <1>3, <1>5, <1>8, BranchGives
<1>9. MovesOperands(Current, i, Here, Here')
  <2>1. Here'.vals = vals' /\ Here'.ctrls = Here.ctrls
    BY <1>5 DEF Here
  <2> QED
    BY <1>1, <1>6, <1>8, <2>1 DEF MovesOperands
<1> QED
  BY <1>1, <1>7, <1>9, ReadExtends

(* select.                                                                 *)
LEMMA SelectExtends ==
  ASSUME HInv, IInv', NEW i \in Instruction, Select(i)
  PROVE  HInv'
<1> DEFINE ts == <<Unknown, Unknown, "i32">>
           t == IF Popped(2) = Unknown THEN Popped(3) ELSE Popped(2)
<1>1. /\ Read(i) /\ i.op = "select" /\ Loading /\ CanPop(ts)
      /\ vals' = Append(AfterPop(ts), t) /\ UNCHANGED ctrls
  BY DEF Select, Read, Accepted
<1>2. t \in ValueType /\ <<t>> \in Seq(ValueType) /\ ts \in Seq(ValueType)
  <2>1. t \in ValueType
    BY <1>1, PoppedTyped, HereGood DEF IInv
  <2> QED
    BY <2>1, SomeTypes, Tuples
<1>3. Len(ts) = 3 /\ Len(ts) \in Nat
  OBVIOUS
<1> HIDE DEF ts, t
<1>4. vals' = AfterPop(ts) \o <<t>>
  <2>1. AfterPop(ts) \in Seq(ValueType)
    BY <1>1, <1>2, PopKeepsBelow
  <2>2. \A s \in Seq(ValueType) : Append(s, t) = s \o <<t>>
    BY <1>2, AppendIsConcat
  <2> QED
    BY <1>1, <2>1, <2>2
<1>5. i.op \notin OpenOps \cup {"else", "end"} /\ i.op \in SpecialOps
  BY <1>1 DEF OpenOps, SpecialOps
<1>6. GoodPoint(Here') /\ MovesFrames(i, Here, Here')
  BY <1>1, <1>2, <1>4, <1>5, KeepsFrames
<1>7. ASSUME Reach(Here)
      PROVE  vals' = Append(Left(Here, 3),
                       LET n == Len(vals)
                       IN  IF vals[n - 1] = Unknown THEN vals[n - 2] ELSE vals[n - 1])
  <2>1. AfterPop(ts) = Left(Here, Len(ts)) /\ Len(ts) <= Avail
    BY <1>1, <1>3, <1>7, PopGives
  <2>2. Popped(2) = vals[Len(vals) - 1] /\ Popped(3) = vals[Len(vals) - 2]
    BY <1>1, <1>3, <2>1, HereGood DEF Popped, Avail
  <2> QED
    BY <1>1, <1>3, <2>1, <2>2 DEF t
<1>8. MovesOperands(Current, i, Here, Here')
  <2>1. Here'.vals = vals' /\ Here'.ctrls = Here.ctrls /\ Here.vals = vals
    BY <1>1 DEF Here
  <2> QED
    BY <1>1, <1>5, <1>7, <2>1 DEF MovesOperands
<1> QED
  BY <1>1, <1>6, <1>8, ReadExtends

(* ref.is_null.                                                            *)
LEMMA RefIsNullExtends ==
  ASSUME HInv, IInv', NEW i \in Instruction, RefIsNull(i)
  PROVE  HInv'
<1> DEFINE ts == <<Unknown>>
<1>1. /\ Read(i) /\ i.op = "ref.is_null" /\ Loading /\ CanPop(ts)
      /\ vals' = Append(AfterPop(ts), "i32") /\ UNCHANGED ctrls
  BY DEF RefIsNull, Read, Accepted
<1>2. ts \in Seq(ValueType) /\ <<"i32">> \in Seq(ValueType) /\ Len(ts) = 1
      /\ Len(ts) \in Nat
  BY SomeTypes, Tuples
<1> HIDE DEF ts
<1>3. vals' = AfterPop(ts) \o <<"i32">>
  <2>1. AfterPop(ts) \in Seq(ValueType)
    BY <1>1, <1>2, PopKeepsBelow
  <2>2. \A s \in Seq(ValueType) : Append(s, "i32") = s \o <<"i32">>
    BY SomeTypes, AppendIsConcat
  <2> QED
    BY <1>1, <2>1, <2>2
<1>4. i.op \notin OpenOps \cup {"else", "end"} /\ i.op \in SpecialOps
  BY <1>1 DEF OpenOps, SpecialOps
<1>5. GoodPoint(Here') /\ MovesFrames(i, Here, Here')
  BY <1>1, <1>2, <1>3, <1>4, KeepsFrames
<1>6. ASSUME Reach(Here)
      PROVE  vals' = Append(Left(Here, 1), "i32")
  <2>1. AfterPop(ts) = Left(Here, Len(ts))
    BY <1>1, <1>2, <1>6, PopGives
  <2> QED
    BY <1>1, <1>2, <2>1
<1>7. MovesOperands(Current, i, Here, Here')
  <2>1. Here'.vals = vals' /\ Here'.ctrls = Here.ctrls
    BY <1>1 DEF Here
  <2> QED
    BY <1>1, <1>4, <1>6, <2>1 DEF MovesOperands
<1> QED
  BY <1>1, <1>5, <1>7, ReadExtends

(* The operators with a fixed rule.                                        *)
LEMMA OperatorExtends ==
  ASSUME HInv, IInv', NEW i \in Instruction, Operator(i)
  PROVE  HInv'
<1>1. /\ Read(i) /\ i.op \notin SpecialOps /\ Loading
      /\ Immediates(Current, i) /\ CanPop(Ins(Current, i))
      /\ vals' = AfterPop(Ins(Current, i)) \o Outs(Current, i) /\ UNCHANGED ctrls
  BY DEF Operator, Read, Accepted
<1>2. Ins(Current, i) \in Seq(ValueType) /\ Outs(Current, i) \in Seq(ValueType)
  BY <1>1, InsTyped, OutsTyped, HereGood DEF IInv
<1>3. i.op \notin OpenOps \cup {"else", "end", "block", "loop", "if", "br_if",
                                "select", "ref.is_null"}
  BY <1>1 DEF OpenOps, SpecialOps, LabelOps
<1>4. GoodPoint(Here') /\ MovesFrames(i, Here, Here')
  BY <1>1, <1>2, <1>3, KeepsFrames
<1>5. ASSUME Reach(Here)
      PROVE  vals' = Left(Here, Len(Ins(Current, i))) \o Outs(Current, i)
  <2>1. Len(Ins(Current, i)) \in Nat
    BY <1>2
  <2>2. AfterPop(Ins(Current, i)) = Left(Here, Len(Ins(Current, i)))
    BY <1>1, <1>5, <2>1, PopGives
  <2> QED
    BY <1>1, <2>2
<1>6. MovesOperands(Current, i, Here, Here')
  <2>1. Here'.vals = vals' /\ Here'.ctrls = Here.ctrls
    BY <1>1 DEF Here
  <2> QED
    BY <1>1, <1>3, <1>5, <2>1 DEF MovesOperands
<1> QED
  BY <1>1, <1>4, <1>6, ReadExtends

(* A body that has just been begun.                                        *)
LEMMA BeginHistory ==
  ASSUME HInv, IInv', BeginFunction
  PROVE  HInv'
<1>1. /\ ~Loading /\ body = <<>> /\ trace = <<>>
      /\ body' = <<>> /\ trace' = <<>> /\ code' = code /\ typing' = typing
      /\ nest' = <<"function">> /\ Current' = Current
  BY DEF BeginFunction, HInv, Current
<1> DEFINE rs == At(Types, Funcs[Current].type).results
           p == StartPoint(Current)
           f == [opcode |-> "call", start |-> <<>>, end |-> rs,
                 height |-> 0, unreachable |-> FALSE]
<1>2. rs \in Seq(ValType)
  <2> DEFINE R == [type : 0 .. Len(Types) - 1, locals : Seq(ValType)]
  <2>1. Current \in 1 .. Len(Funcs)
    <3>1. Len(code) \in Nat /\ Len(code) <= Len(Funcs)
      BY <1>1 DEF HInv, IInv, LoadTypeOK
    <3>2. Len(Funcs) \in Nat
      BY ModuleAssumption
    <3>3. Len(code) # Len(Funcs)
      BY DEF BeginFunction, Loaded
    <3> QED
      BY <3>1, <3>2, <3>3 DEF Current
  <2>2. Funcs \in Seq(R) /\ \A r \in R : r.type \in 0 .. Len(Types) - 1
    BY ModuleAssumption
  <2> HIDE DEF R
  <2>3. Funcs[Current].type \in 0 .. Len(Types) - 1
    BY <2>1, <2>2
  <2> QED
    BY <2>3, TypeAt DEF FuncType
<1>3. Here' = p
  <2>1. Len(<<>>) = 0
    OBVIOUS
  <2>2. \A s \in Seq(ValueType) : s \o <<>> = s
    OBVIOUS
  <2>3. <<>> \o <<>> = <<>>
    BY <2>2
  <2>4. \A x : Append(<<>>, x) = <<x>>
    OBVIOUS
  <2>5. vals' = <<>> /\ ctrls' = <<f>>
    BY <2>1, <2>3, <2>4 DEF BeginFunction, PushCtrl
  <2>6. Here' = [vals |-> vals', ctrls |-> ctrls']
    BY DEF Here
  <2> QED
    BY <2>5, <2>6 DEF StartPoint
<1>4. GoodPoint(p)
  <2>1. p.ctrls = <<f>>
    BY DEF StartPoint
  <2> HIDE DEF f, rs
  <2>2. Len(<<f>>) = 1 /\ <<f>>[1] = f /\ Len(<<>>) = 0
    OBVIOUS
  <2>3. f.start \in Seq(ValType) /\ f.end \in Seq(ValType)
    BY <1>2 DEF f
  <2>4. Here'.ctrls = ctrls'
    BY DEF Here
  <2>5. ctrls' = <<f>>
    BY <1>3, <2>1, <2>4
  <2>6. \A k \in 1 .. Len(ctrls') : ctrls'[k].start \in Seq(ValType)
                                   /\ ctrls'[k].end \in Seq(ValType)
    BY <2>2, <2>3, <2>5
  <2>7. ctrls' # <<>>
    BY <2>2, <2>5
  <2> QED
    BY <1>3, <2>6, <2>7, NextGood
<1> HIDE DEF p
<1>5. Hist(Current, <<>>, <<p>>)
  <2>1. Len(<<p>>) = 1 /\ <<p>>[1] = p /\ Len(<<>>) = 0
    OBVIOUS
  <2>2. <<>> \in Seq(Instruction) /\ <<p>> \in Seq(Typed)
    BY <1>4 DEF GoodPoint
  <2>3. ASSUME NEW j \in 1 .. Len(p.ctrls)
        PROVE  Same(p, p, j) /\ OpcodeKept(<<>>, <<p>>, 1, 1, j)
    BY <2>1, <2>3, SameReflexive DEF OpcodeKept
  <2>4. \A k \in 1 .. 1 : k = 1
    OBVIOUS
  <2> QED
    BY <1>4, <2>1, <2>2, <2>3, <2>4 DEF Hist, p
<1>6. Append(trace', Here') = <<p>>
  BY <1>1, <1>3
<1>7. Loading'
  BY <1>1 DEF Loading
<1> QED
  BY <1>1, <1>5, <1>6, <1>7 DEF HInv

(* A body that has been accepted.                                          *)
LEMMA EndHistory ==
  ASSUME HInv, IInv', NEW i \in Instruction, EndFunction(i)
  PROVE  HInv'
<1>1. /\ i.op = "end" /\ Len(nest) = 1 /\ Accepted(i) /\ nest' = <<>>
      /\ body' = <<>> /\ trace' = <<>>
      /\ code' = Append(code, Append(body, i))
      /\ typing' = Append(typing, Append(trace, Here))
  BY DEF EndFunction
<1>2. Loading
  <2>1. Len(nest) = 1
    BY <1>1
  <2> QED
    BY <2>1 DEF Loading
<1>3. Hist(Current, body, Append(trace, Here)) /\ Rule(Current, i, Here)
  BY <1>1, <1>2, RuleHere DEF HInv
<1>4. body \in Seq(Instruction) /\ trace \in Seq(Typed) /\ Here \in Typed
  BY <1>2, HereGood DEF HInv, IInv, LoadTypeOK, GoodPoint
<1> DEFINE is == Append(body, i)
           ts == Append(trace, Here)
<1>5. /\ is \in Seq(Instruction) /\ Len(is) \in Nat \ {0} /\ Last(is) = i
      /\ Front(is) = body /\ Last(ts) = Here
  <2>1. is \in Seq(Instruction) /\ Len(is) = Len(body) + 1 /\ Len(body) \in Nat
    BY <1>4
  <2>2. Front(is) = body
    BY <1>4, <2>1 DEF Front
  <2> QED
    BY <1>4, <2>1, <2>2 DEF Last
<1>6. Accepts(Current, is, ts)
  <2>1. Len(Here.ctrls) = 1
    BY <1>1, <1>2, HereGood DEF IInv, DecoderAgrees
  <2> HIDE DEF is, ts
  <2>2. is # <<>>
    <3>1. Len(<<>>) = 0
      OBVIOUS
    <3> QED
      BY <1>5, <3>1
  <2> QED
    BY <1>1, <1>3, <1>5, <2>1, <2>2 DEF Accepts, ts
<1> HIDE DEF is, ts
<1>7. /\ Len(code') = Len(code) + 1 /\ Len(typing') = Len(code) + 1
      /\ code'[Len(code) + 1] = is /\ typing'[Len(code) + 1] = ts
      /\ \A c \in 1 .. Len(code) : code'[c] = code[c] /\ typing'[c] = typing[c]
  <2>1. code \in Seq(Seq(Instruction)) /\ typing \in Seq(Seq(Typed))
        /\ Len(typing) = Len(code)
    BY DEF HInv, IInv, LoadTypeOK
  <2>2. code' = Append(code, is) /\ typing' = Append(typing, ts)
    BY <1>1 DEF is, ts
  <2>3. Len(code) \in Nat
    BY <2>1
  <2> HIDE DEF Instruction, Typed
  <2>4. /\ Len(code') = Len(code) + 1 /\ code'[Len(code) + 1] = is
        /\ \A c \in 1 .. Len(code) : code'[c] = code[c]
    BY <2>1, <2>2
  <2>5. /\ Len(typing') = Len(typing) + 1 /\ typing'[Len(typing) + 1] = ts
        /\ \A c \in 1 .. Len(typing) : typing'[c] = typing[c]
    BY <2>1, <2>2
  <2> QED
    BY <2>1, <2>4, <2>5
<1>8. ASSUME NEW c \in 1 .. Len(code')
      PROVE  Accepts(c, code'[c], typing'[c])
  <2>1. CASE c = Len(code) + 1
    BY <1>6, <1>7, <2>1 DEF Current
  <2>2. CASE c # Len(code) + 1
    <3>1. c \in 1 .. Len(code)
      <4>1. Len(code) \in Nat
        BY DEF HInv, IInv, LoadTypeOK
      <4> QED
        BY <1>7, <2>2, <4>1
    <3> QED
      BY <1>7, <3>1 DEF HInv
  <2> QED
    BY <2>1, <2>2
<1>9. ~Loading'
  BY <1>1 DEF Loading
<1> QED
  BY <1>1, <1>7, <1>8, <1>9 DEF HInv

(* No step of the loader breaks the invariant.                             *)
LEMMA HInvStep ==
  ASSUME HInv, [LoadNext]_loadVars
  PROVE  HInv'
<1>1. IInv /\ IInv'
  BY LoadStep DEF HInv
<1>2. CASE BeginFunction
  BY <1>1, <1>2, BeginHistory
<1>3. ASSUME NEW i \in Instrs,
             \/ Unreachable(i) \/ BlockOrLoop(i) \/ If(i) \/ Else(i)
             \/ EndBlock(i) \/ EndFunction(i) \/ Branch(i) \/ BranchIf(i)
             \/ Select(i) \/ RefIsNull(i) \/ Operator(i) \/ Reject(i)
      PROVE  HInv'
  <2>1. i \in Instruction
    BY ModuleAssumption
  <2>2. CASE Unreachable(i) \/ Branch(i)
    BY <1>1, <2>1, <2>2, UnreachedExtends DEF Unreachable, Branch
  <2>3. CASE BlockOrLoop(i) \/ If(i)
    <3>1. Read(i) /\ i.op \in OpenOps /\ BlockTypeOk(i.bt)
      BY <2>3 DEF BlockOrLoop, If, Read, Accepted, OpenOps
    <3>2. BlockStart(i.bt) \in Seq(ValType)
      BY <2>1, <3>1, BlockImmediate, BlockValTypes
    <3>3. Append(BlockStart(i.bt), "i32") \in Seq(ValType)
      BY <3>2 DEF ValType, NumType
    <3>4. CASE BlockOrLoop(i)
      <4>1. i.op # "if"
        BY <3>4 DEF BlockOrLoop
      <4> QED
        BY <1>1, <2>1, <3>1, <3>2, <3>4, <4>1, OpensExtends DEF BlockOrLoop
    <3>5. CASE If(i)
      BY <1>1, <2>1, <3>1, <3>3, <3>5, OpensExtends DEF If
    <3> QED
      BY <2>3, <3>4, <3>5
  <2>4. CASE Else(i) \/ EndBlock(i) \/ EndFunction(i)
    BY <1>1, <2>1, <2>4, ElseExtends, EndBlockExtends, EndHistory
  <2>5. CASE BranchIf(i) \/ Select(i) \/ RefIsNull(i) \/ Operator(i)
    BY <1>1, <2>1, <2>5, BranchIfExtends, SelectExtends, RefIsNullExtends,
       OperatorExtends
  <2>6. CASE Reject(i)
    <3>1. Len(<<>>) = 0
      OBVIOUS
    <3> QED
      BY <1>1, <2>6, <3>1 DEF Reject, HInv, Loading
  <2> QED
    BY <1>3, <2>2, <2>3, <2>4, <2>5, <2>6
<1>4. CASE UNCHANGED loadVars
  BY <1>1, <1>4 DEF HInv, loadVars, Loading, Current, Here
<1> QED
  BY <1>2, <1>3, <1>4 DEF LoadNext

(* Nothing has been loaded at first.                                       *)
LEMMA HInvStart ==
  ASSUME LoadInit
  PROVE  HInv
<1>1. Len(<<>>) = 0
  OBVIOUS
<1> QED
  BY <1>1, LoadStart DEF LoadInit, HInv, Loading

(* Whatever the bodies are, the validator leaves a history of each that    *)
(* obeys the rules at every instruction, with the ends of the blocks where *)
(* the interpreter will look for them.                                     *)
THEOREM AcceptedBodiesTyped == Spec => []HInv
<1>1. LoadInit => HInv
  BY HInvStart
<1>2. HInv /\ [LoadNext]_loadVars => HInv'
  BY HInvStep
<1> QED
  BY <1>1, <1>2, SpecLoads, PTL DEF LoadSpec

-----------------------------------------------------------------------------
(* Where the blocks of an accepted body end.                               *)

Blocks(p) == Len(p.ctrls)

(* The history of an accepted body, in terms of the whole body.            *)
LEMMA AcceptedHistory ==
  ASSUME NEW c, NEW is, NEW ts, Accepts(c, is, ts)
  PROVE  /\ is \in Seq(Instruction) /\ ts \in Seq(Typed)
         /\ Len(is) \in Nat \ {0} /\ Len(ts) = Len(is)
         /\ is[Len(is)].op = "end" /\ Len(ts[Len(is)].ctrls) = 1
         /\ ts[1] = StartPoint(c)
         /\ \A k \in 1 .. Len(is) : GoodPoint(ts[k]) /\ Rule(c, is[k], ts[k])
         /\ \A k \in 1 .. Len(is) - 1 :
              /\ MovesFrames(is[k], ts[k], ts[k + 1])
              /\ MovesOperands(c, is[k], ts[k], ts[k + 1])
<1>1. /\ is \in Seq(Instruction) /\ is # <<>> /\ Hist(c, Front(is), ts)
      /\ Last(is).op = "end" /\ Len(Last(ts).ctrls) = 1 /\ Rule(c, Last(is), Last(ts))
  BY DEF Accepts
<1>2. /\ Len(is) \in Nat \ {0} /\ Len(Front(is)) = Len(is) - 1
      /\ \A k \in 1 .. Len(is) - 1 : Front(is)[k] = is[k]
  BY <1>1, FrontLast
<1>3. ts \in Seq(Typed) /\ Len(ts) = Len(is)
  BY <1>1, <1>2 DEF Hist
<1>4. \A k \in 1 .. Len(is) : GoodPoint(ts[k])
  BY <1>1, <1>3 DEF Hist
<1>5. \A k \in 1 .. Len(is) - 1 : /\ Rule(c, is[k], ts[k])
                                  /\ MovesFrames(is[k], ts[k], ts[k + 1])
                                  /\ MovesOperands(c, is[k], ts[k], ts[k + 1])
  BY <1>1, <1>2 DEF Hist
<1>6. Last(is) = is[Len(is)] /\ Last(ts) = ts[Len(is)]
  BY <1>3 DEF Last
<1>7. \A k \in 1 .. Len(is) : k = Len(is) \/ k \in 1 .. Len(is) - 1
  BY <1>2
<1>8. ts[1] = StartPoint(c)
  BY <1>1 DEF Hist
<1> QED
  BY <1>1, <1>2, <1>3, <1>4, <1>5, <1>6, <1>7, <1>8

(* Its depths.                                                             *)
LEMMA AcceptedDepths ==
  ASSUME NEW c, NEW is, NEW ts, Accepts(c, is, ts),
         NEW q \in 1 .. Len(is) - 1, NEW k \in 1 .. q
  PROVE  Depth(is, k, q) = Blocks(ts[q + 1]) - Blocks(ts[k])
<1>1. is \in Seq(Instruction) /\ is # <<>> /\ Hist(c, Front(is), ts)
  BY DEF Accepts
<1>2. /\ Len(Front(is)) = Len(is) - 1
      /\ \A x \in 1 .. Len(is) - 1 : Front(is)[x] = is[x]
  BY <1>1, FrontLast
<1>3. \A j \in k .. q : Front(is)[j] = is[j]
  BY <1>1, <1>2
<1>4. Depth(is, k, q) = Depth(Front(is), k, q)
  BY <1>3 DEF Depth
<1>5. q \in 1 .. Len(Front(is))
  BY <1>2
<1> QED
  BY <1>1, <1>4, <1>5 DEF Hist, Blocks

(* What stays open.                                                        *)
LEMMA AcceptedNesting ==
  ASSUME NEW c, NEW is, NEW ts, Accepts(c, is, ts),
         NEW q \in 1 .. Len(is), NEW k \in 1 .. q,
         NEW j \in 1 .. Len(ts[k].ctrls), OpenFrom(ts, k, q, j)
  PROVE  Same(ts[k], ts[q], j) /\ OpcodeKept(is, ts, k, q, j)
<1>1. /\ is \in Seq(Instruction) /\ is # <<>> /\ Hist(c, Front(is), ts)
      /\ Len(is) \in Nat \ {0} /\ Len(ts) = Len(is)
  BY AcceptedHistory DEF Accepts
<1>2. \A x \in 1 .. Len(is) - 1 : Front(is)[x] = is[x]
  BY <1>1, FrontLast
<1>3. q \in 1 .. Len(ts)
  BY <1>1
<1>4. Same(ts[k], ts[q], j) /\ OpcodeKept(Front(is), ts, k, q, j)
  BY <1>1, <1>3 DEF Hist
<1>5. \A x \in k .. q - 1 : Front(is)[x] = is[x]
  BY <1>1, <1>2
<1> QED
  BY <1>4, <1>5 DEF OpcodeKept

(* The number of open blocks changes by what an instruction opens or       *)
(* closes, and nothing below the innermost of them changes.                *)
LEMMA NextPoint ==
  ASSUME NEW c, NEW is, NEW ts, Accepts(c, is, ts), NEW k \in 1 .. Len(is) - 1
  PROVE  /\ k \in 1 .. Len(is) /\ k + 1 \in 1 .. Len(is)
         /\ Len(ts[k].ctrls) \in Nat \ {0} /\ Len(ts[k + 1].ctrls) \in Nat \ {0}
         /\ Len(ts[k + 1].ctrls) = Len(ts[k].ctrls) + Delta(is[k])
         /\ \A j \in 1 .. Len(ts[k].ctrls) :
              j <= Len(ts[k + 1].ctrls) => Same(ts[k], ts[k + 1], j)
<1>1. k \in 1 .. Len(is) /\ k + 1 \in 1 .. Len(is)
  BY AcceptedHistory
<1>2. /\ GoodPoint(ts[k]) /\ GoodPoint(ts[k + 1]) /\ Rule(c, is[k], ts[k])
      /\ MovesFrames(is[k], ts[k], ts[k + 1])
  BY <1>1, AcceptedHistory
<1>3. is[k].op = "else" => Last(ts[k].ctrls).opcode = "if"
  BY <1>2 DEF Rule
<1>4. Len(ts[k].ctrls) \in Nat \ {0} /\ Len(ts[k + 1].ctrls) \in Nat \ {0}
  BY <1>2, GoodFrames
<1>5. /\ Len(ts[k + 1].ctrls) = Len(ts[k].ctrls) + Delta(is[k])
      /\ \A j \in 1 .. Len(ts[k].ctrls) :
           j <= Len(ts[k + 1].ctrls) => Same(ts[k], ts[k + 1], j)
  BY <1>2, <1>3, StepSame
<1> QED
  BY <1>1, <1>4, <1>5

(* The function's own frame is the first at every point.                   *)
LEMMA OuterFrame ==
  ASSUME NEW c, NEW is, NEW ts, Accepts(c, is, ts), NEW k \in 1 .. Len(is)
  PROVE  /\ ts[k].ctrls[1].end = At(Types, Funcs[c].type).results
         /\ ts[k].ctrls[1].height = 0 /\ ts[k].ctrls[1].opcode # "loop"
<1>1. Len(is) \in Nat \ {0} /\ \A x \in 1 .. Len(is) : GoodPoint(ts[x])
  BY AcceptedHistory
<1>2. \A x \in 1 .. k : 1 \in 1 .. Len(ts[x].ctrls)
  <2>1. \A x \in 1 .. k : x \in 1 .. Len(is)
    BY <1>1
  <2>2. \A x \in 1 .. Len(is) : Len(ts[x].ctrls) \in Nat \ {0}
    BY <1>1, GoodFrames
  <2> QED
    BY <2>1, <2>2
<1>3. 1 \in 1 .. k
  OBVIOUS
<1>4. Same(ts[1], ts[k], 1)
  BY <1>2, <1>3, AcceptedNesting DEF OpenFrom
<1>5. ts[1] = StartPoint(c)
  BY AcceptedHistory
<1>6. /\ ts[1].ctrls[1].opcode = "call" /\ ts[1].ctrls[1].height = 0
      /\ ts[1].ctrls[1].end = At(Types, Funcs[c].type).results
  BY <1>5 DEF StartPoint
<1> QED
  BY <1>4, <1>6 DEF Same

(* find_block_end stops where validation has closed the block, and all the *)
(* way the block is open.                                                  *)
LEMMA BlockEnds ==
  ASSUME NEW c, NEW is, NEW ts, Accepts(c, is, ts),
         NEW k \in 1 .. Len(is), is[k].op \in OpenOps
  PROVE  /\ EndsOf(is, k) # {}
         /\ k \in 1 .. Len(is) - 1
         /\ EndOf(is, k) \in k + 1 .. Len(is) - 1
         /\ is[EndOf(is, k)].op = "end"
         /\ Len(ts[EndOf(is, k)].ctrls) = Len(ts[k].ctrls) + 1
         /\ OpenFrom(ts, k + 1, EndOf(is, k), Len(ts[k].ctrls) + 1)
<1> DEFINE n == Len(ts[k].ctrls)
           Closed == {q \in k + 1 .. Len(is) : Len(ts[q].ctrls) <= n}
<1>1. /\ Len(is) \in Nat \ {0} /\ is[Len(is)].op = "end" /\ "end" \notin OpenOps
      /\ Len(ts[Len(is)].ctrls) = 1
      /\ \A x \in 1 .. Len(is) : Len(ts[x].ctrls) \in Nat \ {0}
  <2>1. \A x \in 1 .. Len(is) : GoodPoint(ts[x])
    BY AcceptedHistory
  <2> QED
    BY <2>1, AcceptedHistory, GoodFrames DEF OpenOps
<1>2. k \in 1 .. Len(is) - 1 /\ k + 1 \in 1 .. Len(is) /\ n \in Nat \ {0}
  BY <1>1
<1>3. Len(ts[k + 1].ctrls) = n + 1
  <2>1. Delta(is[k]) = 1
    BY <1>1 DEF Delta
  <2>2. Len(ts[k + 1].ctrls) = Len(ts[k].ctrls) + Delta(is[k])
    BY <1>2, NextPoint
  <2> QED
    BY <1>2, <2>1, <2>2
<1>4. PICK q \in Closed : \A x \in Closed : q <= x
  <2>1. Len(is) \in Closed
    <3>1. Len(is) \in k + 1 .. Len(is)
      BY <1>1, <1>2
    <3>2. Len(ts[Len(is)].ctrls) <= n
      <4> HIDE DEF n
      <4> QED
        BY <1>1, <1>2
    <3> HIDE DEF n
    <3> QED
      BY <3>1, <3>2
  <2>2. Closed \in SUBSET Nat
    BY <1>1
  <2> HIDE DEF Closed
  <2> QED
    BY <2>1, <2>2, FirstExists
<1> DEFINE e == q - 1
<1>5. q # k + 1
  BY <1>2, <1>3, <1>4
<1>6. e \in k + 1 .. Len(is) - 1 /\ e \in 1 .. Len(is) - 1 /\ e + 1 = q
  BY <1>1, <1>4, <1>5
<1>7. \A x \in k + 1 .. e : x \in 1 .. Len(is) /\ Len(ts[x].ctrls) > n
  <2>1. \A x \in k + 1 .. e : x \in 1 .. Len(is) /\ x \notin Closed
    BY <1>1, <1>4, <1>6
  <2>2. \A x \in k + 1 .. e : ~(Len(ts[x].ctrls) <= n)
    BY <1>1, <1>6, <2>1
  <2> QED
    BY <1>1, <1>2, <2>1, <2>2
<1>8. Len(ts[e].ctrls) = n + 1 /\ is[e].op = "end" /\ Len(ts[q].ctrls) = n
  <2>1. Len(ts[q].ctrls) = Len(ts[e].ctrls) + Delta(is[e])
    BY <1>6, NextPoint
  <2>2. Len(ts[e].ctrls) > n /\ Len(ts[e].ctrls) \in Nat
    BY <1>1, <1>6, <1>7
  <2>3. Len(ts[q].ctrls) <= n /\ Len(ts[q].ctrls) \in Nat
    BY <1>1, <1>4
  <2>4. Delta(is[e]) \in {-1, 0, 1} /\ (Delta(is[e]) = -1 => is[e].op = "end")
    BY DEF Delta
  <2> HIDE DEF e, n
  <2>5. Delta(is[e]) = -1 /\ Len(ts[e].ctrls) = n + 1 /\ Len(ts[q].ctrls) = n
    BY <1>2, <2>1, <2>2, <2>3, <2>4
  <2> QED
    BY <2>4, <2>5
<1>9. ASSUME NEW x \in k .. Len(is) - 1
      PROVE  Depth(is, k, x) = Len(ts[x + 1].ctrls) - n
  <2>1. x \in 1 .. Len(is) - 1 /\ k \in 1 .. x
    BY <1>1
  <2> HIDE DEF Closed, e, n
  <2>2. Depth(is, k, x) = Blocks(ts[x + 1]) - Blocks(ts[k])
    BY <2>1, AcceptedDepths
  <2>3. Blocks(ts[x + 1]) = Len(ts[x + 1].ctrls) /\ Blocks(ts[k]) = n
    BY DEF Blocks, n
  <2> QED
    BY <2>2, <2>3
<1>10. e \in EndsOf(is, k)
  <2>1. e \in k .. Len(is) - 1 /\ e \in k .. Len(is)
    BY <1>1, <1>6
  <2>2. Depth(is, k, e) = n - n
    BY <1>6, <1>8, <1>9, <2>1
  <2> HIDE DEF e, n
  <2>3. Depth(is, k, e) = 0
    BY <1>2, <2>2
  <2> QED
    BY <2>1, <2>3 DEF EndsOf
<1>11. ASSUME NEW x \in EndsOf(is, k)
       PROVE  e <= x
  <2>1. x \in k .. Len(is) /\ Depth(is, k, x) = 0
    BY DEF EndsOf
  <2>2. CASE x < e
    <3>1. x \in k .. Len(is) - 1 /\ x + 1 \in k + 1 .. e
      BY <1>1, <1>6, <2>1, <2>2
    <3>2. Len(ts[x + 1].ctrls) > n /\ Len(ts[x + 1].ctrls) \in Nat
      BY <1>1, <1>7, <3>1
    <3>3. Depth(is, k, x) = Len(ts[x + 1].ctrls) - n
      BY <1>9, <3>1
    <3> HIDE DEF n
    <3> QED
      BY <1>2, <2>1, <3>2, <3>3
  <2> QED
    BY <1>6, <2>1, <2>2
<1>12. EndOf(is, k) = e
  <2>1. e \in Int /\ EndsOf(is, k) \subseteq Int
    BY <1>1, <1>6 DEF EndsOf
  <2> HIDE DEF e
  <2>2. \A x, y \in Int : x <= y /\ y <= x => x = y
    OBVIOUS
  <2>3. /\ EndOf(is, k) \in EndsOf(is, k)
        /\ \A x \in EndsOf(is, k) : EndOf(is, k) <= x
    BY <1>10, <1>11 DEF EndOf
  <2> QED
    BY <1>10, <1>11, <2>1, <2>2, <2>3
<1>13. OpenFrom(ts, k + 1, e, n + 1)
  <2>1. \A x \in k + 1 .. e : Len(ts[x].ctrls) \in Nat /\ Len(ts[x].ctrls) > n
    BY <1>1, <1>7
  <2> HIDE DEF n, e
  <2> QED
    BY <1>2, <2>1 DEF OpenFrom
<1> HIDE DEF e, n
<1> QED
  BY <1>2, <1>6, <1>8, <1>10, <1>12, <1>13 DEF n

(* Up to its end a block is the one that was opened.                       *)
LEMMA BlockSame ==
  ASSUME NEW c, NEW is, NEW ts, Accepts(c, is, ts),
         NEW k \in 1 .. Len(is), is[k].op \in OpenOps,
         NEW x \in k + 1 .. EndOf(is, k)
  PROVE  /\ x \in 1 .. Len(is) - 1
         /\ Same(ts[k + 1], ts[x], Len(ts[k].ctrls) + 1)
         /\ OpcodeKept(is, ts, k + 1, x, Len(ts[k].ctrls) + 1)
<1> DEFINE j == Len(ts[k].ctrls) + 1
           e == EndOf(is, k)
<1>1. Len(is) \in Nat
  BY AcceptedHistory
<1>2. /\ k \in 1 .. Len(is) - 1 /\ e \in k + 1 .. Len(is) - 1
      /\ OpenFrom(ts, k + 1, e, j)
  BY BlockEnds
<1> HIDE DEF j, e
<1>3. x \in k + 1 .. e
  BY DEF e
<1>4. x \in 1 .. Len(is) - 1 /\ x \in 1 .. Len(is) /\ k + 1 \in 1 .. x
  BY <1>1, <1>2, <1>3
<1>5. OpenFrom(ts, k + 1, x, j)
  <2>1. \A y \in k + 1 .. x : y \in k + 1 .. e
    BY <1>1, <1>2, <1>3
  <2> QED
    BY <1>2, <2>1 DEF OpenFrom
<1>6. j \in 1 .. Len(ts[k + 1].ctrls)
  <2>1. k + 1 \in k + 1 .. x
    BY <1>1, <1>2, <1>3
  <2> QED
    BY <1>5, <2>1 DEF OpenFrom
<1>7. Same(ts[k + 1], ts[x], j) /\ OpcodeKept(is, ts, k + 1, x, j)
  BY <1>4, <1>5, <1>6, AcceptedNesting
<1> QED
  BY <1>4, <1>7 DEF j

(* An else the interpreter finds for an if is one of the innermost block,  *)
(* and an else of the innermost block is found.                            *)
LEMMA ElseFound ==
  ASSUME NEW c, NEW is, NEW ts, Accepts(c, is, ts),
         NEW k \in 1 .. Len(is), is[k].op \in OpenOps,
         NEW x \in Nat, is[x].op = "else"
  PROVE  x \in ElsesOf(is, k) <=>
           x \in k + 1 .. EndOf(is, k) - 1 /\ Len(ts[x].ctrls) = Len(ts[k].ctrls) + 1
<1> DEFINE e == EndOf(is, k)
<1>1. /\ Len(is) \in Nat /\ "else" \notin OpenOps
      /\ k \in 1 .. Len(is) - 1 /\ e \in k + 1 .. Len(is) - 1 /\ is[e].op = "end"
  BY BlockEnds, AcceptedHistory DEF OpenOps
<1>2. x \in k .. e => x \in k + 1 .. e - 1
  <2>1. x # k /\ x # e
    BY <1>1
  <2> QED
    BY <1>1, <2>1
<1>3. x \in k + 1 .. e - 1 => x \in k .. e
  BY <1>1
<1>4. ASSUME x \in k + 1 .. e - 1
      PROVE  Depth(is, k, x) = 1 <=> Len(ts[x].ctrls) = Len(ts[k].ctrls) + 1
  <2>1. x \in 1 .. Len(is) - 1 /\ k \in 1 .. x /\ k \in 1 .. Len(is) - 1
    BY <1>1, <1>4
  <2>2. Depth(is, k, x) = Blocks(ts[x + 1]) - Blocks(ts[k])
    BY <2>1, AcceptedDepths
  <2>3. Delta(is[x]) = 0
    BY <1>1 DEF Delta
  <2> DEFINE a == Len(ts[x].ctrls)
             b == Len(ts[x + 1].ctrls)
             d == Len(ts[k].ctrls)
  <2>4. b = a + Delta(is[x]) /\ a \in Nat /\ b \in Nat /\ d \in Nat
    BY <2>1, NextPoint
  <2>5. Blocks(ts[x + 1]) = b /\ Blocks(ts[k]) = d
    BY DEF Blocks
  <2> HIDE DEF a, b, d
  <2>6. Depth(is, k, x) = 1 <=> a = d + 1
    BY <2>2, <2>3, <2>4, <2>5
  <2> QED
    BY <2>6 DEF a, d
<1> QED
  BY <1>2, <1>3, <1>4 DEF ElsesOf

(* An if that is skipped goes on at its else, in the same block, and where *)
(* there is none its parameters are its results.                           *)
LEMMA Elses ==
  ASSUME NEW c, NEW is, NEW ts, Accepts(c, is, ts),
         NEW k \in 1 .. Len(is), is[k].op = "if"
  PROVE  /\ \A x \in ElsesOf(is, k) :
              /\ x \in k + 1 .. EndOf(is, k) - 1 /\ is[x].op = "else"
              /\ Len(ts[x].ctrls) = Len(ts[k].ctrls) + 1
         /\ ElsesOf(is, k) = {} =>
              LET f == ts[k + 1].ctrls[Len(ts[k].ctrls) + 1] IN f.start = f.end
<1> DEFINE e == EndOf(is, k)
           j == Len(ts[k].ctrls) + 1
<1>1. is[k].op \in OpenOps
  BY DEF OpenOps
<1>2. /\ Len(is) \in Nat /\ k \in 1 .. Len(is) - 1 /\ e \in k + 1 .. Len(is) - 1
      /\ is[e].op = "end" /\ Len(ts[e].ctrls) = j /\ e \in k + 1 .. e
  BY <1>1, BlockEnds, AcceptedHistory
<1>3. ASSUME NEW x \in ElsesOf(is, k)
      PROVE  /\ x \in k + 1 .. e - 1 /\ is[x].op = "else"
             /\ Len(ts[x].ctrls) = j
  <2>1. x \in Nat /\ is[x].op = "else"
    BY <1>2 DEF ElsesOf
  <2> QED
    BY <1>1, <2>1, ElseFound
<1>4. Same(ts[k + 1], ts[e], j) /\ OpcodeKept(is, ts, k + 1, e, j)
  BY <1>1, <1>2, BlockSame
<1>5. ts[k + 1].ctrls[j].opcode = "if"
  <2>1. MovesFrames(is[k], ts[k], ts[k + 1]) /\ GoodPoint(ts[k])
    BY <1>2, AcceptedHistory
  <2> DEFINE cs == ts[k].ctrls
             g  == Opened(is[k], Len(ts[k + 1].vals) - Len(BlockStart(is[k].bt)))
  <2>2. ts[k + 1].ctrls = Append(cs, g)
    BY <1>1, <2>1 DEF MovesFrames
  <2>3. cs \in Seq(Ctrl)
    BY <2>1, GoodFrames
  <2>4. g.opcode = "if"
    BY DEF Opened
  <2> HIDE DEF g, cs
  <2>5. ts[k + 1].ctrls[Len(cs) + 1] = g
    BY <2>2, <2>3
  <2> QED
    BY <2>4, <2>5 DEF cs
<1>6. ASSUME ElsesOf(is, k) = {}
      PROVE  ts[k + 1].ctrls[j].start = ts[k + 1].ctrls[j].end
  <2>1. ts[e].ctrls[j].opcode = "if"
    <3>1. ASSUME NEW x \in k + 1 .. e - 1, is[x].op = "else", Len(ts[x].ctrls) = j
          PROVE  FALSE
      <4>1. x \in Nat
        BY <1>2
      <4> QED
        BY <1>1, <1>6, <3>1, <4>1, ElseFound
    <3> QED
      BY <1>4, <1>5, <3>1 DEF OpcodeKept
  <2>2. Rule(c, is[e], ts[e])
    BY <1>2, AcceptedHistory
  <2>3. Last(ts[e].ctrls) = ts[e].ctrls[j]
    BY <1>2 DEF Last
  <2>4. ts[e].ctrls[j].start = ts[e].ctrls[j].end
    BY <1>2, <2>1, <2>2, <2>3 DEF Rule
  <2> QED
    BY <1>4, <2>4 DEF Same
<1> QED
  BY <1>3, <1>6

-----------------------------------------------------------------------------
(* Stacks.                                                                 *)

(* The top of a stack, position by position.                               *)
LEMMA TopOf ==
  ASSUME NEW S, NEW V \in Seq(S), NEW n \in 0 .. Len(V)
  PROVE  /\ TopN(V, n) \in Seq(S) /\ Len(TopN(V, n)) = n
         /\ \A k \in 1 .. n : TopN(V, n)[k] = V[Len(V) - n + k]
<1> DEFINE m == Len(V) - n + 1
<1>1. m \in Int /\ Len(V) \in Int /\ \A i \in m .. Len(V) : V[i] \in S
  OBVIOUS
<1> HIDE DEF m
<1>2. /\ SubSeq(V, m, Len(V)) \in Seq(S)
      /\ Len(SubSeq(V, m, Len(V))) = IF m <= Len(V) THEN Len(V) - m + 1 ELSE 0
      /\ \A i \in 1 .. Len(V) - m + 1 : SubSeq(V, m, Len(V))[i] = V[m + i - 1]
  BY <1>1, SubSeqProperties
<1>3. TopN(V, n) = SubSeq(V, m, Len(V))
  BY DEF TopN, m
<1>4. Len(SubSeq(V, m, Len(V))) = n
  BY <1>1, <1>2 DEF m
<1>5. \A k \in 1 .. n : k \in 1 .. Len(V) - m + 1 /\ m + k - 1 = Len(V) - n + k
  BY <1>1 DEF m
<1>6. \A k \in 1 .. n : SubSeq(V, m, Len(V))[k] = V[Len(V) - n + k]
  BY <1>2, <1>5, Zenon
<1> QED
  BY <1>2, <1>3, <1>4, <1>6, Zenon

(* Concatenation, position by position.                                    *)
LEMMA OnTop ==
  ASSUME NEW S, NEW B \in Seq(S), NEW V \in Seq(S)
  PROVE  /\ B \o V \in Seq(S) /\ Len(B \o V) = Len(B) + Len(V)
         /\ \A k \in 1 .. Len(B) : (B \o V)[k] = B[k]
         /\ \A k \in 1 .. Len(V) : (B \o V)[Len(B) + k] = V[k]
  OBVIOUS

(* A stack is what is below a position and what is above.                  *)
LEMMA SplitAt ==
  ASSUME NEW S, NEW V \in Seq(S), NEW b \in 0 .. Len(V)
  PROVE  /\ SubSeq(V, 1, b) \in Seq(S) /\ Len(SubSeq(V, 1, b)) = b
         /\ SubSeq(V, b + 1, Len(V)) \in Seq(S)
         /\ Len(SubSeq(V, b + 1, Len(V))) = Len(V) - b
         /\ V = SubSeq(V, 1, b) \o SubSeq(V, b + 1, Len(V))
<1>1. SubSeq(V, 1, b) \in Seq(S) /\ Len(SubSeq(V, 1, b)) = b
  BY Prefix
<1>2. Len(V) - b \in 0 .. Len(V) /\ SubSeq(V, b + 1, Len(V)) = TopN(V, Len(V) - b)
  <2>1. Len(V) - (Len(V) - b) + 1 = b + 1
    OBVIOUS
  <2> QED
    BY <2>1 DEF TopN
<1>3. /\ SubSeq(V, b + 1, Len(V)) \in Seq(S)
      /\ Len(SubSeq(V, b + 1, Len(V))) = Len(V) - b
  BY <1>2, TopOf
<1>4. V = SubSeq(V, 1, b) \o SubSeq(V, b + 1, Len(V))
  <2>1. 1 \in 1 .. Len(V) + 1 /\ b \in 1 - 1 .. Len(V) /\ Len(V) \in b .. Len(V)
    OBVIOUS
  <2>2. SubSeq(V, 1, b) \o SubSeq(V, b + 1, Len(V)) = SubSeq(V, 1, Len(V))
    BY <2>1, ConcatAdjacentSubSeq
  <2> QED
    BY <2>2, SubSeqFull
<1> QED
  BY <1>1, <1>3, <1>4

(* Parts of a stack that has V on top of B: below a position of B, below   *)
(* one of V, the top, and V.                                               *)
LEMMA SubSeqBelow ==
  ASSUME NEW S, NEW B \in Seq(S), NEW V \in Seq(S), NEW s \in 0 .. Len(B)
  PROVE  SubSeq(B \o V, 1, s) = SubSeq(B, 1, s)
<1> DEFINE W == B \o V
<1>1. /\ W \in Seq(S) /\ Len(W) = Len(B) + Len(V)
      /\ \A k \in 1 .. Len(B) : W[k] = B[k]
      /\ \A k \in 1 .. Len(V) : W[Len(B) + k] = V[k]
  OBVIOUS
<1> HIDE DEF W
<1>2. /\ SubSeq(W, 1, s) \in Seq(S) /\ Len(SubSeq(W, 1, s)) = s
      /\ \A k \in 1 .. s : SubSeq(W, 1, s)[k] = W[k]
  <2>1. s \in 0 .. Len(W)
    BY <1>1
  <2> QED
    BY <1>1, <2>1, Prefix
<1>3. /\ SubSeq(B, 1, s) \in Seq(S) /\ Len(SubSeq(B, 1, s)) = s
      /\ \A k \in 1 .. s : SubSeq(B, 1, s)[k] = B[k]
  BY Prefix
<1>4. \A k \in 1 .. s : SubSeq(W, 1, s)[k] = SubSeq(B, 1, s)[k]
  BY <1>1, <1>2, <1>3
<1> QED
  BY <1>2, <1>3, <1>4, SeqEqual

LEMMA SubSeqAbove ==
  ASSUME NEW S, NEW B \in Seq(S), NEW V \in Seq(S), NEW h \in 0 .. Len(V)
  PROVE  SubSeq(B \o V, 1, Len(B) + h) = B \o SubSeq(V, 1, h)
<1> DEFINE W == B \o V
<1>1. /\ W \in Seq(S) /\ Len(W) = Len(B) + Len(V)
      /\ \A k \in 1 .. Len(B) : W[k] = B[k]
      /\ \A k \in 1 .. Len(V) : W[Len(B) + k] = V[k]
  OBVIOUS
<1> HIDE DEF W
<1> DEFINE X == SubSeq(W, 1, Len(B) + h)
           U == SubSeq(V, 1, h)
           Y == B \o U
<1>2. X \in Seq(S) /\ Len(X) = Len(B) + h /\ \A k \in 1 .. Len(B) + h : X[k] = W[k]
  <2>1. Len(B) + h \in 0 .. Len(W)
    BY <1>1
  <2> QED
    BY <1>1, <2>1, Prefix
<1>3. U \in Seq(S) /\ Len(U) = h /\ \A k \in 1 .. h : U[k] = V[k]
  BY Prefix
<1> HIDE DEF U, X
<1>4. /\ Y \in Seq(S) /\ Len(Y) = Len(B) + h
      /\ \A k \in 1 .. Len(B) : Y[k] = B[k]
      /\ \A k \in 1 .. h : Y[Len(B) + k] = U[k]
  BY <1>3, SMTT(40)
<1> HIDE DEF Y
<1>5. ASSUME NEW k \in 1 .. Len(X)
      PROVE  X[k] = Y[k]
  <2>1. CASE k \in 1 .. Len(B)
    BY <1>1, <1>2, <1>4, <2>1
  <2>2. CASE k \notin 1 .. Len(B)
    <3>1. PICK j \in 1 .. h : k = Len(B) + j
      <4>1. k - Len(B) \in 1 .. h /\ k = Len(B) + (k - Len(B))
        BY <1>2, <2>2
      <4> QED
        BY <4>1
    <3>2. j \in 1 .. Len(V) /\ k \in 1 .. Len(B) + h
      BY <1>2, <3>1
    <3> QED
      <4>1. X[k] = W[Len(B) + j]
        BY <1>2, <3>1, <3>2
      <4>2. W[Len(B) + j] = V[j]
        BY <1>1, <3>2
      <4>3. U[j] = V[j]
        BY <1>3
      <4>4. Y[k] = U[j]
        BY <1>4, <3>1
      <4> QED
        BY <4>1, <4>2, <4>3, <4>4, Zenon
  <2> QED
    BY <2>1, <2>2
<1>6. X = Y
  BY <1>2, <1>4, <1>5, SeqEqual
<1> QED
  BY <1>6 DEF X, Y, U

LEMMA TopOfSum ==
  ASSUME NEW S, NEW B \in Seq(S), NEW V \in Seq(S), NEW n \in 0 .. Len(V)
  PROVE  TopN(B \o V, n) = TopN(V, n)
<1> DEFINE W == B \o V
<1>1. /\ W \in Seq(S) /\ Len(W) = Len(B) + Len(V)
      /\ \A k \in 1 .. Len(B) : W[k] = B[k]
      /\ \A k \in 1 .. Len(V) : W[Len(B) + k] = V[k]
  OBVIOUS
<1> HIDE DEF W
<1>2. /\ TopN(W, n) \in Seq(S) /\ Len(TopN(W, n)) = n
      /\ \A k \in 1 .. n : TopN(W, n)[k] = W[Len(W) - n + k]
  <2>1. n \in 0 .. Len(W)
    BY <1>1
  <2> QED
    BY <1>1, <2>1, TopOf
<1>3. /\ TopN(V, n) \in Seq(S) /\ Len(TopN(V, n)) = n
      /\ \A k \in 1 .. n : TopN(V, n)[k] = V[Len(V) - n + k]
  BY TopOf
<1>4. ASSUME NEW k \in 1 .. n
      PROVE  W[Len(W) - n + k] = V[Len(V) - n + k]
  <2>1. /\ Len(V) - n + k \in 1 .. Len(V)
        /\ Len(W) - n + k = Len(B) + (Len(V) - n + k)
    BY <1>1
  <2> QED
    BY <1>1, <2>1
<1>5. \A k \in 1 .. n : TopN(W, n)[k] = TopN(V, n)[k]
  BY <1>2, <1>3, <1>4
<1>6. TopN(W, n) = TopN(V, n)
  BY <1>2, <1>3, <1>5, SeqEqual
<1> QED
  BY <1>6 DEF W

LEMMA AllOnTop ==
  ASSUME NEW S, NEW B \in Seq(S), NEW V \in Seq(S)
  PROVE  SubSeq(B \o V, Len(B) + 1, Len(B \o V)) = V
<1> DEFINE W == B \o V
<1>1. Len(W) = Len(B) + Len(V)
  OBVIOUS
<1>2. TopN(W, Len(V)) = TopN(V, Len(V))
  BY TopOfSum
<1> HIDE DEF W
<1>3. Len(V) \in 0 .. Len(V) /\ Len(W) - Len(V) + 1 = Len(B) + 1
      /\ Len(V) - Len(V) + 1 = 1
  BY <1>1
<1>4. TopN(V, Len(V)) = V
  BY <1>3, SubSeqFull DEF TopN
<1> QED
  BY <1>2, <1>3, <1>4 DEF TopN, W

(* Popping, and unwinding to a position above or below a base.             *)
LEMMA DropOnTop ==
  ASSUME NEW S, NEW B \in Seq(S), NEW V \in Seq(S), NEW n \in 0 .. Len(V)
  PROVE  Drop(B \o V, n) = B \o SubSeq(V, 1, Len(V) - n)
<1> DEFINE h == Len(V) - n
<1>1. h \in 0 .. Len(V) /\ Len(B \o V) - n = Len(B) + h
  OBVIOUS
<1> HIDE DEF h
<1>2. SubSeq(B \o V, 1, Len(B) + h) = B \o SubSeq(V, 1, h)
  BY <1>1, SubSeqAbove
<1> QED
  BY <1>1, <1>2, Zenon DEF Drop, h

LEMMA UnwindOnTop ==
  ASSUME NEW S, NEW B \in Seq(S), NEW V \in Seq(S),
         NEW h \in 0 .. Len(V), NEW n \in 0 .. Len(V)
  PROVE  Unwind(B \o V, Len(B) + h, n) = B \o (SubSeq(V, 1, h) \o TopN(V, n))
<1>1. SubSeq(V, 1, h) \in Seq(S) /\ TopN(V, n) \in Seq(S)
  BY Prefix, TopOf
<1>2. /\ SubSeq(B \o V, 1, Len(B) + h) = B \o SubSeq(V, 1, h)
      /\ TopN(B \o V, n) = TopN(V, n)
  BY SubSeqAbove, TopOfSum
<1>3. (B \o SubSeq(V, 1, h)) \o TopN(V, n) = B \o (SubSeq(V, 1, h) \o TopN(V, n))
  <2> DEFINE U == SubSeq(V, 1, h)
             T == TopN(V, n)
  <2>1. U \in Seq(S) /\ T \in Seq(S)
    BY <1>1
  <2> HIDE DEF U, T
  <2>2. (B \o U) \o T = B \o (U \o T)
    BY <2>1, ConcatAssociative, SMTT(40)
  <2> QED
    BY <2>2 DEF U, T
<1> QED
  BY <1>2, <1>3, Zenon DEF Unwind

LEMMA UnwindBelow ==
  ASSUME NEW S, NEW B \in Seq(S), NEW V \in Seq(S),
         NEW s \in 0 .. Len(B), NEW n \in 0 .. Len(V)
  PROVE  Unwind(B \o V, s, n) = SubSeq(B, 1, s) \o TopN(V, n)
<1>1. SubSeq(B \o V, 1, s) = SubSeq(B, 1, s) /\ TopN(B \o V, n) = TopN(V, n)
  BY SubSeqBelow, TopOfSum
<1> QED
  BY <1>1, Zenon DEF Unwind

(* Operands that are values are what a pop that succeeds expects.          *)
LEMMA KnownTop ==
  ASSUME NEW p, GoodPoint(p), p.vals \in Seq(ValType),
         NEW t \in Seq(ValType), Gives(p, t)
  PROVE  /\ Len(t) \in 0 .. Len(p.vals)
         /\ TopN(p.vals, Len(t)) = t
         /\ SubSeq(p.vals, 1, Len(p.vals) - Len(t)) \in Seq(ValType)
         /\ p.vals = SubSeq(p.vals, 1, Len(p.vals) - Len(t)) \o t
<1> DEFINE V == p.vals
           n == Len(t)
<1>1. /\ Last(p.ctrls).height \in 0 .. Len(V)
      /\ n <= Len(V) - Last(p.ctrls).height
      /\ \A k \in 1 .. n : Matches(V[Len(V) - n + k], t[k])
  <2>1. \A k \in 1 .. Len(p.ctrls) : p.ctrls[k].height \in 0 .. Len(V)
    BY GoodFrames
  <2>2. Len(p.ctrls) \in Nat \ {0} /\ Last(p.ctrls) = p.ctrls[Len(p.ctrls)]
    BY GoodFrames
  <2>3. Len(p.ctrls) \in 1 .. Len(p.ctrls)
    BY <2>2
  <2> QED
    BY <2>1, <2>2, <2>3 DEF Gives
<1>2. V \in Seq(ValType) /\ n \in Nat /\ Unknown \notin ValType
  BY DEF ValType, NumType, RefType, Unknown
<1> HIDE DEF V
<1>3. n \in 0 .. Len(V)
  BY <1>1, <1>2
<1> HIDE DEF n
<1>4. TopN(V, n) = t
  <2>1. /\ TopN(V, n) \in Seq(ValType) /\ Len(TopN(V, n)) = n
        /\ \A k \in 1 .. n : TopN(V, n)[k] = V[Len(V) - n + k]
    BY <1>2, <1>3, TopOf
  <2>2. ASSUME NEW k \in 1 .. n
        PROVE  TopN(V, n)[k] = t[k]
    <3>1. V[Len(V) - n + k] \in ValType /\ t[k] \in ValType
      <4>1. Len(V) - n + k \in 1 .. Len(V)
        BY <1>2, <1>3
      <4>2. k \in 1 .. Len(t)
        BY DEF n
      <4> QED
        BY <1>2, <4>1, <4>2
    <3>2. Matches(V[Len(V) - n + k], t[k])
      BY <1>1
    <3>3. V[Len(V) - n + k] = t[k]
      BY <1>2, <3>1, <3>2 DEF Matches
    <3> QED
      BY <2>1, <3>3
  <2> QED
    BY <2>1, <2>2, SeqEqual DEF n
<1>5. Len(V) - n \in 0 .. Len(V)
  BY <1>2, <1>3
<1>6. /\ SubSeq(V, 1, Len(V) - n) \in Seq(ValType)
      /\ V = SubSeq(V, 1, Len(V) - n) \o SubSeq(V, Len(V) - n + 1, Len(V))
  BY <1>2, <1>5, SplitAt
<1> QED
  BY <1>3, <1>4, <1>6 DEF V, n, TopN

-----------------------------------------------------------------------------
(* Execution at a point of the typing.                                     *)

(* What there is at a point: operands and control frames, of the j-th      *)
(* frame the height, the results and what a branch to it carries, and the  *)
(* operands and the frames around it.                                      *)
Vals(p)        == p.vals
Frames(p)      == p.ctrls
Height(p, j)   == p.ctrls[j].height
EndTypes(p, j) == p.ctrls[j].end
Looping(p, j)  == p.ctrls[j].opcode = "loop"
Carries(p, j)  == IF Looping(p, j) THEN p.ctrls[j].start ELSE p.ctrls[j].end
Under(p, j)    == SubSeq(p.vals, 1, p.ctrls[j].height)
Outer(p, j)    == SubSeq(p.ctrls, 1, j - 1)
Entered(p, j)  == ~p.ctrls[j - 1].unreachable
OpAt(is, k)    == is[k].op

(* What Expected says, of a body and its typing.                           *)
ExpectedAt(is, ts, k) ==
  LET p == ts[k]
      n == Blocks(p)
  IN  IF OpAt(is, k) = "end" THEN Under(p, n) \o EndTypes(p, n) ELSE Vals(p)

(* l is the label of the j-th block of p: the operands it keeps and carries *)
(* are those of the point where a branch goes on, and an end or a skipped  *)
(* arm finds the end of the same block.                                    *)
LabelFits(is, ts, l, base, p, j) ==
  /\ l.sp = base + Height(p, j)
  /\ l.end_arity = Len(EndTypes(p, j))
  /\ l.br_arity = Len(Carries(p, j))
  /\ Entered(p, j)
  /\ l.pc + 1 \in 1 .. Len(is)
  /\ Frames(ts[l.pc + 1]) = Outer(p, j)
  /\ Vals(ts[l.pc + 1]) = Under(p, j) \o Carries(p, j)
  /\ ~Looping(p, j) =>
       /\ l.pc \in 1 .. Len(is) /\ OpAt(is, l.pc) = "end"
       /\ Blocks(ts[l.pc]) = j /\ Same(p, ts[l.pc], j)

LabelsFit(is, ts, ls, base, p) ==
  /\ Blocks(p) = Len(ls) + 1
  /\ \A j \in 2 .. Blocks(p) : LabelFits(is, ts, ls[j - 1], base, p, j)

(* Execution is before the k-th instruction with operands ops, labels ls.  *)
Arrived(is, ts, k, ops, ls, base) ==
  /\ k \in 1 .. Len(is)
  /\ LabelsFit(is, ts, ls, base, ts[k])
  /\ OpAt(is, k) # "end" => Reach(ts[k])
  /\ ops = ExpectedAt(is, ts, k)

(* The types of all that.                                                  *)
LEMMA PointTyped ==
  ASSUME NEW p, GoodPoint(p)
  PROVE  /\ Frames(p) \in Seq(Ctrl) /\ Vals(p) \in Seq(ValueType)
         /\ Blocks(p) \in Nat \ {0} /\ Len(Frames(p)) = Blocks(p)
         /\ Last(p.ctrls) = p.ctrls[Blocks(p)]
  BY GoodFrames DEF Frames, Vals, Blocks

LEMMA BlockTyped ==
  ASSUME NEW p, GoodPoint(p), NEW j \in 1 .. Blocks(p)
  PROVE  /\ Height(p, j) \in 0 .. Len(Vals(p))
         /\ Height(p, j) <= Height(p, Blocks(p))
         /\ EndTypes(p, j) \in Seq(ValType) /\ Carries(p, j) \in Seq(ValType)
         /\ Under(p, j) \in Seq(ValueType) /\ Len(Under(p, j)) = Height(p, j)
         /\ Under(p, j) = SubSeq(Vals(p), 1, Height(p, j))
         /\ Outer(p, j) \in Seq(Ctrl) /\ Len(Outer(p, j)) = j - 1
<1>1. Frames(p) \in Seq(Ctrl) /\ Vals(p) \in Seq(ValueType) /\ Len(Frames(p)) = Blocks(p)
      /\ Blocks(p) \in Nat \ {0}
  BY PointTyped
<1>2. \A k \in 1 .. Blocks(p) : Height(p, k) \in 0 .. Len(Vals(p))
  BY GoodFrames DEF Height, Vals, Blocks
<1>3. \A k \in 1 .. Blocks(p) : p.ctrls[k].start \in Seq(ValType) /\ EndTypes(p, k) \in Seq(ValType)
  BY DEF GoodPoint, EndTypes, Blocks
<1>4. \A i, k \in 1 .. Blocks(p) : i <= k => Height(p, i) <= Height(p, k)
  BY DEF GoodPoint, Height, Blocks
<1>5. Carries(p, j) \in Seq(ValType)
  BY <1>3 DEF Carries, EndTypes
<1>6. Under(p, j) = SubSeq(Vals(p), 1, Height(p, j)) /\ Outer(p, j) = SubSeq(Frames(p), 1, j - 1)
  BY DEF Under, Vals, Height, Outer, Frames
<1>7. j - 1 \in 0 .. Len(Frames(p)) /\ j <= Blocks(p) /\ Blocks(p) \in 1 .. Blocks(p)
  BY <1>1
<1>8. /\ SubSeq(Vals(p), 1, Height(p, j)) \in Seq(ValueType)
      /\ Len(SubSeq(Vals(p), 1, Height(p, j))) = Height(p, j)
      /\ SubSeq(Frames(p), 1, j - 1) \in Seq(Ctrl)
      /\ Len(SubSeq(Frames(p), 1, j - 1)) = j - 1
  BY <1>1, <1>2, <1>7, Prefix
<1> QED
  BY <1>2, <1>3, <1>4, <1>5, <1>6, <1>7, <1>8

(* Two points that have a block in common agree on it and below it.        *)
LEMMA SamePoints ==
  ASSUME NEW p, NEW q, GoodPoint(p), GoodPoint(q), NEW j, Same(p, q, j)
  PROVE  /\ j \in 1 .. Blocks(p) /\ j \in 1 .. Blocks(q)
         /\ Height(p, j) = Height(q, j) /\ EndTypes(p, j) = EndTypes(q, j)
         /\ Looping(p, j) <=> Looping(q, j)
         /\ Carries(p, j) = Carries(q, j)
         /\ Under(p, j) = Under(q, j) /\ Outer(p, j) = Outer(q, j)
         /\ j > 1 => (Entered(p, j) <=> Entered(q, j))
<1>1. /\ j \in 1 .. Blocks(p) /\ j \in 1 .. Blocks(q)
      /\ \A m \in 1 .. j - 1 : Frames(p)[m] = Frames(q)[m]
      /\ Height(p, j) = Height(q, j) /\ EndTypes(p, j) = EndTypes(q, j)
      /\ p.ctrls[j].start = q.ctrls[j].start
      /\ Looping(p, j) <=> Looping(q, j)
      /\ \A x \in 1 .. Height(p, j) : Vals(p)[x] = Vals(q)[x]
  BY Zenon DEF Same, Blocks, Frames, Height, EndTypes, Looping, Vals
<1>2. Carries(p, j) = Carries(q, j)
  BY <1>1, Zenon DEF Carries, EndTypes
<1> DEFINE P == Frames(p)
           Q == Frames(q)
           V == Vals(p)
           W == Vals(q)
           h == Height(p, j)
<1>3. /\ P \in Seq(Ctrl) /\ Q \in Seq(Ctrl) /\ j - 1 \in 0 .. Len(P) /\ j - 1 \in 0 .. Len(Q)
      /\ V \in Seq(ValueType) /\ W \in Seq(ValueType)
      /\ h \in 0 .. Len(V) /\ h \in 0 .. Len(W)
  <2>1. /\ P \in Seq(Ctrl) /\ Len(P) = Blocks(p) /\ Blocks(p) \in Nat
        /\ Q \in Seq(Ctrl) /\ Len(Q) = Blocks(q) /\ Blocks(q) \in Nat
        /\ V \in Seq(ValueType) /\ W \in Seq(ValueType)
    BY PointTyped
  <2>2. Height(p, j) \in 0 .. Len(V) /\ Height(q, j) \in 0 .. Len(W)
    BY <1>1, BlockTyped
  <2> HIDE DEF P, Q, V, W
  <2>3. j - 1 \in 0 .. Len(P) /\ j - 1 \in 0 .. Len(Q)
    BY <1>1, <2>1
  <2> QED
    BY <1>1, <2>1, <2>2, <2>3
<1>4. /\ Under(p, j) = SubSeq(V, 1, h) /\ Under(q, j) = SubSeq(W, 1, h)
      /\ Outer(p, j) = SubSeq(P, 1, j - 1) /\ Outer(q, j) = SubSeq(Q, 1, j - 1)
  BY <1>1, Zenon DEF Under, Vals, Height, Outer, Frames
<1> HIDE DEF P, Q, V, W, h
<1>5. SubSeq(P, 1, j - 1) = SubSeq(Q, 1, j - 1)
  <2>1. /\ SubSeq(P, 1, j - 1) \in Seq(Ctrl) /\ Len(SubSeq(P, 1, j - 1)) = j - 1
        /\ \A k \in 1 .. j - 1 : SubSeq(P, 1, j - 1)[k] = P[k]
    BY <1>3, Prefix
  <2>2. /\ SubSeq(Q, 1, j - 1) \in Seq(Ctrl) /\ Len(SubSeq(Q, 1, j - 1)) = j - 1
        /\ \A k \in 1 .. j - 1 : SubSeq(Q, 1, j - 1)[k] = Q[k]
    BY <1>3, Prefix
  <2>3. \A k \in 1 .. j - 1 : SubSeq(P, 1, j - 1)[k] = SubSeq(Q, 1, j - 1)[k]
    BY <1>1, <2>1, <2>2 DEF P, Q
  <2> QED
    BY <2>1, <2>2, <2>3, SeqEqual
<1>6. SubSeq(V, 1, h) = SubSeq(W, 1, h)
  <2>1. /\ SubSeq(V, 1, h) \in Seq(ValueType) /\ Len(SubSeq(V, 1, h)) = h
        /\ \A k \in 1 .. h : SubSeq(V, 1, h)[k] = V[k]
    BY <1>3, Prefix
  <2>2. /\ SubSeq(W, 1, h) \in Seq(ValueType) /\ Len(SubSeq(W, 1, h)) = h
        /\ \A k \in 1 .. h : SubSeq(W, 1, h)[k] = W[k]
    BY <1>3, Prefix
  <2>3. \A k \in 1 .. h : SubSeq(V, 1, h)[k] = SubSeq(W, 1, h)[k]
    BY <1>1, <2>1, <2>2 DEF V, W, h
  <2> QED
    BY <2>1, <2>2, <2>3, SeqEqual
<1>7. ASSUME j > 1
      PROVE  Entered(p, j) <=> Entered(q, j)
  <2>1. j - 1 \in 1 .. j - 1
    BY <1>1, <1>7
  <2>2. p.ctrls[j - 1] = q.ctrls[j - 1]
    BY <1>1, <2>1 DEF Frames
  <2> QED
    BY <2>2, Zenon DEF Entered
<1> QED
  BY <1>1, <1>2, <1>4, <1>5, <1>6, <1>7

(* A label fits wherever its block is open.                                *)
LEMMA LabelMoves ==
  ASSUME NEW is, NEW ts, NEW l, NEW base, NEW p, NEW q, GoodPoint(p), GoodPoint(q),
         NEW j, j > 1, Same(p, q, j), LabelFits(is, ts, l, base, p, j)
  PROVE  LabelFits(is, ts, l, base, q, j)
<1>1. /\ Height(p, j) = Height(q, j) /\ EndTypes(p, j) = EndTypes(q, j)
      /\ Looping(p, j) <=> Looping(q, j)
      /\ Carries(p, j) = Carries(q, j)
      /\ Under(p, j) = Under(q, j) /\ Outer(p, j) = Outer(q, j)
      /\ Entered(p, j) <=> Entered(q, j)
  BY SamePoints
<1>2. \A r : Same(p, r, j) => Same(q, r, j)
  BY SameSymmetric, SameTransitive
<1> QED
  BY <1>1, <1>2 DEF LabelFits

(* So do the labels of all the blocks that stay open.                      *)
LEMMA LabelsMove ==
  ASSUME NEW is, NEW ts, NEW base, NEW ls \in Seq(Label), NEW p, NEW q,
         GoodPoint(p), GoodPoint(q), LabelsFit(is, ts, ls, base, p),
         NEW n \in Nat \ {0}, Blocks(q) = n, Same(p, q, n)
  PROVE  /\ n - 1 \in 0 .. Len(ls)
         /\ LabelsFit(is, ts, SubSeq(ls, 1, n - 1), base, q)
<1>1. /\ Blocks(p) = Len(ls) + 1
      /\ \A j \in 2 .. Blocks(p) : LabelFits(is, ts, ls[j - 1], base, p, j)
  BY DEF LabelsFit
<1>2. n \in 1 .. Blocks(p)
  BY SamePoints
<1>3. n - 1 \in 0 .. Len(ls)
  BY <1>1, <1>2
<1>4. /\ Len(SubSeq(ls, 1, n - 1)) = n - 1
      /\ \A k \in 1 .. n - 1 : SubSeq(ls, 1, n - 1)[k] = ls[k]
  BY <1>3, Prefix
<1>5. ASSUME NEW j \in 2 .. n
      PROVE  LabelFits(is, ts, SubSeq(ls, 1, n - 1)[j - 1], base, q, j)
  <2>1. j \in 2 .. Blocks(p) /\ j - 1 \in 1 .. n - 1 /\ j \in 1 .. n /\ j > 1
    BY <1>1, <1>2
  <2>2. Same(p, q, j)
    BY <2>1, SameBelow
  <2>3. LabelFits(is, ts, ls[j - 1], base, p, j)
    BY <1>1, <2>1
  <2>4. LabelFits(is, ts, ls[j - 1], base, q, j)
    BY <2>1, <2>2, <2>3, LabelMoves
  <2> QED
    BY <1>4, <2>1, <2>4
<1> QED
  BY <1>3, <1>4, <1>5 DEF LabelsFit

LEMMA LabelsKept ==
  ASSUME NEW is, NEW ts, NEW base, NEW ls \in Seq(Label), NEW p, NEW q,
         GoodPoint(p), GoodPoint(q), LabelsFit(is, ts, ls, base, p),
         Blocks(q) = Blocks(p), Same(p, q, Blocks(p))
  PROVE  LabelsFit(is, ts, ls, base, q)
<1>1. Blocks(p) = Len(ls) + 1 /\ Blocks(p) \in Nat \ {0}
  BY PointTyped DEF LabelsFit
<1>2. LabelsFit(is, ts, SubSeq(ls, 1, Blocks(p) - 1), base, q)
  BY <1>1, LabelsMove
<1>3. SubSeq(ls, 1, Blocks(p) - 1) = ls
  <2>1. Blocks(p) - 1 = Len(ls)
    BY <1>1
  <2> QED
    BY <2>1, SubSeqFull
<1> QED
  BY <1>2, <1>3

(* One more block, and its label.                                          *)
LEMMA LabelsOpen ==
  ASSUME NEW is, NEW ts, NEW base, NEW ls \in Seq(Label), NEW p, NEW q,
         GoodPoint(p), GoodPoint(q), LabelsFit(is, ts, ls, base, p),
         Blocks(q) = Blocks(p) + 1, Same(p, q, Blocks(p)),
         NEW l \in Label, LabelFits(is, ts, l, base, q, Blocks(q))
  PROVE  LabelsFit(is, ts, Append(ls, l), base, q)
<1>1. /\ Blocks(p) = Len(ls) + 1
      /\ \A j \in 2 .. Blocks(p) : LabelFits(is, ts, ls[j - 1], base, p, j)
  BY DEF LabelsFit
<1>2. Len(ls) \in Nat
  OBVIOUS
<1>3. /\ Len(Append(ls, l)) = Len(ls) + 1 /\ Append(ls, l)[Len(ls) + 1] = l
      /\ \A k \in 1 .. Len(ls) : Append(ls, l)[k] = ls[k]
  OBVIOUS
<1>4. ASSUME NEW j \in 2 .. Blocks(q)
      PROVE  LabelFits(is, ts, Append(ls, l)[j - 1], base, q, j)
  <2>1. CASE j = Blocks(q)
    <3>1. j - 1 = Len(ls) + 1
      BY <1>1, <1>2, <2>1
    <3> QED
      BY <1>3, <2>1, <3>1
  <2>2. CASE j # Blocks(q)
    <3>1. j \in 2 .. Blocks(p) /\ j - 1 \in 1 .. Len(ls) /\ j \in 1 .. Blocks(p) /\ j > 1
      BY <1>1, <1>2, <2>2
    <3>2. Same(p, q, j)
      BY <3>1, SameBelow
    <3>3. LabelFits(is, ts, ls[j - 1], base, p, j)
      BY <1>1, <3>1
    <3>4. LabelFits(is, ts, ls[j - 1], base, q, j)
      BY <3>1, <3>2, <3>3, LabelMoves
    <3> QED
      BY <1>3, <3>1, <3>4
  <2> QED
    BY <2>1, <2>2
<1> QED
  BY <1>1, <1>3, <1>4 DEF LabelsFit

(* The points of an accepted body, counted with Blocks.                    *)
LEMMA BodyPoint ==
  ASSUME NEW c, NEW is, NEW ts, Accepts(c, is, ts), NEW k \in 1 .. Len(is)
  PROVE  /\ Len(is) \in Nat \ {0} /\ is[k] \in Instruction
         /\ GoodPoint(ts[k]) /\ Rule(c, is[k], ts[k])
         /\ OpAt(is, k) # "end" \/ Blocks(ts[k]) > 1 => k + 1 \in 1 .. Len(is)
         /\ Reach(ts[k]) <=> ~Last(Frames(ts[k])).unreachable
<1> HIDE DEF Instruction
<1>1. /\ is \in Seq(Instruction) /\ Len(is) \in Nat \ {0}
      /\ is[Len(is)].op = "end" /\ Len(ts[Len(is)].ctrls) = 1
      /\ GoodPoint(ts[k]) /\ Rule(c, is[k], ts[k])
  BY AcceptedHistory
<1>2. OpAt(is, Len(is)) = "end" /\ Blocks(ts[Len(is)]) = 1
  BY <1>1 DEF OpAt, Blocks
<1>3. OpAt(is, k) # "end" \/ Blocks(ts[k]) > 1 => k # Len(is)
  BY <1>2
<1>4. k # Len(is) => k + 1 \in 1 .. Len(is)
  BY <1>1
<1>5. Reach(ts[k]) <=> ~Last(Frames(ts[k])).unreachable
  BY Zenon DEF Reach, Frames
<1> QED
  BY <1>1, <1>3, <1>4, <1>5

(* From one point to the next.                                             *)
LEMMA NextBlocks ==
  ASSUME NEW c, NEW is, NEW ts, Accepts(c, is, ts),
         NEW k \in 1 .. Len(is), k + 1 \in 1 .. Len(is)
  PROVE  /\ MovesFrames(is[k], ts[k], ts[k + 1])
         /\ MovesOperands(c, is[k], ts[k], ts[k + 1])
         /\ Blocks(ts[k + 1]) = Blocks(ts[k]) + Delta(is[k])
         /\ \A j \in 1 .. Blocks(ts[k]) :
              j <= Blocks(ts[k + 1]) => Same(ts[k], ts[k + 1], j)
<1>1. k \in 1 .. Len(is) - 1
  BY BodyPoint
<1>2. /\ MovesFrames(is[k], ts[k], ts[k + 1])
      /\ MovesOperands(c, is[k], ts[k], ts[k + 1])
  BY <1>1, AcceptedHistory
<1>3. /\ Len(ts[k + 1].ctrls) = Len(ts[k].ctrls) + Delta(is[k])
      /\ \A j \in 1 .. Len(ts[k].ctrls) :
           j <= Len(ts[k + 1].ctrls) => Same(ts[k], ts[k + 1], j)
  BY <1>1, NextPoint
<1> QED
  BY <1>2, <1>3, Zenon DEF Blocks

(* Operands that are values and match ts on top have ts on top, within the *)
(* innermost block.                                                        *)
LEMMA TopGiven ==
  ASSUME NEW p, GoodPoint(p), Vals(p) \in Seq(ValType),
         NEW t \in Seq(ValType), Gives(p, t)
  PROVE  /\ Len(t) \in 0 .. Len(Vals(p))
         /\ Height(p, Blocks(p)) <= Len(Vals(p)) - Len(t)
         /\ TopN(Vals(p), Len(t)) = t
         /\ SubSeq(Vals(p), 1, Len(Vals(p)) - Len(t)) \in Seq(ValType)
         /\ Vals(p) = SubSeq(Vals(p), 1, Len(Vals(p)) - Len(t)) \o t
<1>1. p.vals \in Seq(ValType)
  BY DEF Vals
<1>2. /\ Len(t) \in 0 .. Len(p.vals)
      /\ TopN(p.vals, Len(t)) = t
      /\ SubSeq(p.vals, 1, Len(p.vals) - Len(t)) \in Seq(ValType)
      /\ p.vals = SubSeq(p.vals, 1, Len(p.vals) - Len(t)) \o t
  BY <1>1, KnownTop
<1>3. Len(t) <= Len(Vals(p)) - Height(p, Blocks(p))
  <2>1. Len(t) <= Len(p.vals) - Last(p.ctrls).height
    BY Zenon DEF Gives
  <2>2. Last(p.ctrls) = p.ctrls[Blocks(p)]
    BY PointTyped
  <2>3. Last(p.ctrls).height = Height(p, Blocks(p)) /\ Len(p.vals) = Len(Vals(p))
    BY <2>2, Zenon DEF Height, Vals
  <2> QED
    BY <2>1, <2>3
<1>4. Height(p, Blocks(p)) <= Len(Vals(p)) - Len(t)
  <2>1. Blocks(p) \in 1 .. Blocks(p)
    BY PointTyped
  <2>2. Height(p, Blocks(p)) \in 0 .. Len(Vals(p))
    BY <2>1, BlockTyped
  <2>3. Len(t) \in Nat /\ Len(Vals(p)) \in Nat
    OBVIOUS
  <2> QED
    BY <1>3, <2>2, <2>3
<1> QED
  BY <1>2, <1>4, Zenon DEF Vals

(* A block that is left has its results above its height, nothing else.    *)
LEMMA BlockResultsGiven ==
  ASSUME NEW c, NEW i, NEW p, GoodPoint(p), Rule(c, i, p), Reach(p),
         i.op \in {"else", "end"}, Vals(p) \in Seq(ValType)
  PROVE  Vals(p) = Under(p, Blocks(p)) \o EndTypes(p, Blocks(p))
<1> DEFINE n == Blocks(p)
           V == Vals(p)
           t == EndTypes(p, n)
           h == Height(p, n)
<1>1. Gives(p, t) /\ Len(V) = h + Len(t)
  <2>1. Last(p.ctrls) = p.ctrls[n]
    BY PointTyped
  <2>2. Gives(p, Last(p.ctrls).end)
        /\ Len(p.vals) = Last(p.ctrls).height + Len(Last(p.ctrls).end)
    BY Zenon DEF Rule
  <2> QED
    BY <2>1, <2>2, Zenon DEF EndTypes, Height, Vals
<1>2. n \in 1 .. Blocks(p)
  BY PointTyped
<1>3. t \in Seq(ValType) /\ h \in Nat /\ Under(p, n) = SubSeq(V, 1, h)
  <2>1. t \in Seq(ValType) /\ h \in 0 .. Len(V) /\ Under(p, n) = SubSeq(V, 1, h)
    BY <1>2, BlockTyped
  <2> HIDE DEF n, V, h
  <2> QED
    BY <2>1
<1>4. V = SubSeq(V, 1, Len(V) - Len(t)) \o t
  BY <1>1, <1>3, TopGiven
<1>5. Len(V) - Len(t) = h
  <2> HIDE DEF V, h, t
  <2> QED
    BY <1>1, <1>3
<1> QED
  BY <1>3, <1>4, <1>5

(* To be at a reachable point with its operands is what is expected there. *)
LEMMA Arrives ==
  ASSUME NEW c, NEW is, NEW ts, Accepts(c, is, ts), NEW k \in 1 .. Len(is),
         NEW ls, NEW base, LabelsFit(is, ts, ls, base, ts[k]),
         Reach(ts[k]), Vals(ts[k]) \in Seq(ValType)
  PROVE  Arrived(is, ts, k, Vals(ts[k]), ls, base)
<1> HIDE DEF Instruction
<1>1. GoodPoint(ts[k]) /\ Rule(c, is[k], ts[k])
  BY BodyPoint
<1>2. Vals(ts[k]) = ExpectedAt(is, ts, k)
  <2>1. CASE OpAt(is, k) = "end"
    <3>1. is[k].op \in {"else", "end"}
      BY <2>1 DEF OpAt
    <3>2. Vals(ts[k]) = Under(ts[k], Blocks(ts[k])) \o EndTypes(ts[k], Blocks(ts[k]))
      BY <1>1, <3>1, BlockResultsGiven
    <3> QED
      BY <2>1, <3>2, Zenon DEF ExpectedAt
  <2>2. CASE OpAt(is, k) # "end"
    BY <2>2, Zenon DEF ExpectedAt
  <2> QED
    BY <2>1, <2>2
<1> QED
  BY <1>2 DEF Arrived

(* Before any instruction but an end, the operands are those of the point. *)
LEMMA Stands ==
  ASSUME NEW is, NEW ts, NEW k, NEW V, NEW ls, NEW base,
         Arrived(is, ts, k, V, ls, base), OpAt(is, k) # "end"
  PROVE  V = Vals(ts[k]) /\ Reach(ts[k])
  BY Zenon DEF Arrived, ExpectedAt

(* An instruction that leaves the blocks alone.                            *)
LEMMA Falls ==
  ASSUME NEW c, NEW is, NEW ts, Accepts(c, is, ts), NEW k \in 1 .. Len(is),
         NEW V, NEW ls \in Seq(Label), NEW base, Arrived(is, ts, k, V, ls, base),
         OpAt(is, k) # "end", Frames(ts[k + 1]) = Frames(ts[k]),
         NEW W \in Seq(ValType), W = Vals(ts[k + 1])
  PROVE  Arrived(is, ts, k + 1, W, ls, base)
<1> DEFINE p == ts[k]
           q == ts[k + 1]
<1>1. k + 1 \in 1 .. Len(is) /\ GoodPoint(p)
  BY BodyPoint
<1>2. GoodPoint(q)
  BY <1>1, BodyPoint
<1>3. Blocks(q) = Blocks(p) /\ Blocks(p) \in 1 .. Blocks(p)
  <2>1. Blocks(q) = Blocks(p)
    BY Zenon DEF Blocks, Frames
  <2>2. Blocks(p) \in Nat \ {0}
    BY <1>1, PointTyped
  <2> QED
    BY <2>1, <2>2
<1>4. Same(p, q, Blocks(p))
  <2>1. \A j \in 1 .. Blocks(p) : j <= Blocks(q) => Same(p, q, j)
    BY <1>1, NextBlocks
  <2>2. Blocks(p) <= Blocks(q)
    <3>1. Blocks(p) \in Nat
      BY <1>1, PointTyped
    <3> QED
      BY <1>3, <3>1
  <2> QED
    BY <1>3, <2>1, <2>2
<1>5. LabelsFit(is, ts, ls, base, q)
  <2>1. LabelsFit(is, ts, ls, base, p)
    BY DEF Arrived
  <2> QED
    BY <1>1, <1>2, <1>3, <1>4, <2>1, LabelsKept
<1>6. Reach(q)
  <2>1. Reach(p)
    BY Stands
  <2> QED
    BY <2>1, Zenon DEF Reach, Frames
<1> QED
  BY <1>1, <1>5, <1>6, Arrives

-----------------------------------------------------------------------------
(* Control: where execution goes on inside a body.                         *)

StartTypes(p, j) == p.ctrls[j].start

(* The block that an instruction opens is the innermost one after it.      *)
LEMMA OpensBlockAt ==
  ASSUME NEW i, NEW p, NEW q, GoodPoint(p), GoodPoint(q),
         MovesFrames(i, p, q), i.op \in OpenOps
  PROVE  /\ Blocks(q) = Blocks(p) + 1 /\ Reach(q)
         /\ Height(q, Blocks(q)) = Len(Vals(q)) - Len(BlockStart(i.bt))
         /\ StartTypes(q, Blocks(q)) = BlockStart(i.bt)
         /\ EndTypes(q, Blocks(q)) = BlockEnd(i.bt)
         /\ Looping(q, Blocks(q)) <=> i.op = "loop"
         /\ Entered(q, Blocks(q)) <=> Reach(p)
         /\ Outer(q, Blocks(q)) = Frames(p)
<1> DEFINE g == Opened(i, Len(Vals(q)) - Len(BlockStart(i.bt)))
           P == Frames(p)
           Q == Frames(q)
           n == Blocks(p)
<1>1. Q = Append(P, g)
  BY Zenon DEF MovesFrames, Frames, Vals
<1>2. P \in Seq(Ctrl) /\ Q \in Seq(Ctrl) /\ n \in Nat \ {0} /\ Len(P) = n /\ Blocks(q) = Len(Q)
  BY PointTyped
<1>3. /\ g.opcode = i.op /\ g.start = BlockStart(i.bt) /\ g.end = BlockEnd(i.bt)
      /\ g.height = Len(Vals(q)) - Len(BlockStart(i.bt)) /\ ~g.unreachable
  BY DEF Opened
<1> HIDE DEF g, P, Q, n
<1>4. Len(Q) = n + 1 /\ Q[n + 1] = g /\ \A x \in 1 .. n : Q[x] = P[x]
  BY <1>1, <1>2
<1>5. Blocks(q) = n + 1 /\ q.ctrls[Blocks(q)] = g
  BY <1>2, <1>4 DEF Q, Frames
<1>6. Last(q.ctrls) = g
  BY <1>5, PointTyped
<1>7. p.ctrls[n] = Last(p.ctrls)
  BY PointTyped DEF n
<1>8. q.ctrls[Blocks(q) - 1] = Last(p.ctrls)
  <2>1. Blocks(q) - 1 = n /\ n \in 1 .. n
    BY <1>2, <1>5
  <2>2. Q[n] = P[n]
    BY <1>4, <2>1
  <2> QED
    BY <1>7, <2>1, <2>2 DEF Q, P, Frames
<1>9. SubSeq(Q, 1, Blocks(q) - 1) = P
  <2>1. Blocks(q) - 1 = n /\ n \in 0 .. Len(Q)
    BY <1>2, <1>4, <1>5
  <2>2. /\ SubSeq(Q, 1, n) \in Seq(Ctrl) /\ Len(SubSeq(Q, 1, n)) = n
        /\ \A x \in 1 .. n : SubSeq(Q, 1, n)[x] = Q[x]
    BY <1>2, <2>1, Prefix
  <2>3. \A x \in 1 .. n : SubSeq(Q, 1, n)[x] = P[x]
    BY <1>4, <2>2
  <2>4. SubSeq(Q, 1, n) = P
    BY <1>2, <2>2, <2>3, SeqEqual
  <2> QED
    BY <2>1, <2>4
<1> QED
  BY <1>3, <1>5, <1>6, <1>8, <1>9, Zenon
     DEF Reach, Height, StartTypes, EndTypes, Looping, Entered, Outer, Frames, P, Q, n

(* The point after an end: the block is gone, its results are there.       *)
LEMMA ClosesBlockAt ==
  ASSUME NEW i, NEW p, NEW q, GoodPoint(p), GoodPoint(q),
         MovesFrames(i, p, q), i.op = "end"
  PROVE  /\ Frames(q) = Outer(p, Blocks(p))
         /\ Vals(q) = Under(p, Blocks(p)) \o EndTypes(p, Blocks(p))
<1>1. Last(p.ctrls) = p.ctrls[Blocks(p)]
  BY PointTyped
<1>2. /\ q.vals = SubSeq(p.vals, 1, Last(p.ctrls).height) \o Last(p.ctrls).end
      /\ q.ctrls = Front(p.ctrls)
  BY Zenon DEF MovesFrames
<1> QED
  BY <1>1, <1>2, Zenon DEF Frames, Outer, Vals, Under, EndTypes, Blocks, Front

(* The point after an else: the same block, with its parameters.           *)
LEMMA TurnsBlockAt ==
  ASSUME NEW i, NEW p, NEW q, GoodPoint(p), GoodPoint(q),
         MovesFrames(i, p, q), i.op = "else"
  PROVE  /\ Reach(q)
         /\ Vals(q) = Under(p, Blocks(p)) \o StartTypes(p, Blocks(p))
<1> DEFINE f == Last(p.ctrls)
           g == [f EXCEPT !.opcode = "else", !.unreachable = FALSE]
           C == Front(p.ctrls)
<1>1. Last(p.ctrls) = p.ctrls[Blocks(p)] /\ p.ctrls \in Seq(Ctrl) /\ Len(p.ctrls) # 0
  BY PointTyped, GoodFrames
<1>2. q.vals = SubSeq(p.vals, 1, f.height) \o f.start /\ q.ctrls = Append(C, g)
  BY Zenon DEF MovesFrames
<1>3. ~g.unreachable /\ C \in Seq(Ctrl)
  <2>1. f \in Ctrl /\ C \in Seq(Ctrl)
    BY <1>1, FrontLast
  <2> HIDE DEF f, C
  <2> QED
    BY <2>1 DEF Ctrl
<1> HIDE DEF g, C
<1>4. Last(q.ctrls) = g
  <2>1. Len(Append(C, g)) = Len(C) + 1 /\ Append(C, g)[Len(C) + 1] = g
    BY <1>3
  <2> QED
    BY <1>2, <2>1 DEF Last
<1>5. Reach(q)
  BY <1>3, <1>4, Zenon DEF Reach
<1> QED
  BY <1>1, <1>2, <1>5, Zenon DEF Vals, Under, StartTypes

(* Where an end leads, in terms of the block it closes.                    *)
LEMMA AfterEnd ==
  ASSUME NEW c, NEW is, NEW ts, Accepts(c, is, ts), NEW e \in 1 .. Len(is),
         OpAt(is, e) = "end", e + 1 \in 1 .. Len(is),
         NEW q, GoodPoint(q), Same(q, ts[e], Blocks(ts[e]))
  PROVE  /\ Frames(ts[e + 1]) = Outer(q, Blocks(ts[e]))
         /\ Vals(ts[e + 1]) = Under(q, Blocks(ts[e])) \o EndTypes(q, Blocks(ts[e]))
<1>1. GoodPoint(ts[e]) /\ GoodPoint(ts[e + 1]) /\ MovesFrames(is[e], ts[e], ts[e + 1])
  BY BodyPoint, NextBlocks
<1>2. is[e].op = "end"
  BY DEF OpAt
<1>3. /\ Frames(ts[e + 1]) = Outer(ts[e], Blocks(ts[e]))
      /\ Vals(ts[e + 1]) = Under(ts[e], Blocks(ts[e])) \o EndTypes(ts[e], Blocks(ts[e]))
  BY <1>1, <1>2, ClosesBlockAt
<1> QED
  BY <1>1, <1>3, SamePoints

(* The end of the block that the k-th instruction opens.                   *)
LEMMA EndOfOpened ==
  ASSUME NEW c, NEW is, NEW ts, Accepts(c, is, ts), NEW k \in 1 .. Len(is),
         OpAt(is, k) \in OpenOps
  PROVE  /\ k + 1 \in 1 .. Len(is) /\ EndsOf(is, k) # {}
         /\ EndOf(is, k) \in 1 .. Len(is) /\ EndOf(is, k) + 1 \in 1 .. Len(is)
         /\ OpAt(is, EndOf(is, k)) = "end"
         /\ Blocks(ts[EndOf(is, k)]) = Blocks(ts[k + 1])
         /\ Blocks(ts[k + 1]) = Blocks(ts[k]) + 1
         /\ Same(ts[k + 1], ts[EndOf(is, k)], Blocks(ts[k + 1]))
<1> DEFINE e == EndOf(is, k)
<1>1. is[k].op \in OpenOps /\ Len(is) \in Nat
  BY AcceptedHistory DEF OpAt
<1>2. /\ EndsOf(is, k) # {} /\ k \in 1 .. Len(is) - 1
      /\ e \in k + 1 .. Len(is) - 1 /\ is[e].op = "end"
      /\ Len(ts[e].ctrls) = Len(ts[k].ctrls) + 1
  BY <1>1, BlockEnds
<1>3. e \in k + 1 .. e
  BY <1>1, <1>2
<1>4. Same(ts[k + 1], ts[e], Len(ts[k].ctrls) + 1)
  BY <1>1, <1>3, BlockSame
<1>5. k + 1 \in 1 .. Len(is) /\ e \in 1 .. Len(is) /\ e + 1 \in 1 .. Len(is)
  BY <1>1, <1>2
<1>6. Blocks(ts[k + 1]) = Blocks(ts[k]) + 1
  <2>1. GoodPoint(ts[k]) /\ GoodPoint(ts[k + 1]) /\ MovesFrames(is[k], ts[k], ts[k + 1])
    BY <1>5, BodyPoint, NextBlocks
  <2> QED
    BY <1>1, <2>1, OpensBlockAt
<1>7. Blocks(ts[e]) = Blocks(ts[k]) + 1 /\ Same(ts[k + 1], ts[e], Blocks(ts[k]) + 1)
  BY <1>2, <1>4, Zenon DEF Blocks
<1> QED
  BY <1>2, <1>5, <1>6, <1>7, Zenon DEF OpAt

(* The operands a block, loop or if goes on with: all, but for a condition. *)
Entering(is, k, V) == IF OpAt(is, k) = "if" THEN SubSeq(V, 1, Len(V) - 1) ELSE V

(* They are those of the first point of the block.                         *)
LEMMA EnteringFits ==
  ASSUME NEW c, NEW is, NEW ts, Accepts(c, is, ts), NEW k \in 1 .. Len(is),
         OpAt(is, k) \in OpenOps, Reach(ts[k]), Vals(ts[k]) \in Seq(ValType)
  PROVE  /\ BlockTypeOk(is[k].bt) /\ is[k].bt \in BlockType
         /\ BlockStart(is[k].bt) \in Seq(ValType) /\ BlockEnd(is[k].bt) \in Seq(ValType)
         /\ Entering(is, k, Vals(ts[k])) \in Seq(ValType)
         /\ Vals(ts[k + 1]) = Entering(is, k, Vals(ts[k]))
         /\ Len(BlockStart(is[k].bt)) \in 0 .. Len(Vals(ts[k + 1]))
         /\ OpAt(is, k) = "if" =>
              /\ Gives(ts[k], Append(BlockStart(is[k].bt), "i32"))
              /\ Len(Vals(ts[k])) > Len(BlockStart(is[k].bt))
<1> DEFINE i == is[k]
           p == ts[k]
           q == ts[k + 1]
           V == Vals(p)
           W == Vals(q)
           t == BlockStart(is[k].bt)
<1> HIDE DEF Instruction
<1>1. /\ k + 1 \in 1 .. Len(is) /\ GoodPoint(p) /\ Rule(c, i, p)
      /\ i \in Instruction /\ i.op \in OpenOps
      /\ OpAt(is, k) = i.op
  BY BodyPoint, EndOfOpened, Zenon DEF OpAt
<1>2. MovesOperands(c, i, p, q)
  BY <1>1, NextBlocks
<1>3. BlockTypeOk(i.bt) /\ i.bt \in BlockType
  <2>1. i.bt \in BlockType
    BY <1>1, BlockImmediate
  <2>2. BlockTypeOk(i.bt)
    BY <1>1, Zenon DEF Rule, OpenOps
  <2> QED
    BY <2>1, <2>2
<1>4. t \in Seq(ValType) /\ BlockEnd(i.bt) \in Seq(ValType)
  BY <1>3, BlockValTypes
<1> HIDE DEF i
<1>5. CASE OpAt(is, k) # "if"
  <2>1. i.op \in {"block", "loop"}
    BY <1>1, <1>5 DEF OpenOps
  <2>2. Gives(p, t)
    BY <2>1, <1>1, Zenon DEF Rule, i
  <2>3. Len(t) \in 0 .. Len(V) /\ V = SubSeq(V, 1, Len(V) - Len(t)) \o t
    BY <1>1, <1>4, <2>2, TopGiven
  <2>4. W = SubSeq(V, 1, Len(V) - Len(t)) \o t
    BY <1>2, <2>1, Zenon DEF MovesOperands, Left, Vals, i
  <2>5. Entering(is, k, V) = V
    BY <1>5, Zenon DEF Entering
  <2> HIDE DEF t, V, W, p, q
  <2>6. W = V
    BY <2>3, <2>4
  <2> QED
    BY <1>3, <1>4, <1>5, <2>3, <2>5, <2>6 DEF t, V, W, p, q, i
<1>6. CASE OpAt(is, k) = "if"
  <2> DEFINE u == Append(t, "i32")
  <2>1. i.op = "if" /\ Gives(p, u)
    BY <1>1, <1>6, Zenon DEF Rule, i
  <2>2. "i32" \in ValType
    BY DEF ValType, NumType
  <2>3. u \in Seq(ValType) /\ Len(u) = Len(t) + 1 /\ u = t \o <<"i32">>
    <3> HIDE DEF t
    <3> QED
      BY <1>4, <2>2
  <2> HIDE DEF u
  <2>4. Len(u) \in 0 .. Len(V) /\ V = SubSeq(V, 1, Len(V) - Len(u)) \o u
        /\ SubSeq(V, 1, Len(V) - Len(u)) \in Seq(ValType)
    BY <1>1, <2>1, <2>3, TopGiven
  <2>5. W = SubSeq(V, 1, Len(V) - (Len(t) + 1)) \o t
    BY <1>2, <2>1, Zenon DEF MovesOperands, Left, Vals, i
  <2>6. Entering(is, k, V) = SubSeq(V, 1, Len(V) - 1)
    BY <1>6, Zenon DEF Entering
  <2> DEFINE U == SubSeq(V, 1, Len(V) - Len(u))
  <2>7. W = U \o t
    BY <2>3, <2>5
  <2> HIDE DEF U, V, W, t
  <2>8. U \in Seq(ValType) /\ V = U \o u /\ V \in Seq(ValType)
    BY <2>4 DEF U, V
  <2>9. V = (U \o t) \o <<"i32">> /\ W \in Seq(ValType) /\ Len(V) = Len(W) + 1
    <3>1. t \in Seq(ValType) /\ <<"i32">> \in Seq(ValType)
      BY <1>4, <2>2 DEF t
    <3>2. U \o (t \o <<"i32">>) = (U \o t) \o <<"i32">>
      <4> DEFINE z == <<"i32">>
      <4>1. U \in Seq(ValType) /\ t \in Seq(ValType) /\ z \in Seq(ValType)
        BY <2>8, <3>1
      <4> HIDE DEF z
      <4> QED
        BY <4>1, ConcatAssociative, SMTT(60)
    <3>3. V = (U \o t) \o <<"i32">>
      BY <2>3, <2>8, <3>2, Zenon
    <3>4. W \in Seq(ValType) /\ Len(W) \in Nat
      BY <2>7, <2>8, <3>1
    <3>5. Len(W \o <<"i32">>) = Len(W) + 1
      BY <3>1, <3>4
    <3>6. Len(V) = Len(W) + 1
      BY <2>7, <3>3, <3>5, Zenon
    <3> QED
      BY <3>3, <3>4, <3>6, Zenon
  <2>10. SubSeq(V, 1, Len(V) - 1) = W
    BY <2>2, <2>7, <2>9
  <2>11. Len(t) \in 0 .. Len(W) /\ Len(V) > Len(t)
    <3>1. t \in Seq(ValType)
      BY <1>4 DEF t
    <3>2. Len(W) = Len(U) + Len(t)
      BY <2>7, <2>8, <3>1
    <3> QED
      BY <2>8, <2>9, <3>1, <3>2
  <2> QED
    BY <1>3, <1>4, <2>1, <2>6, <2>9, <2>10, <2>11 DEF t, V, W, u, i
<1> QED
  BY <1>5, <1>6

(* On top of them are the parameters of the block.                         *)
LEMMA EnteringSplits ==
  ASSUME NEW c, NEW is, NEW ts, Accepts(c, is, ts), NEW k \in 1 .. Len(is),
         OpAt(is, k) \in OpenOps, Reach(ts[k]), Vals(ts[k]) \in Seq(ValType)
  PROVE  Vals(ts[k + 1]) = Under(ts[k + 1], Blocks(ts[k + 1]))
                             \o StartTypes(ts[k + 1], Blocks(ts[k + 1]))
<1> DEFINE p == ts[k]
           q == ts[k + 1]
           V == Vals(p)
           W == Vals(q)
           j == Blocks(q)
           t == BlockStart(is[k].bt)
<1> HIDE DEF Instruction
<1>1. /\ k + 1 \in 1 .. Len(is) /\ GoodPoint(p) /\ GoodPoint(q)
      /\ MovesFrames(is[k], p, q) /\ MovesOperands(c, is[k], p, q)
      /\ is[k].op \in OpenOps
  BY BodyPoint, EndOfOpened, NextBlocks DEF OpAt
<1>2. Height(q, j) = Len(W) - Len(t) /\ StartTypes(q, j) = t
  BY <1>1, OpensBlockAt
<1>3. /\ t \in Seq(ValType) /\ W \in Seq(ValType) /\ Len(t) \in 0 .. Len(W)
      /\ W = Entering(is, k, V)
      /\ OpAt(is, k) = "if" => Len(V) > Len(t)
  BY EnteringFits
<1>4. PICK n \in {Len(t), Len(t) + 1} : W = SubSeq(V, 1, Len(V) - n) \o t /\ Len(V) - n \in 0 .. Len(V)
  <2>1. CASE is[k].op = "if"
    <3>1. W = SubSeq(V, 1, Len(V) - (Len(t) + 1)) \o t
      BY <1>1, <2>1, Zenon DEF MovesOperands, Left, Vals
    <3>2. Len(V) - (Len(t) + 1) \in 0 .. Len(V)
      <4>1. Len(V) > Len(t) /\ Len(V) \in Nat /\ Len(t) \in Nat
        BY <1>3, <2>1 DEF OpAt
      <4> HIDE DEF V, t
      <4> QED
        BY <4>1
    <3> QED
      BY <3>1, <3>2
  <2>2. CASE is[k].op # "if"
    <3>1. is[k].op \in {"block", "loop"}
      BY <1>1, <2>2 DEF OpenOps
    <3>2. W = SubSeq(V, 1, Len(V) - Len(t)) \o t
      BY <1>1, <3>1, Zenon DEF MovesOperands, Left, Vals
    <3>3. W = V
      BY <1>3, <2>2, Zenon DEF Entering, OpAt
    <3>4. Len(V) - Len(t) \in 0 .. Len(V)
      <4> HIDE DEF V, W, t
      <4> QED
        BY <1>3, <3>3
    <3> QED
      BY <3>2, <3>4
  <2> QED
    BY <2>1, <2>2
<1> DEFINE U == SubSeq(V, 1, Len(V) - n)
<1>5. U \in Seq(ValType) /\ W = U \o t
  BY <1>4, Prefix
<1>6. Under(q, j) = SubSeq(W, 1, Len(W) - Len(t))
  BY <1>2, Zenon DEF Under, Vals, Height
<1> HIDE DEF U, W, t
<1>7. Len(W) - Len(t) = Len(U) /\ SubSeq(U \o t, 1, Len(U)) = U
  BY <1>3, <1>5
<1> QED
  BY <1>2, <1>5, <1>6, <1>7 DEF W

(* The same of the operands the executor stands at the instruction with.   *)
LEMMA StandingSplits ==
  ASSUME NEW c, NEW is, NEW ts, Accepts(c, is, ts), NEW k \in 1 .. Len(is),
         NEW V \in Seq(ValType), NEW ls, NEW base,
         Arrived(is, ts, k, V, ls, base), OpAt(is, k) \in OpenOps
  PROVE  Vals(ts[k + 1]) = Under(ts[k + 1], Blocks(ts[k + 1]))
                             \o StartTypes(ts[k + 1], Blocks(ts[k + 1]))
<1>1. OpAt(is, k) # "end"
  BY DEF OpenOps
<1>2. V = Vals(ts[k]) /\ Reach(ts[k])
  BY <1>1, Stands, Zenon
<1>3. Vals(ts[k]) \in Seq(ValType)
  BY <1>2, Zenon
<1> QED
  BY <1>2, <1>3, EnteringSplits, ZenonT(60)

(* The label of a block that is entered with operands W.                   *)
BlockLabel(is, k, W, base) ==
  LET bt == is[k].bt
  IN  [br_arity  |-> IF OpAt(is, k) = "loop" THEN Len(BlockStart(bt))
                                             ELSE Len(BlockEnd(bt)),
       end_arity |-> Len(BlockEnd(bt)),
       pc        |-> IF OpAt(is, k) = "loop" THEN k - 1 ELSE EndOf(is, k),
       sp        |-> base + Len(W) - Len(BlockStart(bt))]

(* It fits the block.                                                      *)
LEMMA BlockLabelFits ==
  ASSUME NEW c, NEW is, NEW ts, Accepts(c, is, ts), NEW k \in 1 .. Len(is),
         OpAt(is, k) \in OpenOps, Reach(ts[k]), Vals(ts[k]) \in Seq(ValType),
         NEW base \in Nat
  PROVE  /\ BlockLabel(is, k, Vals(ts[k + 1]), base) \in Label
         /\ LabelFits(is, ts, BlockLabel(is, k, Vals(ts[k + 1]), base), base,
                      ts[k + 1], Blocks(ts[k + 1]))
<1> DEFINE p == ts[k]
           q == ts[k + 1]
           W == Vals(q)
           e == EndOf(is, k)
           l == BlockLabel(is, k, W, base)
           t == BlockStart(is[k].bt)
           r == BlockEnd(is[k].bt)
           j == Blocks(q)
<1> HIDE DEF Instruction
<1>1. /\ k + 1 \in 1 .. Len(is) /\ e \in 1 .. Len(is) /\ e + 1 \in 1 .. Len(is)
      /\ OpAt(is, e) = "end" /\ Blocks(ts[e]) = j /\ Same(q, ts[e], j)
  BY EndOfOpened
<1>2. GoodPoint(p) /\ GoodPoint(q) /\ MovesFrames(is[k], p, q) /\ Len(is) \in Nat
  BY <1>1, BodyPoint, NextBlocks
<1>3. /\ Height(q, j) = Len(W) - Len(t)
      /\ StartTypes(q, j) = t /\ EndTypes(q, j) = r
      /\ Looping(q, j) <=> OpAt(is, k) = "loop"
      /\ Entered(q, j) /\ Outer(q, j) = Frames(p)
  BY <1>2, OpensBlockAt, Zenon DEF OpAt
<1>4. /\ t \in Seq(ValType) /\ r \in Seq(ValType) /\ W \in Seq(ValType)
      /\ Len(t) \in 0 .. Len(W) /\ W = Entering(is, k, Vals(p))
  BY EnteringFits
<1>5. Carries(q, j) = IF OpAt(is, k) = "loop" THEN t ELSE r
  BY <1>3, Zenon DEF Carries, StartTypes, EndTypes, Looping
<1>6. /\ l.br_arity = Len(Carries(q, j)) /\ l.end_arity = Len(r)
      /\ l.pc = IF OpAt(is, k) = "loop" THEN k - 1 ELSE e
      /\ l.sp = base + Len(W) - Len(t)
  BY <1>5 DEF BlockLabel
<1>7. l \in Label
  <2>1. /\ Len(r) \in Nat /\ Len(t) \in Nat /\ k - 1 \in Int /\ e \in Int
        /\ base + Len(W) - Len(t) \in Nat
    <3> HIDE DEF W, t, r, e
    <3> QED
      BY <1>1, <1>2, <1>4
  <2> HIDE DEF t, r, e, W
  <2> QED
    BY <2>1 DEF BlockLabel, Label, t, r, e, W
<1>8. l.sp = base + Height(q, j)
  <2> HIDE DEF l, W, t, q, j
  <2>1. Len(W) \in Nat /\ Len(t) \in Nat
    BY <1>4
  <2> QED
    BY <1>3, <1>6, <2>1
<1> HIDE DEF l
<1>9. ASSUME OpAt(is, k) = "loop"
      PROVE  LabelFits(is, ts, l, base, q, j)
  <2>1. l.pc + 1 = k /\ Looping(q, j)
    BY <1>3, <1>6, <1>9
  <2>2. Vals(p) = Under(q, j) \o Carries(q, j)
    <3>1. W = Vals(p) /\ Carries(q, j) = StartTypes(q, j)
      BY <1>3, <1>4, <1>5, <1>9, Zenon DEF Entering
    <3>2. Vals(ts[k + 1]) = Under(ts[k + 1], Blocks(ts[k + 1]))
                              \o StartTypes(ts[k + 1], Blocks(ts[k + 1]))
      BY EnteringSplits, ZenonT(30)
    <3> QED
      BY <3>1, <3>2, Zenon
  <2> QED
    BY <1>3, <1>6, <1>8, <2>1, <2>2 DEF LabelFits
<1>10. ASSUME OpAt(is, k) # "loop"
       PROVE  LabelFits(is, ts, l, base, q, j)
  <2>1. l.pc = e
    BY <1>6, <1>10
  <2>2. Frames(ts[e + 1]) = Outer(q, j) /\ Vals(ts[e + 1]) = Under(q, j) \o EndTypes(q, j)
    <3> HIDE DEF e, q
    <3>1. Same(q, ts[e], Blocks(ts[e]))
      BY <1>1
    <3>2. /\ Frames(ts[e + 1]) = Outer(q, Blocks(ts[e]))
          /\ Vals(ts[e + 1]) = Under(q, Blocks(ts[e])) \o EndTypes(q, Blocks(ts[e]))
      <4>1. /\ e \in 1 .. Len(is) /\ e + 1 \in 1 .. Len(is) /\ OpAt(is, e) = "end"
            /\ GoodPoint(q) /\ Same(q, ts[e], Blocks(ts[e]))
        BY <1>1, <1>2, <3>1
      <4> QED
        BY <4>1, AfterEnd
    <3> QED
      BY <1>1, <3>2
  <2>3. Carries(q, j) = EndTypes(q, j)
    BY <1>3, <1>5, <1>10
  <2> HIDE DEF e, j, q
  <2> QED
    BY <1>1, <1>3, <1>6, <1>8, <2>1, <2>2, <2>3 DEF LabelFits
<1> QED
  BY <1>7, <1>9, <1>10, Zenon DEF l

(* A block, a loop or an if is entered: one more label.                    *)
LEMMA Enters ==
  ASSUME NEW c, NEW is, NEW ts, Accepts(c, is, ts), NEW k \in 1 .. Len(is),
         NEW V \in Seq(ValType), NEW ls \in Seq(Label), NEW base \in Nat,
         Arrived(is, ts, k, V, ls, base), OpAt(is, k) \in OpenOps
  PROVE  LET W == Entering(is, k, V)
             l == BlockLabel(is, k, W, base)
         IN  /\ W \in Seq(ValType) /\ W = Vals(ts[k + 1]) /\ l \in Label
             /\ LabelsFit(is, ts, Append(ls, l), base, ts[k + 1])
             /\ Arrived(is, ts, k + 1, W, Append(ls, l), base)
<1> DEFINE W == Entering(is, k, V)
           l == BlockLabel(is, k, W, base)
           p == ts[k]
           q == ts[k + 1]
<1> HIDE DEF Instruction
<1>1. V = Vals(p) /\ Reach(p)
  BY Stands DEF OpenOps
<1>2. W \in Seq(ValType) /\ Vals(q) = W
  BY <1>1, EnteringFits
<1> HIDE DEF W
<1>3. l \in Label /\ LabelFits(is, ts, l, base, q, Blocks(q))
  BY <1>1, <1>2, BlockLabelFits
<1>4. k + 1 \in 1 .. Len(is) /\ Blocks(q) = Blocks(p) + 1
  BY EndOfOpened
<1>5. /\ GoodPoint(p) /\ GoodPoint(q) /\ MovesFrames(is[k], p, q)
      /\ \A j \in 1 .. Blocks(p) : j <= Blocks(q) => Same(p, q, j)
  BY <1>4, BodyPoint, NextBlocks
<1>6. Same(p, q, Blocks(p))
  <2>1. Blocks(p) \in Nat \ {0}
    BY <1>5, PointTyped
  <2> QED
    BY <1>4, <1>5, <2>1
<1>7. LabelsFit(is, ts, ls, base, p)
  BY DEF Arrived
<1>8. LabelsFit(is, ts, Append(ls, l), base, q)
  <2> HIDE DEF l
  <2> QED
    BY <1>3, <1>4, <1>5, <1>6, <1>7, LabelsOpen
<1>9. Reach(q)
  BY <1>5, OpensBlockAt, Zenon DEF OpAt
<1>10. Arrived(is, ts, k + 1, W, Append(ls, l), base)
  BY <1>2, <1>4, <1>8, <1>9, Arrives
<1> QED
  BY <1>2, <1>3, <1>8, <1>10 DEF W

(* An if whose condition is zero goes on after its else.                   *)
LEMMA SkipsToElse ==
  ASSUME NEW c, NEW is, NEW ts, Accepts(c, is, ts), NEW k \in 1 .. Len(is),
         NEW V \in Seq(ValType), NEW ls \in Seq(Label), NEW base \in Nat,
         Arrived(is, ts, k, V, ls, base), OpAt(is, k) = "if",
         NEW x \in ElsesOf(is, k)
  PROVE  LET W == Entering(is, k, V)
             l == BlockLabel(is, k, W, base)
         IN  Arrived(is, ts, x + 1, W, Append(ls, l), base)
<1> DEFINE W == Entering(is, k, V)
           l == BlockLabel(is, k, W, base)
           q == ts[k + 1]
           r == ts[x]
           z == ts[x + 1]
           j == Blocks(q)
           ms == Append(ls, l)
<1> HIDE DEF Instruction
<1>1. OpAt(is, k) \in OpenOps /\ is[k].op = "if" /\ is[k].op \in OpenOps /\ Len(is) \in Nat
  BY AcceptedHistory DEF OpenOps, OpAt
<1>2. /\ W \in Seq(ValType) /\ W = Vals(q) /\ l \in Label
      /\ LabelsFit(is, ts, ms, base, q)
  BY <1>1, Enters
<1>3. /\ k + 1 \in 1 .. Len(is) /\ j = Blocks(ts[k]) + 1
      /\ k \in 1 .. Len(is) - 1 /\ EndOf(is, k) \in k + 1 .. Len(is) - 1
  BY <1>1, EndOfOpened, BlockEnds
<1>4. x \in k + 1 .. EndOf(is, k) - 1 /\ is[x].op = "else" /\ Blocks(r) = j
  BY <1>1, <1>3, Elses DEF Blocks
<1>5. /\ x \in k + 1 .. EndOf(is, k) /\ x \in 1 .. Len(is) /\ x + 1 \in 1 .. Len(is)
  BY <1>1, <1>3, <1>4
<1>6. Same(q, r, j)
  <2>1. Same(q, r, Len(ts[k].ctrls) + 1)
    BY <1>1, <1>5, BlockSame
  <2> QED
    BY <1>3, <2>1, Zenon DEF Blocks
<1>7. /\ GoodPoint(ts[k]) /\ GoodPoint(q) /\ GoodPoint(r) /\ GoodPoint(z)
      /\ MovesFrames(is[k], ts[k], q) /\ MovesFrames(is[x], r, z)
      /\ Blocks(z) = Blocks(r) + Delta(is[x])
      /\ \A m \in 1 .. Blocks(r) : m <= Blocks(z) => Same(r, z, m)
  BY <1>3, <1>5, BodyPoint, NextBlocks
<1> HIDE DEF W, l
<1>8. Blocks(z) = j /\ Same(r, z, j)
  <2>1. Delta(is[x]) = 0
    BY <1>4 DEF Delta, OpenOps
  <2>2. Blocks(r) \in Nat \ {0}
    BY <1>7, PointTyped
  <2> HIDE DEF r, z, j
  <2> QED
    BY <1>4, <1>7, <2>1, <2>2
<1>9. Same(q, z, j)
  BY <1>6, <1>8, SameTransitive
<1>10. LabelsFit(is, ts, ms, base, z)
  <2>1. ms \in Seq(Label)
    BY <1>2
  <2> HIDE DEF ms, q, z
  <2> QED
    BY <1>2, <1>7, <1>8, <1>9, <2>1, LabelsKept
<1>11. Reach(z) /\ Vals(z) = Under(r, j) \o StartTypes(r, j)
  BY <1>4, <1>7, TurnsBlockAt
<1>12. Under(r, j) = Under(q, j) /\ StartTypes(r, j) = StartTypes(q, j)
  <2>1. Under(r, j) = Under(q, j)
    BY <1>6, <1>7, SamePoints
  <2>2. StartTypes(r, j) = StartTypes(q, j)
    BY <1>6, Zenon DEF Same, StartTypes
  <2> QED
    BY <2>1, <2>2
<1>13. W = Under(q, j) \o StartTypes(q, j)
  <2>1. Vals(ts[k + 1]) = Under(ts[k + 1], Blocks(ts[k + 1]))
                            \o StartTypes(ts[k + 1], Blocks(ts[k + 1]))
    BY <1>1, StandingSplits, ZenonT(60)
  <2> QED
    BY <1>2, <2>1, Zenon
<1>14. Vals(z) = W
  BY <1>11, <1>12, <1>13
<1>15. Arrived(is, ts, x + 1, Vals(z), ms, base)
  <2>1. Vals(z) \in Seq(ValType)
    BY <1>2, <1>14
  <2> QED
    BY <1>5, <1>10, <1>11, <2>1, Arrives
<1> QED
  BY <1>14, <1>15 DEF l, W

(* An if without an else whose condition is zero goes on at its end.       *)
LEMMA SkipsToEnd ==
  ASSUME NEW c, NEW is, NEW ts, Accepts(c, is, ts), NEW k \in 1 .. Len(is),
         NEW V \in Seq(ValType), NEW ls \in Seq(Label), NEW base \in Nat,
         Arrived(is, ts, k, V, ls, base), OpAt(is, k) = "if",
         ElsesOf(is, k) = {}
  PROVE  LET W == Entering(is, k, V)
             l == BlockLabel(is, k, W, base)
         IN  Arrived(is, ts, EndOf(is, k), W, Append(ls, l), base)
<1> DEFINE W == Entering(is, k, V)
           l == BlockLabel(is, k, W, base)
           q == ts[k + 1]
           e == EndOf(is, k)
           r == ts[e]
           j == Blocks(q)
           ms == Append(ls, l)
<1> HIDE DEF Instruction
<1>1. OpAt(is, k) \in OpenOps /\ is[k].op = "if"
  BY DEF OpenOps, OpAt
<1>2. /\ W \in Seq(ValType) /\ W = Vals(q) /\ l \in Label
      /\ LabelsFit(is, ts, ms, base, q)
  BY <1>1, Enters
<1>3. /\ k + 1 \in 1 .. Len(is) /\ e \in 1 .. Len(is)
      /\ OpAt(is, e) = "end" /\ Blocks(r) = j /\ Same(q, r, j)
      /\ j = Blocks(ts[k]) + 1
  BY <1>1, EndOfOpened
<1>4. GoodPoint(q) /\ GoodPoint(r)
  BY <1>3, BodyPoint
<1> HIDE DEF W, l
<1>5. LabelsFit(is, ts, ms, base, r)
  <2>1. ms \in Seq(Label)
    BY <1>2
  <2> HIDE DEF ms, q, r
  <2> QED
    BY <1>2, <1>3, <1>4, <2>1, LabelsKept
<1>6. W = Under(q, j) \o StartTypes(q, j)
  <2>1. Vals(ts[k + 1]) = Under(ts[k + 1], Blocks(ts[k + 1]))
                            \o StartTypes(ts[k + 1], Blocks(ts[k + 1]))
    BY <1>1, StandingSplits, ZenonT(60)
  <2> QED
    BY <1>2, <2>1, Zenon
<1>7. StartTypes(q, j) = EndTypes(q, j)
  <2>1. ts[k + 1].ctrls[Len(ts[k].ctrls) + 1].start = ts[k + 1].ctrls[Len(ts[k].ctrls) + 1].end
    BY <1>1, Elses
  <2>2. Len(ts[k].ctrls) + 1 = j
    BY <1>3 DEF Blocks
  <2> QED
    BY <2>1, <2>2, Zenon DEF StartTypes, EndTypes
<1>8. Under(r, j) = Under(q, j) /\ EndTypes(r, j) = EndTypes(q, j)
  BY <1>3, <1>4, SamePoints
<1>9. W = ExpectedAt(is, ts, e)
  BY <1>3, <1>6, <1>7, <1>8, Zenon DEF ExpectedAt
<1>10. Arrived(is, ts, e, W, ms, base)
  <2> HIDE DEF e, ms
  <2> QED
    BY <1>3, <1>5, <1>9 DEF Arrived
<1> QED
  BY <1>10 DEF W, l

(* The block an else is in is not the function's.                          *)
LEMMA ElseInside ==
  ASSUME NEW c, NEW is, NEW ts, Accepts(c, is, ts), NEW k \in 1 .. Len(is),
         OpAt(is, k) = "else"
  PROVE  Blocks(ts[k]) > 1
<1> DEFINE Bad == {x \in 1 .. Len(is) : is[x].op = "else" /\ Blocks(ts[x]) = 1}
<1>1. /\ Len(is) \in Nat /\ ts[1] = StartPoint(c)
      /\ \A x \in 1 .. Len(is) : GoodPoint(ts[x]) /\ Rule(c, is[x], ts[x])
  BY AcceptedHistory
<1>2. \A x \in 1 .. Len(is) : Blocks(ts[x]) \in Nat \ {0}
  BY <1>1, PointTyped
<1>3. ASSUME Bad # {}
      PROVE  FALSE
  <2>1. PICK x \in Bad : \A y \in Bad : x <= y
    <3>1. Bad \in SUBSET Nat
      BY <1>1
    <3> HIDE DEF Bad
    <3> QED
      BY <1>3, <3>1, FirstExists
  <2>2. x \in 1 .. Len(is) /\ is[x].op = "else" /\ Blocks(ts[x]) = 1
    BY <2>1
  <2>3. \A y \in 1 .. x - 1 : ~(is[y].op = "else" /\ Blocks(ts[y]) = 1)
    <3>1. \A y \in 1 .. x - 1 : y \in 1 .. Len(is) /\ ~(x <= y)
      BY <1>1, <2>2
    <3> QED
      BY <2>1, <3>1
  <2>4. OpenFrom(ts, 1, x, 1)
    <3>1. \A y \in 1 .. x : y \in 1 .. Len(is)
      BY <1>1, <2>2
    <3>2. \A y \in 1 .. x : 1 \in 1 .. Blocks(ts[y])
      BY <1>2, <3>1
    <3> QED
      BY <3>2 DEF OpenFrom, Blocks
  <2>5. OpcodeKept(is, ts, 1, x, 1)
    <3>1. 1 \in 1 .. x
      BY <1>1, <2>2
    <3>2. 1 \in 1 .. Len(ts[1].ctrls)
      BY <2>4, <3>1 DEF OpenFrom
    <3> QED
      BY <2>2, <2>4, <3>1, <3>2, AcceptedNesting
  <2>6. ts[1].ctrls[1].opcode = "call"
    BY <1>1 DEF StartPoint
  <2>7. ts[x].ctrls[1].opcode = "call"
    BY <2>3, <2>5, <2>6 DEF OpcodeKept, Blocks
  <2>8. Last(ts[x].ctrls) = ts[x].ctrls[1]
    BY <1>1, <2>2, PointTyped
  <2>9. Last(ts[x].ctrls).opcode = "if"
    BY <1>1, <2>2, Zenon DEF Rule
  <2> QED
    BY <2>7, <2>8, <2>9
<1>4. k \notin Bad
  BY <1>3
<1> QED
  BY <1>2, <1>4 DEF OpAt

(* The label of an open block, by its depth.                               *)
LEMMA LabelOf ==
  ASSUME NEW is, NEW ts, NEW ls \in Seq(Label), NEW base, NEW p, GoodPoint(p),
         LabelsFit(is, ts, ls, base, p), NEW j \in 2 .. Blocks(p)
  PROVE  /\ j - 1 \in 1 .. Len(ls) /\ ls[j - 1] \in Label
         /\ LabelFits(is, ts, ls[j - 1], base, p, j)
<1>1. Blocks(p) = Len(ls) + 1 /\ LabelFits(is, ts, ls[j - 1], base, p, j)
  BY DEF LabelsFit
<1>2. j - 1 \in 1 .. Len(ls)
  BY <1>1
<1>3. ls[j - 1] \in Label
  BY <1>2
<1> QED
  BY <1>1, <1>2, <1>3

(* The end of a then-arm goes on at the end of the block.                  *)
LEMMA ElseToEnd ==
  ASSUME NEW c, NEW is, NEW ts, Accepts(c, is, ts), NEW k \in 1 .. Len(is),
         NEW V \in Seq(ValType), NEW ls \in Seq(Label), NEW base \in Nat,
         Arrived(is, ts, k, V, ls, base), OpAt(is, k) = "else"
  PROVE  /\ ls # <<>>
         /\ Arrived(is, ts, Last(ls).pc, V, ls, base)
<1> DEFINE p == ts[k]
           n == Blocks(p)
           l == ls[n - 1]
           q == ts[l.pc]
<1> HIDE DEF Instruction
<1>1. /\ GoodPoint(p) /\ Rule(c, is[k], p) /\ is[k].op = "else"
      /\ LabelsFit(is, ts, ls, base, p)
  BY BodyPoint DEF Arrived, OpAt
<1>2. V = Vals(p) /\ Reach(p)
  BY Stands
<1>3. n > 1 /\ n \in Nat /\ n = Len(ls) + 1
  BY <1>1, ElseInside, PointTyped DEF LabelsFit
<1>4. ls # <<>> /\ Last(ls) = l /\ n \in 2 .. n
  <2>1. Len(<<>>) = 0
    OBVIOUS
  <2>2. Len(ls) = n - 1 /\ Len(ls) # 0
    BY <1>3
  <2> QED
    BY <1>3, <2>1, <2>2 DEF Last
<1>5. LabelFits(is, ts, l, base, p, n)
  BY <1>1, <1>4, LabelOf
<1>6. ~Looping(p, n)
  <2>1. Last(p.ctrls) = p.ctrls[n]
    BY <1>1, PointTyped
  <2>2. Last(p.ctrls).opcode = "if"
    BY <1>1, Zenon DEF Rule
  <2> QED
    BY <2>1, <2>2 DEF Looping
<1>7. /\ l.pc \in 1 .. Len(is) /\ OpAt(is, l.pc) = "end"
      /\ Blocks(q) = n /\ Same(p, q, n)
  BY <1>5, <1>6, Zenon DEF LabelFits
<1>8. GoodPoint(q)
  BY <1>7, BodyPoint
<1>9. LabelsFit(is, ts, ls, base, q)
  <2> HIDE DEF p, q
  <2> QED
    BY <1>1, <1>7, <1>8, LabelsKept DEF n
<1>10. V = Under(p, n) \o EndTypes(p, n)
  BY <1>1, <1>2, BlockResultsGiven
<1>11. Under(p, n) = Under(q, n) /\ EndTypes(p, n) = EndTypes(q, n)
  BY <1>1, <1>7, <1>8, SamePoints
<1>12. V = ExpectedAt(is, ts, l.pc)
  BY <1>7, <1>10, <1>11, Zenon DEF ExpectedAt
<1> HIDE DEF l
<1>13. Arrived(is, ts, l.pc, V, ls, base)
  BY <1>7, <1>9, <1>12 DEF Arrived
<1> QED
  BY <1>4, <1>13

(* An end finds the results of the block on top of what is under it.       *)
EndFound(p, n, V) ==
  /\ V = Under(p, n) \o EndTypes(p, n)
  /\ Height(p, n) \in 0 .. Len(V) /\ Len(EndTypes(p, n)) \in 0 .. Len(V)
  /\ Len(V) = Height(p, n) + Len(EndTypes(p, n))
  /\ SubSeq(V, 1, Height(p, n)) = Under(p, n)
  /\ TopN(V, Len(EndTypes(p, n))) = EndTypes(p, n)

LEMMA EndFinds ==
  ASSUME NEW c, NEW is, NEW ts, Accepts(c, is, ts), NEW k \in 1 .. Len(is),
         NEW V \in Seq(ValType), NEW ls \in Seq(Label), NEW base \in Nat,
         Arrived(is, ts, k, V, ls, base), OpAt(is, k) = "end"
  PROVE  EndFound(ts[k], Blocks(ts[k]), V)
<1> DEFINE p == ts[k]
           n == Blocks(p)
           U == Under(p, n)
           t == EndTypes(p, n)
           h == Height(p, n)
<1> HIDE DEF Instruction
<1>1. V = U \o t
  BY Zenon DEF Arrived, ExpectedAt
<1>2. GoodPoint(p)
  BY BodyPoint
<1>3. n \in 1 .. n
  BY <1>2, PointTyped
<1>4. t \in Seq(ValType) /\ U \in Seq(ValueType) /\ Len(U) = h /\ h \in Nat
  <2>1. /\ h \in 0 .. Len(Vals(p)) /\ t \in Seq(ValType)
        /\ U \in Seq(ValueType) /\ Len(U) = h
    BY <1>2, <1>3, BlockTyped
  <2> HIDE DEF h, t, U, p
  <2> QED
    BY <2>1
<1> HIDE DEF h, t, U, p
<1>5. Len(V) = h + Len(t) /\ h \in 0 .. Len(V) /\ Len(t) \in 0 .. Len(V)
  <2>1. t \in Seq(ValueType)
    BY <1>4 DEF ValueType
  <2>2. Len(U \o t) = Len(U) + Len(t)
    BY <1>4, <2>1, OnTop
  <2> QED
    BY <1>1, <1>4, <2>2
<1>6. SubSeq(V, 1, h) = U
  BY <1>1, <1>4
<1>7. TopN(V, Len(t)) = t
  <2>1. /\ TopN(V, Len(t)) \in Seq(ValType) /\ Len(TopN(V, Len(t))) = Len(t)
        /\ \A x \in 1 .. Len(t) : TopN(V, Len(t))[x] = V[Len(V) - Len(t) + x]
    BY <1>5, TopOf
  <2>2. \A x \in 1 .. Len(t) : V[h + x] = t[x]
    <3>1. t \in Seq(ValueType) /\ U \in Seq(ValueType)
      BY <1>4 DEF ValueType
    <3>2. \A x \in 1 .. Len(t) : (U \o t)[Len(U) + x] = t[x]
      BY <3>1, OnTop, SMTT(60)
    <3> QED
      BY <1>1, <1>4, <3>2, Zenon
  <2>3. \A x \in 1 .. Len(t) : Len(V) - Len(t) + x = h + x
    <3>1. Len(t) \in Nat /\ Len(V) \in Nat /\ h \in Nat
      BY <1>4, <1>5
    <3> QED
      BY <1>5, <3>1
  <2>4. \A x \in 1 .. Len(t) : TopN(V, Len(t))[x] = t[x]
    BY <2>1, <2>2, <2>3, Zenon
  <2> QED
    BY <1>4, <2>1, <2>4, SeqEqual
<1> QED
  BY <1>1, <1>5, <1>6, <1>7, Zenon DEF EndFound, h, t, U, p, n

(* The end of a block but the function's closes it.                        *)
EndKeeps(ls, base, V) ==
  /\ Last(ls).sp - base \in 0 .. Len(V) /\ Last(ls).end_arity \in 0 .. Len(V)
  /\ SubSeq(V, 1, Last(ls).sp - base) \o TopN(V, Last(ls).end_arity) = V

LEMMA EndOfBlock ==
  ASSUME NEW c, NEW is, NEW ts, Accepts(c, is, ts), NEW k \in 1 .. Len(is),
         NEW V \in Seq(ValType), NEW ls \in Seq(Label), NEW base \in Nat,
         Arrived(is, ts, k, V, ls, base), OpAt(is, k) = "end", ls # <<>>
  PROVE  /\ Arrived(is, ts, k + 1, V, Front(ls), base)
         /\ Last(ls).sp - base \in 0 .. Len(V)
         /\ Last(ls).end_arity \in 0 .. Len(V)
         /\ Len(V) - Last(ls).end_arity >= Last(ls).sp - base
         /\ EndKeeps(ls, base, V)
<1> DEFINE p == ts[k]
           n == Blocks(p)
           l == ls[n - 1]
           q == ts[k + 1]
           U == Under(p, n)
           t == EndTypes(p, n)
           h == Height(p, n)
<1> HIDE DEF Instruction
<1>1. /\ GoodPoint(p) /\ Rule(c, is[k], p) /\ is[k].op = "end"
      /\ LabelsFit(is, ts, ls, base, p)
  BY BodyPoint DEF Arrived, OpAt
<1>2. /\ V = U \o t /\ h \in 0 .. Len(V) /\ Len(t) \in 0 .. Len(V)
      /\ Len(V) = h + Len(t) /\ SubSeq(V, 1, h) = U /\ TopN(V, Len(t)) = t
  <2>1. EndFound(p, n, V)
    BY EndFinds
  <2> QED
    BY <2>1, Zenon DEF EndFound
<1>3. n > 1 /\ n \in Nat /\ n = Len(ls) + 1
  <2>1. n = Len(ls) + 1
    BY <1>1 DEF LabelsFit
  <2>2. Len(ls) \in Nat \ {0}
    OBVIOUS
  <2> HIDE DEF n
  <2> QED
    BY <2>1, <2>2
<1>4. Last(ls) = l /\ n \in 2 .. n /\ Front(ls) = SubSeq(ls, 1, (n - 1) - 1)
  <2>1. Len(ls) = n - 1
    BY <1>3
  <2> QED
    BY <1>3, <2>1 DEF Last, Front
<1>5. LabelFits(is, ts, l, base, p, n) /\ l \in Label
  BY <1>1, <1>4, LabelOf
<1>6. l.sp = base + h /\ l.end_arity = Len(t) /\ Entered(p, n)
  BY <1>5, Zenon DEF LabelFits
<1>7. k + 1 \in 1 .. Len(is)
  BY <1>3, BodyPoint
<1>8. /\ GoodPoint(q) /\ MovesFrames(is[k], p, q)
      /\ Blocks(q) = n + Delta(is[k])
      /\ \A j \in 1 .. n : j <= Blocks(q) => Same(p, q, j)
  BY <1>7, BodyPoint, NextBlocks
<1>9. Frames(q) = Outer(p, n) /\ Vals(q) = V
  BY <1>1, <1>2, <1>8, ClosesBlockAt
<1>10. Blocks(q) = n - 1 /\ n - 1 \in Nat \ {0} /\ Same(p, q, n - 1)
  <2>1. Delta(is[k]) = -1
    BY <1>1 DEF Delta, OpenOps
  <2> HIDE DEF n, p, q
  <2>2. Blocks(q) = n - 1 /\ n - 1 \in 1 .. n /\ n - 1 <= Blocks(q)
    BY <1>3, <1>8, <2>1
  <2> QED
    BY <1>3, <1>8, <2>2
<1>11. LabelsFit(is, ts, Front(ls), base, q)
  <2> HIDE DEF n, p, q
  <2> QED
    BY <1>1, <1>4, <1>8, <1>10, LabelsMove
<1>12. Reach(q)
  <2>1. Last(q.ctrls) = q.ctrls[Blocks(q)]
    BY <1>8, PointTyped
  <2>2. q.ctrls[n - 1] = p.ctrls[n - 1]
    <3> DEFINE P == Frames(p)
    <3>1. q.ctrls = SubSeq(P, 1, n - 1)
      BY <1>9, Zenon DEF Frames, Outer
    <3>2. P \in Seq(Ctrl) /\ Len(P) = n
      BY <1>1, PointTyped
    <3> HIDE DEF P, n
    <3>3. n - 1 \in 0 .. Len(P) /\ n - 1 \in 1 .. n - 1
      BY <1>3, <3>2
    <3>4. SubSeq(P, 1, n - 1)[n - 1] = P[n - 1]
      BY <3>2, <3>3, Prefix
    <3> QED
      BY <3>1, <3>4 DEF P, Frames
  <2> QED
    BY <1>6, <1>10, <2>1, <2>2, Zenon DEF Reach, Entered
<1>13. Arrived(is, ts, k + 1, V, Front(ls), base)
  BY <1>7, <1>9, <1>11, <1>12, Arrives
<1>14. Last(ls).sp - base = h /\ Last(ls).end_arity = Len(t)
  <2>1. h \in Nat
    <3> HIDE DEF h
    <3> QED
      BY <1>2
  <2> HIDE DEF h
  <2> QED
    BY <1>4, <1>6, <2>1
<1> HIDE DEF h, t, U
<1>15. Len(V) - Len(t) >= h
  BY <1>2
<1>16. EndKeeps(ls, base, V)
  BY <1>2, <1>14, Zenon DEF EndKeeps
<1> QED
  BY <1>2, <1>13, <1>14, <1>15, <1>16

(* The top of a sum is its second part.                                    *)
LEMMA TopExact ==
  ASSUME NEW S, NEW B \in Seq(S), NEW V \in Seq(S)
  PROVE  TopN(B \o V, Len(V)) = V
<1>1. TopN(B \o V, Len(V)) = TopN(V, Len(V))
  BY TopOfSum
<1>2. Len(V) - Len(V) + 1 = 1
  OBVIOUS
<1> QED
  BY <1>1, <1>2, SubSeqFull DEF TopN

(* The results of the function of body c.                                  *)
ResultsOf(c) == At(Types, Funcs[c].type).results

(* The outermost block of a body is the function.                          *)
LEMMA FunctionBlock ==
  ASSUME NEW c, NEW is, NEW ts, Accepts(c, is, ts), NEW k \in 1 .. Len(is)
  PROVE  /\ EndTypes(ts[k], 1) = ResultsOf(c) /\ Carries(ts[k], 1) = ResultsOf(c)
         /\ Height(ts[k], 1) = 0 /\ ~Looping(ts[k], 1)
         /\ ResultsOf(c) \in Seq(ValType)
<1> HIDE DEF Instruction
<1>1. /\ ts[k].ctrls[1].end = At(Types, Funcs[c].type).results
      /\ ts[k].ctrls[1].height = 0 /\ ts[k].ctrls[1].opcode # "loop"
  BY OuterFrame
<1>2. /\ EndTypes(ts[k], 1) = ResultsOf(c) /\ Height(ts[k], 1) = 0 /\ ~Looping(ts[k], 1)
  BY <1>1, Zenon DEF EndTypes, ResultsOf, Height, Looping
<1>3. Carries(ts[k], 1) = ResultsOf(c)
  BY <1>2, Zenon DEF Carries, EndTypes
<1>4. GoodPoint(ts[k])
  BY BodyPoint
<1>5. 1 \in 1 .. Blocks(ts[k])
  BY <1>4, PointTyped
<1> QED
  BY <1>2, <1>3, <1>4, <1>5, BlockTyped

(* The block m levels out, and what is left of operands below some.        *)
BlockAt(p, m)  == Blocks(p) - m
Below(V, more) == SubSeq(V, 1, Len(V) - Len(more))

BranchFound(p, V, j, W, more) ==
  /\ j \in 1 .. Blocks(p) /\ W \in Seq(ValType) /\ V = W \o more
  /\ Len(more) \in 0 .. Len(V) /\ Len(W) = Len(V) - Len(more)
  /\ Len(Carries(p, j)) \in 0 .. Len(W) /\ Height(p, j) \in 0 .. Len(W)
  /\ Len(W) - Len(Carries(p, j)) >= Height(p, j)
  /\ SubSeq(W, 1, Height(p, j)) = Under(p, j)
  /\ TopN(W, Len(Carries(p, j))) = Carries(p, j)

(* What a branch out of m blocks finds: what the block carries, on top of  *)
(* at least what was below the block.                                      *)
LEMMA BranchFinds ==
  ASSUME NEW p, GoodPoint(p), NEW V \in Seq(ValType), V = Vals(p),
         NEW m \in Nat, NEW more \in Seq(ValType), Branches(p, m, more),
         NEW j, j = BlockAt(p, m), NEW W, W = Below(V, more)
  PROVE  BranchFound(p, V, j, W, more)
<1> DEFINE n == Blocks(p)
           t == Carries(p, j)
           h == Height(p, j)
           u == t \o more
           U == SubSeq(V, 1, Len(V) - Len(u))
<1>1. m < n /\ Gives(p, LabelAt(p, m) \o more) /\ n \in Nat
  BY PointTyped DEF Branches, Blocks
<1>2. j \in 1 .. n /\ n \in 1 .. n
  <2>1. j = n - m
    BY DEF BlockAt
  <2> HIDE DEF n
  <2> QED
    BY <1>1, <2>1
<1>3. LabelAt(p, m) = t
  BY Zenon DEF BlockAt, LabelAt, Carries, Looping, Blocks
<1>4. /\ h \in 0 .. Len(V) /\ h <= Height(p, n) /\ t \in Seq(ValType)
      /\ Under(p, j) = SubSeq(V, 1, h)
  BY <1>2, BlockTyped
<1>5. Height(p, n) \in 0 .. Len(V)
  BY <1>2, BlockTyped
<1> HIDE DEF t, h, n
<1>6. u \in Seq(ValType) /\ Len(u) = Len(t) + Len(more)
  BY <1>4
<1>7. /\ Len(u) \in 0 .. Len(V) /\ Height(p, n) <= Len(V) - Len(u)
      /\ U \in Seq(ValType) /\ V = U \o u
  <2>1. Gives(p, u)
    BY <1>1, <1>3
  <2> HIDE DEF u
  <2> QED
    BY <1>6, <2>1, TopGiven DEF n
<1>8. Len(U) = Len(V) - Len(u) /\ h \in 0 .. Len(U)
  <2> HIDE DEF u, U
  <2>1. Len(U \o u) = Len(U) + Len(u) /\ Len(U) \in Nat
    <3>1. u \in Seq(ValType) /\ U \in Seq(ValType)
      BY <1>6, <1>7, Zenon
    <3> QED
      BY <3>1
  <2>2. Len(U) = Len(V) - Len(u)
    <3>1. Len(V) = Len(U) + Len(u) /\ Len(u) \in Nat
      BY <1>6, <1>7, <2>1
    <3> QED
      BY <2>1, <3>1
  <2> QED
    BY <1>4, <1>5, <1>7, <2>2
<1> HIDE DEF U
<1>9. V = (U \o t) \o more /\ U \o t \in Seq(ValType)
  BY <1>4, <1>7, SMTT(40)
<1> DEFINE X == U \o t
<1>10. X \in Seq(ValType) /\ V = X \o more /\ Len(X) = Len(U) + Len(t)
  BY <1>4, <1>7, <1>9
<1>11. TopN(X, Len(t)) = t
  BY <1>4, <1>7, TopExact
<1>12. SubSeq(X, 1, h) = SubSeq(U, 1, h)
  BY <1>4, <1>7, <1>8, SubSeqBelow
<1>13. SubSeq(V, 1, h) = SubSeq(U, 1, h)
  BY <1>6, <1>7, <1>8, SubSeqBelow
<1> HIDE DEF X, u
<1>14. W = X
  BY <1>10 DEF Below
<1>15. /\ Len(t) \in 0 .. Len(X) /\ h \in 0 .. Len(X) /\ Len(X) - Len(t) >= h
       /\ Len(more) \in 0 .. Len(V) /\ Len(X) = Len(V) - Len(more)
  <2>1. Len(t) \in Nat /\ Len(U) \in Nat /\ Len(more) \in Nat /\ Len(V) = Len(X) + Len(more)
    <3>1. Len(X \o more) = Len(X) + Len(more)
      BY <1>10, OnTop
    <3> QED
      BY <1>4, <1>7, <1>10, <3>1
  <2> QED
    BY <1>8, <1>10, <2>1
<1> QED
  BY <1>2, <1>4, <1>10, <1>11, <1>12, <1>13, <1>14, <1>15, Zenon DEF n, t, h, BranchFound

(* A branch to a block goes on where its label says, with what the block   *)
(* carries on top of what was below it, and out of all the blocks inside.  *)
BranchArrives(c, is, ts, ls, base, m, W) ==
  /\ m \in 0 .. Len(ls) /\ W \in Seq(ValType)
  /\ m < Len(ls) =>
       LET l == ls[Len(ls) - m]
       IN  /\ l.sp - base \in 0 .. Len(W) /\ l.br_arity \in 0 .. Len(W)
           /\ Len(W) - l.br_arity >= l.sp - base
           /\ Arrived(is, ts, l.pc + 1,
                      SubSeq(W, 1, l.sp - base) \o TopN(W, l.br_arity),
                      SubSeq(ls, 1, Len(ls) - m - 1), base)
  /\ m = Len(ls) =>
       /\ Len(ResultsOf(c)) \in 0 .. Len(W)
       /\ TopN(W, Len(ResultsOf(c))) = ResultsOf(c)

LEMMA BranchesTo ==
  ASSUME NEW c, NEW is, NEW ts, Accepts(c, is, ts), NEW k \in 1 .. Len(is),
         NEW V \in Seq(ValType), NEW ls \in Seq(Label), NEW base \in Nat,
         Arrived(is, ts, k, V, ls, base), OpAt(is, k) # "end",
         NEW m \in Nat, NEW more \in Seq(ValType), Branches(ts[k], m, more)
  PROVE  /\ BranchArrives(c, is, ts, ls, base, m, Below(V, more))
         /\ V = Below(V, more) \o more
<1> DEFINE p == ts[k]
           n == Blocks(p)
           j == n - m
           W == SubSeq(V, 1, Len(V) - Len(more))
           l == ls[Len(ls) - m]
           h == Height(p, j)
           t == Carries(p, j)
<1> HIDE DEF Instruction
<1>1. GoodPoint(p) /\ LabelsFit(is, ts, ls, base, p)
  BY BodyPoint DEF Arrived
<1>2. V = Vals(p) /\ Reach(p)
  BY Stands
<1>3. n = Len(ls) + 1 /\ Len(ls) \in Nat
  BY <1>1 DEF LabelsFit
<1>4. /\ j \in 1 .. n /\ W \in Seq(ValType) /\ V = W \o more
      /\ Len(t) \in 0 .. Len(W) /\ h \in 0 .. Len(W) /\ Len(W) - Len(t) >= h
      /\ SubSeq(W, 1, h) = Under(p, j) /\ TopN(W, Len(t)) = t
  <2>1. j = BlockAt(p, m) /\ W = Below(V, more) /\ Branches(p, m, more)
    BY DEF BlockAt, Below
  <2> HIDE DEF p, j, W
  <2>2. BranchFound(p, V, j, W, more)
    BY <1>1, <1>2, <2>1, BranchFinds
  <2> QED
    BY <2>2, Zenon DEF BranchFound, n, t, h
<1> HIDE DEF W, t, h
<1>5. m <= Len(ls) /\ Len(ls) - m = j - 1
  <2> HIDE DEF n
  <2> QED
    BY <1>3, <1>4
<1>6. ASSUME m < Len(ls)
      PROVE  /\ Len(ls) - m \in 1 .. Len(ls)
             /\ l.sp - base \in 0 .. Len(W) /\ l.br_arity \in 0 .. Len(W)
             /\ Len(W) - l.br_arity >= l.sp - base
             /\ Arrived(is, ts, l.pc + 1,
                        SubSeq(W, 1, l.sp - base) \o TopN(W, l.br_arity),
                        SubSeq(ls, 1, Len(ls) - m - 1), base)
  <2>1. j \in 2 .. n /\ j - 1 \in Nat \ {0} /\ Len(ls) - m \in 1 .. Len(ls)
    <3> HIDE DEF n
    <3> QED
      BY <1>3, <1>4, <1>6, SMTT(40)
  <2>2. l = ls[j - 1] /\ LabelFits(is, ts, l, base, p, j) /\ l \in Label
    BY <1>1, <1>5, <2>1, LabelOf
  <2> DEFINE q == ts[l.pc + 1]
  <2>3. /\ l.sp = base + h /\ l.br_arity = Len(t) /\ Entered(p, j)
        /\ l.pc + 1 \in 1 .. Len(is) /\ Frames(q) = Outer(p, j)
        /\ Vals(q) = Under(p, j) \o t
    BY <2>2, Zenon DEF LabelFits, h, t
  <2>4. GoodPoint(q)
    BY <2>3, BodyPoint
  <2>5. l.sp - base = h
    BY <1>4, <2>3, SMTT(60)
  <2>6. Vals(q) = SubSeq(W, 1, l.sp - base) \o TopN(W, l.br_arity)
    <3>1. SubSeq(W, 1, l.sp - base) = Under(p, j)
      BY <1>4, <2>5, Zenon
    <3>2. TopN(W, l.br_arity) = t
      BY <1>4, <2>3, Zenon
    <3> QED
      BY <2>3, <3>1, <3>2, Zenon
  <2>7. Vals(q) \in Seq(ValType)
    <3> DEFINE A == SubSeq(W, 1, h)
               C == TopN(W, Len(t))
    <3>1. A \in Seq(ValType) /\ C \in Seq(ValType)
      BY <1>4, Prefix, TopOf
    <3>2. Vals(q) = A \o C
      BY <2>3, <2>5, <2>6
    <3> HIDE DEF A, C, q
    <3> QED
      BY <3>1, <3>2
  <2> DEFINE P == Frames(p)
             Q == Frames(q)
             i == j - 1
  <2>8. P \in Seq(Ctrl) /\ Len(P) = n /\ Q \in Seq(Ctrl) /\ Len(Q) = Blocks(q)
    BY <1>1, <2>4, PointTyped
  <2>9. Q = SubSeq(P, 1, i)
    BY <2>3, Zenon DEF Outer, Frames
  <2> HIDE DEF P, Q, i, j
  <2>10. i \in 1 .. n /\ i \in 0 .. n /\ i \in 1 .. i /\ i \in Nat \ {0}
    BY <1>3, <2>1 DEF i
  <2>11. Len(Q) = i /\ \A x \in 1 .. i : Q[x] = P[x]
    BY <2>8, <2>9, <2>10, Prefix
  <2>12. Blocks(q) = i
    BY <2>8, <2>11
  <2>13. \A x \in 1 .. i : p.ctrls[x] = q.ctrls[x]
    BY <2>11 DEF P, Q, Frames
  <2>14. \A x \in 1 .. Height(p, i) : Vals(p)[x] = Vals(q)[x]
    <3>1. Height(p, i) <= h /\ Height(p, i) \in Nat
      <4>1. \A a, b \in 1 .. Blocks(p) : a <= b => Height(p, a) <= Height(p, b)
        BY <1>1 DEF GoodPoint, Height, Blocks
      <4>2. i <= j /\ j \in 1 .. Blocks(p)
        BY <2>1, <1>4, SMTT(60) DEF i, j
      <4>3. Height(p, i) \in 0 .. Len(Vals(p))
        BY <1>1, <2>10, BlockTyped
      <4> QED
        BY <2>10, <4>1, <4>2, <4>3 DEF h
    <3>2. Under(p, j) = SubSeq(Vals(p), 1, h)
      BY Zenon DEF Under, Vals, h, Height
    <3>3. h \in 0 .. Len(Vals(p)) /\ Vals(p) \in Seq(ValType)
      <4>1. j \in 1 .. Blocks(p)
        BY <1>4 DEF j
      <4>2. h \in 0 .. Len(Vals(p))
        BY <1>1, <4>1, BlockTyped DEF h
      <4> QED
        BY <1>2, <4>2
    <3> DEFINE A == SubSeq(Vals(p), 1, h)
    <3>4. A \in Seq(ValType) /\ Len(A) = h /\ \A x \in 1 .. h : A[x] = Vals(p)[x]
      BY <3>3, Prefix
    <3>5. Vals(q) = A \o t /\ t \in Seq(ValType)
      <4>1. TopN(W, Len(t)) \in Seq(ValType)
        BY <1>4, TopOf
      <4> QED
        BY <1>4, <2>3, <3>2, <4>1
    <3> HIDE DEF A
    <3>6. \A x \in 1 .. h : Vals(q)[x] = A[x]
      BY <3>4, <3>5
    <3>7. \A x \in 1 .. Height(p, i) : x \in 1 .. h
      BY <1>4, <3>1
    <3> QED
      BY <3>4, <3>6, <3>7
  <2>15. Same(p, q, i)
    <3>1. i \in 1 .. Blocks(p) /\ i \in 1 .. Blocks(q)
      BY <2>10, <2>12
    <3>2. \A x \in 1 .. i - 1 : x \in 1 .. i
      BY <2>10
    <3>3. p.ctrls[i] = q.ctrls[i] /\ \A x \in 1 .. i - 1 : p.ctrls[x] = q.ctrls[x]
      BY <2>10, <2>13, <3>2
    <3> HIDE DEF p, q
    <3> QED
      BY <2>14, <3>1, <3>3, Zenon DEF Same, Blocks, Height, Vals
  <2>16. LabelsFit(is, ts, SubSeq(ls, 1, i - 1), base, q)
    <3> HIDE DEF p, q
    <3> QED
      BY <1>1, <2>4, <2>10, <2>12, <2>15, LabelsMove
  <2>17. Reach(q)
    <3>1. Last(q.ctrls) = q.ctrls[i] /\ q.ctrls[i] = p.ctrls[i]
      BY <2>4, <2>10, <2>12, <2>13, PointTyped
    <3> QED
      BY <2>3, <3>1, Zenon DEF Reach, Entered, i
  <2>18. Arrived(is, ts, l.pc + 1, Vals(q), SubSeq(ls, 1, i - 1), base)
    BY <2>3, <2>7, <2>16, <2>17, Arrives
  <2>19. Len(ls) - m - 1 = i - 1
    BY <1>5 DEF i, j
  <2> HIDE DEF q, l
  <2> QED
    BY <1>4, <2>1, <2>3, <2>5, <2>6, <2>18, <2>19
<1>7. ASSUME m = Len(ls)
      PROVE  /\ Len(ResultsOf(c)) \in 0 .. Len(W)
             /\ TopN(W, Len(ResultsOf(c))) = ResultsOf(c)
  <2>1. j = 1
    BY <1>3, <1>7
  <2>2. t = ResultsOf(c)
    BY <2>1, FunctionBlock DEF t
  <2> QED
    BY <1>4, <2>2
<1>8. m \in 0 .. Len(ls)
  BY <1>3, <1>5
<1>9. W = Below(V, more)
  BY DEF Below, W
<1>10. BranchArrives(c, is, ts, ls, base, m, W)
  BY <1>4, <1>6, <1>7, <1>8, Zenon DEF BranchArrives
<1> QED
  BY <1>4, <1>9, <1>10, Zenon

(* A body starts without operands and without labels.                      *)
LEMMA Starts ==
  ASSUME NEW c, NEW is, NEW ts, Accepts(c, is, ts), NEW base
  PROVE  Arrived(is, ts, 1, <<>>, <<>>, base)
<1> HIDE DEF Instruction
<1>1. Len(is) \in Nat \ {0} /\ ts[1] = StartPoint(c)
  BY AcceptedHistory
<1>2. 1 \in 1 .. Len(is)
  BY <1>1
<1>3. /\ Vals(ts[1]) = <<>> /\ Reach(ts[1]) /\ Blocks(ts[1]) = 1
  BY <1>1 DEF StartPoint, Vals, Reach, Blocks, Last
<1>4. LabelsFit(is, ts, <<>>, base, ts[1])
  <2>1. Len(<<>>) = 0 /\ 2 .. 1 = {}
    OBVIOUS
  <2>2. 2 .. Blocks(ts[1]) = {} /\ Blocks(ts[1]) = Len(<<>>) + 1
    BY <1>3, <2>1
  <2> QED
    BY <2>2, Zenon DEF LabelsFit
<1>5. <<>> \in Seq(ValType)
  OBVIOUS
<1>6. Arrived(is, ts, 1, Vals(ts[1]), <<>>, base)
  <2>1. Vals(ts[1]) \in Seq(ValType)
    BY <1>3, <1>5
  <2> QED
    BY <1>2, <1>3, <1>4, <2>1, Arrives
<1> QED
  BY <1>3, <1>6

(* A return has the results of the function on top.                        *)
LEMMA Returns ==
  ASSUME NEW c, NEW is, NEW ts, Accepts(c, is, ts), NEW k \in 1 .. Len(is),
         NEW V \in Seq(ValType), NEW ls, NEW base,
         Arrived(is, ts, k, V, ls, base), OpAt(is, k) = "return"
  PROVE  /\ Len(ResultsOf(c)) \in 0 .. Len(V)
         /\ TopN(V, Len(ResultsOf(c))) = ResultsOf(c)
<1> HIDE DEF Instruction
<1>1. V = Vals(ts[k]) /\ Reach(ts[k])
  BY Stands
<1>2. GoodPoint(ts[k]) /\ Rule(c, is[k], ts[k])
  BY BodyPoint
<1>3. EndTypes(ts[k], 1) = ResultsOf(c) /\ ResultsOf(c) \in Seq(ValType)
  BY FunctionBlock
<1>4. Gives(ts[k], ResultsOf(c))
  <2>1. Gives(ts[k], ts[k].ctrls[1].end)
    BY <1>1, <1>2, Zenon DEF Rule, OpAt
  <2> QED
    BY <1>3, <2>1, Zenon DEF EndTypes
<1> QED
  BY <1>1, <1>2, <1>3, <1>4, TopGiven

(* The end of a function has its results and nothing else.                 *)
LEMMA EndOfFunction ==
  ASSUME NEW c, NEW is, NEW ts, Accepts(c, is, ts), NEW k \in 1 .. Len(is),
         NEW V \in Seq(ValType), NEW base \in Nat,
         Arrived(is, ts, k, V, <<>>, base), OpAt(is, k) = "end"
  PROVE  V = ResultsOf(c)
<1> DEFINE p == ts[k]
           n == Blocks(p)
<1> HIDE DEF Instruction
<1>1. n = 1
  <2>1. Len(<<>>) = 0
    OBVIOUS
  <2> QED
    BY <2>1 DEF Arrived, LabelsFit
<1>2. EndTypes(p, 1) = ResultsOf(c) /\ Height(p, 1) = 0
  BY FunctionBlock
<1>3. /\ V = Under(p, n) \o EndTypes(p, n)
      /\ SubSeq(V, 1, Height(p, n)) = Under(p, n)
      /\ Len(V) = Height(p, n) + Len(EndTypes(p, n))
      /\ TopN(V, Len(EndTypes(p, n))) = EndTypes(p, n)
  <2>1. <<>> \in Seq(Label)
    OBVIOUS
  <2>2. EndFound(p, n, V)
    BY <2>1, EndFinds
  <2> QED
    BY <2>2, Zenon DEF EndFound
<1>4. TopN(V, Len(V)) = V
  <2>1. Len(V) - Len(V) + 1 = 1
    OBVIOUS
  <2> QED
    BY <2>1, SubSeqFull DEF TopN
<1> DEFINE R == ResultsOf(c)
<1>5. Len(V) = 0 + Len(R) /\ TopN(V, Len(R)) = R
  BY <1>1, <1>2, <1>3
<1> HIDE DEF R
<1>6. Len(R) = Len(V)
  BY <1>5
<1> QED
  BY <1>4, <1>5, <1>6 DEF R

-----------------------------------------------------------------------------
(* Operators: instructions that only pop and push.                         *)

(* Short sequences of types of values.                                     *)
LEMMA ValTuples ==
  /\ <<>> \in Seq(ValType)
  /\ \A a \in ValType : <<a>> \in Seq(ValType)
  /\ \A a, b \in ValType : <<a, b>> \in Seq(ValType)
  /\ \A a, b, d \in ValType : <<a, b, d>> \in Seq(ValType)
  OBVIOUS

(* The types of values every operator may mention.                         *)
LEMMA SomeValTypes ==
  /\ "i32" \in ValType /\ "funcref" \in ValType /\ Unknown \notin ValType
  /\ NumType \subseteq ValType /\ RefType \subseteq ValType
  BY DEF ValType, NumType, RefType, Unknown

(* A defined function, its type and its locals.                            *)
LEMMA FunctionOf ==
  ASSUME NEW c \in 1 .. Len(Funcs)
  PROVE  /\ LocalTypes(c) \in Seq(ValType) /\ ResultsOf(c) \in Seq(ValType)
         /\ At(Types, Funcs[c].type).params \in Seq(ValType)
         /\ Funcs[c].locals \in Seq(ValType)
         /\ Len(Imports) + c - 1 \in Len(Imports) .. FuncCount - 1
         /\ FuncTypeOf(Len(Imports) + c - 1) = At(Types, Funcs[c].type)
<1> DEFINE R == [type : 0 .. Len(Types) - 1, locals : Seq(ValType)]
<1>1. Funcs \in Seq(R) /\ Len(Imports) \in Nat /\ Len(Funcs) \in Nat
  BY ModuleAssumption
<1>2. \A r \in R : r.type \in 0 .. Len(Types) - 1 /\ r.locals \in Seq(ValType)
  OBVIOUS
<1> HIDE DEF R
<1>3. Funcs[c].type \in 0 .. Len(Types) - 1 /\ Funcs[c].locals \in Seq(ValType)
  BY <1>1, <1>2
<1>4. At(Types, Funcs[c].type) \in FuncType
  BY <1>3, TypeAt
<1>5. At(Types, Funcs[c].type).params \in Seq(ValType) /\ ResultsOf(c) \in Seq(ValType)
  BY <1>4 DEF FuncType, ResultsOf
<1>6. LocalTypes(c) \in Seq(ValType)
  BY <1>3, <1>5 DEF LocalTypes
<1>7. Len(Imports) + c - 1 \in Len(Imports) .. FuncCount - 1
  BY <1>1 DEF FuncCount
<1>8. FuncTypeOf(Len(Imports) + c - 1) = At(Types, Funcs[c].type)
  <2>1. /\ ~(Len(Imports) + c - 1 < Len(Imports))
        /\ (Len(Imports) + c - 1) - Len(Imports) + 1 = c
    BY <1>1
  <2> QED
    BY <2>1 DEF FuncTypeOf, FuncTypeIdx, At
<1> QED
  BY <1>3, <1>5, <1>6, <1>7, <1>8

(* What the indices of an operator refer to, once they are checked.        *)
LEMMA IndexedValTypes ==
  ASSUME NEW c \in 1 .. Len(Funcs), NEW i \in Instruction, Immediates(c, i)
  PROVE  /\ i.op \in {"local.get", "local.set", "local.tee"} =>
              LocalType(c, i.x) \in ValType
         /\ i.op \in {"global.get", "global.set"} =>
              At(Globals, i.x).type \in ValType
         /\ i.op \in {"table.get", "table.set", "table.size", "table.grow",
                       "table.fill"} => At(Tables, i.x) \in RefType
         /\ i.op = "call" => FuncTypeOf(i.x) \in FuncType
         /\ i.op = "call_indirect" => At(Types, i.x) \in FuncType
<1>1. i.op \in {"local.get", "local.set", "local.tee"} =>
        LocalType(c, i.x) \in ValType
  <2>1. LocalTypes(c) \in Seq(ValType)
    BY FunctionOf
  <2> HIDE DEF Instruction
  <2> QED
    BY <2>1 DEF Immediates, InRange, LocalType, At
<1>2. i.op \in {"global.get", "global.set"} => At(Globals, i.x).type \in ValType
  <2> DEFINE G == [type : ValType, mut : BOOLEAN]
  <2>1. Globals \in Seq(G)
    BY ModuleAssumption
  <2>2. \A g \in G : g.type \in ValType
    OBVIOUS
  <2> HIDE DEF G, Instruction
  <2> QED
    BY <2>1, <2>2 DEF Immediates, InRange, At
<1>3. i.op \in {"table.get", "table.set", "table.size", "table.grow",
                "table.fill"} => At(Tables, i.x) \in RefType
  BY ModuleAssumption, SMTT(40) DEF Immediates, InRange, At
<1>4. i.op = "call" => FuncTypeOf(i.x) \in FuncType
  BY IndexImmediate, FuncTypes DEF IndexOps, Immediates
<1>5. i.op = "call_indirect" => At(Types, i.x) \in FuncType
  BY TypeAt, Zenon DEF Immediates, InRange
<1> QED
  BY <1>1, <1>2, <1>3, <1>4, <1>5

(* All but drop say which types of values they pop.                        *)
LEMMA InsValTyped ==
  ASSUME NEW c \in 1 .. Len(Funcs), NEW i \in Instruction, Immediates(c, i),
         i.op # "drop"
  PROVE  Ins(c, i) \in Seq(ValType)
<1> DEFINE op == i.op
<1>1. CASE op \in {"unop", "testop", "binop", "relop", "cvtop", "store"}
  BY <1>1, TypeImmediate, SomeValTypes, ValTuples DEF Ins, NumOps
<1>2. CASE op \in {"local.set", "local.tee", "global.set", "table.set",
                   "table.grow", "table.fill"}
  BY <1>2, IndexedValTypes, SomeValTypes, ValTuples DEF Ins
<1>3. CASE op = "select_t"
  <2>1. i.ts \in Seq(ValType) /\ Len(i.ts) = 1
    BY <1>3, TypeImmediate DEF Immediates
  <2>2. i.ts[1] \in ValType
    BY <2>1
  <2> QED
    BY <1>3, <2>2, SomeValTypes, ValTuples DEF Ins
<1>4. CASE op = "call"
  BY <1>4, IndexedValTypes DEF Ins, FuncType
<1>5. CASE op = "call_indirect"
  <2>1. At(Types, i.x).params \in Seq(ValType)
    BY <1>5, IndexedValTypes DEF FuncType
  <2> QED
    BY <1>5, <2>1, SomeValTypes DEF Ins
<1>6. CASE op \in {"load", "memory.grow", "table.get", "memory.init",
                   "memory.copy", "memory.fill", "table.init", "table.copy"}
  BY <1>6, SomeValTypes, ValTuples DEF Ins
<1>7. CASE op \notin {"unop", "testop", "binop", "relop", "cvtop", "store",
                      "local.set", "local.tee", "global.set", "table.set",
                      "table.grow", "table.fill", "select_t", "call",
                      "call_indirect", "load", "memory.grow", "table.get",
                      "memory.init", "memory.copy", "memory.fill",
                      "table.init", "table.copy", "drop"}
  BY <1>7, ValTuples DEF Ins
<1> QED
  BY <1>1, <1>2, <1>3, <1>4, <1>5, <1>6, <1>7

(* All operators push values.                                              *)
LEMMA OutsValTyped ==
  ASSUME NEW c \in 1 .. Len(Funcs), NEW i \in Instruction, Immediates(c, i)
  PROVE  Outs(c, i) \in Seq(ValType)
<1> DEFINE op == i.op
<1>1. CASE op \in {"const", "unop", "binop", "load", "ref.null", "cvtop"}
  BY <1>1, TypeImmediate, SomeValTypes, ValTuples DEF Outs, NumOps
<1>2. CASE op \in {"local.get", "local.tee", "global.get", "table.get"}
  BY <1>2, IndexedValTypes, SomeValTypes, ValTuples DEF Outs
<1>3. CASE op = "select_t"
  BY <1>3, TypeImmediate DEF Outs
<1>4. CASE op \in {"call", "call_indirect"}
  BY <1>4, IndexedValTypes DEF Outs, FuncType
<1>5. CASE op \in {"testop", "relop", "memory.size", "memory.grow",
                   "table.size", "table.grow", "ref.func"}
  BY <1>5, SomeValTypes, ValTuples DEF Outs
<1>6. CASE op \notin {"const", "unop", "binop", "load", "ref.null", "cvtop",
                      "local.get", "local.tee", "global.get", "table.get",
                      "select_t", "call", "call_indirect", "testop", "relop",
                      "memory.size", "memory.grow", "table.size",
                      "table.grow", "ref.func"}
  BY <1>6, ValTuples DEF Outs
<1> QED
  BY <1>1, <1>2, <1>3, <1>4, <1>5, <1>6

(* A pop that succeeds has the operands it takes.                          *)
LEMMA EnoughGiven ==
  ASSUME NEW p, GoodPoint(p), Vals(p) \in Seq(ValType), NEW t, Len(t) \in Nat,
         Gives(p, t)
  PROVE  /\ Len(t) \in 0 .. Len(Vals(p))
         /\ SubSeq(Vals(p), 1, Len(Vals(p)) - Len(t)) \in Seq(ValType)
         /\ Len(SubSeq(Vals(p), 1, Len(Vals(p)) - Len(t))) = Len(Vals(p)) - Len(t)
<1> DEFINE V == Vals(p)
           n == Len(t)
<1>1. n <= Len(V) - Height(p, Blocks(p))
  <2>1. n <= Len(p.vals) - Last(p.ctrls).height
    BY Zenon DEF Gives
  <2>2. Last(p.ctrls) = p.ctrls[Blocks(p)]
    BY PointTyped
  <2>3. Last(p.ctrls).height = Height(p, Blocks(p)) /\ Len(p.vals) = Len(V)
    BY <2>2, Zenon DEF Height, Vals
  <2> QED
    BY <2>1, <2>3
<1>2. Height(p, Blocks(p)) \in 0 .. Len(V)
  <2>1. Blocks(p) \in 1 .. Blocks(p)
    BY PointTyped
  <2> QED
    BY <2>1, BlockTyped
<1>3. V \in Seq(ValType) /\ n \in Nat
  OBVIOUS
<1> HIDE DEF V, n
<1>4. n \in 0 .. Len(V) /\ Len(V) - n \in 0 .. Len(V)
  BY <1>1, <1>2, <1>3
<1>5. /\ SubSeq(V, 1, Len(V) - n) \in Seq(ValType)
      /\ Len(SubSeq(V, 1, Len(V) - n)) = Len(V) - n
  BY <1>3, <1>4, Prefix
<1> QED
  BY <1>4, <1>5 DEF V, n

(* The number of types an operator pops is one.                            *)
LEMMA InsCounted ==
  ASSUME NEW c \in 1 .. Len(Funcs), NEW i \in Instruction, Immediates(c, i)
  PROVE  Len(Ins(c, i)) \in Nat
<1>1. CASE i.op = "drop"
  <2>1. Ins(c, i) = <<Unknown>>
    BY <1>1 DEF Ins
  <2>2. Len(<<Unknown>>) = 1
    OBVIOUS
  <2> QED
    BY <2>1, <2>2
<1>2. CASE i.op # "drop"
  <2>1. Ins(c, i) \in Seq(ValType)
    BY <1>2, InsValTyped
  <2> QED
    BY <2>1
<1> QED
  BY <1>1, <1>2

AfterOperator(c, i, V) == SubSeq(V, 1, Len(V) - Len(Ins(c, i))) \o Outs(c, i)

OperatorFound(c, is, ts, k, V, ls, base) ==
  /\ is[k] \in Instruction /\ GoodPoint(ts[k])
  /\ V = Vals(ts[k]) /\ Vals(ts[k]) \in Seq(ValType)
  /\ Immediates(c, is[k]) /\ Gives(ts[k], Ins(c, is[k]))
  /\ Len(Ins(c, is[k])) \in 0 .. Len(V)
  /\ SubSeq(V, 1, Len(V) - Len(Ins(c, is[k]))) \in Seq(ValType)
  /\ AfterOperator(c, is[k], V) \in Seq(ValType)
  /\ Arrived(is, ts, k + 1, AfterOperator(c, is[k], V), ls, base)

(* An operator finds its operands and leaves its results.                  *)
LEMMA OperatorFinds ==
  ASSUME NEW c \in 1 .. Len(Funcs), NEW is, NEW ts, Accepts(c, is, ts),
         NEW k \in 1 .. Len(is), NEW V \in Seq(ValType), NEW ls \in Seq(Label),
         NEW base, Arrived(is, ts, k, V, ls, base), OpAt(is, k) \notin SpecialOps
  PROVE  OperatorFound(c, is, ts, k, V, ls, base)
<1> DEFINE p == ts[k]
           q == ts[k + 1]
           i == is[k]
           W == AfterOperator(c, i, V)
<1> HIDE DEF Instruction
<1>1. OpAt(is, k) # "end"
  BY DEF SpecialOps
<1>2. /\ i \in Instruction /\ GoodPoint(p) /\ Rule(c, i, p) /\ k + 1 \in 1 .. Len(is)
  BY <1>1, BodyPoint
<1>3. V = Vals(p) /\ Reach(p)
  BY <1>1, Stands
<1>4. Immediates(c, i) /\ Gives(p, Ins(c, i))
  BY <1>2, <1>3, Zenon DEF Rule, OpAt
<1>5. Len(Ins(c, i)) \in Nat
  BY <1>2, <1>4, InsCounted
<1>6. /\ Len(Ins(c, i)) \in 0 .. Len(V)
      /\ SubSeq(V, 1, Len(V) - Len(Ins(c, i))) \in Seq(ValType)
  <2>1. Vals(p) \in Seq(ValType)
    BY <1>3
  <2> HIDE DEF p, i
  <2> QED
    BY <1>2, <1>3, <1>4, <1>5, <2>1, EnoughGiven
<1>7. Outs(c, i) \in Seq(ValType)
  BY <1>2, <1>4, OutsValTyped
<1>8. W \in Seq(ValType)
  <2> DEFINE U == SubSeq(V, 1, Len(V) - Len(Ins(c, i)))
             T == Outs(c, i)
  <2>1. U \in Seq(ValType) /\ T \in Seq(ValType) /\ W = U \o T
    BY <1>6, <1>7 DEF AfterOperator
  <2> HIDE DEF U, T, W
  <2> QED
    BY <2>1
<1>9. q.ctrls = p.ctrls /\ q.vals = Left(p, Len(Ins(c, i))) \o Outs(c, i)
  <2>1. MovesOperands(c, i, p, q)
    BY <1>2, NextBlocks
  <2> QED
    BY <1>3, <2>1, Zenon DEF MovesOperands, OpAt
<1>10. Frames(q) = Frames(p) /\ W = Vals(q)
  BY <1>3, <1>9, Zenon DEF Frames, Vals, Left, AfterOperator
<1>11. Arrived(is, ts, k + 1, W, ls, base)
  <2> HIDE DEF W
  <2> QED
    BY <1>1, <1>8, <1>10, Falls
<1> HIDE DEF W
<1>12. V \in Seq(ValType)
  OBVIOUS
<1> QED
  BY <1>2, <1>3, <1>4, <1>6, <1>8, <1>11, <1>12, Zenon DEF OperatorFound, W

(* An operator but drop has what it takes on top.                          *)
TakesTop(t, V) ==
  /\ t \in Seq(ValType) /\ TopN(V, Len(t)) = t
  /\ V = SubSeq(V, 1, Len(V) - Len(t)) \o t

LEMMA OperandsOf ==
  ASSUME NEW c \in 1 .. Len(Funcs), NEW is, NEW ts, NEW k,
         NEW V \in Seq(ValType), NEW ls, NEW base,
         OperatorFound(c, is, ts, k, V, ls, base), OpAt(is, k) # "drop"
  PROVE  TakesTop(Ins(c, is[k]), V)
<1> HIDE DEF Instruction
<1>1. /\ is[k] \in Instruction /\ GoodPoint(ts[k])
      /\ V = Vals(ts[k]) /\ Vals(ts[k]) \in Seq(ValType)
      /\ Immediates(c, is[k]) /\ Gives(ts[k], Ins(c, is[k]))
  BY Zenon DEF OperatorFound
<1>2. Ins(c, is[k]) \in Seq(ValType)
  BY <1>1, InsValTyped DEF OpAt
<1>3. /\ TopN(Vals(ts[k]), Len(Ins(c, is[k]))) = Ins(c, is[k])
      /\ Vals(ts[k]) = SubSeq(Vals(ts[k]), 1, Len(Vals(ts[k])) - Len(Ins(c, is[k])))
                         \o Ins(c, is[k])
  BY <1>1, <1>2, TopGiven
<1> QED
  BY <1>1, <1>2, <1>3, Zenon DEF TakesTop

(* The operands the interpreter matches on are those of validation.        *)
Fit(a, b)   == \/ a = "any"
               \/ b # Unknown /\ a = b
               \/ a = "ref" /\ b \in RefType
Takes(u, t) == Len(u) = Len(t) /\ \A k \in 1 .. Len(u) : Fit(u[k], t[k])

LEMMA TakesTuples ==
  /\ Takes(<<>>, <<>>)
  /\ \A a, b : Fit(a, b) => Takes(<<a>>, <<b>>)
  /\ \A a, b, d, e : Fit(a, b) /\ Fit(d, e) => Takes(<<a, d>>, <<b, e>>)
  /\ \A a, b, d, e, f, g : Fit(a, b) /\ Fit(d, e) /\ Fit(f, g) =>
                             Takes(<<a, d, f>>, <<b, e, g>>)
<1>1. Takes(<<>>, <<>>)
  BY DEF Takes
<1>2. \A a, b : Fit(a, b) => Takes(<<a>>, <<b>>)
  BY DEF Takes
<1>3. ASSUME NEW a, NEW b, NEW d, NEW e, Fit(a, b), Fit(d, e)
      PROVE  Takes(<<a, d>>, <<b, e>>)
  <2>1. 1 .. 2 = {1, 2}
    OBVIOUS
  <2> QED
    BY <1>3, <2>1 DEF Takes
<1>4. ASSUME NEW a, NEW b, NEW d, NEW e, NEW f, NEW g, Fit(a, b), Fit(d, e), Fit(f, g)
      PROVE  Takes(<<a, d, f>>, <<b, e, g>>)
  <2>1. 1 .. 3 = {1, 2, 3}
    OBVIOUS
  <2> QED
    BY <1>4, <2>1 DEF Takes
<1> QED
  BY <1>1, <1>2, <1>3, <1>4

(* A type fits itself, a placeholder all that it stands for.               *)
LEMMA SelfFits ==
  /\ \A a \in ValType : Fit(a, a)
  /\ \A a : Fit("any", a)
  /\ \A a \in RefType : Fit("ref", a)
<1>1. ASSUME NEW a \in ValType
      PROVE  Fit(a, a)
  <2>1. a # Unknown
    BY SomeValTypes
  <2> QED
    BY <2>1 DEF Fit
<1> QED
  BY <1>1, Zenon DEF Fit

(* What is popped is what the typing rule says, but for values' types that *)
(* the interpreter does not look at.                                       *)
LEMMA PopsTakeIns ==
  ASSUME NEW c \in 1 .. Len(Funcs), NEW i \in Instruction, Immediates(c, i),
         i.op \in StackOps \ {"ref.is_null"}
  PROVE  Takes(Pops(i), Ins(c, i))
<1> DEFINE op == i.op
<1>0. /\ \A a \in ValType : Takes(<<a>>, <<a>>)
      /\ \A a, b \in ValType : Takes(<<a, b>>, <<a, b>>)
      /\ \A a \in RefType : /\ Takes(<<"ref", "i32">>, <<a, "i32">>)
                           /\ Takes(<<"i32", "ref">>, <<"i32", a>>)
                           /\ Takes(<<"i32", "ref", "i32">>, <<"i32", a, "i32">>)
      /\ Takes(<<"any">>, <<Unknown>>)
      /\ Takes(<<"i32", "i32", "i32">>, <<"i32", "i32", "i32">>)
      /\ "i32" \in ValType /\ NumType \subseteq ValType
  BY TakesTuples, SelfFits, SomeValTypes
<1>1. CASE op \in {"unop", "testop"}
  <2>1. Pops(i) = <<i.t>> /\ Ins(c, i) = <<i.t>> /\ i.t \in NumType
    BY <1>1, TypeImmediate DEF Ins, Pops, NumOps
  <2> QED
    BY <1>0, <2>1
<1>2. CASE op \in {"binop", "relop"}
  <2>1. Pops(i) = <<i.t, i.t>> /\ Ins(c, i) = <<i.t, i.t>> /\ i.t \in NumType
    BY <1>2, TypeImmediate DEF Ins, Pops, NumOps
  <2> QED
    BY <1>0, <2>1
<1>3. CASE op = "cvtop"
  <2>1. Pops(i) = <<i.from>> /\ Ins(c, i) = <<i.from>> /\ i.from \in NumType
    BY <1>3, TypeImmediate DEF Ins, Pops
  <2> QED
    BY <1>0, <2>1
<1>4. CASE op = "store"
  <2>1. Pops(i) = <<"i32", i.t>> /\ Ins(c, i) = <<"i32", i.t>> /\ i.t \in NumType
    BY <1>4, TypeImmediate DEF Ins, Pops
  <2> QED
    BY <1>0, <2>1
<1>5. CASE op \in {"load", "memory.grow", "table.get"}
  <2>1. Pops(i) = <<"i32">> /\ Ins(c, i) = <<"i32">>
    BY <1>5 DEF Ins, Pops
  <2> QED
    BY <1>0, <2>1
<1>6. CASE op \in {"memory.init", "memory.copy", "memory.fill", "table.init",
                   "table.copy"}
  <2>1. Pops(i) = <<"i32", "i32", "i32">> /\ Ins(c, i) = <<"i32", "i32", "i32">>
    BY <1>6 DEF Ins, Pops
  <2> QED
    BY <1>0, <2>1
<1>7. CASE op = "drop"
  <2>1. Pops(i) = <<"any">> /\ Ins(c, i) = <<Unknown>>
    BY <1>7 DEF Ins, Pops
  <2> QED
    BY <1>0, <2>1
<1>8. CASE op = "global.set"
  <2> DEFINE a == At(Globals, i.x).type
  <2>1. Pops(i) = <<a>> /\ Ins(c, i) = <<a>>
    BY <1>8 DEF Ins, Pops
  <2>2. a \in ValType
    BY <1>8, IndexedValTypes
  <2> QED
    BY <1>0, <2>1, <2>2
<1>9. CASE op \in {"table.set", "table.grow", "table.fill"}
  <2> DEFINE a == At(Tables, i.x)
  <2>1. \/ Pops(i) = <<"ref", "i32">> /\ Ins(c, i) = <<a, "i32">>
        \/ Pops(i) = <<"i32", "ref">> /\ Ins(c, i) = <<"i32", a>>
        \/ Pops(i) = <<"i32", "ref", "i32">> /\ Ins(c, i) = <<"i32", a, "i32">>
    BY <1>9 DEF Ins, Pops
  <2>2. a \in RefType
    BY <1>9, IndexedValTypes
  <2> QED
    BY <1>0, <2>1, <2>2
<1>10. CASE op \notin {"unop", "testop", "binop", "relop", "cvtop", "store",
                      "global.set", "table.set", "table.grow", "table.fill",
                      "load", "memory.grow", "table.get", "memory.init",
                      "memory.copy", "memory.fill", "table.init", "table.copy", "drop"}
  <2>1. Pops(i) = <<>> /\ Ins(c, i) = <<>>
    BY <1>10 DEF Ins, Pops, StackOps
  <2> QED
    BY <2>1, TakesTuples
<1> QED
  BY <1>1, <1>2, <1>3, <1>4, <1>5, <1>6, <1>7, <1>8, <1>9, <1>10

(* What is pushed is what the typing rule says.                            *)
LEMMA PushesAreOuts ==
  ASSUME NEW c, NEW i, i.op \in StackOps \ {"ref.is_null"},
         Fr.locals = LocalTypes(c)
  PROVE  Pushes(i) = Outs(c, i)
<1>1. CASE i.op = "local.get"
  BY <1>1 DEF Pushes, Outs, LocalType
<1>2. CASE i.op # "local.get"
  BY <1>2 DEF Pushes, Outs, StackOps
<1> QED
  BY <1>1, <1>2

(* The assertion on the operands holds when the pop of validation does.    *)
LEMMA HasTopGiven ==
  ASSUME NEW p, GoodPoint(p), Vals(p) \in Seq(ValType), NEW t, Len(t) \in Nat,
         Gives(p, t), NEW u, Takes(u, t),
         NEW B \in Seq(ValType), vstack = B \o Vals(p)
  PROVE  HasTop(u)
<1> DEFINE V == Vals(p)
           n == Len(t)
<1>1. n \in 0 .. Len(V)
  BY EnoughGiven
<1>2. \A k \in 1 .. n : Matches(V[Len(V) - n + k], t[k])
  BY Zenon DEF Gives, Vals
<1>3. Len(u) = n /\ \A k \in 1 .. n : Fit(u[k], t[k])
  BY DEF Takes
<1>4. /\ Len(vstack) = Len(B) + Len(V)
      /\ \A k \in 1 .. Len(V) : vstack[Len(B) + k] = V[k]
  BY OnTop
<1>5. V \in Seq(ValType) /\ Len(B) \in Nat /\ n \in Nat
  OBVIOUS
<1> HIDE DEF V, n
<1>6. ASSUME NEW k \in 1 .. n
      PROVE  LET v == vstack[Len(vstack) - Len(u) + k]
             IN  u[k] = v \/ u[k] = "any" \/ (u[k] = "ref" /\ v \in RefType)
  <2>1. /\ Len(V) - n + k \in 1 .. Len(V)
        /\ Len(vstack) - Len(u) + k = Len(B) + (Len(V) - n + k)
    BY <1>1, <1>3, <1>4, <1>5
  <2>2. vstack[Len(vstack) - Len(u) + k] = V[Len(V) - n + k]
    BY <1>4, <2>1
  <2>3. V[Len(V) - n + k] \in ValType
    BY <1>5, <2>1
  <2> QED
    BY <1>2, <1>3, <2>2, <2>3, SomeValTypes DEF Fit, Matches
<1>7. Len(vstack) >= Len(u)
  BY <1>1, <1>3, <1>4, <1>5
<1> QED
  BY <1>3, <1>6, <1>7 DEF HasTop

(* A br_if that is not taken pops its condition.                           *)
LEMMA BrIfFalls ==
  ASSUME NEW c, NEW is, NEW ts, Accepts(c, is, ts), NEW k \in 1 .. Len(is),
         NEW V \in Seq(ValType), NEW ls \in Seq(Label), NEW base,
         Arrived(is, ts, k, V, ls, base), OpAt(is, k) = "br_if"
  PROVE  /\ SubSeq(V, 1, Len(V) - 1) \in Seq(ValType)
         /\ Arrived(is, ts, k + 1, SubSeq(V, 1, Len(V) - 1), ls, base)
<1> DEFINE p == ts[k]
           q == ts[k + 1]
           i == is[k]
           t == LabelAt(p, i.n)
           u == t \o <<"i32">>
           j == BlockAt(p, i.n)
           U == SubSeq(V, 1, Len(V) - Len(u))
<1> HIDE DEF Instruction
<1>1. /\ i \in Instruction /\ GoodPoint(p) /\ Rule(c, i, p) /\ k + 1 \in 1 .. Len(is)
  BY BodyPoint
<1>2. V = Vals(p) /\ Reach(p)
  BY Stands
<1>3. Branches(p, i.n, <<"i32">>) /\ i.n \in Nat
  <2>1. Branches(p, i.n, <<"i32">>)
    BY <1>1, <1>2, Zenon DEF Rule, OpAt
  <2>2. i.n \in Nat
    BY <1>1, LabelImmediate DEF OpAt, LabelOps
  <2> QED
    BY <2>1, <2>2
<1>4. t \in Seq(ValType) /\ Gives(p, u)
  <2>1. i.n < Blocks(p) /\ Gives(p, u)
    BY <1>3, Zenon DEF Branches, Blocks
  <2>2. t = Carries(p, j)
    BY Zenon DEF BlockAt, LabelAt, Carries, Looping, Blocks
  <2>3. Blocks(p) \in Nat \ {0}
    BY <1>1, PointTyped
  <2>4. j \in 1 .. Blocks(p)
    BY <1>3, <2>1, <2>3 DEF BlockAt
  <2> HIDE DEF j
  <2>5. Carries(p, j) \in Seq(ValType)
    BY <1>1, <2>4, BlockTyped
  <2> QED
    BY <2>1, <2>2, <2>5
<1>5. q.ctrls = p.ctrls /\ q.vals = Left(p, Len(t) + 1) \o t
  <2>1. MovesOperands(c, i, p, q)
    BY <1>1, NextBlocks
  <2> QED
    BY <1>2, <2>1, Zenon DEF MovesOperands, OpAt
<1> HIDE DEF t
<1>6. <<"i32">> \in Seq(ValType) /\ Len(<<"i32">>) = 1
  BY ValTuples, SomeValTypes
<1> DEFINE m == <<"i32">>
<1> HIDE DEF m
<1>7. u = t \o m /\ m \in Seq(ValType) /\ Len(m) = 1
  BY <1>6 DEF m
<1>8. u \in Seq(ValType) /\ Len(u) = Len(t) + 1
  <2>1. t \in Seq(ValType)
    BY <1>4
  <2>2. t \o m \in Seq(ValType) /\ Len(t \o m) = Len(t) + Len(m)
    BY <1>7, <2>1, OnTop
  <2> HIDE DEF u
  <2> QED
    BY <1>7, <2>2
<1> HIDE DEF u
<1>9. U \in Seq(ValType) /\ V = U \o u
  BY <1>1, <1>2, <1>4, <1>8, TopGiven
<1>10. U = Left(p, Len(t) + 1)
  BY <1>2, <1>8 DEF Left, Vals
<1> HIDE DEF U
<1> DEFINE X == U \o t
<1>11. V = X \o m /\ X \in Seq(ValType)
  <2>1. U \in Seq(ValType) /\ t \in Seq(ValType) /\ m \in Seq(ValType)
    BY <1>4, <1>7, <1>9
  <2>2. (U \o t) \o m = U \o (t \o m) /\ U \o t \in Seq(ValType)
    BY <2>1, ConcatAssociative, OnTop, SMTT(40)
  <2> QED
    BY <1>7, <1>9, <2>2
<1> HIDE DEF X
<1>12. SubSeq(V, 1, Len(V) - 1) = X
  <2>0. Len(X \o m) = Len(X) + Len(m)
    BY <1>7, <1>11, OnTop
  <2>1. Len(X) \in 0 .. Len(X) /\ Len(X \o m) - 1 = Len(X)
    BY <1>7, <1>11, <2>0
  <2>2. SubSeq(X \o m, 1, Len(X)) = SubSeq(X, 1, Len(X))
    BY <1>7, <1>11, <2>1, SubSeqBelow
  <2>3. SubSeq(X, 1, Len(X)) = X
    BY <1>11, SubSeqFull
  <2> QED
    BY <1>11, <2>1, <2>2, <2>3
<1>13. Frames(q) = Frames(p) /\ X = Vals(q)
  BY <1>5, <1>10, Zenon DEF X, Frames, Vals
<1>14. OpAt(is, k) # "end"
  OBVIOUS
<1>15. Arrived(is, ts, k + 1, X, ls, base)
  BY <1>11, <1>13, <1>14, Falls
<1> QED
  BY <1>11, <1>12, <1>15

(* A select has two operands of one type and its condition.                *)
SelectFound(is, ts, k, V, ls, base) ==
  /\ Len(V) >= 3 /\ V[Len(V)] = "i32" /\ V[Len(V) - 1] = V[Len(V) - 2]
  /\ Append(SubSeq(V, 1, Len(V) - 3), V[Len(V) - 1]) \in Seq(ValType)
  /\ Arrived(is, ts, k + 1, Append(SubSeq(V, 1, Len(V) - 3), V[Len(V) - 1]), ls, base)

LEMMA SelectFinds ==
  ASSUME NEW c \in 1 .. Len(Funcs), NEW is, NEW ts, Accepts(c, is, ts),
         NEW k \in 1 .. Len(is), NEW V \in Seq(ValType), NEW ls \in Seq(Label),
         NEW base, Arrived(is, ts, k, V, ls, base),
         OpAt(is, k) \in {"select", "select_t"}
  PROVE  SelectFound(is, ts, k, V, ls, base)
<1> DEFINE p == ts[k]
           q == ts[k + 1]
           i == is[k]
<1> HIDE DEF Instruction
<1>1. /\ i \in Instruction /\ GoodPoint(p) /\ Rule(c, i, p) /\ k + 1 \in 1 .. Len(is)
  BY BodyPoint
<1>2. V = Vals(p) /\ Reach(p)
  BY Stands
<1>3. CASE OpAt(is, k) = "select"
  <2> DEFINE t == <<Unknown, Unknown, "i32">>
             W == Append(SubSeq(V, 1, Len(V) - 3), V[Len(V) - 1])
  <2>1. Gives(p, t) /\ Matches(p.vals[Len(p.vals) - 1], p.vals[Len(p.vals) - 2])
    BY <1>1, <1>2, <1>3, Zenon DEF Rule, OpAt
  <2>2. /\ q.ctrls = p.ctrls
        /\ q.vals = Append(Left(p, 3), LET n == Len(p.vals)
                                       IN  IF p.vals[n - 1] = Unknown
                                           THEN p.vals[n - 2] ELSE p.vals[n - 1])
    <3>1. MovesOperands(c, i, p, q)
      BY <1>1, NextBlocks
    <3> QED
      BY <1>2, <1>3, <3>1, Zenon DEF MovesOperands, OpAt
  <2>3. /\ Len(t) = 3 /\ t[1] = Unknown /\ t[2] = Unknown /\ t[3] = "i32"
    OBVIOUS
  <2> HIDE DEF t
  <2>4. /\ 3 \in 0 .. Len(V) /\ SubSeq(V, 1, Len(V) - 3) \in Seq(ValType)
    <3>1. Vals(p) \in Seq(ValType) /\ Len(t) \in Nat
      BY <1>2, <2>3
    <3>2. /\ Len(t) \in 0 .. Len(Vals(p))
          /\ SubSeq(Vals(p), 1, Len(Vals(p)) - Len(t)) \in Seq(ValType)
      BY <1>1, <2>1, <3>1, EnoughGiven
    <3> QED
      BY <1>2, <2>3, <3>2
  <2>5. /\ V[Len(V)] \in ValType /\ V[Len(V) - 1] \in ValType
        /\ V[Len(V) - 2] \in ValType /\ Len(V) >= 3
    BY <2>4
  <2>6. Matches(V[Len(V)], "i32") /\ Matches(V[Len(V) - 1], V[Len(V) - 2])
    <3>1. \A x \in 1 .. Len(t) : Matches(V[Len(V) - Len(t) + x], t[x])
      BY <1>2, <2>1, Zenon DEF Gives, Vals
    <3>2. Len(V) - 3 + 3 = Len(V) /\ 3 \in 1 .. 3
      OBVIOUS
    <3>3. Matches(V[Len(V)], "i32")
      BY <2>3, <3>1, <3>2
    <3> QED
      BY <1>2, <2>1, <3>3, Zenon DEF Vals
  <2>7. V[Len(V)] = "i32" /\ V[Len(V) - 1] = V[Len(V) - 2]
    BY <2>5, <2>6, SomeValTypes DEF Matches
  <2>8. W \in Seq(ValType)
    BY <2>4, <2>5
  <2>9. Frames(q) = Frames(p) /\ W = Vals(q)
    <3>1. q.vals = Append(Left(p, 3), IF V[Len(V) - 1] = Unknown
                                      THEN V[Len(V) - 2] ELSE V[Len(V) - 1])
      BY <1>2, <2>2, Zenon DEF Vals
    <3>2. q.vals = Append(Left(p, 3), V[Len(V) - 1])
      BY <2>7, <3>1, Zenon
    <3> QED
      BY <1>2, <2>2, <3>2, Zenon DEF Frames, Vals, Left
  <2>10. OpAt(is, k) # "end"
    BY <1>3
  <2> HIDE DEF W
  <2>11. Arrived(is, ts, k + 1, W, ls, base)
    BY <2>8, <2>9, <2>10, Falls
  <2> QED
    BY <2>5, <2>7, <2>8, <2>11, Zenon DEF SelectFound, W
<1>4. CASE OpAt(is, k) = "select_t"
  <2>1. OpAt(is, k) \notin SpecialOps /\ i.op = "select_t" /\ OpAt(is, k) # "drop"
    BY <1>4 DEF SpecialOps, OpenOps, LabelOps, OpAt
  <2>2. OperatorFound(c, is, ts, k, V, ls, base)
    BY <2>1, OperatorFinds
  <2>3. /\ Immediates(c, i) /\ Len(Ins(c, i)) \in 0 .. Len(V)
        /\ SubSeq(V, 1, Len(V) - Len(Ins(c, i))) \in Seq(ValType)
        /\ AfterOperator(c, i, V) \in Seq(ValType)
        /\ Arrived(is, ts, k + 1, AfterOperator(c, i, V), ls, base)
    BY <2>2, Zenon DEF OperatorFound
  <2>4. TopN(V, Len(Ins(c, i))) = Ins(c, i)
    <3>1. TakesTop(Ins(c, is[k]), V)
      BY <2>1, <2>2, OperandsOf
    <3> QED
      BY <3>1, Zenon DEF TakesTop
  <2>5. i.ts \in Seq(ValType) /\ Len(i.ts) = 1
    BY <1>1, <2>1, <2>3, TypeImmediate DEF Immediates
  <2> DEFINE a == i.ts[1]
  <2>6. Ins(c, i) = <<a, a, "i32">> /\ Outs(c, i) = i.ts
    BY <2>1 DEF Ins, Outs
  <2>7. i.ts = <<a>> /\ a \in ValType
    <3>1. a \in ValType
      BY <2>5
    <3>2. <<a>> \in Seq(ValType) /\ Len(<<a>>) = 1 /\ <<a>>[1] = a
      BY <3>1
    <3>3. \A x \in 1 .. Len(i.ts) : i.ts[x] = <<a>>[x]
      BY <2>5, <3>2
    <3> QED
      BY <2>5, <3>1, <3>2, <3>3, SeqEqual
  <2> HIDE DEF a
  <2> DEFINE t == <<a, a, "i32">>
  <2>8. Len(t) = 3 /\ t[1] = a /\ t[2] = a /\ t[3] = "i32"
    OBVIOUS
  <2>9. Ins(c, i) = t
    BY <2>6
  <2> HIDE DEF t
  <2>10. /\ TopN(V, 3) = t /\ 3 \in 0 .. Len(V)
         /\ SubSeq(V, 1, Len(V) - 3) \in Seq(ValType)
    BY <2>3, <2>4, <2>8, <2>9
  <2>11. \A x \in 1 .. 3 : t[x] = V[Len(V) - 3 + x]
    BY <2>10, TopOf
  <2>12. /\ Len(V) >= 3 /\ V[Len(V)] = "i32"
         /\ V[Len(V) - 1] = a /\ V[Len(V) - 2] = a
    <3>1. /\ Len(V) - 3 + 3 = Len(V) /\ Len(V) - 3 + 2 = Len(V) - 1
          /\ Len(V) - 3 + 1 = Len(V) - 2 /\ Len(V) >= 3
          /\ 1 \in 1 .. 3 /\ 2 \in 1 .. 3 /\ 3 \in 1 .. 3
      BY <2>10
    <3> QED
      BY <2>8, <2>11, <3>1
  <2>13. AfterOperator(c, i, V) = Append(SubSeq(V, 1, Len(V) - 3), V[Len(V) - 1])
    <3> DEFINE U == SubSeq(V, 1, Len(V) - 3)
    <3>1. AfterOperator(c, i, V) = U \o <<a>>
      BY <2>6, <2>7, <2>8, <2>9 DEF AfterOperator
    <3>2. U \in Seq(ValType)
      BY <2>10
    <3> HIDE DEF U
    <3>3. U \o <<a>> = Append(U, a)
      BY <2>7, <3>2, AppendIsConcat
    <3> QED
      BY <2>12, <3>1, <3>3 DEF U
  <2> HIDE DEF i
  <2> QED
    BY <2>3, <2>12, <2>13, Zenon DEF SelectFound
<1> QED
  BY <1>3, <1>4

(* ref.is_null has a reference.                                            *)
NullTestFound(is, ts, k, V, ls, base) ==
  /\ Len(V) >= 1 /\ V[Len(V)] \in RefType
  /\ SubSeq(V, 1, Len(V) - 1) \o <<"i32">> \in Seq(ValType)
  /\ Arrived(is, ts, k + 1, SubSeq(V, 1, Len(V) - 1) \o <<"i32">>, ls, base)

LEMMA NullTestFinds ==
  ASSUME NEW c, NEW is, NEW ts, Accepts(c, is, ts),
         NEW k \in 1 .. Len(is), NEW V \in Seq(ValType), NEW ls \in Seq(Label),
         NEW base, Arrived(is, ts, k, V, ls, base), OpAt(is, k) = "ref.is_null"
  PROVE  NullTestFound(is, ts, k, V, ls, base)
<1> DEFINE p == ts[k]
           q == ts[k + 1]
           i == is[k]
           t == <<Unknown>>
           U == SubSeq(V, 1, Len(V) - 1)
           W == U \o <<"i32">>
<1> HIDE DEF Instruction
<1>1. /\ i \in Instruction /\ GoodPoint(p) /\ Rule(c, i, p) /\ k + 1 \in 1 .. Len(is)
  BY BodyPoint
<1>2. V = Vals(p) /\ Reach(p)
  BY Stands
<1>3. Gives(p, t) /\ Last(p.vals) \in RefType \cup {Unknown}
  BY <1>1, <1>2, Zenon DEF Rule, OpAt
<1>4. q.ctrls = p.ctrls /\ q.vals = Append(Left(p, 1), "i32")
  <2>1. MovesOperands(c, i, p, q)
    BY <1>1, NextBlocks
  <2> QED
    BY <1>2, <2>1, Zenon DEF MovesOperands, OpAt
<1>5. Len(t) = 1
  OBVIOUS
<1> HIDE DEF t
<1>6. 1 \in 0 .. Len(V) /\ U \in Seq(ValType)
  <2>1. Vals(p) \in Seq(ValType) /\ Len(t) \in Nat
    BY <1>2, <1>5
  <2>2. /\ Len(t) \in 0 .. Len(Vals(p))
        /\ SubSeq(Vals(p), 1, Len(Vals(p)) - Len(t)) \in Seq(ValType)
    BY <1>1, <1>3, <2>1, EnoughGiven
  <2> QED
    BY <1>2, <1>5, <2>2
<1>7. V[Len(V)] \in RefType /\ Len(V) >= 1
  <2>1. V[Len(V)] \in ValType /\ Len(V) >= 1
    BY <1>6
  <2>2. V[Len(V)] \in RefType \cup {Unknown}
    BY <1>2, <1>3, Zenon DEF Last, Vals
  <2> QED
    BY <2>1, <2>2, SomeValTypes
<1>8. W = Append(U, "i32") /\ W \in Seq(ValType)
  <2> HIDE DEF U
  <2> QED
    BY <1>6, SomeValTypes, AppendIsConcat
<1>9. Frames(q) = Frames(p) /\ W = Vals(q)
  BY <1>2, <1>4, <1>8, Zenon DEF Frames, Vals, Left
<1> HIDE DEF W
<1>10. OpAt(is, k) # "end"
  OBVIOUS
<1>11. Arrived(is, ts, k + 1, W, ls, base)
  BY <1>8, <1>9, <1>10, Falls
<1> QED
  BY <1>7, <1>8, <1>11, Zenon DEF NullTestFound, W

=============================================================================
