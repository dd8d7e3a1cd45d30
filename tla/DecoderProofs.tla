--------------------------- MODULE DecoderProofs ----------------------------
(***************************************************************************)
(* For all inputs, integer widths and limits: the decoder's state keeps    *)
(* its types, its readers stay nested, the parts of a segment are those    *)
(* its flag stands for, a section of entries is read as SectionReader      *)
(* promises, numbers have the value of their bytes, and a function takes   *)
(* its size and ends with its outermost block.                             *)
(*                                                                         *)
(* All of it follows from the shape of todo, the calls under way: those of *)
(* the section are at its end, those of the entry before them, and those   *)
(* of a function's body are delimited by the close of its own reader; and  *)
(* from what number holds while one is read: the value of its bytes.       *)
(***************************************************************************)
EXTENDS DecoderRefinement, SequenceTheorems, FiniteSetTheorems, WellFoundedInduction, TLAPS

-----------------------------------------------------------------------------
(* Integers.                                                               *)

(* A power of two is positive: it is the number of subsets of a set.       *)
LEMMA PowerPositive ==
  ASSUME NEW n \in Nat
  PROVE  2^n \in Nat \ {0}
<1> DEFINE s == 1 .. n
<1>1. IsFiniteSet(s) /\ Cardinality(s) = n
  BY FS_Interval
<1>2. SUBSET s # {}
  OBVIOUS
<1> DEFINE t == SUBSET s
<1> HIDE DEF s
<1>3. IsFiniteSet(t) /\ Cardinality(t) = 2^n
  BY <1>1, FS_SUBSET, Zenon
<1> HIDE DEF t
<1>4. Cardinality(t) \in Nat /\ (Cardinality(t) = 0 <=> t = {})
  BY <1>3, FS_EmptySet, FS_CardinalityType, Zenon
<1> QED
  BY <1>2, <1>3, <1>4 DEF t

(* The widths.                                                             *)
LEMMA Widths ==
  ASSUME NEW t
  PROVE  /\ Width(t) \in Nat \ {0} /\ Width(t) % 7 \in 1 .. 6
         /\ MaxBytes(t) \in Nat \ {0}
<1>1. Width(t) \in Nat \ {0} /\ Width(t) % 7 # 0
  BY WidthAssumption DEF Width
<1> DEFINE w == Width(t)
<1>2. w % 7 \in 0 .. 6 /\ w \div 7 \in Nat
  <2> HIDE DEF w
  <2>1. w \in Nat
    BY <1>1 DEF w
  <2> QED
    BY <2>1
<1> QED
  BY <1>1, <1>2 DEF MaxBytes

(* What the digits of a number add up to.                                  *)
LEMMA AccumulateTyped ==
  ASSUME NEW t, NEW x \in Nat, NEW i \in Nat, NEW b \in Bytes
  PROVE  Accumulate(t, x, i, b) \in Nat
<1> DEFINE m == 2^Width(t)
           p == 2^(7 * i)
<1>1. m \in Nat \ {0}
  BY Widths, PowerPositive
<1>2. p \in Nat
  BY PowerPositive
<1>3. Accumulate(t, x, i, b) = (x + (b % \h80) * p) % m
  BY DEF Accumulate
<1> HIDE DEF m, p
<1>4. b % \h80 \in Nat
  BY DEF Bytes
<1>5. (b % \h80) * p \in Nat
  <2> DEFINE d == b % \h80
  <2> HIDE DEF d
  <2>1. d \in Nat
    BY <1>4 DEF d
  <2> QED
    BY <1>2, <2>1 DEF d
<1> QED
  <2> DEFINE d == (b % \h80) * p
  <2> HIDE DEF d
  <2>1. d \in Nat
    BY <1>5 DEF d
  <2>2. (x + d) % m \in Nat
    BY <1>1, <2>1
  <2> QED
    BY <1>3, <2>2 DEF d

(* A number that has been read.                                            *)
LEMMA FinishedTyped ==
  ASSUME NEW t, NEW x \in Nat, NEW i \in Nat, NEW b \in Bytes
  PROVE  /\ Finished(t, x, i, b) \in Int
         /\ ~Signed(t) => Finished(t, x, i, b) \in Nat
<1> DEFINE a == Accumulate(t, x, i, b)
           m == 2^Width(t)
           p == 2^(7 * (i + 1))
           h == 2^(Width(t) - 1)
           e == IF i < MaxBytes(t) - 1 /\ b >= \h40 THEN a + m - p ELSE a
<1>1. a \in Nat
  BY AccumulateTyped
<1>2. m \in Int /\ p \in Int
  BY Widths, PowerPositive
<1>3. Finished(t, x, i, b) = IF ~Signed(t) THEN a ELSE IF e < h THEN e ELSE e - m
  BY DEF Finished
<1> HIDE DEF a, m, p, h
<1>4. e \in Int
  BY <1>1, <1>2
<1> HIDE DEF e
<1> QED
  BY <1>1, <1>2, <1>3, <1>4

-----------------------------------------------------------------------------
(* The grammar.                                                            *)

PartNames == {"tabletype", "globaltype", "local"}

(* What is read first of an element segment, a data segment or a function. *)
OpeningNames == {"codesize", "elementflag", "dataflag"}

(* What is read within an entry after that, the body of a function apart.  *)
InnerNames ==
  (((ByteSymbols \cup NumberSymbols) \ ({"vec", "body"} \cup OpeningNames)) \cup PartNames)
  \cup {"localslimit"}

(* Those that begin with a byte.                                           *)
ReadNames == InnerNames \ {"localslimit"}

Names == InnerNames \cup OpeningNames \cup EntryKinds \cup {"body", "close"}

(* The items of some names.                                                *)
Among(names) ==
  {S(x) : x \in names} \cup {Vec(x) : x \in names} \cup {Elems(x, n) : x \in names, n \in Nat}

InnerItems == Among(InnerNames)
Items      == Among(Names)

LEMMA InnerAreItems == InnerItems \subseteq Items
  BY DEF Among, InnerItems, Items, Names

LEMMA AmongSymbol == ASSUME NEW N, NEW x \in N PROVE S(x) \in Among(N)
  BY DEF Among
LEMMA AmongVec == ASSUME NEW N, NEW x \in N PROVE Vec(x) \in Among(N)
  BY DEF Among
LEMMA AmongElems == ASSUME NEW N, NEW x \in N, NEW n \in Nat PROVE Elems(x, n) \in Among(N)
  BY DEF Among

LEMMA InnerSymbol == ASSUME NEW x \in InnerNames PROVE S(x) \in InnerItems
  BY AmongSymbol DEF InnerItems
LEMMA InnerVec == ASSUME NEW x \in InnerNames PROVE Vec(x) \in InnerItems
  BY AmongVec DEF InnerItems
LEMMA InnerElems == ASSUME NEW x \in InnerNames, NEW n \in Nat PROVE Elems(x, n) \in InnerItems
  BY AmongElems DEF InnerItems

(* How items are told apart.                                               *)
LEMMA ItemParts ==
  ASSUME NEW x, NEW n
  PROVE  /\ S(x)[1] = x /\ Len(S(x)) = 1
         /\ Vec(x)[1] = "vec" /\ Vec(x)[2] = x /\ Len(Vec(x)) = 2
         /\ Elems(x, n)[1] = "elems" /\ Elems(x, n)[2] = x /\ Elems(x, n)[3] = n
         /\ Len(Elems(x, n)) = 3
  BY DEF S, Vec, Elems

(* Sequences of them.                                                      *)
LEMMA One == ASSUME NEW T, NEW a \in T PROVE <<a>> \in Seq(T)
  OBVIOUS
LEMMA Two == ASSUME NEW T, NEW a \in T, NEW b \in T PROVE <<a, b>> \in Seq(T)
  OBVIOUS
LEMMA Three ==
  ASSUME NEW T, NEW a \in T, NEW b \in T, NEW c \in T
  PROVE  <<a, b, c>> \in Seq(T)
  OBVIOUS
LEMMA Both == ASSUME NEW T, NEW p \in Seq(T), NEW q \in Seq(T) PROVE p \o q \in Seq(T)
  OBVIOUS
LEMMA None == ASSUME NEW T PROVE <<>> \in Seq(T)
  OBVIOUS

(* All names that the arguments of an instruction and the parts of an entry use. *)
LEMMA InnerNamed ==
  /\ {"blocktype", "u32", "align", "memidx", "i32", "i64", "reftype", "bulkcode", "expr",
      "valtype", "char", "byte", "functype", "limit", "mutability", "zero", "elementkind",
      "name", "importkind", "exportkind", "tableprefix", "localcount", "localslimit", "u64"}
       \cup PartNames \subseteq InnerNames
  BY DEF InnerNames, ByteSymbols, NumberSymbols, OpeningNames, PartNames

(* The names of what may follow a value.                                   *)
FollowNames ==
  {"blocktype", "u32", "align", "memidx", "i32", "i64", "reftype", "bulkcode", "expr", "valtype",
   "char", "byte", "limit", "mutability", "zero", "tabletype", "globaltype"}

LEMMA FollowInner == FollowNames \subseteq InnerNames
  BY InnerNamed DEF FollowNames, PartNames

(* The arguments of an instruction.                                        *)
LEMMA ArgumentsAmong ==
  ASSUME NEW N, FollowNames \subseteq N, NEW op
  PROVE  ArgumentsOf(op) \in Seq(Among(N))
<1> DEFINE u == S("u32")
           r == S("memidx")
<1>1. /\ S("blocktype") \in Among(N) /\ u \in Among(N) /\ Vec("u32") \in Among(N)
      /\ Vec("valtype") \in Among(N) /\ S("align") \in Among(N) /\ r \in Among(N)
      /\ S("i32") \in Among(N) /\ S("i64") \in Among(N) /\ S("reftype") \in Among(N)
      /\ S("bulkcode") \in Among(N)
  BY AmongSymbol, AmongVec DEF FollowNames
<1>2. Elems("byte", 4) \in Among(N) /\ Elems("byte", 8) \in Among(N)
  BY AmongElems DEF FollowNames
<1>3. /\ <<S("blocktype")>> \in Seq(Among(N)) /\ <<u>> \in Seq(Among(N))
      /\ <<Vec("u32"), u>> \in Seq(Among(N)) /\ <<u, u>> \in Seq(Among(N))
      /\ <<Vec("valtype")>> \in Seq(Among(N)) /\ MemArg \in Seq(Among(N))
      /\ <<r>> \in Seq(Among(N)) /\ <<S("i32")>> \in Seq(Among(N))
      /\ <<S("i64")>> \in Seq(Among(N)) /\ <<Elems("byte", 4)>> \in Seq(Among(N))
      /\ <<Elems("byte", 8)>> \in Seq(Among(N)) /\ <<S("reftype")>> \in Seq(Among(N))
      /\ <<S("bulkcode")>> \in Seq(Among(N))
  BY <1>1, <1>2, One, Two, Zenon DEF MemArg
<1>4. ArgumentsOf(op) \in
        {<<S("blocktype")>>, <<u>>, <<Vec("u32"), u>>, <<u, u>>, <<Vec("valtype")>>, MemArg,
         <<r>>, <<S("i32")>>, <<S("i64")>>, <<Elems("byte", 4)>>, <<Elems("byte", 8)>>,
         <<S("reftype")>>, <<S("bulkcode")>>, <<>>}
  BY DEF ArgumentsOf
<1> QED
  BY <1>3, <1>4, None, Zenon

(* What follows a value of an item.                                        *)
LEMMA AfterAmong ==
  ASSUME NEW N, FollowNames \subseteq N,
         N \cap ({"vec", "elems", "body"} \cup OpeningNames) = {},
         NEW t \in Among(N), NEW v,
         t[1] \in {"vec", "name"} => v \in Nat, t[1] = "importkind" => v \in 0 .. 3
  PROVE  After(t, v) \in Seq(Among(N))
<1>1. CASE \E x \in N : t = Vec(x)
  <2>1. PICK x \in N : t = Vec(x)
    BY <1>1
  <2>2. t[1] = "vec" /\ t[2] = x /\ v \in Nat
    BY <2>1, ItemParts
  <2>3. After(t, v) = <<Elems(x, v)>>
    BY <2>2 DEF After
  <2>4. Elems(x, v) \in Among(N)
    BY <2>2, AmongElems
  <2> QED
    BY <2>3, <2>4, One
<1>2. CASE \E x \in N, n \in Nat : t = Elems(x, n)
  <2>1. t[1] = "elems"
    BY <1>2, ItemParts
  <2>2. After(t, v) = <<>>
    BY <2>1 DEF After
  <2> QED
    BY <2>2, None
<1>3. CASE \E x \in N : t = S(x)
  <2>1. PICK x \in N : t = S(x)
    BY <1>3
  <2>2. t[1] = x /\ x \notin OpeningNames \cup {"vec", "body"}
    BY <2>1, ItemParts DEF OpeningNames
  <2>3. x = "name" => v \in Nat /\ Elems("char", v) \in Among(N)
    BY <2>2, AmongElems DEF FollowNames
  <2>4. After(t, v) \in
          {<<Elems("char", v)>>, AfterTablePrefix(v), AfterImportKind(v), AfterLimitFlag(v),
           BulkArguments(v), AfterConstant(v), <<>>}
    BY <2>2 DEF After, OpeningNames
  <2>5. CASE x = "name"
    <3>1. After(t, v) = <<Elems("char", v)>>
      BY <2>2, <2>5 DEF After
    <3> QED
      BY <2>3, <2>5, <3>1, One
  <2>6. CASE x = "tableprefix"
    <3>1. After(t, v) = AfterTablePrefix(v)
      BY <2>2, <2>6 DEF After
    <3>2. /\ S("zero") \in Among(N) /\ S("tabletype") \in Among(N)
          /\ S("expr") \in Among(N) /\ S("limit") \in Among(N)
      BY AmongSymbol DEF FollowNames
    <3> QED
      BY <3>1, <3>2, One, Three DEF AfterTablePrefix
  <2>7. CASE x = "importkind"
    <3>1. After(t, v) = AfterImportKind(v) /\ v \in 0 .. 3
      BY <2>2, <2>7 DEF After
    <3>2. /\ S("u32") \in Among(N) /\ S("tabletype") \in Among(N)
          /\ S("limit") \in Among(N) /\ S("globaltype") \in Among(N)
      BY AmongSymbol DEF FollowNames
    <3>3. AfterImportKind(v) \in {<<S("u32")>>, <<S("tabletype")>>, <<S("limit")>>, <<S("globaltype")>>}
      BY <3>1 DEF AfterImportKind
    <3> QED
      BY <3>1, <3>2, <3>3, One, Zenon
  <2>8. CASE x = "limit"
    <3>1. After(t, v) = AfterLimitFlag(v)
      BY <2>2, <2>8 DEF After
    <3>2. S("u32") \in Among(N)
      BY AmongSymbol DEF FollowNames
    <3> QED
      BY <3>1, <3>2, One, Two DEF AfterLimitFlag
  <2>9. CASE x = "bulkcode"
    <3>1. After(t, v) = BulkArguments(v)
      BY <2>2, <2>9 DEF After
    <3>2. S("u32") \in Among(N) /\ S("memidx") \in Among(N)
      BY AmongSymbol DEF FollowNames
    <3>3. BulkArguments(v) \in
            {<<S("u32"), S("memidx")>>, <<S("memidx"), S("memidx")>>, <<S("memidx")>>,
             <<S("u32"), S("u32")>>, <<S("u32")>>, <<>>}
      BY DEF BulkArguments
    <3>4. /\ <<S("u32"), S("memidx")>> \in Seq(Among(N)) /\ <<S("memidx"), S("memidx")>> \in Seq(Among(N))
          /\ <<S("u32"), S("u32")>> \in Seq(Among(N)) /\ <<>> \in Seq(Among(N))
          /\ <<S("memidx")>> \in Seq(Among(N)) /\ <<S("u32")>> \in Seq(Among(N))
      BY <3>2, None, One, Two
    <3> QED
      BY <3>1, <3>3, <3>4, Zenon
  <2>10. CASE x = "expr"
    <3>1. After(t, v) = AfterConstant(v)
      BY <2>2, <2>10 DEF After
    <3>2. <<S("expr")>> \in Seq(Among(N))
      BY AmongSymbol, One DEF FollowNames
    <3>3. AfterConstant(v) \in {ArgumentsOf(v) \o <<>>, ArgumentsOf(v) \o <<S("expr")>>}
      BY DEF AfterConstant
    <3>4. ArgumentsOf(v) \in Seq(Among(N))
      BY ArgumentsAmong
    <3>5. /\ ArgumentsOf(v) \o <<>> \in Seq(Among(N))
          /\ ArgumentsOf(v) \o <<S("expr")>> \in Seq(Among(N))
      BY <3>2, <3>4, None, Both
    <3> QED
      BY <3>1, <3>3, <3>5, Zenon
  <2>11. CASE x \notin {"name", "tableprefix", "importkind", "limit", "bulkcode", "expr"}
    <3>1. After(t, v) = <<>>
      BY <2>2, <2>11 DEF After, OpeningNames
    <3> QED
      BY <3>1, None
  <2> QED
    BY <2>5, <2>6, <2>7, <2>8, <2>9, <2>10, <2>11
<1> QED
  BY <1>1, <1>2, <1>3 DEF Among

LEMMA ArgumentsInner == ASSUME NEW op PROVE ArgumentsOf(op) \in Seq(InnerItems)
  BY ArgumentsAmong, FollowInner DEF InnerItems

LEMMA AfterInner ==
  ASSUME NEW t \in InnerItems, NEW v,
         t[1] \in {"vec", "name"} => v \in Nat, t[1] = "importkind" => v \in 0 .. 3
  PROVE  After(t, v) \in Seq(InnerItems)
<1>1. InnerNames \cap ({"vec", "elems", "body"} \cup OpeningNames) = {}
  BY DEF InnerNames, ByteSymbols, NumberSymbols, PartNames, OpeningNames
<1> QED
  BY <1>1, AfterAmong, FollowInner DEF InnerItems

(* The bits of a flag.                                                     *)
LEMMA Bits ==
  ASSUME NEW flag \in 0 .. 7
  PROVE  /\ Bit(flag, 0) <=> flag \in {1, 3, 5, 7}
         /\ Bit(flag, 1) <=> flag \in {2, 3, 6, 7}
         /\ Bit(flag, 2) <=> flag \in {4, 5, 6, 7}
<1>1. 2^0 = 1 /\ 2^1 = 2 /\ 2^2 = 4
  OBVIOUS
<1>2. /\ Bit(flag, 0) <=> (flag \div 1) % 2 = 1
      /\ Bit(flag, 1) <=> (flag \div 2) % 2 = 1
      /\ Bit(flag, 2) <=> (flag \div 4) % 2 = 1
  BY <1>1, Zenon DEF Bit
<1>3. /\ (flag \div 1) % 2 = 1 <=> flag \in {1, 3, 5, 7}
      /\ (flag \div 2) % 2 = 1 <=> flag \in {2, 3, 6, 7}
      /\ (flag \div 4) % 2 = 1 <=> flag \in {4, 5, 6, 7}
  OBVIOUS
<1> QED
  BY <1>2, <1>3

(* Short sequences put together.                                           *)
LEMMA JoinOne == ASSUME NEW a, NEW b PROVE <<a>> \o <<b>> = <<a, b>>
<1> DEFINE t == {a, b}
           l == <<a>> \o <<b>>
           r == <<a, b>>
<1>1. l \in Seq(t) /\ r \in Seq(t) /\ Len(l) = Len(r) /\ \A i \in 1 .. Len(l) : l[i] = r[i]
  OBVIOUS
<1> HIDE DEF t, l, r
<1>2. l = r
  BY <1>1, SeqEqual
<1> QED
  BY <1>2 DEF l, r

LEMMA JoinTwo == ASSUME NEW a, NEW b, NEW c PROVE <<a, b>> \o <<c>> = <<a, b, c>>
<1> DEFINE t == {a, b, c}
           l == <<a, b>> \o <<c>>
           r == <<a, b, c>>
<1>1. l \in Seq(t) /\ r \in Seq(t) /\ Len(l) = Len(r) /\ \A i \in 1 .. Len(l) : l[i] = r[i]
  OBVIOUS
<1> HIDE DEF t, l, r
<1>2. l = r
  BY <1>1, SeqEqual
<1> QED
  BY <1>2 DEF l, r

LEMMA JoinThree ==
  ASSUME NEW a, NEW b, NEW c, NEW d
  PROVE  <<a, b, c>> \o <<d>> = <<a, b, c, d>>
<1> DEFINE t == {a, b, c, d}
           l == <<a, b, c>> \o <<d>>
           r == <<a, b, c, d>>
<1>1. l \in Seq(t) /\ r \in Seq(t) /\ Len(l) = Len(r) /\ \A i \in 1 .. Len(l) : l[i] = r[i]
  OBVIOUS
<1> HIDE DEF t, l, r
<1>2. l = r
  BY <1>1, SeqEqual
<1> QED
  BY <1>2 DEF l, r

LEMMA JoinNone == ASSUME NEW a PROVE <<>> \o <<a>> = <<a>> /\ <<a>> \o <<>> = <<a>>
  OBVIOUS

(* The parts of an element segment and of a data segment.                  *)
LEMMA ElementParts ==
  ASSUME NEW flag \in ElementFlags
  PROVE  AfterElementFlag(flag) = ElementForm[flag]
<1> DEFINE e == S("expr")
           u == S("u32")
           k == S("elementkind")
           r == S("reftype")
           x == Vec("expr")
           y == Vec("u32")
<1>0. flag \in 0 .. 7
  BY DEF ElementFlags
<1> DEFINE a == IF Bit(flag, 0) THEN <<>> ELSE (IF Bit(flag, 1) THEN <<u>> ELSE <<>>) \o <<e>>
           b == IF NamesType(flag) THEN <<ElementType(flag)>> ELSE <<>>
           c == <<IF Bit(flag, 2) THEN x ELSE y>>
<1>1. AfterElementFlag(flag) = (a \o b) \o c
  BY DEF AfterElementFlag
<1>2. ElementForm[flag] =
        CASE flag = 0 -> <<e, y>>
          [] flag = 1 -> <<k, y>>
          [] flag = 2 -> <<u, e, k, y>>
          [] flag = 3 -> <<k, y>>
          [] flag = 4 -> <<e, x>>
          [] flag = 5 -> <<r, x>>
          [] flag = 6 -> <<u, e, r, x>>
          [] flag = 7 -> <<r, x>>
  BY <1>0 DEF ElementForm
<1>3. ElementType(flag) = IF Bit(flag, 2) THEN r ELSE k
  BY DEF ElementType
<1> HIDE DEF e, u, k, r, x, y
<1>4. CASE flag = 0
  <2>1. a = <<e>> /\ b = <<>> /\ c = <<y>>
    BY <1>0, <1>4, Bits DEF NamesType
  <2>2. (<<e>> \o <<>>) \o <<y>> = <<e, y>>
    BY JoinNone, JoinOne, JoinTwo, JoinThree, Zenon
  <2>3. ElementForm[flag] = <<e, y>>
    BY <1>2, <1>4
  <2> HIDE DEF a, b, c
  <2> QED
    BY <1>1, <2>1, <2>2, <2>3, Zenon
<1>5. CASE flag \in {1, 3}
  <2>1. a = <<>> /\ b = <<k>> /\ c = <<y>>
    BY <1>0, <1>3, <1>5, Bits DEF NamesType
  <2>2. (<<>> \o <<k>>) \o <<y>> = <<k, y>>
    BY JoinNone, JoinOne, JoinTwo, JoinThree, Zenon
  <2>3. ElementForm[flag] = <<k, y>>
    BY <1>2, <1>5
  <2> HIDE DEF a, b, c
  <2> QED
    BY <1>1, <2>1, <2>2, <2>3, Zenon
<1>6. CASE flag = 2
  <2>0. a = <<u>> \o <<e>> /\ b = <<k>> /\ c = <<y>>
    BY <1>0, <1>3, <1>6, Bits DEF NamesType
  <2>1. a = <<u, e>> /\ b = <<k>> /\ c = <<y>>
    BY <2>0, JoinOne
  <2>2. (<<u, e>> \o <<k>>) \o <<y>> = <<u, e, k, y>>
    <3>1. <<u, e>> \o <<k>> = <<u, e, k>>
      BY JoinTwo, Zenon
    <3>2. <<u, e, k>> \o <<y>> = <<u, e, k, y>>
      BY JoinThree, Zenon
    <3> QED
      BY <3>1, <3>2, Zenon
  <2>3. ElementForm[flag] = <<u, e, k, y>>
    BY <1>2, <1>6
  <2> HIDE DEF a, b, c
  <2> QED
    BY <1>1, <2>1, <2>2, <2>3, Zenon
<1>7. CASE flag = 4
  <2>1. a = <<e>> /\ b = <<>> /\ c = <<x>>
    BY <1>0, <1>7, Bits DEF NamesType
  <2>2. (<<e>> \o <<>>) \o <<x>> = <<e, x>>
    BY JoinNone, JoinOne, JoinTwo, JoinThree, Zenon
  <2>3. ElementForm[flag] = <<e, x>>
    BY <1>2, <1>7
  <2> HIDE DEF a, b, c
  <2> QED
    BY <1>1, <2>1, <2>2, <2>3, Zenon
<1>8. CASE flag \in {5, 7}
  <2>1. a = <<>> /\ b = <<r>> /\ c = <<x>>
    BY <1>0, <1>3, <1>8, Bits DEF NamesType
  <2>2. (<<>> \o <<r>>) \o <<x>> = <<r, x>>
    BY JoinNone, JoinOne, JoinTwo, JoinThree, Zenon
  <2>3. ElementForm[flag] = <<r, x>>
    BY <1>2, <1>8
  <2> HIDE DEF a, b, c
  <2> QED
    BY <1>1, <2>1, <2>2, <2>3, Zenon
<1>9. CASE flag = 6
  <2>0. a = <<u>> \o <<e>> /\ b = <<r>> /\ c = <<x>>
    BY <1>0, <1>3, <1>9, Bits DEF NamesType
  <2>1. a = <<u, e>> /\ b = <<r>> /\ c = <<x>>
    BY <2>0, JoinOne
  <2>2. (<<u, e>> \o <<r>>) \o <<x>> = <<u, e, r, x>>
    <3>1. <<u, e>> \o <<r>> = <<u, e, r>>
      BY JoinTwo, Zenon
    <3>2. <<u, e, r>> \o <<x>> = <<u, e, r, x>>
      BY JoinThree, Zenon
    <3> QED
      BY <3>1, <3>2, Zenon
  <2>3. ElementForm[flag] = <<u, e, r, x>>
    BY <1>2, <1>9
  <2> HIDE DEF a, b, c
  <2> QED
    BY <1>1, <2>1, <2>2, <2>3, Zenon
<1> QED
  BY <1>0, <1>4, <1>5, <1>6, <1>7, <1>8, <1>9

LEMMA DataParts ==
  ASSUME NEW flag \in DataFlags
  PROVE  AfterDataFlag(flag) = DataForm[flag]
<1> DEFINE e == S("expr")
           u == S("u32")
           x == Vec("byte")
<1>1. AfterDataFlag(flag) = (CASE flag = 0 -> <<e>> [] flag = 1 -> <<>> [] flag = 2 -> <<u, e>>) \o <<x>>
  BY DEF AfterDataFlag
<1>2. DataForm[flag] = CASE flag = 0 -> <<e, x>> [] flag = 1 -> <<x>> [] flag = 2 -> <<u, e, x>>
  BY DEF DataForm, DataFlags
<1> HIDE DEF e, u, x
<1>3. flag = 0 \/ flag = 1 \/ flag = 2
  BY DEF DataFlags
<1>4. CASE flag = 0
  BY <1>1, <1>2, <1>4, JoinOne
<1>5. CASE flag = 1
  BY <1>1, <1>2, <1>5, JoinNone
<1>6. CASE flag = 2
  BY <1>1, <1>2, <1>6, JoinTwo
<1> QED
  BY <1>3, <1>4, <1>5, <1>6

(* They begin with something that is read.                                 *)
LEMMA FormsInner ==
  /\ \A flag \in ElementFlags :
       /\ ElementForm[flag] \in Seq(InnerItems) /\ ElementForm[flag] # <<>>
       /\ ElementForm[flag][1][1] \in ByteSymbols \cup NumberSymbols
  /\ \A flag \in DataFlags :
       /\ DataForm[flag] \in Seq(InnerItems) /\ DataForm[flag] # <<>>
       /\ DataForm[flag][1][1] \in ByteSymbols \cup NumberSymbols
<1> DEFINE e == S("expr")
           u == S("u32")
           k == S("elementkind")
           r == S("reftype")
           x == Vec("expr")
           y == Vec("u32")
           z == Vec("byte")
<1>1. /\ e \in InnerItems /\ u \in InnerItems /\ k \in InnerItems /\ r \in InnerItems
      /\ x \in InnerItems /\ y \in InnerItems /\ z \in InnerItems
  BY InnerNamed, InnerSymbol, InnerVec
<1>2. /\ e[1] \in ByteSymbols \cup NumberSymbols /\ u[1] \in ByteSymbols \cup NumberSymbols
      /\ k[1] \in ByteSymbols \cup NumberSymbols /\ r[1] \in ByteSymbols \cup NumberSymbols
      /\ z[1] \in ByteSymbols \cup NumberSymbols
  BY DEF S, Vec, ByteSymbols, NumberSymbols
<1>3. \A flag \in ElementFlags :
        ElementForm[flag] \in {<<e, y>>, <<k, y>>, <<u, e, k, y>>, <<e, x>>, <<r, x>>, <<u, e, r, x>>}
  BY DEF ElementFlags, ElementForm
<1>4. \A flag \in DataFlags : DataForm[flag] \in {<<e, z>>, <<z>>, <<u, e, z>>}
  BY DEF DataFlags, DataForm
<1> HIDE DEF e, u, k, r, x, y, z
<1>5. ASSUME NEW q \in {<<e, y>>, <<k, y>>, <<u, e, k, y>>, <<e, x>>, <<r, x>>, <<u, e, r, x>>,
                        <<e, z>>, <<z>>, <<u, e, z>>}
      PROVE  q \in Seq(InnerItems) /\ q # <<>> /\ q[1][1] \in ByteSymbols \cup NumberSymbols
  <2>1. CASE q \in {<<e, y>>, <<k, y>>, <<e, x>>, <<r, x>>, <<e, z>>}
    <3>1. ASSUME NEW a \in {e, k, r}, NEW b \in {x, y, z}, q = <<a, b>>
          PROVE  q \in Seq(InnerItems) /\ q # <<>> /\ q[1][1] \in ByteSymbols \cup NumberSymbols
      <4>1. /\ a \in InnerItems /\ a[1] \in ByteSymbols \cup NumberSymbols
            /\ b \in InnerItems
        BY <1>1, <1>2
      <4> QED
        BY <3>1, <4>1
    <3> QED
      BY <2>1, <3>1
  <2>2. CASE q = <<z>>
    BY <1>1, <1>2, <2>2
  <2>3. CASE q = <<u, e, z>>
    BY <1>1, <1>2, <2>3
  <2>4. CASE q = <<u, e, k, y>>
    BY <1>1, <1>2, <2>4
  <2>5. CASE q = <<u, e, r, x>>
    BY <1>1, <1>2, <2>5
  <2> QED
    BY <1>5, <2>1, <2>2, <2>3, <2>4, <2>5
<1>6. \A flag \in ElementFlags :
        /\ ElementForm[flag] \in Seq(InnerItems) /\ ElementForm[flag] # <<>>
        /\ ElementForm[flag][1][1] \in ByteSymbols \cup NumberSymbols
  <2> TAKE flag \in ElementFlags
  <2> DEFINE q == ElementForm[flag]
  <2>1. q \in {<<e, y>>, <<k, y>>, <<u, e, k, y>>, <<e, x>>, <<r, x>>, <<u, e, r, x>>}
    BY <1>3
  <2> HIDE DEF q
  <2>2. q \in {<<e, y>>, <<k, y>>, <<u, e, k, y>>, <<e, x>>, <<r, x>>, <<u, e, r, x>>,
               <<e, z>>, <<z>>, <<u, e, z>>}
    BY <2>1
  <2>3. q \in Seq(InnerItems) /\ q # <<>> /\ q[1][1] \in ByteSymbols \cup NumberSymbols
    BY <1>5, <2>2
  <2> QED
    BY <2>3 DEF q
<1>7. \A flag \in DataFlags :
        /\ DataForm[flag] \in Seq(InnerItems) /\ DataForm[flag] # <<>>
        /\ DataForm[flag][1][1] \in ByteSymbols \cup NumberSymbols
  <2> TAKE flag \in DataFlags
  <2> DEFINE q == DataForm[flag]
  <2>1. q \in {<<e, z>>, <<z>>, <<u, e, z>>}
    BY <1>4
  <2> HIDE DEF q
  <2>2. q \in {<<e, y>>, <<k, y>>, <<u, e, k, y>>, <<e, x>>, <<r, x>>, <<u, e, r, x>>,
               <<e, z>>, <<z>>, <<u, e, z>>}
    BY <2>1
  <2>3. q \in Seq(InnerItems) /\ q # <<>> /\ q[1][1] \in ByteSymbols \cup NumberSymbols
    BY <1>5, <2>2
  <2> QED
    BY <2>3 DEF q
<1> QED
  BY <1>6, <1>7

-----------------------------------------------------------------------------
(* The calls under way.                                                    *)

ReadItems == {S(x) : x \in ReadNames}

(* The sections whose entries begin with a value that decides what follows. *)
Special == {"element", "code", "data"}

OpeningOf(kind) ==
  CASE kind = "element" -> S("elementflag")
    [] kind = "code"    -> S("codesize")
    [] kind = "data"    -> S("dataflag")

(* What an entry may be before any of it has been read.                    *)
Openings(kind) == {S(kind)} \cup (IF kind \in Special THEN {OpeningOf(kind)} ELSE {})

(* What is left of a section after n more entries of it, and of the        *)
(* function that comes before them.                                        *)
Remaining(kind, n) == <<Elems(kind, n), S("close")>>
FunctionEnd(n) == <<S("close"), Elems("code", n), S("close")>>
BodyEnd(n) == <<S("body"), S("close"), Elems("code", n), S("close")>>

(* kind is the section's, depth the number of readers, td, fr and en are   *)
(* todo, frames and entry.                                                 *)
AtValue(kind, depth, td) == kind \notin EntryKinds /\ depth = 1 /\ td \in Seq(InnerItems)

AtEnd(kind, depth, td) == kind \in EntryKinds /\ depth = 1 /\ td = <<>>

AtCount(kind, depth, td, en) ==
  kind \in EntryKinds /\ depth = 2 /\ td = <<Vec(kind), S("close")>> /\ en = <<>>

AtClose(kind, depth, td) == kind \in EntryKinds /\ depth = 2 /\ td = <<S("close")>>

AtOpening(kind, depth, td, en) ==
  /\ kind \in EntryKinds /\ depth = 2 /\ en = <<>>
  /\ \E n \in Nat, o \in Openings(kind) : td = <<o>> \o Remaining(kind, n)

InEntry(kind, depth, td, en) ==
  /\ kind \in EntryKinds /\ depth = 2
  /\ \E n \in Nat, p \in Seq(InnerItems) :
       /\ td = p \o Remaining(kind, n)
       /\ p # <<>> => kind # "code" /\ (en = <<>> => p[1] \in ReadItems)

InFunction(kind, depth, td, fr, en) ==
  /\ kind = "code" /\ depth = 3 /\ en # <<>>
  /\ \E n \in Nat, p \in Seq(InnerItems) :
       \/ td = p \o FunctionEnd(n)
       \/ td = p \o BodyEnd(n) /\ fr # <<>>

Shaped(kind, depth, td, fr, en) ==
  \/ AtValue(kind, depth, td)
  \/ AtEnd(kind, depth, td)
  \/ AtCount(kind, depth, td, en)
  \/ AtClose(kind, depth, td)
  \/ AtOpening(kind, depth, td, en)
  \/ InEntry(kind, depth, td, en)
  \/ InFunction(kind, depth, td, fr, en)

LEMMA PartsDomain == DOMAIN Parts = EntryKinds \cup PartNames
  BY DEF Parts, EntryKinds, PartNames

LEMMA PartsInner ==
  ASSUME NEW x \in PartNames \cup (EntryKinds \ Special)
  PROVE  Parts[x] \in Seq(InnerItems) /\ Parts[x] # <<>> /\ Parts[x][1] \in ReadItems
<1> DEFINE a == S("reftype")
           b == S("limit")
           c == S("valtype")
           d == S("mutability")
           e == S("localcount")
           f == S("functype")
           g == Vec("valtype")
           h == S("name")
           i == S("importkind")
           j == S("u32")
           k == S("tableprefix")
           l == S("globaltype")
           m == S("expr")
           n == S("exportkind")
<1>1. x \in {"tabletype", "globaltype", "local", "type", "import", "function", "table", "memory",
             "global", "export"}
  BY DEF PartNames, EntryKinds, Special
<1>2. Parts[x] \in {<<a, b>>, <<c, d>>, <<e, c>>, <<f, g, g>>, <<h, h, i>>, <<j>>, <<k>>,
                    <<b>>, <<l, m>>, <<h, n, j>>}
  <2>1. CASE x = "tabletype"
    BY <2>1 DEF Parts, TableType
  <2>2. CASE x = "globaltype"
    BY <2>2 DEF Parts, GlobalType
  <2>3. CASE x = "local"
    BY <2>3 DEF Parts, FuncLocal
  <2>4. CASE x = "type"
    BY <2>4 DEF Parts, FuncType
  <2>5. CASE x = "import"
    BY <2>5 DEF Parts, ImportEntry
  <2>6. CASE x = "function"
    BY <2>6 DEF Parts, TypeIdx
  <2>7. CASE x = "table"
    BY <2>7 DEF Parts
  <2>8. CASE x = "memory"
    BY <2>8 DEF Parts, MemType
  <2>9. CASE x = "global"
    BY <2>9 DEF Parts, GlobalEntry
  <2>10. CASE x = "export"
    BY <2>10 DEF Parts, ExportEntry
  <2> QED
    BY <1>1, <2>1, <2>2, <2>3, <2>4, <2>5, <2>6, <2>7, <2>8, <2>9, <2>10
<1>3. {"reftype", "limit", "valtype", "mutability", "localcount", "functype", "name",
       "importkind", "u32", "tableprefix", "globaltype", "expr", "exportkind"} \subseteq ReadNames
  BY InnerNamed DEF ReadNames, PartNames
<1>4. ReadItems \subseteq InnerItems
  BY DEF ReadItems, InnerItems, Among, ReadNames
<1>5. /\ a \in ReadItems /\ b \in ReadItems /\ c \in ReadItems /\ d \in ReadItems
      /\ e \in ReadItems /\ f \in ReadItems /\ h \in ReadItems /\ i \in ReadItems
      /\ j \in ReadItems /\ k \in ReadItems /\ l \in ReadItems /\ m \in ReadItems
      /\ n \in ReadItems
  BY <1>3 DEF ReadItems
<1>6. g \in InnerItems
  BY InnerNamed, InnerVec
<1> HIDE DEF a, b, c, d, e, f, g, h, i, j, k, l, m, n
<1>7. CASE Parts[x] \in {<<a, b>>, <<c, d>>, <<e, c>>, <<l, m>>}
  <2>1. ASSUME NEW y \in ReadItems, NEW z \in ReadItems
        PROVE  <<y, z>> \in Seq(InnerItems) /\ <<y, z>> # <<>> /\ <<y, z>>[1] \in ReadItems
    BY <1>4
  <2>2. \E y \in ReadItems, z \in ReadItems : Parts[x] = <<y, z>>
    BY <1>5, <1>7
  <2> QED
    BY <2>1, <2>2, Zenon
<1>8. CASE Parts[x] \in {<<f, g, g>>, <<h, h, i>>, <<h, n, j>>}
  <2>1. ASSUME NEW y \in ReadItems, NEW z \in InnerItems, NEW w \in InnerItems
        PROVE  <<y, z, w>> \in Seq(InnerItems) /\ <<y, z, w>> # <<>> /\ <<y, z, w>>[1] \in ReadItems
    BY <1>4
  <2>2. h \in InnerItems /\ i \in InnerItems /\ n \in InnerItems /\ j \in InnerItems
    BY <1>4, <1>5
  <2> QED
    BY <1>5, <1>6, <1>8, <2>1, <2>2, Zenon
<1>9. CASE Parts[x] \in {<<j>>, <<k>>, <<b>>}
  <2>1. ASSUME NEW y \in ReadItems
        PROVE  <<y>> \in Seq(InnerItems) /\ <<y>> # <<>> /\ <<y>>[1] \in ReadItems
    BY <1>4
  <2> QED
    BY <1>5, <1>9, <2>1, Zenon
<1> QED
  BY <1>2, <1>7, <1>8, <1>9

LEMMA PartsOpening ==
  ASSUME NEW x \in Special
  PROVE  Parts[x] = <<OpeningOf(x)>>
<1>1. CASE x = "element"
  BY <1>1 DEF Parts, OpeningOf
<1>2. CASE x = "code"
  BY <1>2 DEF Parts, OpeningOf
<1>3. CASE x = "data"
  BY <1>3 DEF Parts, OpeningOf
<1> QED
  BY <1>1, <1>2, <1>3 DEF Special

(* The first of the calls under way is replaced by others.                 *)
LEMMA Replace ==
  ASSUME NEW T, NEW p \in Seq(T), p # <<>>, NEW q \in Seq(T), NEW e \in Seq(T)
  PROVE  /\ p \o e # <<>> /\ (p \o e)[1] = p[1]
         /\ q \o Tail(p) \in Seq(T)
         /\ q \o Tail(p \o e) = (q \o Tail(p)) \o e
         /\ q # <<>> => q \o Tail(p) # <<>> /\ (q \o Tail(p))[1] = q[1]
<1>1. Tail(p) \in Seq(T) /\ Len(p) \in Nat \ {0} /\ p \o e \in Seq(T)
  OBVIOUS
<1>2. p \o e # <<>> /\ (p \o e)[1] = p[1]
  OBVIOUS
<1>3. Tail(p \o e) = Tail(p) \o e
  <2> DEFINE l == Tail(p \o e)
             r == Tail(p) \o e
  <2>1. l \in Seq(T) /\ r \in Seq(T) /\ Len(l) = Len(r)
    BY <1>1
  <2>2. \A i \in 1 .. Len(l) : l[i] = r[i]
    BY <1>1
  <2> HIDE DEF l, r
  <2>3. l = r
    BY <2>1, <2>2, SeqEqual
  <2> QED
    BY <2>3 DEF l, r
<1> DEFINE u == Tail(p)
<1>4. u \in Seq(T)
  BY <1>1
<1> HIDE DEF u
<1>5. q \o (u \o e) = (q \o u) \o e
  BY <1>4, ConcatAssociative, SMTT(20)
<1>6. q \o u \in Seq(T) /\ (q # <<>> => q \o u # <<>> /\ (q \o u)[1] = q[1])
  BY <1>4
<1> QED
  BY <1>2, <1>3, <1>5, <1>6 DEF u

LEMMA EndsAreItems ==
  ASSUME NEW kind \in EntryKinds, NEW n \in Nat
  PROVE  /\ Remaining(kind, n) \in Seq(Items)
         /\ FunctionEnd(n) \in Seq(Items) /\ BodyEnd(n) \in Seq(Items)
<1>1. /\ Elems(kind, n) \in Items /\ S("close") \in Items /\ S("body") \in Items
      /\ Elems("code", n) \in Items
  BY DEF Items, Among, Names, EntryKinds
<1> QED
  BY <1>1 DEF Remaining, FunctionEnd, BodyEnd

(* Items by the symbol they begin with.                                    *)
LEMMA InnerSymbols ==
  ASSUME NEW t \in InnerItems
  PROVE  /\ t[1] \in InnerNames \cup {"vec", "elems"}
         /\ t[1] = "vec" => \E x \in InnerNames : t = Vec(x)
         /\ t[1] = "elems" => \E x \in InnerNames, n \in Nat : t = Elems(x, n)
         /\ t[1] \notin {"vec", "elems"} => t = S(t[1])
<1>1. "vec" \notin InnerNames /\ "elems" \notin InnerNames
  BY DEF InnerNames, ByteSymbols, NumberSymbols, PartNames
<1>2. CASE \E x \in InnerNames : t = S(x)
  BY <1>1, <1>2, ItemParts
<1>3. CASE \E x \in InnerNames : t = Vec(x)
  BY <1>3, ItemParts
<1>4. CASE \E x \in InnerNames, n \in Nat : t = Elems(x, n)
  BY <1>4, ItemParts
<1> QED
  BY <1>2, <1>3, <1>4 DEF InnerItems, Among

LEMMA NamesApart ==
  /\ InnerNames \cap {"vec", "elems", "body", "close", "codesize", "elementflag", "dataflag"} = {}
  /\ InnerNames \cap EntryKinds = {}
  /\ EntryKinds \cap (ByteSymbols \cup NumberSymbols) = {}
  /\ {"elems", "close", "localslimit"} \cap (ByteSymbols \cup NumberSymbols) = {}
  /\ DOMAIN Parts \cap (ByteSymbols \cup NumberSymbols) = {}
  /\ DOMAIN Parts \cap {"vec", "elems", "body", "close", "localslimit"} = {}
  /\ DOMAIN Parts \cap InnerNames = PartNames
  /\ EntryKinds \cap {"vec", "elems", "body", "close", "localslimit"} = {}
  /\ "localslimit" \in InnerNames /\ "localslimit" \notin ReadNames
<1>1. /\ InnerNames \cap {"vec", "elems", "body", "close", "codesize", "elementflag", "dataflag"} = {}
      /\ InnerNames \cap EntryKinds = {}
  BY DEF InnerNames, ByteSymbols, NumberSymbols, PartNames, OpeningNames, EntryKinds
<1>2. /\ EntryKinds \cap (ByteSymbols \cup NumberSymbols) = {}
      /\ {"elems", "close", "localslimit"} \cap (ByteSymbols \cup NumberSymbols) = {}
      /\ EntryKinds \cap {"vec", "elems", "body", "close", "localslimit"} = {}
  BY DEF ByteSymbols, NumberSymbols, EntryKinds
<1>3. /\ PartNames \cap (ByteSymbols \cup NumberSymbols) = {}
      /\ PartNames \cap {"vec", "elems", "body", "close", "localslimit"} = {}
      /\ PartNames \subseteq InnerNames
  BY DEF ByteSymbols, NumberSymbols, PartNames, InnerNames
<1>4. "localslimit" \in InnerNames /\ "localslimit" \notin ReadNames
  BY DEF InnerNames, ReadNames
<1> QED
  BY <1>1, <1>2, <1>3, <1>4, PartsDomain

LEMMA OpeningSymbols ==
  ASSUME NEW kind \in EntryKinds, NEW o \in Openings(kind)
  PROVE  /\ o = S(kind) \/ (kind \in Special /\ o = OpeningOf(kind))
         /\ o \in Items /\ o \notin InnerItems
         /\ o[1] \in {kind} \cup OpeningNames
         /\ o[1] = "codesize" => kind = "code"
         /\ o[1] = "elementflag" => kind = "element"
         /\ o[1] = "dataflag" => kind = "data"
         /\ o[1] \in DOMAIN Parts => o = S(kind)
<1>1. o = S(kind) \/ (kind \in Special /\ o = OpeningOf(kind))
  BY DEF Openings
<1>2. CASE o = S(kind)
  <2>1. o[1] = kind
    BY <1>2, ItemParts
  <2>2. o \in Items
    BY <1>2 DEF Items, Among, Names
  <2>3. o \notin InnerItems
    BY <2>1, InnerSymbols, NamesApart
  <2>4. kind \notin OpeningNames
    BY DEF EntryKinds, OpeningNames
  <2> QED
    BY <1>2, <2>1, <2>2, <2>3, <2>4 DEF OpeningNames
<1>3. CASE kind \in Special /\ o = OpeningOf(kind)
  <2>1. \/ kind = "element" /\ o = S("elementflag")
        \/ kind = "code" /\ o = S("codesize")
        \/ kind = "data" /\ o = S("dataflag")
    BY <1>3 DEF Special, OpeningOf
  <2>2. \/ kind = "element" /\ o[1] = "elementflag"
        \/ kind = "code" /\ o[1] = "codesize"
        \/ kind = "data" /\ o[1] = "dataflag"
    BY <2>1, ItemParts
  <2>3. o \in Items
    BY <2>1 DEF Items, Among, Names, OpeningNames
  <2>4. o \notin InnerItems
    BY <2>2, InnerSymbols, NamesApart
  <2>5. o[1] \in OpeningNames /\ o[1] \notin DOMAIN Parts
    BY <2>2, PartsDomain DEF OpeningNames, EntryKinds, PartNames
  <2> QED
    BY <1>3, <2>2, <2>3, <2>4, <2>5
<1> QED
  BY <1>1, <1>2, <1>3

LEMMA EndParts ==
  ASSUME NEW kind, NEW n
  PROVE  /\ Remaining(kind, n)[1] = Elems(kind, n) /\ Tail(Remaining(kind, n)) = <<S("close")>>
         /\ FunctionEnd(n)[1] = S("close") /\ Tail(FunctionEnd(n)) = Remaining("code", n)
         /\ BodyEnd(n)[1] = S("body") /\ Tail(BodyEnd(n)) = FunctionEnd(n)
         /\ Remaining(kind, n) # <<>> /\ FunctionEnd(n) # <<>> /\ BodyEnd(n) # <<>>
<1> DEFINE a == Elems(kind, n)
           b == Elems("code", n)
           c == S("close")
           d == S("body")
<1>1. /\ Remaining(kind, n) = <<a, c>> /\ FunctionEnd(n) = <<c, b, c>>
      /\ BodyEnd(n) = <<d, c, b, c>> /\ Remaining("code", n) = <<b, c>>
  BY DEF Remaining, FunctionEnd, BodyEnd
<1> HIDE DEF a, b, c, d
<1> DEFINE t == {a, b, c, d}
<1>2. Tail(<<a, c>>) = <<c>>
  <2> DEFINE l == Tail(<<a, c>>)
             r == <<c>>
  <2>1. l \in Seq(t) /\ r \in Seq(t) /\ Len(l) = Len(r) /\ \A i \in 1 .. Len(l) : l[i] = r[i]
    OBVIOUS
  <2> HIDE DEF t, l, r
  <2>2. l = r
    BY <2>1, SeqEqual
  <2> QED
    BY <2>2 DEF l, r
<1>3. Tail(<<c, b, c>>) = <<b, c>>
  <2> DEFINE l == Tail(<<c, b, c>>)
             r == <<b, c>>
  <2>1. l \in Seq(t) /\ r \in Seq(t) /\ Len(l) = Len(r) /\ \A i \in 1 .. Len(l) : l[i] = r[i]
    OBVIOUS
  <2> HIDE DEF t, l, r
  <2>2. l = r
    BY <2>1, SeqEqual
  <2> QED
    BY <2>2 DEF l, r
<1>4. Tail(<<d, c, b, c>>) = <<c, b, c>>
  <2> DEFINE l == Tail(<<d, c, b, c>>)
             r == <<c, b, c>>
  <2>1. l \in Seq(t) /\ r \in Seq(t) /\ Len(l) = Len(r) /\ \A i \in 1 .. Len(l) : l[i] = r[i]
    OBVIOUS
  <2> HIDE DEF t, l, r
  <2>2. l = r
    BY <2>1, SeqEqual
  <2> QED
    BY <2>2 DEF l, r
<1> QED
  BY <1>1, <1>2, <1>3, <1>4 DEF a, c, d

(* The calls under way are items.                                          *)
LEMMA ShapedItems ==
  ASSUME NEW kind, NEW depth, NEW td, NEW fr, NEW en, Shaped(kind, depth, td, fr, en)
  PROVE  td \in Seq(Items)
<1>1. ASSUME NEW p \in Seq(InnerItems), NEW e \in Seq(Items)
      PROVE  p \o e \in Seq(Items)
  <2>1. p \in Seq(Items)
    BY InnerAreItems
  <2> QED
    BY <2>1
<1>2. CASE AtValue(kind, depth, td)
  BY <1>2, InnerAreItems DEF AtValue
<1>3. CASE AtEnd(kind, depth, td)
  BY <1>3 DEF AtEnd
<1>4. CASE AtCount(kind, depth, td, en)
  <2>1. Vec(kind) \in Items /\ S("close") \in Items
    BY <1>4 DEF AtCount, Items, Among, Names
  <2> QED
    BY <1>4, <2>1 DEF AtCount
<1>5. CASE AtClose(kind, depth, td)
  <2>1. S("close") \in Items
    BY DEF Items, Among, Names
  <2> QED
    BY <1>5, <2>1 DEF AtClose
<1>6. CASE AtOpening(kind, depth, td, en)
  <2>1. kind \in EntryKinds
    BY <1>6 DEF AtOpening
  <2>2. PICK n \in Nat, o \in Openings(kind) : td = <<o>> \o Remaining(kind, n)
    BY <1>6 DEF AtOpening
  <2>3. o \in Items /\ Remaining(kind, n) \in Seq(Items)
    BY <2>1, OpeningSymbols, EndsAreItems
  <2> QED
    BY <2>2, <2>3
<1>7. CASE InEntry(kind, depth, td, en)
  BY <1>1, <1>7, EndsAreItems DEF InEntry
<1>8. CASE InFunction(kind, depth, td, fr, en)
  <2>1. kind \in EntryKinds
    BY <1>8 DEF InFunction, EntryKinds
  <2> QED
    BY <1>1, <1>8, <2>1, EndsAreItems DEF InFunction
<1> QED
  BY <1>2, <1>3, <1>4, <1>5, <1>6, <1>7, <1>8 DEF Shaped

(* What the next call may be.                                              *)
LEMMA TopCases ==
  ASSUME NEW kind, NEW depth, NEW td, NEW fr, NEW en, Shaped(kind, depth, td, fr, en),
         td # <<>>
  PROVE  \/ td[1] \in InnerItems
         \/ AtCount(kind, depth, td, en) /\ td[1] = Vec(kind)
         \/ AtClose(kind, depth, td) /\ td[1] = S("close")
         \/ /\ kind \in EntryKinds /\ depth = 2 /\ en = <<>>
            /\ \E n \in Nat, o \in Openings(kind) :
                 td = <<o>> \o Remaining(kind, n) /\ td[1] = o /\ Tail(td) = Remaining(kind, n)
         \/ /\ kind \in EntryKinds /\ depth = 2
            /\ \E n \in Nat : /\ td = Remaining(kind, n) /\ td[1] = Elems(kind, n)
                              /\ Tail(td) = <<S("close")>>
         \/ /\ kind = "code" /\ depth = 3 /\ en # <<>>
            /\ \E n \in Nat : /\ td = FunctionEnd(n) /\ td[1] = S("close")
                              /\ Tail(td) = Remaining("code", n)
         \/ /\ kind = "code" /\ depth = 3 /\ en # <<>> /\ fr # <<>>
            /\ \E n \in Nat : /\ td = BodyEnd(n) /\ td[1] = S("body")
                              /\ Tail(td) = FunctionEnd(n)
<1>1. ASSUME NEW p \in Seq(InnerItems), p # <<>>, NEW e \in Seq(Items), td = p \o e
      PROVE  td[1] \in InnerItems
  <2>1. p[1] \in InnerItems /\ p \in Seq(Items)
    BY <1>1, InnerAreItems
  <2>2. (p \o e)[1] = p[1]
    BY <1>1, <2>1
  <2> QED
    BY <1>1, <2>1, <2>2
<1>2. ASSUME NEW e \in Seq(Items) PROVE <<>> \o e = e
  BY ConcatEmptySeq
<1>3. CASE AtValue(kind, depth, td)
  BY <1>3 DEF AtValue
<1>4. CASE AtEnd(kind, depth, td)
  BY <1>4 DEF AtEnd
<1>5. CASE AtCount(kind, depth, td, en)
  BY <1>5 DEF AtCount
<1>6. CASE AtClose(kind, depth, td)
  BY <1>6 DEF AtClose
<1>7. CASE AtOpening(kind, depth, td, en)
  <2>1. kind \in EntryKinds /\ depth = 2 /\ en = <<>>
    BY <1>7 DEF AtOpening
  <2>2. PICK n \in Nat, o \in Openings(kind) : td = <<o>> \o Remaining(kind, n)
    BY <1>7 DEF AtOpening
  <2>3. o \in Items /\ Remaining(kind, n) \in Seq(Items)
    BY <2>1, OpeningSymbols, EndsAreItems
  <2>4. td[1] = o
    BY <2>2, <2>3
  <2>5. Tail(td) = Remaining(kind, n)
    <3> DEFINE r == Remaining(kind, n)
               l == Tail(<<o>> \o r)
    <3>1. r \in Seq(Items)
      BY <2>3
    <3> HIDE DEF r
    <3>2. l \in Seq(Items) /\ Len(l) = Len(r) /\ \A i \in 1 .. Len(l) : l[i] = r[i]
      BY <2>3, <3>1
    <3> HIDE DEF l
    <3>3. l = r
      BY <3>1, <3>2, SeqEqual
    <3> QED
      BY <2>2, <3>3 DEF l, r
  <2> QED
    BY <2>1, <2>2, <2>4, <2>5
<1>8. CASE InEntry(kind, depth, td, en)
  <2>1. kind \in EntryKinds /\ depth = 2
    BY <1>8 DEF InEntry
  <2>2. PICK n \in Nat, p \in Seq(InnerItems) : td = p \o Remaining(kind, n)
    BY <1>8 DEF InEntry
  <2>3. Remaining(kind, n) \in Seq(Items)
    BY <2>1, EndsAreItems
  <2>4. CASE p = <<>>
    <3>1. td = Remaining(kind, n)
      BY <1>2, <2>2, <2>3, <2>4, Zenon
    <3>2. td[1] = Elems(kind, n) /\ Tail(td) = <<S("close")>>
      BY <3>1, EndParts, Zenon
    <3> QED
      BY <2>1, <3>1, <3>2
  <2>5. CASE p # <<>>
    BY <1>1, <2>2, <2>3, <2>5
  <2> QED
    BY <2>4, <2>5
<1>9. CASE InFunction(kind, depth, td, fr, en)
  <2>1. kind = "code" /\ depth = 3 /\ en # <<>> /\ kind \in EntryKinds
    BY <1>9 DEF InFunction, EntryKinds
  <2>2. PICK n \in Nat, p \in Seq(InnerItems) :
          td = p \o FunctionEnd(n) \/ (td = p \o BodyEnd(n) /\ fr # <<>>)
    BY <1>9 DEF InFunction
  <2>3. FunctionEnd(n) \in Seq(Items) /\ BodyEnd(n) \in Seq(Items)
    BY <2>1, EndsAreItems
  <2>4. CASE p = <<>>
    <3>1. td = FunctionEnd(n) \/ (td = BodyEnd(n) /\ fr # <<>>)
      BY <1>2, <2>2, <2>3, <2>4, Zenon
    <3>2. td = FunctionEnd(n) => td[1] = S("close") /\ Tail(td) = Remaining("code", n)
      BY EndParts, Zenon
    <3>3. td = BodyEnd(n) => td[1] = S("body") /\ Tail(td) = FunctionEnd(n)
      BY EndParts, Zenon
    <3> QED
      BY <2>1, <3>1, <3>2, <3>3
  <2>5. CASE p # <<>>
    BY <1>1, <2>2, <2>3, <2>5
  <2> QED
    BY <2>4, <2>5
<1> QED
  BY <1>3, <1>4, <1>5, <1>6, <1>7, <1>8, <1>9 DEF Shaped

(* Where an inner item may be the next call.                               *)
LEMMA InnerCases ==
  ASSUME NEW kind, NEW depth, NEW td, NEW fr, NEW en, Shaped(kind, depth, td, fr, en),
         td # <<>>, td[1] \in InnerItems
  PROVE  \/ AtValue(kind, depth, td)
         \/ /\ kind \in EntryKinds /\ depth = 2
            /\ \E n \in Nat, p \in Seq(InnerItems) :
                 /\ td = p \o Remaining(kind, n) /\ p # <<>> /\ td[1] = p[1]
                 /\ kind # "code" /\ (en = <<>> => p[1] \in ReadItems)
         \/ /\ kind = "code" /\ depth = 3 /\ en # <<>>
            /\ \E n \in Nat, p \in Seq(InnerItems) :
                 /\ p # <<>> /\ td[1] = p[1]
                 /\ \/ td = p \o FunctionEnd(n)
                    \/ td = p \o BodyEnd(n) /\ fr # <<>>
<1>1. ASSUME NEW p \in Seq(InnerItems), p # <<>>, NEW e \in Seq(Items), td = p \o e
      PROVE  td[1] = p[1]
  BY <1>1
<1>2. ASSUME NEW e \in Seq(Items) PROVE <<>> \o e = e
  BY ConcatEmptySeq
<1>3. /\ S("close") \notin InnerItems /\ S("body") \notin InnerItems
      /\ \A k \in EntryKinds : Vec(k) \notin InnerItems
      /\ \A k \in EntryKinds, n \in Nat : Elems(k, n) \notin InnerItems
  <2>1. S("close") \notin InnerItems /\ S("body") \notin InnerItems
    <3>1. S("close")[1] = "close" /\ S("body")[1] = "body"
      BY DEF S
    <3>2. ASSUME NEW t \in InnerItems PROVE t[1] \notin {"close", "body"}
      BY InnerSymbols, NamesApart
    <3> QED
      BY <3>1, <3>2, Zenon
  <2>2. ASSUME NEW k \in EntryKinds, Vec(k) \in InnerItems PROVE FALSE
    <3>1. Vec(k)[1] = "vec" /\ Vec(k)[2] = k
      BY ItemParts
    <3>2. PICK x \in InnerNames : Vec(k) = Vec(x)
      BY <2>2, <3>1, InnerSymbols
    <3>3. x = k
      BY <3>2 DEF Vec
    <3> QED
      BY <3>3, NamesApart
  <2>3. ASSUME NEW k \in EntryKinds, NEW n \in Nat, Elems(k, n) \in InnerItems PROVE FALSE
    <3>1. Elems(k, n)[1] = "elems" /\ Elems(k, n)[2] = k
      BY ItemParts
    <3>2. PICK x \in InnerNames, m \in Nat : Elems(k, n) = Elems(x, m)
      BY <2>3, <3>1, InnerSymbols
    <3>3. x = k
      BY <3>2 DEF Elems
    <3> QED
      BY <3>3, NamesApart
  <2> QED
    BY <2>1, <2>2, <2>3
<1>4. CASE AtValue(kind, depth, td)
  BY <1>4
<1>5. CASE AtEnd(kind, depth, td)
  BY <1>5 DEF AtEnd
<1>6. CASE AtCount(kind, depth, td, en)
  BY <1>3, <1>6 DEF AtCount
<1>7. CASE AtClose(kind, depth, td)
  BY <1>3, <1>7 DEF AtClose
<1>8. CASE AtOpening(kind, depth, td, en)
  <2>1. kind \in EntryKinds
    BY <1>8 DEF AtOpening
  <2>2. PICK n \in Nat, o \in Openings(kind) : td = <<o>> \o Remaining(kind, n)
    BY <1>8 DEF AtOpening
  <2>3. o \in Items /\ Remaining(kind, n) \in Seq(Items) /\ o \notin InnerItems
    BY <2>1, OpeningSymbols, EndsAreItems
  <2>4. td[1] = o
    BY <2>2, <2>3
  <2> QED
    BY <2>3, <2>4
<1>9. CASE InEntry(kind, depth, td, en)
  <2>1. kind \in EntryKinds /\ depth = 2
    BY <1>9 DEF InEntry
  <2>2. PICK n \in Nat, p \in Seq(InnerItems) :
          /\ td = p \o Remaining(kind, n)
          /\ p # <<>> => kind # "code" /\ (en = <<>> => p[1] \in ReadItems)
    BY <1>9 DEF InEntry
  <2>3. Remaining(kind, n) \in Seq(Items)
    BY <2>1, EndsAreItems
  <2>4. p # <<>>
    <3>1. SUFFICES ASSUME p = <<>> PROVE FALSE
      OBVIOUS
    <3>2. td = Remaining(kind, n)
      BY <1>2, <2>2, <2>3, <3>1, Zenon
    <3>3. td[1] = Elems(kind, n)
      BY <3>2, EndParts, Zenon
    <3> QED
      BY <1>3, <2>1, <3>3
  <2>5. td[1] = p[1]
    BY <1>1, <2>2, <2>3, <2>4
  <2> QED
    BY <2>1, <2>2, <2>4, <2>5
<1>10. CASE InFunction(kind, depth, td, fr, en)
  <2>1. kind = "code" /\ depth = 3 /\ en # <<>> /\ kind \in EntryKinds
    BY <1>10 DEF InFunction, EntryKinds
  <2>2. PICK n \in Nat, p \in Seq(InnerItems) :
          td = p \o FunctionEnd(n) \/ (td = p \o BodyEnd(n) /\ fr # <<>>)
    BY <1>10 DEF InFunction
  <2>3. FunctionEnd(n) \in Seq(Items) /\ BodyEnd(n) \in Seq(Items)
    BY <2>1, EndsAreItems
  <2>4. p # <<>>
    <3>1. SUFFICES ASSUME p = <<>> PROVE FALSE
      OBVIOUS
    <3>2. td = FunctionEnd(n) \/ td = BodyEnd(n)
      BY <1>2, <2>2, <2>3, <3>1, Zenon
    <3>3. td[1] = S("close") \/ td[1] = S("body")
      BY <3>2, EndParts, Zenon
    <3> QED
      BY <1>3, <3>3
  <2>5. td[1] = p[1]
    BY <1>1, <2>2, <2>3, <2>4
  <2> QED
    BY <2>1, <2>2, <2>4, <2>5
<1> QED
  BY <1>4, <1>5, <1>6, <1>7, <1>8, <1>9, <1>10 DEF Shaped

(* An inner item is replaced by what it reads in turn.                     *)
LEMMA InnerReplaced ==
  ASSUME NEW kind, NEW depth, NEW td, NEW fr, NEW en, Shaped(kind, depth, td, fr, en),
         td # <<>>, td[1] \in InnerItems,
         NEW q \in Seq(InnerItems), NEW en2, en # <<>> => en2 # <<>>,
         kind \in EntryKinds /\ en2 = <<>> => q # <<>> /\ q[1] \in ReadItems
  PROVE  Shaped(kind, depth, q \o Tail(td), fr, en2)
<1>1. ASSUME NEW p \in Seq(InnerItems), p # <<>>, NEW e \in Seq(Items), td = p \o e
      PROVE  /\ q \o Tail(td) = (q \o Tail(p)) \o e
             /\ q \o Tail(p) \in Seq(InnerItems)
             /\ q # <<>> => q \o Tail(p) # <<>> /\ (q \o Tail(p))[1] = q[1]
  <2>1. p \in Seq(Items) /\ q \in Seq(Items)
    BY InnerAreItems
  <2>2. q \o Tail(p \o e) = (q \o Tail(p)) \o e
    BY <1>1, <2>1, Replace, SMTT(20)
  <2>3. /\ q \o Tail(p) \in Seq(InnerItems)
        /\ q # <<>> => q \o Tail(p) # <<>> /\ (q \o Tail(p))[1] = q[1]
    BY <1>1
  <2> QED
    BY <1>1, <2>2, <2>3, Zenon
<1>2. CASE AtValue(kind, depth, td)
  <2>1. q \o Tail(td) \in Seq(InnerItems)
    BY <1>2 DEF AtValue
  <2> QED
    BY <1>2, <2>1 DEF AtValue, Shaped
<1>3. CASE /\ kind \in EntryKinds /\ depth = 2
           /\ \E n \in Nat, p \in Seq(InnerItems) :
                /\ td = p \o Remaining(kind, n) /\ p # <<>> /\ td[1] = p[1]
                /\ kind # "code" /\ (en = <<>> => p[1] \in ReadItems)
  <2>1. PICK n \in Nat, p \in Seq(InnerItems) :
          td = p \o Remaining(kind, n) /\ p # <<>> /\ kind # "code"
    BY <1>3
  <2>2. Remaining(kind, n) \in Seq(Items)
    BY <1>3, EndsAreItems
  <2> DEFINE r == q \o Tail(p)
  <2>3. /\ q \o Tail(td) = r \o Remaining(kind, n)
        /\ r \in Seq(InnerItems)
        /\ q # <<>> => r # <<>> /\ r[1] = q[1]
    BY <1>1, <2>1, <2>2
  <2> HIDE DEF r
  <2>4. en2 = <<>> => r[1] \in ReadItems
    BY <1>3, <2>3
  <2>5. InEntry(kind, depth, q \o Tail(td), en2)
    BY <1>3, <2>1, <2>3, <2>4, Zenon DEF InEntry
  <2> QED
    BY <2>5 DEF Shaped
<1>4. CASE /\ kind = "code" /\ depth = 3 /\ en # <<>>
           /\ \E n \in Nat, p \in Seq(InnerItems) :
                /\ p # <<>> /\ td[1] = p[1]
                /\ td = p \o FunctionEnd(n) \/ (td = p \o BodyEnd(n) /\ fr # <<>>)
  <2>1. PICK n \in Nat, p \in Seq(InnerItems) :
          p # <<>> /\ (td = p \o FunctionEnd(n) \/ (td = p \o BodyEnd(n) /\ fr # <<>>))
    BY <1>4
  <2>2. FunctionEnd(n) \in Seq(Items) /\ BodyEnd(n) \in Seq(Items)
    BY EndsAreItems DEF EntryKinds
  <2> DEFINE r == q \o Tail(p)
  <2>3. /\ \/ q \o Tail(td) = r \o FunctionEnd(n)
           \/ q \o Tail(td) = r \o BodyEnd(n) /\ fr # <<>>
        /\ r \in Seq(InnerItems)
    BY <1>1, <2>1, <2>2
  <2> HIDE DEF r
  <2>4. InFunction(kind, depth, q \o Tail(td), fr, en2)
    BY <1>4, <2>3, Zenon DEF InFunction
  <2> QED
    BY <2>4 DEF Shaped
<1>5. \/ AtValue(kind, depth, td)
      \/ /\ kind \in EntryKinds /\ depth = 2
         /\ \E n \in Nat, p \in Seq(InnerItems) :
              /\ td = p \o Remaining(kind, n) /\ p # <<>> /\ td[1] = p[1]
              /\ kind # "code" /\ (en = <<>> => p[1] \in ReadItems)
      \/ /\ kind = "code" /\ depth = 3 /\ en # <<>>
         /\ \E n \in Nat, p \in Seq(InnerItems) :
              /\ p # <<>> /\ td[1] = p[1]
              /\ td = p \o FunctionEnd(n) \/ (td = p \o BodyEnd(n) /\ fr # <<>>)
  BY InnerCases
<1> QED
  BY <1>2, <1>3, <1>4, <1>5

(* An entry begins with something that is read.                            *)
LEMMA FirstOfEntry ==
  ASSUME NEW kind \in EntryKinds, NEW depth, NEW td, NEW fr, NEW en,
         Shaped(kind, depth, td, fr, en), td # <<>>, td[1] \in InnerItems, en = <<>>
  PROVE  td[1] \in ReadItems /\ depth = 2
<1>1. ~AtValue(kind, depth, td)
  BY DEF AtValue
<1> QED
  BY <1>1, InnerCases

-----------------------------------------------------------------------------
(* The calls that are not inner items.                                     *)

LEMMA CountReplaced ==
  ASSUME NEW kind \in EntryKinds, NEW n \in Nat, NEW fr, NEW en
  PROVE  /\ <<Elems(kind, n)>> \o Tail(<<Vec(kind), S("close")>>) = Remaining(kind, n)
         /\ Shaped(kind, 2, Remaining(kind, n), fr, en)
<1>1. <<Elems(kind, n)>> \o Tail(<<Vec(kind), S("close")>>) = Remaining(kind, n)
  <2> DEFINE a == Elems(kind, n)
             b == Vec(kind)
             c == S("close")
  <2>1. Remaining(kind, n) = <<a, c>>
    BY DEF Remaining
  <2> HIDE DEF a, b, c
  <2>2. Tail(<<b, c>>) = <<c>>
    <3> DEFINE t == {b, c}
               l == Tail(<<b, c>>)
               r == <<c>>
    <3>1. l \in Seq(t) /\ r \in Seq(t) /\ Len(l) = Len(r) /\ \A i \in 1 .. Len(l) : l[i] = r[i]
      OBVIOUS
    <3> HIDE DEF t, l, r
    <3>2. l = r
      BY <3>1, SeqEqual
    <3> QED
      BY <3>2 DEF l, r
  <2>3. <<a>> \o Tail(<<b, c>>) = <<a, c>>
    BY <2>2, JoinOne, Zenon
  <2> QED
    BY <2>1, <2>3 DEF a, b, c
<1>2. Remaining(kind, n) = <<>> \o Remaining(kind, n)
  <2> DEFINE r == Remaining(kind, n)
  <2>1. r \in Seq(Items)
    BY EndsAreItems
  <2> HIDE DEF r
  <2>2. r = <<>> \o r
    BY <2>1, ConcatEmptySeq
  <2> QED
    BY <2>2 DEF r
<1>3. InEntry(kind, 2, Remaining(kind, n), en)
  BY <1>2, None, Zenon DEF InEntry
<1> QED
  BY <1>1, <1>3 DEF Shaped

(* What an entry reads first is replaced by the rest of the entry.         *)
LEMMA EntryOpened ==
  ASSUME NEW kind \in EntryKinds \ {"code"}, NEW n \in Nat, NEW p \in Seq(InnerItems), p # <<>>,
         NEW fr, NEW en, en = <<>> => p[1] \in ReadItems
  PROVE  Shaped(kind, 2, p \o Remaining(kind, n), fr, en)
<1>1. InEntry(kind, 2, p \o Remaining(kind, n), en)
  BY Zenon DEF InEntry
<1> QED
  BY <1>1 DEF Shaped

(* The size of a function is replaced by its locals and body.              *)
LEMMA FunctionOpened ==
  ASSUME NEW n \in Nat, NEW fr, fr # <<>>, NEW en, en # <<>>
  PROVE  Shaped("code", 3, CodeBody \o Remaining("code", n), fr, en)
<1> DEFINE a == Vec("local")
           b == S("localslimit")
           c == S("body")
           d == S("close")
           e == Elems("code", n)
           t == {a, b, c, d, e}
           l == CodeBody \o Remaining("code", n)
           r == <<a, b>> \o BodyEnd(n)
<1>1. CodeBody = <<a, b, c, d>> /\ Remaining("code", n) = <<e, d>> /\ BodyEnd(n) = <<c, d, e, d>>
  BY DEF CodeBody, Remaining, BodyEnd
<1>2. <<a, b>> \in Seq(InnerItems)
  BY InnerNamed, InnerSymbol, InnerVec, Two DEF PartNames
<1> HIDE DEF a, b, c, d, e
<1>3. l \in Seq(t) /\ r \in Seq(t) /\ Len(l) = Len(r) /\ \A i \in 1 .. Len(l) : l[i] = r[i]
  <2> DEFINE u == <<a, b, c, d>> \o <<e, d>>
             v == <<a, b>> \o <<c, d, e, d>>
  <2>1. u \in Seq(t) /\ v \in Seq(t) /\ Len(u) = Len(v) /\ \A i \in 1 .. Len(u) : u[i] = v[i]
    OBVIOUS
  <2>2. l = u /\ r = v
    BY <1>1, Zenon
  <2> HIDE DEF l, r, u, v
  <2> QED
    BY <2>1, <2>2, Zenon
<1> HIDE DEF t
<1>4. l = r
  <2> HIDE DEF l, r
  <2> QED
    BY <1>3, SeqEqual
<1>5. InFunction("code", 3, l, fr, en)
  BY <1>2, <1>4, Zenon DEF InFunction
<1> QED
  BY <1>5 DEF Shaped

(* An instruction is replaced by its arguments and the next instruction.   *)
LEMMA BodyReplaced ==
  ASSUME NEW n \in Nat, NEW p \in Seq(InnerItems), NEW fr, NEW en, en # <<>>
  PROVE  /\ fr # <<>> => Shaped("code", 3, (p \o <<S("body")>>) \o FunctionEnd(n), fr, en)
         /\ Shaped("code", 3, (p \o <<>>) \o FunctionEnd(n), fr, en)
<1> DEFINE b == <<S("body")>>
           f == FunctionEnd(n)
<1>1. S("body") \in Items /\ f \in Seq(Items) /\ p \in Seq(Items)
  <2>1. S("body") \in Items
    BY DEF Items, Among, Names
  <2>2. "code" \in EntryKinds
    BY DEF EntryKinds
  <2>3. f \in Seq(Items)
    BY <2>2, EndsAreItems
  <2>4. p \in Seq(Items)
    BY InnerAreItems
  <2> QED
    BY <2>1, <2>3, <2>4
<1>2. b \in Seq(Items)
  BY <1>1
<1>3. b \o f = BodyEnd(n)
  <2> DEFINE a == S("body")
             c == S("close")
             e == Elems("code", n)
             t == {a, c, e}
             l == <<a>> \o <<c, e, c>>
             r == <<a, c, e, c>>
  <2>1. f = <<c, e, c>> /\ BodyEnd(n) = r
    BY DEF FunctionEnd, BodyEnd
  <2> HIDE DEF a, c, e, f
  <2>2. l \in Seq(t) /\ r \in Seq(t) /\ Len(l) = Len(r) /\ \A i \in 1 .. Len(l) : l[i] = r[i]
    OBVIOUS
  <2>3. l = r
    <3> HIDE DEF t, l, r
    <3> QED
      BY <2>2, SeqEqual
  <2> QED
    BY <2>1, <2>3 DEF a
<1> HIDE DEF b, f
<1>4. (p \o b) \o f = p \o (b \o f) /\ p \o <<>> = p
  BY <1>1, <1>2, ConcatAssociative, ConcatEmptySeq, SMT
<1>5. fr # <<>> => InFunction("code", 3, (p \o b) \o f, fr, en)
  BY <1>3, <1>4, Zenon DEF InFunction
<1>6. InFunction("code", 3, (p \o <<>>) \o f, fr, en)
  BY <1>4, Zenon DEF InFunction, f
<1> QED
  BY <1>5, <1>6 DEF b, f, Shaped

(* An element is replaced by its own symbol and the ones after it.         *)
LEMMA ElementReplaced ==
  ASSUME NEW kind \in EntryKinds, NEW n \in Nat, NEW m \in Nat, NEW fr
  PROVE  /\ <<S(kind), Elems(kind, n)>> \o <<S("close")>> = <<S(kind)>> \o Remaining(kind, n)
         /\ Shaped(kind, 2, <<S(kind)>> \o Remaining(kind, n), fr, <<>>)
<1> DEFINE a == S(kind)
           c == S("close")
           e == Elems(kind, n)
           t == {a, c, e}
           l == <<a, e>> \o <<c>>
           r == <<a>> \o <<e, c>>
<1>1. Remaining(kind, n) = <<e, c>>
  BY DEF Remaining
<1> HIDE DEF a, c, e
<1>2. l \in Seq(t) /\ r \in Seq(t) /\ Len(l) = Len(r) /\ \A i \in 1 .. Len(l) : l[i] = r[i]
  OBVIOUS
<1>3. l = r
  <2> HIDE DEF t, l, r
  <2> QED
    BY <1>2, SeqEqual
<1>4. <<S(kind), Elems(kind, n)>> \o <<S("close")>> = <<S(kind)>> \o Remaining(kind, n)
  BY <1>1, <1>3 DEF a, c, e
<1>5. S(kind) \in Openings(kind)
  BY DEF Openings
<1>6. AtOpening(kind, 2, <<S(kind)>> \o Remaining(kind, n), <<>>)
  BY <1>5, Zenon DEF AtOpening
<1> QED
  BY <1>4, <1>6 DEF Shaped

(* A call that reads nothing itself is replaced by the one it makes.       *)
LEMMA OpeningReplaced ==
  ASSUME NEW kind \in Special, NEW n \in Nat, NEW fr
  PROVE  Shaped(kind, 2, <<OpeningOf(kind)>> \o Remaining(kind, n), fr, <<>>)
<1>1. kind \in EntryKinds
  BY DEF Special, EntryKinds
<1>2. OpeningOf(kind) \in Openings(kind)
  BY DEF Openings
<1>3. AtOpening(kind, 2, <<OpeningOf(kind)>> \o Remaining(kind, n), <<>>)
  BY <1>1, <1>2, Zenon DEF AtOpening
<1> QED
  BY <1>3 DEF Shaped

-----------------------------------------------------------------------------
(* The readers.                                                            *)

ReaderSet == [pos : Nat, end : Nat]

(* ReadersNested, of readers rs when len bytes have been read.             *)
Nested(rs, len) ==
  /\ rs \in Seq(ReaderSet) /\ rs # <<>>
  /\ \A k \in DOMAIN rs : rs[k].pos \in 0 .. rs[k].end
  /\ \A k \in DOMAIN rs \ {1} : rs[k].end = rs[k - 1].pos
  /\ len = rs[Len(rs)].pos

LEMMA AdvancedNested ==
  ASSUME NEW rs, NEW len \in Nat, Nested(rs, len), rs[Len(rs)].end - rs[Len(rs)].pos > 0
  PROVE  LET a == [rs EXCEPT ![Len(rs)].pos = @ + 1]
         IN  /\ Nested(a, len + 1) /\ Len(a) = Len(rs)
             /\ a[1].end = rs[1].end
             /\ Len(rs) > 1 => a[1] = rs[1]
             /\ a[Len(a)].end = rs[Len(rs)].end
<1> DEFINE m == Len(rs)
           a == [rs EXCEPT ![m].pos = @ + 1]
<1>1. /\ rs \in Seq(ReaderSet) /\ m \in Nat \ {0} /\ DOMAIN rs = 1 .. m
      /\ \A k \in 1 .. m : rs[k].pos \in 0 .. rs[k].end /\ rs[k] \in ReaderSet
      /\ \A k \in 1 .. m : k # 1 => rs[k].end = rs[k - 1].pos
      /\ len = rs[m].pos
  BY DEF Nested
<1>2. /\ Len(a) = m /\ DOMAIN a = 1 .. m /\ a \in Seq(ReaderSet)
      /\ a[m].pos = rs[m].pos + 1 /\ a[m].end = rs[m].end
      /\ \A k \in 1 .. m : k # m => a[k] = rs[k]
  BY <1>1 DEF ReaderSet
<1>3. rs[m].end > rs[m].pos /\ rs[m].pos \in Nat /\ rs[m].end \in Nat
  <2>1. rs[m] \in ReaderSet
    BY <1>1
  <2>2. rs[m].pos \in Nat /\ rs[m].end \in Nat
    BY <2>1 DEF ReaderSet
  <2> QED
    BY <2>2
<1> HIDE DEF a, m
<1>4. a # <<>> /\ a[m].pos = len + 1
  BY <1>1, <1>2
<1>5. \A k \in 1 .. m : a[k].pos \in 0 .. a[k].end
  BY <1>1, <1>2, <1>3
<1>6. \A k \in 1 .. m : k # 1 => a[k].end = a[k - 1].pos
  <2> TAKE k \in 1 .. m
  <2> HAVE k # 1
  <2>1. k - 1 \in 1 .. m /\ k - 1 # m
    BY <1>1
  <2>2. a[k - 1] = rs[k - 1] /\ rs[k].end = rs[k - 1].pos
    BY <1>1, <1>2, <2>1
  <2>3. a[k].end = rs[k].end
    BY <1>2
  <2> QED
    BY <2>2, <2>3
<1>7. Nested(a, len + 1)
  BY <1>2, <1>4, <1>5, <1>6 DEF Nested
<1>8. a[1].end = rs[1].end /\ (m > 1 => a[1] = rs[1])
  BY <1>1, <1>2
<1> QED
  BY <1>2, <1>7, <1>8 DEF a, m

LEMMA ScopedNested ==
  ASSUME NEW rs, NEW len \in Nat, Nested(rs, len), NEW v \in Nat,
         v <= rs[Len(rs)].end - rs[Len(rs)].pos
  PROVE  /\ Nested(Scoped(rs, v), len) /\ Len(Scoped(rs, v)) = Len(rs) + 1
         /\ Scoped(rs, v)[1].end = rs[1].end
         /\ Len(rs) > 1 => Scoped(rs, v)[1] = rs[1]
<1> DEFINE m == Len(rs)
<1>0. /\ rs \in Seq(ReaderSet) /\ rs # <<>>
      /\ \A k \in DOMAIN rs : rs[k].pos \in 0 .. rs[k].end
      /\ \A k \in DOMAIN rs \ {1} : rs[k].end = rs[k - 1].pos
      /\ len = rs[m].pos
  BY Zenon DEF Nested
<1>1. /\ rs \in Seq(ReaderSet) /\ m \in Nat \ {0} /\ DOMAIN rs = 1 .. m
      /\ \A k \in 1 .. m : rs[k].pos \in 0 .. rs[k].end /\ rs[k] \in ReaderSet
      /\ \A k \in 1 .. m : k # 1 => rs[k].end = rs[k - 1].pos
      /\ len = rs[m].pos
  <2>1. m \in Nat \ {0} /\ DOMAIN rs = 1 .. m /\ \A k \in 1 .. m : rs[k] \in ReaderSet
    BY <1>0
  <2> HIDE DEF m
  <2> QED
    BY <1>0, <2>1
<1> DEFINE p == rs[m].pos
           y == p + v
           a == [rs EXCEPT ![m].pos = y]
           x == [pos |-> p, end |-> y]
           z == Append(a, x)
<1>2. p \in Nat /\ rs[m].end \in Nat /\ p + v <= rs[m].end
  <2>1. rs[m] \in ReaderSet
    BY <1>1
  <2>2. rs[m].pos \in Nat /\ rs[m].end \in Nat
    BY <2>1 DEF ReaderSet
  <2> QED
    BY <2>2
<1>3. Scoped(rs, v) = z
  BY DEF Scoped
<1>4. y \in Nat /\ y <= rs[m].end /\ len = p /\ p <= y
  BY <1>1, <1>2
<1> HIDE DEF y
<1>5. /\ Len(a) = m /\ a \in Seq(ReaderSet)
      /\ a[m].pos = y /\ a[m].end = rs[m].end
      /\ \A k \in 1 .. m : k # m => a[k] = rs[k]
  <2> HIDE DEF m, p
  <2> QED
    BY <1>1, <1>4 DEF ReaderSet
<1>6. x \in ReaderSet /\ x.pos = p /\ x.end = y
  BY <1>2, <1>4 DEF ReaderSet
<1> HIDE DEF a, x, p
<1>7. /\ z \in Seq(ReaderSet) /\ Len(z) = m + 1 /\ DOMAIN z = 1 .. m + 1
      /\ z[m + 1] = x /\ \A k \in 1 .. m : z[k] = a[k]
  <2>1. a \in Seq(ReaderSet) /\ Len(a) = m /\ x \in ReaderSet
    BY <1>5, <1>6
  <2> HIDE DEF m
  <2> QED
    BY <2>1
<1> HIDE DEF z, m
<1>8. \A k \in 1 .. m + 1 : z[k].pos \in 0 .. z[k].end
  <2> TAKE k \in 1 .. m + 1
  <2>1. CASE k = m + 1
    BY <1>2, <1>4, <1>6, <1>7, <2>1
  <2>2. CASE k = m
    BY <1>1, <1>2, <1>4, <1>5, <1>7, <2>2
  <2>3. CASE k \in 1 .. m /\ k # m
    BY <1>1, <1>5, <1>7, <2>3
  <2> QED
    BY <1>1, <2>1, <2>2, <2>3
<1>9. \A k \in 1 .. m + 1 : k # 1 => z[k].end = z[k - 1].pos
  <2> TAKE k \in 1 .. m + 1
  <2> HAVE k # 1
  <2>1. CASE k = m + 1
    BY <1>1, <1>5, <1>6, <1>7, <2>1
  <2>2. CASE k # m + 1
    <3>1. k \in 1 .. m /\ k - 1 \in 1 .. m /\ k - 1 # m
      BY <1>1, <2>2
    <3>2. z[k] = a[k] /\ z[k - 1] = rs[k - 1] /\ rs[k].end = rs[k - 1].pos
      BY <1>1, <1>5, <1>7, <3>1
    <3>3. a[k].end = rs[k].end
      BY <1>5, <3>1
    <3> QED
      BY <3>2, <3>3
  <2> QED
    BY <2>1, <2>2
<1>10. z # <<>> /\ len = z[m + 1].pos
  BY <1>1, <1>4, <1>6, <1>7
<1>11. Nested(z, len)
  BY <1>7, <1>8, <1>9, <1>10 DEF Nested
<1>12. z[1].end = rs[1].end /\ (m > 1 => z[1] = rs[1])
  BY <1>1, <1>5, <1>7
<1> QED
  BY <1>3, <1>7, <1>11, <1>12 DEF m

LEMMA FrontNested ==
  ASSUME NEW rs, NEW len \in Nat, Nested(rs, len), Len(rs) > 1,
         rs[Len(rs)].end - rs[Len(rs)].pos = 0
  PROVE  /\ Nested(Front(rs), len) /\ Len(Front(rs)) = Len(rs) - 1
         /\ Front(rs)[1] = rs[1]
<1> DEFINE m == Len(rs)
           z == Front(rs)
<1>1. /\ rs \in Seq(ReaderSet) /\ m \in Nat /\ m > 1 /\ DOMAIN rs = 1 .. m
      /\ \A k \in 1 .. m : rs[k].pos \in 0 .. rs[k].end /\ rs[k] \in ReaderSet
      /\ \A k \in 1 .. m : k # 1 => rs[k].end = rs[k - 1].pos
      /\ len = rs[m].pos
  BY DEF Nested
<1>2. /\ z \in Seq(ReaderSet) /\ Len(z) = m - 1 /\ DOMAIN z = 1 .. m - 1
      /\ \A k \in 1 .. m - 1 : z[k] = rs[k]
  BY <1>1 DEF Front
<1>3. rs[m].end = rs[m].pos
  <2>1. rs[m] \in ReaderSet
    BY <1>1
  <2>2. rs[m].pos \in Nat /\ rs[m].end \in Nat
    BY <2>1 DEF ReaderSet
  <2> QED
    BY <2>2
<1> HIDE DEF z, m
<1>4. len = z[m - 1].pos /\ z # <<>>
  BY <1>1, <1>2, <1>3
<1>5. \A k \in 1 .. m - 1 : z[k].pos \in 0 .. z[k].end
  BY <1>1, <1>2
<1>6. \A k \in 1 .. m - 1 : k # 1 => z[k].end = z[k - 1].pos
  BY <1>1, <1>2
<1>7. z[1] = rs[1] /\ Len(z) = m - 1
  BY <1>1, <1>2
<1>8. z[Len(z)].pos = len
  BY <1>4, <1>7, Zenon
<1>9. /\ \A k \in DOMAIN z : z[k].pos \in 0 .. z[k].end
      /\ \A k \in DOMAIN z \ {1} : z[k].end = z[k - 1].pos
  BY <1>2, <1>5, <1>6
<1>10. Nested(z, len)
  BY <1>2, <1>4, <1>8, <1>9, Zenon DEF Nested
<1> QED
  BY <1>2, <1>7, <1>10, Zenon DEF m, z

(* No more is read than the outermost range holds.                         *)
LEMMA WithinSection ==
  ASSUME NEW rs, NEW len \in Nat, Nested(rs, len), Len(rs) \in 1 .. 3
  PROVE  len <= rs[1].end /\ rs[1].end \in Nat
<1>1. /\ rs \in Seq(ReaderSet) /\ DOMAIN rs = 1 .. Len(rs)
      /\ \A k \in 1 .. Len(rs) : rs[k].pos \in 0 .. rs[k].end /\ rs[k] \in ReaderSet
      /\ \A k \in 1 .. Len(rs) : k # 1 => rs[k].end = rs[k - 1].pos
      /\ len = rs[Len(rs)].pos
  BY DEF Nested
<1>2. \A k \in 1 .. Len(rs) : rs[k].pos \in Nat /\ rs[k].end \in Nat /\ rs[k].pos <= rs[k].end
  BY <1>1 DEF ReaderSet
<1>3. CASE Len(rs) = 1
  BY <1>1, <1>2, <1>3
<1>4. CASE Len(rs) = 2
  BY <1>1, <1>2, <1>4
<1>5. CASE Len(rs) = 3
  BY <1>1, <1>2, <1>5
<1> QED
  BY <1>3, <1>4, <1>5

-----------------------------------------------------------------------------
(* The inductive invariant.                                                *)

Typed ==
  /\ section \in Inputs
  /\ data \in Seq(Bytes)
  /\ number \in [x : Nat, i : Nat]
  /\ frames \in Seq({"function", "block", "loop", "if", "else"})
  /\ entry \in Seq(Fields)
  /\ outcome \in Outcomes

CallsShaped == Shaped(section.kind, Len(readers), todo, frames, entry)

(* The outermost reader of a section of entries has skipped all of it.     *)
ReadersFit ==
  /\ Nested(readers, Len(data))
  /\ section.kind \in EntryKinds => readers[1].pos = readers[1].end

NumberUnderWay ==
  /\ number.i <= Len(data)
  /\ number # NoNumber => todo # <<>> /\ todo[1][1] \in NumberSymbols

EntryStarted == entry # <<>> => entry[1].from < Len(data)

(* As long as its flag is all that has been read of a segment, the rest of *)
(* the form is still to be read.                                           *)
FormPending ==
  Len(entry) = 1 =>
    /\ entry[1].symbol = "elementflag" =>
         /\ entry[1].value \in ElementFlags
         /\ SubSeq(todo, 1, Len(todo) - 2) = ElementForm[entry[1].value]
    /\ entry[1].symbol = "dataflag" =>
         /\ entry[1].value \in DataFlags
         /\ SubSeq(todo, 1, Len(todo) - 2) = DataForm[entry[1].value]

DInv ==
  /\ Typed /\ CallsShaped /\ ReadersFit /\ NumberUnderWay /\ EntryStarted /\ FormPending

-----------------------------------------------------------------------------

LEMMA DepthOf ==
  ASSUME NEW kind, NEW depth, NEW td, NEW fr, NEW en, Shaped(kind, depth, td, fr, en)
  PROVE  /\ depth \in 1 .. 3
         /\ kind \in EntryKinds => (depth = 1 <=> td = <<>>)
         /\ kind \notin EntryKinds => depth = 1 /\ td \in Seq(InnerItems)
<1>1. ASSUME NEW p \in Seq(Items), NEW e \in Seq(Items), e # <<>> PROVE p \o e # <<>>
  BY <1>1
<1>2. CASE AtOpening(kind, depth, td, en)
  <2>1. kind \in EntryKinds /\ depth = 2
    BY <1>2 DEF AtOpening
  <2>2. PICK n \in Nat, o \in Openings(kind) : td = <<o>> \o Remaining(kind, n)
    BY <1>2 DEF AtOpening
  <2>3. <<o>> \in Seq(Items) /\ Remaining(kind, n) \in Seq(Items)
    <3>1. o \in Items
      BY <2>1, OpeningSymbols
    <3> QED
      BY <2>1, <3>1, EndsAreItems
  <2>4. td # <<>>
    BY <1>1, <2>2, <2>3, EndParts
  <2> QED
    BY <2>1, <2>4
<1>3. CASE InEntry(kind, depth, td, en)
  <2>1. kind \in EntryKinds /\ depth = 2
    BY <1>3 DEF InEntry
  <2>2. PICK n \in Nat, p \in Seq(InnerItems) : td = p \o Remaining(kind, n)
    BY <1>3 DEF InEntry
  <2>3. p \in Seq(Items) /\ Remaining(kind, n) \in Seq(Items)
    <3>1. p \in Seq(Items)
      BY InnerAreItems
    <3> QED
      BY <2>1, <3>1, EndsAreItems
  <2>4. td # <<>>
    BY <1>1, <2>2, <2>3, EndParts
  <2> QED
    BY <2>1, <2>4
<1>4. CASE InFunction(kind, depth, td, fr, en)
  <2>1. kind \in EntryKinds /\ depth = 3
    BY <1>4 DEF InFunction, EntryKinds
  <2>2. PICK n \in Nat, p \in Seq(InnerItems) :
          td = p \o FunctionEnd(n) \/ td = p \o BodyEnd(n)
    BY <1>4 DEF InFunction
  <2>3. p \in Seq(Items) /\ FunctionEnd(n) \in Seq(Items) /\ BodyEnd(n) \in Seq(Items)
    <3>1. p \in Seq(Items)
      BY InnerAreItems
    <3> QED
      BY <2>1, <3>1, EndsAreItems
  <2>4. td # <<>>
    BY <1>1, <2>2, <2>3, EndParts
  <2> QED
    BY <2>1, <2>4
<1>5. CASE AtValue(kind, depth, td)
  BY <1>5 DEF AtValue
<1>6. CASE AtEnd(kind, depth, td)
  BY <1>6 DEF AtEnd
<1>7. CASE AtCount(kind, depth, td, en)
  BY <1>7 DEF AtCount
<1>8. CASE AtClose(kind, depth, td)
  BY <1>8 DEF AtClose
<1> QED
  BY <1>2, <1>3, <1>4, <1>5, <1>6, <1>7, <1>8 DEF Shaped

(* The pieces of the invariant.                                            *)
LEMMA Pieces ==
  ASSUME DInv
  PROVE  /\ readers \in Seq(ReaderSet) /\ readers # <<>> /\ Len(readers) \in 1 .. 3
         /\ Len(data) \in Nat /\ Len(data) = Top.pos /\ Top \in ReaderSet
         /\ Top.pos \in Nat /\ Top.end \in Nat /\ Room \in Nat
         /\ todo \in Seq(Items)
         /\ section \in Inputs /\ section.kind \in Kinds /\ section.bytes \in Seq(SUBSET Bytes)
<1>1. readers \in Seq(ReaderSet) /\ readers # <<>> /\ Len(data) = Top.pos
      /\ \A k \in DOMAIN readers : readers[k].pos \in 0 .. readers[k].end
  BY Zenon DEF DInv, ReadersFit, Nested, Top
<1>2. Len(readers) \in 1 .. 3 /\ todo \in Seq(Items)
  BY DepthOf, ShapedItems DEF DInv, CallsShaped
<1>3. Len(data) \in Nat
  BY DEF DInv, Typed
<1>4. Top \in ReaderSet /\ Top.pos \in 0 .. Top.end
  BY <1>1, <1>2 DEF Top
<1>5. Top.pos \in Nat /\ Top.end \in Nat /\ Room \in Nat
  BY <1>4 DEF ReaderSet, Room
<1>6. section \in Inputs
  BY DEF DInv, Typed
<1>7. section.kind \in Kinds /\ section.bytes \in Seq(SUBSET Bytes)
  BY <1>6, InputAssumption DEF Input
<1> QED
  BY <1>1, <1>2, <1>3, <1>4, <1>5, <1>6, <1>7

(* One more byte is read.                                                  *)
LEMMA ByteTaken ==
  ASSUME DInv, todo # <<>>, Room > 0, NEW b \in Bytes,
         data' = Append(data, b), readers' = Advanced, section' = section
  PROVE  /\ data' \in Seq(Bytes) /\ Len(data') = Len(data) + 1
         /\ ReadersFit' /\ Len(readers') = Len(readers)
         /\ readers'[1].end = readers[1].end
         /\ readers'[Len(readers')].end - readers'[Len(readers')].pos = Room - 1
<1>1. data' \in Seq(Bytes) /\ Len(data') = Len(data) + 1 /\ Len(data) \in Nat
  BY DEF DInv, Typed
<1>2. Nested(readers, Len(data)) /\ readers[Len(readers)].end - readers[Len(readers)].pos > 0
  BY DEF DInv, ReadersFit, Room, Top
<1>3. /\ Nested(readers', Len(data) + 1) /\ Len(readers') = Len(readers)
      /\ readers'[1].end = readers[1].end
      /\ Len(readers) > 1 => readers'[1] = readers[1]
      /\ readers'[Len(readers')].end = readers[Len(readers)].end
  BY <1>1, <1>2, AdvancedNested, Zenon DEF Advanced
<1>4. section.kind \in EntryKinds => Len(readers) > 1
  BY DepthOf DEF DInv, CallsShaped
<1>5. section.kind \in EntryKinds => readers'[1].pos = readers'[1].end
  BY <1>3, <1>4 DEF DInv, ReadersFit
<1>6. ReadersFit'
  BY <1>1, <1>3, <1>5 DEF ReadersFit
<1>7. readers'[Len(readers')].pos = Len(data) + 1
  BY <1>3, Zenon DEF Nested
<1>8. readers'[Len(readers')].end - readers'[Len(readers')].pos = Room - 1
  <2>1. readers'[Len(readers')].end = Top.end
    BY <1>3, Zenon DEF Top
  <2>2. Top.end \in Nat /\ Top.pos \in Nat /\ Len(data) = Top.pos
    BY Pieces, Zenon
  <2> QED
    BY <1>7, <2>1, <2>2 DEF Room
<1> QED
  BY <1>1, <1>3, <1>6, <1>8

(* While only its flag has been read, a segment goes on with a symbol that *)
(* is read.                                                                *)
LEMMA FormNext ==
  ASSUME DInv, Len(entry) = 1, entry[1].symbol \in {"elementflag", "dataflag"}
  PROVE  todo # <<>> /\ todo[1][1] \in ByteSymbols \cup NumberSymbols
<1> DEFINE f == SubSeq(todo, 1, Len(todo) - 2)
<1>1. f # <<>> /\ f[1][1] \in ByteSymbols \cup NumberSymbols
  BY FormsInner DEF DInv, FormPending
<1>2. todo \in Seq(Items)
  BY Pieces
<1>3. Len(f) # 0 /\ f[1] = todo[1] /\ todo # <<>>
  <2>1. Len(todo) - 2 > 0
    BY <1>1, <1>2
  <2>2. Len(f) = Len(todo) - 2
    BY <1>2, <2>1
  <2>3. f[1] = todo[1]
    BY <1>2, <2>1
  <2>4. todo # <<>>
    BY <1>2, <2>1
  <2> HIDE DEF f
  <2> QED
    BY <2>1, <2>2, <2>3, <2>4
<1> QED
  BY <1>1, <1>3

(* A byte that decides nothing: what is read is refused.                   *)
LEMMA ByteRefused ==
  ASSUME DInv, todo # <<>>, Room > 0, NEW b \in Bytes, NEW e \in Outcomes,
         data' = Append(data, b), readers' = Advanced, Refuse(e)
  PROVE  DInv'
<1>1. /\ section' = section /\ todo' = todo /\ number' = number /\ frames' = frames
      /\ entry' = entry /\ outcome' = e
  BY DEF Refuse
<1>2. /\ data' \in Seq(Bytes) /\ Len(data') = Len(data) + 1
      /\ ReadersFit' /\ Len(readers') = Len(readers)
  BY <1>1, ByteTaken
<1>3. Typed'
  BY <1>1, <1>2 DEF DInv, Typed
<1>4. CallsShaped'
  BY <1>1, <1>2, Zenon DEF DInv, CallsShaped
<1>5. NumberUnderWay'
  BY <1>1, <1>2, Pieces DEF DInv, Typed, NumberUnderWay, NoNumber
<1>6. EntryStarted'
  <2>1. entry # <<>> => entry[1] \in Fields
    BY DEF DInv, Typed
  <2>2. entry # <<>> => entry[1].from \in Nat
    BY <2>1 DEF Fields
  <2> QED
    BY <1>1, <1>2, <2>2, Pieces DEF DInv, EntryStarted
<1>7. FormPending'
  BY <1>1 DEF DInv, FormPending
<1> QED
  BY <1>2, <1>3, <1>4, <1>5, <1>6, <1>7 DEF DInv

(* A refusal that reads nothing.                                           *)
LEMMA Refused ==
  ASSUME DInv, NEW e \in Outcomes, data' = data, readers' = readers, Refuse(e)
  PROVE  DInv'
<1>1. /\ section' = section /\ todo' = todo /\ number' = number /\ frames' = frames
      /\ entry' = entry /\ outcome' = e
  BY DEF Refuse
<1> QED
  BY <1>1 DEF DInv, Typed, CallsShaped, ReadersFit, NumberUnderWay, NoNumber, EntryStarted,
              FormPending

(* Each action keeps the invariant.                                        *)

LEMMA BytesOf ==
  ASSUME DInv, Len(data) < Len(section.bytes), NEW b \in section.bytes[Len(data) + 1]
  PROVE  b \in Bytes
<1>1. section.bytes \in Seq(SUBSET Bytes) /\ Len(data) \in Nat
  BY Pieces
<1>2. Len(data) + 1 \in DOMAIN section.bytes
  BY <1>1
<1>3. section.bytes[Len(data) + 1] \in SUBSET Bytes
  BY <1>1, <1>2
<1> QED
  BY <1>3

LEMMA DigitInvariant ==
  ASSUME DInv, NEW b \in Bytes, ReadDigit(b)
  PROVE  DInv'
<1> DEFINE t == NumberType(Symbol)
           x == Accumulate(t, number.x, number.i, b)
<1>1. /\ section' = section /\ todo' = todo /\ frames' = frames
      /\ entry' = entry /\ outcome' = outcome
      /\ number' = [x |-> x, i |-> number.i + 1]
      /\ data' = Append(data, b) /\ readers' = Advanced
      /\ Room > 0 /\ todo # <<>> /\ Symbol \in NumberSymbols
  BY DEF ReadDigit, Reading
<1>2. /\ data' \in Seq(Bytes) /\ Len(data') = Len(data) + 1
      /\ ReadersFit' /\ Len(readers') = Len(readers)
  BY <1>1, ByteTaken
<1>3. number.x \in Nat /\ number.i \in Nat
  BY DEF DInv, Typed
<1>4. x \in Nat
  BY <1>3, AccumulateTyped
<1> HIDE DEF x, t
<1>5. number' \in [x : Nat, i : Nat] /\ number'.i = number.i + 1
  BY <1>1, <1>3, <1>4
<1>6. Typed'
  BY <1>1, <1>2, <1>5 DEF DInv, Typed
<1>7. CallsShaped'
  BY <1>1, <1>2, Zenon DEF DInv, CallsShaped
<1>8. NumberUnderWay'
  BY <1>1, <1>2, <1>3, <1>5, Pieces DEF DInv, NumberUnderWay, Symbol
<1>9. EntryStarted'
  <2>1. entry # <<>> => entry[1] \in Fields
    BY DEF DInv, Typed
  <2>2. entry # <<>> => entry[1].from \in Nat
    BY <2>1 DEF Fields
  <2> QED
    BY <1>1, <1>2, <2>2, Pieces DEF DInv, EntryStarted
<1>10. FormPending'
  BY <1>1 DEF DInv, FormPending
<1> QED
  BY <1>2, <1>6, <1>7, <1>8, <1>9, <1>10 DEF DInv

(* An inner item that reads nothing itself is replaced.                    *)
LEMMA InnerInvariant ==
  ASSUME DInv, todo # <<>>, todo[1] \in InnerItems,
         todo[1][1] \notin ByteSymbols \cup NumberSymbols,
         NEW q \in Seq(InnerItems),
         section.kind \in EntryKinds /\ entry = <<>> => q # <<>> /\ q[1] \in ReadItems,
         todo' = q \o Tail(todo),
         UNCHANGED <<section, data, readers, number, frames, entry, outcome>>
  PROVE  DInv'
<1>1. Shaped(section.kind, Len(readers), todo, frames, entry)
  BY DEF DInv, CallsShaped
<1>2. Shaped(section.kind, Len(readers), q \o Tail(todo), frames, entry)
  BY <1>1, InnerReplaced
<1>3. CallsShaped'
  BY <1>2, Zenon DEF CallsShaped
<1>4. number = NoNumber
  BY DEF DInv, NumberUnderWay
<1>5. NumberUnderWay'
  BY <1>4 DEF DInv, NumberUnderWay, NoNumber
<1>6. FormPending'
  BY FormNext DEF FormPending
<1> QED
  BY <1>3, <1>5, <1>6 DEF DInv, Typed, ReadersFit, EntryStarted

(* A call of the section that reads nothing itself is replaced.            *)
LEMMA OuterInvariant ==
  ASSUME DInv, todo # <<>>, todo[1][1] \notin ByteSymbols \cup NumberSymbols,
         Shaped(section.kind, Len(readers), todo', frames, entry'),
         entry' = entry \/ entry' = <<>>,
         UNCHANGED <<section, data, readers, number, frames, outcome>>
  PROVE  DInv'
<1>1. CallsShaped'
  BY Zenon DEF CallsShaped
<1>2. number = NoNumber
  BY DEF DInv, NumberUnderWay
<1>3. NumberUnderWay'
  BY <1>2 DEF DInv, NumberUnderWay, NoNumber
<1>4. Len(<<>>) = 0 /\ <<>> \in Seq(Fields)
  OBVIOUS
<1>5. FormPending'
  BY <1>4, FormNext DEF FormPending
<1>6. EntryStarted'
  BY DEF DInv, EntryStarted
<1>7. Typed'
  BY <1>4 DEF DInv, Typed
<1> QED
  BY <1>1, <1>3, <1>5, <1>6, <1>7 DEF DInv, ReadersFit

LEMMA DescendInvariant == ASSUME DInv, Descend PROVE DInv'
<1> DEFINE kind == section.kind
           x == todo[1][1]
<1>1. /\ todo # <<>> /\ x \in DOMAIN Parts /\ todo' = Parts[x] \o Tail(todo)
      /\ UNCHANGED <<section, data, readers, number, frames, entry, outcome>>
  BY DEF Descend, Reading, Symbol, Rest
<1>2. Shaped(kind, Len(readers), todo, frames, entry)
  BY DEF DInv, CallsShaped
<1>3. x \notin ByteSymbols \cup NumberSymbols \cup {"vec", "elems", "body", "close", "localslimit"}
  BY <1>1, NamesApart
<1>4. CASE todo[1] \in InnerItems
  <2>1. x \in PartNames
    BY <1>1, <1>3, <1>4, InnerSymbols, NamesApart
  <2>2. Parts[x] \in Seq(InnerItems) /\ Parts[x] # <<>> /\ Parts[x][1] \in ReadItems
    BY <2>1, PartsInner
  <2> QED
    BY <1>1, <1>3, <1>4, <2>2, InnerInvariant
<1>5. CASE /\ kind \in EntryKinds /\ Len(readers) = 2 /\ entry = <<>>
           /\ \E n \in Nat, o \in Openings(kind) :
                todo = <<o>> \o Remaining(kind, n) /\ todo[1] = o /\ Tail(todo) = Remaining(kind, n)
  <2>1. PICK n \in Nat, o \in Openings(kind) : todo[1] = o /\ Tail(todo) = Remaining(kind, n)
    BY <1>5
  <2>2. o = S(kind)
    BY <1>1, <1>5, <2>1, OpeningSymbols
  <2>3. x = kind
    BY <2>1, <2>2, ItemParts
  <2>4. Shaped(kind, 2, Parts[kind] \o Remaining(kind, n), frames, <<>>)
    <3>1. CASE kind \in Special
      BY <3>1, OpeningReplaced, PartsOpening
    <3>2. CASE kind \notin Special
      <4>1. Parts[kind] \in Seq(InnerItems) /\ Parts[kind] # <<>> /\ Parts[kind][1] \in ReadItems
        BY <1>5, <3>2, PartsInner
      <4>2. kind \in EntryKinds \ {"code"}
        BY <1>5, <3>2 DEF Special
      <4> HIDE DEF kind
      <4> QED
        BY <4>1, <4>2, EntryOpened
    <3> QED
      BY <3>1, <3>2
  <2>5. Shaped(section.kind, Len(readers), todo', frames, entry')
    BY <1>1, <1>5, <2>1, <2>3, <2>4, Zenon
  <2> QED
    BY <1>1, <1>3, <2>5, OuterInvariant
<1>6. CASE todo[1] \in {Vec(kind), S("close"), S("body")} \/ \E n \in Nat : todo[1] = Elems(kind, n)
  BY <1>3, <1>6, ItemParts
<1> HIDE DEF kind
<1> QED
  BY <1>1, <1>2, <1>4, <1>5, <1>6, TopCases

LEMMA NextElementInvariant == ASSUME DInv, NextElement PROVE DInv'
<1> DEFINE kind == section.kind
           y == todo[1][2]
           m == todo[1][3]
<1>1. /\ todo # <<>> /\ todo[1][1] = "elems"
      /\ todo' = IF m = 0 THEN Tail(todo) ELSE <<S(y), Elems(y, m - 1)>> \o Tail(todo)
      /\ entry' = IF y \in EntryKinds THEN <<>> ELSE entry
      /\ UNCHANGED <<section, data, readers, number, frames, outcome>>
  BY DEF NextElement, Reading, Symbol, Rest
<1>2. Shaped(kind, Len(readers), todo, frames, entry)
  BY DEF DInv, CallsShaped
<1>3. todo[1][1] \notin ByteSymbols \cup NumberSymbols
  BY <1>1, NamesApart
<1>4. CASE todo[1] \in InnerItems
  <2>1. PICK x \in InnerNames, n \in Nat : todo[1] = Elems(x, n)
    BY <1>1, <1>4, InnerSymbols
  <2>2. y = x /\ m = n
    BY <2>1, ItemParts
  <2>3. entry' = entry
    BY <1>1, <2>2, NamesApart
  <2>4. ~(kind \in EntryKinds /\ entry = <<>>)
    <3>1. todo[1] \notin ReadItems
      <4>1. \A z : S(z)[1] = z
        BY ItemParts
      <4>2. "elems" \notin ReadNames
        BY NamesApart DEF ReadNames
      <4> QED
        BY <1>1, <4>1, <4>2 DEF ReadItems
    <3> QED
      BY <1>1, <1>2, <1>4, <3>1, FirstOfEntry
  <2>5. CASE n = 0
    <3>1. todo' = <<>> \o Tail(todo)
      <4>1. todo' = Tail(todo)
        BY <1>1, <2>2, <2>5
      <4>2. Tail(todo) \in Seq(Items)
        BY <1>1, Pieces
      <4> QED
        BY <4>1, <4>2, ConcatEmptySeq
    <3> QED
      BY <1>1, <1>3, <1>4, <2>3, <2>4, <3>1, None, InnerInvariant
  <2>6. CASE n # 0
    <3> DEFINE q == <<S(x), Elems(x, n - 1)>>
    <3>1. q \in Seq(InnerItems)
      <4>1. S(x) \in InnerItems /\ Elems(x, n - 1) \in InnerItems
        BY <2>1, <2>6, InnerSymbol, InnerElems
      <4> QED
        BY <4>1, Two
    <3>2. todo' = q \o Tail(todo)
      BY <1>1, <2>2, <2>6
    <3> HIDE DEF q
    <3> QED
      BY <1>1, <1>3, <1>4, <2>3, <2>4, <3>1, <3>2, InnerInvariant
  <2> QED
    BY <2>5, <2>6
<1>5. CASE /\ kind \in EntryKinds /\ Len(readers) = 2
           /\ \E n \in Nat : /\ todo = Remaining(kind, n) /\ todo[1] = Elems(kind, n)
                             /\ Tail(todo) = <<S("close")>>
  <2>1. PICK n \in Nat : todo[1] = Elems(kind, n) /\ Tail(todo) = <<S("close")>>
    BY <1>5
  <2>2. y = kind /\ m = n
    BY <2>1, ItemParts
  <2>3. entry' = <<>>
    BY <1>1, <1>5, <2>2
  <2>4. CASE n = 0
    <3>1. todo' = <<S("close")>>
      BY <1>1, <2>1, <2>2, <2>4
    <3>2. Shaped(section.kind, Len(readers), todo', frames, entry')
      BY <1>5, <3>1 DEF Shaped, AtClose
    <3> QED
      BY <1>1, <1>3, <2>3, <3>2, OuterInvariant
  <2>5. CASE n # 0
    <3>1. n - 1 \in Nat
      BY <2>5
    <3>2. todo' = <<S(kind), Elems(kind, n - 1)>> \o <<S("close")>>
      BY <1>1, <2>1, <2>2, <2>5, Zenon
    <3>3. Shaped(kind, 2, todo', frames, <<>>)
      <4> HIDE DEF kind
      <4>1. Shaped(kind, 2, <<S(kind)>> \o Remaining(kind, n - 1), frames, <<>>)
        BY <1>5, <3>1, ElementReplaced
      <4>2. todo' = <<S(kind)>> \o Remaining(kind, n - 1)
        BY <1>5, <3>1, <3>2, ElementReplaced, Zenon
      <4> QED
        BY <4>1, <4>2
    <3>4. Shaped(section.kind, Len(readers), todo', frames, entry')
      BY <1>5, <2>3, <3>3, Zenon
    <3> QED
      BY <1>1, <1>3, <2>3, <3>4, OuterInvariant
  <2> QED
    BY <2>4, <2>5
<1>6. CASE \/ todo[1] \in {Vec(kind), S("close"), S("body")}
           \/ kind \in EntryKinds /\ todo[1] \in Openings(kind)
  <2>1. Vec(kind)[1] = "vec" /\ S("close")[1] = "close" /\ S("body")[1] = "body"
    BY ItemParts
  <2>2. ASSUME kind \in EntryKinds, todo[1] \in Openings(kind) PROVE FALSE
    <3>1. todo[1][1] \in {kind} \cup OpeningNames
      BY <2>2, OpeningSymbols
    <3> QED
      BY <1>1, <2>2, <3>1, NamesApart DEF OpeningNames
  <2> QED
    BY <1>1, <1>6, <2>1, <2>2
<1> HIDE DEF kind
<1> QED
  BY <1>1, <1>2, <1>4, <1>5, <1>6, TopCases

LEMMA CheckLocalsInvariant == ASSUME DInv, CheckLocals PROVE DInv'
<1>1. /\ todo # <<>> /\ todo[1][1] = "localslimit" /\ data' = data /\ readers' = readers
      /\ \/ Refuse("TooManyLocals")
         \/ todo' = Tail(todo) /\ UNCHANGED <<section, number, frames, entry, outcome>>
  BY DEF CheckLocals, Reading, Symbol, Rest
<1>2. CASE Refuse("TooManyLocals")
  BY <1>1, <1>2, Refused DEF Outcomes
<1>3. CASE todo' = Tail(todo) /\ UNCHANGED <<section, number, frames, entry, outcome>>
  <2>1. Shaped(section.kind, Len(readers), todo, frames, entry)
    BY DEF DInv, CallsShaped
  <2>2. todo[1] \in InnerItems
    <3> DEFINE kind == section.kind
    <3>1. /\ Vec(kind)[1] = "vec" /\ S("close")[1] = "close" /\ S("body")[1] = "body"
          /\ \A n : Elems(kind, n)[1] = "elems"
      BY ItemParts
    <3>2. ASSUME kind \in EntryKinds, todo[1] \in Openings(kind) PROVE FALSE
      <4>1. todo[1][1] \in {kind} \cup OpeningNames
        BY <3>2, OpeningSymbols
      <4> QED
        BY <1>1, <3>2, <4>1, NamesApart DEF OpeningNames
    <3> HIDE DEF kind
    <3>3. Shaped(kind, Len(readers), todo, frames, entry)
      BY <2>1 DEF kind
    <3> QED
      BY <1>1, <3>1, <3>2, <3>3, TopCases
  <2>3. ~(section.kind \in EntryKinds /\ entry = <<>>)
    <3>1. todo[1] \notin ReadItems
      <4>1. \A z : S(z)[1] = z
        BY ItemParts
      <4>2. "localslimit" \notin ReadNames
        BY NamesApart
      <4> QED
        BY <1>1, <4>1, <4>2 DEF ReadItems
    <3> QED
      BY <1>1, <2>1, <2>2, <3>1, FirstOfEntry
  <2>4. todo' = <<>> \o Tail(todo)
    <3>1. Tail(todo) \in Seq(Items)
      BY <1>1, Pieces
    <3> QED
      BY <1>3, <3>1, ConcatEmptySeq
  <2>5. todo[1][1] \notin ByteSymbols \cup NumberSymbols
    BY <1>1, NamesApart
  <2> QED
    BY <1>1, <1>3, <2>2, <2>3, <2>4, <2>5, None, InnerInvariant
<1> QED
  BY <1>1, <1>2, <1>3

(* The close of a section's reader or of a function's.                     *)
LEMMA CloseCases ==
  ASSUME DInv, todo # <<>>, todo[1][1] = "close"
  PROVE  \/ AtClose(section.kind, Len(readers), todo)
         \/ /\ section.kind = "code" /\ Len(readers) = 3 /\ entry # <<>>
            /\ \E n \in Nat : todo = FunctionEnd(n) /\ Tail(todo) = Remaining("code", n)
<1> DEFINE kind == section.kind
<1>1. /\ Vec(kind)[1] = "vec" /\ S("body")[1] = "body"
      /\ \A n : Elems(kind, n)[1] = "elems"
  BY ItemParts
<1>2. ASSUME kind \in EntryKinds, todo[1] \in Openings(kind) PROVE FALSE
  <2>1. todo[1][1] \in {kind} \cup OpeningNames
    BY <1>2, OpeningSymbols
  <2> QED
    BY <1>2, <2>1, NamesApart DEF OpeningNames
<1>3. todo[1] \notin InnerItems
  BY InnerSymbols, NamesApart
<1> HIDE DEF kind
<1>4. Shaped(kind, Len(readers), todo, frames, entry)
  BY DEF kind, DInv, CallsShaped
<1>5. \/ AtClose(kind, Len(readers), todo)
      \/ /\ kind = "code" /\ Len(readers) = 3 /\ entry # <<>>
         /\ \E n \in Nat : todo = FunctionEnd(n) /\ Tail(todo) = Remaining("code", n)
  BY <1>1, <1>2, <1>3, <1>4, TopCases
<1> QED
  BY <1>5 DEF kind

LEMMA CloseInvariant == ASSUME DInv, Close PROVE DInv'
<1>1. /\ todo # <<>> /\ todo[1][1] = "close" /\ data' = data
      /\ \/ readers' = readers /\ Refuse("SizeMismatch")
         \/ /\ Room = 0 /\ readers' = Front(readers) /\ todo' = Tail(todo)
            /\ UNCHANGED <<section, number, frames, entry, outcome>>
  BY DEF Close, Reading, Symbol, Rest, Exhausted
<1>2. CASE readers' = readers /\ Refuse("SizeMismatch")
  BY <1>1, <1>2, Refused DEF Outcomes
<1>3. CASE /\ Room = 0 /\ readers' = Front(readers) /\ todo' = Tail(todo)
           /\ UNCHANGED <<section, number, frames, entry, outcome>>
  <2>1. Len(readers) > 1 /\ section.kind \in EntryKinds
    <3>1. "code" \in EntryKinds
      BY DEF EntryKinds
    <3>2. \/ AtClose(section.kind, Len(readers), todo)
          \/ section.kind = "code" /\ Len(readers) = 3
      BY <1>1, CloseCases
    <3>3. (Len(readers) = 2 \/ Len(readers) = 3) /\ section.kind \in EntryKinds
      BY <3>1, <3>2, Zenon DEF AtClose
    <3> QED
      BY <3>3
  <2>2. Nested(readers, Len(data)) /\ readers[Len(readers)].end - readers[Len(readers)].pos = 0
    BY <1>3 DEF DInv, ReadersFit, Room, Top
  <2>3. /\ Nested(readers', Len(data)) /\ Len(readers') = Len(readers) - 1
        /\ readers'[1] = readers[1]
    BY <1>3, <2>1, <2>2, Pieces, FrontNested
  <2>4. ReadersFit'
    BY <1>1, <1>3, <2>3 DEF DInv, ReadersFit
  <2>5. CallsShaped'
    <3>1. CASE AtClose(section.kind, Len(readers), todo)
      <4>1. todo = <<S("close")>> /\ Len(readers) = 2
        BY <3>1 DEF AtClose
      <4>2. todo' = <<>> /\ Len(readers') = 1
        BY <1>3, <2>3, <4>1
      <4>3. AtEnd(section'.kind, Len(readers'), todo')
        BY <1>3, <2>1, <4>2 DEF AtEnd
      <4> QED
        BY <4>3 DEF CallsShaped, Shaped
    <3>2. CASE /\ section.kind = "code" /\ Len(readers) = 3 /\ entry # <<>>
               /\ \E n \in Nat : todo = FunctionEnd(n) /\ Tail(todo) = Remaining("code", n)
      <4>1. PICK n \in Nat : Tail(todo) = Remaining("code", n)
        BY <3>2
      <4>2. Shaped("code", 2, Remaining("code", n), frames, entry)
        BY CountReplaced DEF EntryKinds
      <4>3. Len(readers') = 2
        BY <2>3, <3>2
      <4>4. Shaped(section'.kind, Len(readers'), todo', frames', entry')
        BY <1>3, <3>2, <4>1, <4>2, <4>3, Zenon
      <4> QED
        BY <4>4 DEF CallsShaped
    <3> QED
      BY <1>1, <3>1, <3>2, CloseCases
  <2>6. number = NoNumber
    BY <1>1, NamesApart DEF DInv, NumberUnderWay
  <2>7. NumberUnderWay'
    BY <1>1, <1>3, <2>6 DEF DInv, NumberUnderWay, NoNumber
  <2>8. FormPending'
    BY <1>1, <1>3, FormNext, NamesApart DEF FormPending
  <2> QED
    BY <1>1, <1>3, <2>4, <2>5, <2>7, <2>8 DEF DInv, Typed, EntryStarted
<1> QED
  BY <1>1, <1>2, <1>3

LEMMA FinishInvariant == ASSUME DInv, Finish PROVE DInv'
  BY DEF DInv, Finish, Typed, Outcomes, CallsShaped, ReadersFit, NumberUnderWay, NoNumber,
         EntryStarted, FormPending

LEMMA PastEndInvariant == ASSUME DInv, ReadPastEnd PROVE DInv'
<1> DEFINE e == IF Symbol \in {"expr", "body"} THEN "MissingEnd" ELSE "OutOfRange"
<1>1. Refuse(e) /\ data' = data /\ readers' = readers
  BY DEF ReadPastEnd
<1>2. e \in Outcomes
  BY DEF Outcomes
<1> HIDE DEF e
<1> QED
  BY <1>1, <1>2, Refused

LEMMA TooManyBytesInvariant == ASSUME DInv, NEW b \in Bytes, TooManyBytes(b) PROVE DInv'
<1>1. /\ todo # <<>> /\ Room > 0 /\ data' = Append(data, b) /\ readers' = Advanced
      /\ Refuse("TooManyBytes")
  BY DEF TooManyBytes, Reading
<1>2. "TooManyBytes" \in Outcomes
  BY DEF Outcomes
<1> QED
  BY <1>1, <1>2, ByteRefused

(* A value is read.                                                        *)
LEMMA SymbolsRead ==
  ASSUME DInv, todo # <<>>, todo[1][1] \in ByteSymbols \cup NumberSymbols
  PROVE  \/ todo[1] \in InnerItems
         \/ AtCount(section.kind, Len(readers), todo, entry) /\ todo[1] = Vec(section.kind)
         \/ /\ section.kind \in Special /\ Len(readers) = 2 /\ entry = <<>>
            /\ todo[1] = OpeningOf(section.kind)
            /\ \E n \in Nat : Tail(todo) = Remaining(section.kind, n)
         \/ /\ section.kind = "code" /\ Len(readers) = 3 /\ entry # <<>> /\ frames # <<>>
            /\ todo[1] = S("body") /\ \E n \in Nat : Tail(todo) = FunctionEnd(n)
<1> DEFINE kind == section.kind
<1>1. /\ S("close")[1] = "close" /\ \A n : Elems(kind, n)[1] = "elems"
      /\ S(kind)[1] = kind
  BY ItemParts
<1>2. ASSUME kind \in EntryKinds, NEW o \in Openings(kind), todo[1] = o
      PROVE  kind \in Special /\ o = OpeningOf(kind)
  <2>1. o # S(kind)
    BY <1>1, <1>2, NamesApart
  <2> QED
    BY <1>2, <2>1, OpeningSymbols
<1>3. todo[1][1] \notin {"close", "elems"}
  BY NamesApart
<1> HIDE DEF kind
<1>4. Shaped(kind, Len(readers), todo, frames, entry)
  BY DEF kind, DInv, CallsShaped
<1>5. \/ todo[1] \in InnerItems
      \/ AtCount(kind, Len(readers), todo, entry) /\ todo[1] = Vec(kind)
      \/ /\ kind \in Special /\ Len(readers) = 2 /\ entry = <<>>
         /\ todo[1] = OpeningOf(kind)
         /\ \E n \in Nat : Tail(todo) = Remaining(kind, n)
      \/ /\ kind = "code" /\ Len(readers) = 3 /\ entry # <<>> /\ frames # <<>>
         /\ todo[1] = S("body") /\ \E n \in Nat : Tail(todo) = FunctionEnd(n)
  <2>1. /\ todo[1] # S("close") /\ \A n : todo[1] # Elems(kind, n)
    BY <1>1, <1>3, Zenon
  <2>2. \/ todo[1] \in InnerItems
        \/ AtCount(kind, Len(readers), todo, entry) /\ todo[1] = Vec(kind)
        \/ AtClose(kind, Len(readers), todo) /\ todo[1] = S("close")
        \/ /\ kind \in EntryKinds /\ Len(readers) = 2 /\ entry = <<>>
           /\ \E n \in Nat, o \in Openings(kind) :
                todo = <<o>> \o Remaining(kind, n) /\ todo[1] = o
                  /\ Tail(todo) = Remaining(kind, n)
        \/ /\ kind \in EntryKinds /\ Len(readers) = 2
           /\ \E n \in Nat : /\ todo = Remaining(kind, n) /\ todo[1] = Elems(kind, n)
                             /\ Tail(todo) = <<S("close")>>
        \/ /\ kind = "code" /\ Len(readers) = 3 /\ entry # <<>>
           /\ \E n \in Nat : /\ todo = FunctionEnd(n) /\ todo[1] = S("close")
                             /\ Tail(todo) = Remaining("code", n)
        \/ /\ kind = "code" /\ Len(readers) = 3 /\ entry # <<>> /\ frames # <<>>
           /\ \E n \in Nat : /\ todo = BodyEnd(n) /\ todo[1] = S("body")
                             /\ Tail(todo) = FunctionEnd(n)
    BY <1>4, TopCases, Zenon
  <2> QED
    BY <1>2, <2>1, <2>2
<1> QED
  BY <1>5 DEF kind

(* What is left to be read of a form: the items before the last two.       *)
LEMMA FormIsPrefix ==
  ASSUME NEW p \in Seq(InnerItems), NEW kind \in EntryKinds, NEW n \in Nat
  PROVE  SubSeq(p \o Remaining(kind, n), 1, Len(p \o Remaining(kind, n)) - 2) = p
<1> DEFINE r == Remaining(kind, n)
           l == SubSeq(p \o r, 1, Len(p \o r) - 2)
<1>1. r \in Seq(Items) /\ p \in Seq(Items)
  <2>1. r \in Seq(Items)
    BY EndsAreItems
  <2>2. p \in Seq(Items)
    BY InnerAreItems
  <2> QED
    BY <2>1, <2>2
<1>2. Len(r) = 2
  BY DEF Remaining
<1> HIDE DEF r
<1>3. /\ Len(p \o r) - 2 = Len(p) /\ p \o r \in Seq(Items)
      /\ \A i \in 1 .. Len(p) : (p \o r)[i] = p[i]
  <2>0. Len(p \o r) = Len(p) + Len(r)
    BY <1>1, ConcatProperties
  <2>1. Len(p \o r) = Len(p) + 2 /\ Len(p) \in Nat
    BY <1>1, <1>2, <2>0
  <2>2. p \o r \in Seq(Items)
    BY <1>1
  <2>3. \A i \in 1 .. Len(p) : (p \o r)[i] = p[i]
    BY <1>1
  <2> QED
    BY <2>1, <2>2, <2>3
<1>4. l = SubSeq(p \o r, 1, Len(p))
  BY <1>3
<1> DEFINE s == p \o r
           m == SubSeq(s, 1, Len(p))
<1>5. Len(s) >= Len(p) /\ s \in Seq(Items)
  BY <1>1, <1>3
<1> HIDE DEF s
<1>6. m \in Seq(Items) /\ Len(m) = Len(p) /\ \A i \in 1 .. Len(m) : m[i] = s[i]
  BY <1>1, <1>5
<1>7. m \in Seq(Items) /\ Len(m) = Len(p) /\ \A i \in 1 .. Len(m) : m[i] = p[i]
  BY <1>3, <1>6 DEF s
<1> HIDE DEF m
<1>8. m = p
  BY <1>1, <1>7, SeqEqual
<1> QED
  BY <1>4, <1>8 DEF m, s, r

LEMMA ValueTaken ==
  ASSUME DInv, todo # <<>>, todo[1][1] \in ByteSymbols \cup NumberSymbols, Room > 0,
         NEW v \in Int, todo[1][1] \in {"vec", "name"} => v \in Nat, NEW b \in Bytes,
         data' = Append(data, b), todo[1][1] # "blocktype" => Valid(todo[1][1], v),
         Ensured(todo[1][1], v, Room - 1),
         entry' = Append(entry, [symbol |-> todo[1][1], value |-> v,
                                 from |-> Len(data) - number.i, to |-> Len(data) + 1]),
         number' = NoNumber,
         readers' = IF todo[1][1] = "codesize" THEN Scoped(Advanced, v) ELSE Advanced,
         frames' = CASE todo[1][1] = "codesize" -> <<"function">>
                     [] todo[1][1] = "body"     -> FramesAfter(v)
                     [] OTHER                   -> frames,
         todo' = (IF todo[1][1] = "body" THEN AfterBody(v) ELSE After(todo[1], v)) \o Tail(todo),
         section' = section, outcome' = outcome
  PROVE  DInv'
<1> DEFINE x == todo[1][1]
           y == Len(data) - number.i
           f == [symbol |-> x, value |-> v, from |-> y, to |-> Len(data) + 1]
           kind == section.kind
<1>1. Len(data) \in Nat /\ number.i \in Nat /\ y \in Nat /\ y <= Len(data)
  <2>1. Len(data) \in Nat /\ number.i \in Nat
    BY Pieces DEF DInv, Typed
  <2> QED
    BY <2>1 DEF DInv, NumberUnderWay
<1>2. f \in Fields /\ f.from = y /\ f.symbol = x /\ f.value = v
  <2> HIDE DEF y
  <2> QED
    BY <1>1 DEF Fields, Symbols
<1>3. entry \in Seq(Fields) /\ entry' = Append(entry, f)
  BY DEF DInv, Typed
<1> HIDE DEF f
<1>4. /\ entry' \in Seq(Fields) /\ entry' # <<>> /\ Len(entry') = Len(entry) + 1
      /\ IF entry = <<>> THEN entry'[1] = f ELSE entry'[1] = entry[1]
  BY <1>2, <1>3
<1>5. Len(data') = Len(data) + 1 /\ data' \in Seq(Bytes)
  BY <1>1 DEF DInv, Typed
<1>6. EntryStarted'
  <2>1. CASE entry = <<>>
    BY <1>1, <1>2, <1>4, <1>5, <2>1 DEF EntryStarted
  <2>2. CASE entry # <<>>
    <3>1. entry[1] \in Fields
      BY <1>3, <2>2
    <3>2. entry[1].from \in Nat
      BY <3>1 DEF Fields
    <3> QED
      BY <1>1, <1>4, <1>5, <2>2, <3>2 DEF DInv, EntryStarted
  <2> QED
    BY <2>1, <2>2
<1>7. NumberUnderWay'
  BY <1>1, <1>5 DEF NumberUnderWay, NoNumber
<1>8. Shaped(kind, Len(readers), todo, frames, entry)
  BY DEF DInv, CallsShaped
<1>9. ASSUME readers' = Advanced PROVE ReadersFit' /\ Len(readers') = Len(readers)
  BY <1>9, ByteTaken
<1>10. CASE todo[1] \in InnerItems
  <2>1. x \in InnerNames \cup {"vec", "elems"} /\ x \notin {"codesize", "body"}
    BY <1>10, InnerSymbols, NamesApart
  <2>2. readers' = Advanced /\ frames' = frames /\ todo' = After(todo[1], v) \o Tail(todo)
    BY <2>1
  <2>3. x = "importkind" => v \in 0 .. 3
    BY DEF Valid, ImportDescType
  <2>4. After(todo[1], v) \in Seq(InnerItems)
    BY <1>10, <2>3, AfterInner
  <2> DEFINE q == After(todo[1], v)
  <2> HIDE DEF q
  <2>5. Shaped(kind, Len(readers), q \o Tail(todo), frames, entry')
    BY <1>4, <1>8, <1>10, <2>4, InnerReplaced DEF q
  <2>6. CallsShaped'
    BY <1>9, <2>2, <2>5, Zenon DEF CallsShaped, q
  <2>7. FormPending'
    <3>1. CASE entry = <<>>
      <4>1. x \notin {"elementflag", "dataflag"}
        BY <1>10, InnerSymbols, NamesApart
      <4> QED
        BY <1>2, <1>4, <3>1, <4>1 DEF FormPending
    <3>2. CASE entry # <<>>
      BY <1>3, <1>4, <3>2 DEF FormPending
    <3> QED
      BY <3>1, <3>2
  <2>8. Typed'
    BY <1>4, <1>5, <2>2 DEF DInv, Typed, NoNumber
  <2> QED
    BY <1>6, <1>7, <1>9, <2>2, <2>6, <2>7, <2>8 DEF DInv
<1>11. CASE AtCount(kind, Len(readers), todo, entry) /\ todo[1] = Vec(kind)
  <2>1. /\ x = "vec" /\ todo[1][2] = kind /\ kind \in EntryKinds /\ Len(readers) = 2
        /\ entry = <<>> /\ todo = <<Vec(kind), S("close")>>
    BY <1>11, ItemParts DEF AtCount
  <2>2. /\ readers' = Advanced /\ frames' = frames /\ v \in Nat
        /\ todo' = <<Elems(kind, v)>> \o Tail(todo)
    <3>1. After(todo[1], v) = <<Elems(kind, v)>>
      BY <2>1 DEF After
    <3> QED
      BY <2>1, <3>1
  <2>3. todo' = Remaining(kind, v)
    BY <2>1, <2>2, CountReplaced, Zenon
  <2>4. Shaped(kind, 2, Remaining(kind, v), frames, entry')
    <3> HIDE DEF kind
    <3> QED
      BY <2>1, <2>2, CountReplaced
  <2>5. CallsShaped'
    BY <1>9, <2>1, <2>2, <2>3, <2>4, Zenon DEF CallsShaped
  <2>6. FormPending'
    BY <1>2, <1>4, <2>1 DEF FormPending
  <2>7. Typed'
    BY <1>4, <1>5, <2>2 DEF DInv, Typed, NoNumber
  <2> QED
    BY <1>6, <1>7, <1>9, <2>2, <2>5, <2>6, <2>7 DEF DInv
<1>12. CASE /\ kind \in Special /\ Len(readers) = 2 /\ entry = <<>>
            /\ todo[1] = OpeningOf(kind)
            /\ \E n \in Nat : Tail(todo) = Remaining(kind, n)
  <2>1. PICK n \in Nat : Tail(todo) = Remaining(kind, n)
    BY <1>12
  <2>2. \/ kind = "element" /\ x = "elementflag"
        \/ kind = "code" /\ x = "codesize"
        \/ kind = "data" /\ x = "dataflag"
    <3>1. \/ kind = "element" /\ todo[1] = S("elementflag")
          \/ kind = "code" /\ todo[1] = S("codesize")
          \/ kind = "data" /\ todo[1] = S("dataflag")
      BY <1>12 DEF Special, OpeningOf
    <3>2. /\ S("elementflag")[1] = "elementflag" /\ S("codesize")[1] = "codesize"
          /\ S("dataflag")[1] = "dataflag"
      BY DEF S
    <3> QED
      BY <3>1, <3>2, Zenon
  <2>3. kind \in EntryKinds
    BY <1>12 DEF Special, EntryKinds
  <2>4. CASE kind = "code"
    <3>1. x = "codesize"
      BY <2>2, <2>4
    <3>2. /\ readers' = Scoped(Advanced, v) /\ frames' = <<"function">>
          /\ todo' = CodeBody \o Remaining("code", n)
      <4>1. After(todo[1], v) = CodeBody
        BY <3>1 DEF After
      <4> QED
        BY <2>1, <2>4, <3>1, <4>1
    <3>3. v \in Nat /\ v <= Room - 1
      BY <3>1, Pieces DEF Ensured
    <3>4. ReadersFit' /\ Len(readers') = 3
      <4> DEFINE a == Advanced
      <4>1. /\ Nested(a, Len(data) + 1) /\ Len(a) = 2 /\ a[1] = readers[1]
            /\ a[Len(a)].end = readers[Len(readers)].end
        <5>1. Nested(readers, Len(data)) /\ readers[Len(readers)].end - readers[Len(readers)].pos > 0
          BY DEF DInv, ReadersFit, Room, Top
        <5>2. /\ Nested(a, Len(data) + 1) /\ Len(a) = Len(readers)
              /\ Len(readers) > 1 => a[1] = readers[1]
              /\ a[Len(a)].end = readers[Len(readers)].end
          BY <1>1, <5>1, AdvancedNested, Zenon DEF Advanced
        <5> QED
          BY <1>12, <5>2
      <4> HIDE DEF a
      <4>2. a[Len(a)].pos = Len(data) + 1
        BY <4>1, Zenon DEF Nested
      <4>3. v <= a[Len(a)].end - a[Len(a)].pos
        <5>1. a[Len(a)].end = Top.end /\ a[Len(a)].pos = Top.pos + 1
          BY <4>1, <4>2, Pieces, Zenon DEF Top
        <5>2. v <= (Top.end - Top.pos) - 1 /\ Top.end \in Nat /\ Top.pos \in Nat
          BY <3>3, Pieces DEF Room
        <5> QED
          BY <3>3, <5>1, <5>2
      <4>4. /\ Nested(Scoped(a, v), Len(data) + 1) /\ Len(Scoped(a, v)) = Len(a) + 1
            /\ Len(a) > 1 => Scoped(a, v)[1] = a[1]
        <5>1. Len(data) + 1 \in Nat
          BY <1>1
        <5> QED
          BY <3>3, <4>1, <4>3, <5>1, ScopedNested
      <4>5. /\ Nested(readers', Len(data')) /\ Len(readers') = 3 /\ readers'[1] = readers[1]
        <5>1. readers' = Scoped(a, v) /\ Len(data') = Len(data) + 1
          BY <1>5, <3>2 DEF a
        <5>2. Len(Scoped(a, v)) = 3 /\ Scoped(a, v)[1] = readers[1]
          BY <4>1, <4>4
        <5> QED
          BY <4>4, <5>1, <5>2, Zenon
      <4> QED
        BY <4>5 DEF DInv, ReadersFit
    <3>5. Shaped("code", 3, todo', frames', entry')
      <4>1. <<"function">> # <<>>
        OBVIOUS
      <4>2. Shaped("code", 3, CodeBody \o Remaining("code", n), <<"function">>, entry')
        BY <1>4, <4>1, FunctionOpened
      <4> QED
        BY <3>2, <4>2, Zenon
    <3>6. CallsShaped'
      BY <2>4, <3>4, <3>5, Zenon DEF CallsShaped
    <3>7. FormPending'
      BY <1>2, <1>4, <1>12, <3>1 DEF FormPending
    <3>8. Typed'
      <4>1. <<"function">> \in Seq({"function", "block", "loop", "if", "else"})
        OBVIOUS
      <4> QED
        BY <1>4, <1>5, <3>2, <4>1 DEF DInv, Typed, NoNumber
    <3> QED
      BY <1>6, <1>7, <3>4, <3>6, <3>7, <3>8 DEF DInv
  <2>5. CASE kind # "code"
    <3>1. x \in {"elementflag", "dataflag"}
      BY <2>2, <2>5
    <3>2. readers' = Advanced /\ frames' = frames /\ todo' = After(todo[1], v) \o Tail(todo)
      BY <3>1
    <3> DEFINE p == After(todo[1], v)
    <3>3. /\ x = "elementflag" => v \in ElementFlags /\ p = ElementForm[v]
          /\ x = "dataflag" => v \in DataFlags /\ p = DataForm[v]
      <4>1. /\ x = "elementflag" => v \in ElementFlags /\ p = AfterElementFlag(v)
            /\ x = "dataflag" => v \in DataFlags /\ p = AfterDataFlag(v)
        BY DEF Valid, After
      <4> QED
        BY <4>1, ElementParts, DataParts, Zenon
    <3>4. p \in Seq(InnerItems) /\ p # <<>>
      BY <3>1, <3>3, FormsInner
    <3> HIDE DEF p
    <3>5. todo' = p \o Remaining(kind, n)
      BY <2>1, <3>2, Zenon DEF p
    <3>6. Shaped(kind, 2, p \o Remaining(kind, n), frames, entry')
      <4> HIDE DEF kind
      <4>1. kind \in EntryKinds \ {"code"}
        BY <2>3, <2>5
      <4> QED
        BY <1>4, <3>4, <4>1, EntryOpened
    <3>7. CallsShaped'
      BY <1>9, <1>12, <3>2, <3>5, <3>6, Zenon DEF CallsShaped
    <3>8. SubSeq(todo', 1, Len(todo') - 2) = p
      <4> HIDE DEF kind
      <4>1. SubSeq(p \o Remaining(kind, n), 1, Len(p \o Remaining(kind, n)) - 2) = p
        BY <2>3, <3>4, FormIsPrefix
      <4> QED
        BY <3>5, <4>1, Zenon
    <3>9. entry'[1].symbol = x /\ entry'[1].value = v
      BY <1>2, <1>4, <1>12
    <3>10. FormPending'
      BY <3>3, <3>8, <3>9 DEF FormPending
    <3>11. Typed'
      BY <1>4, <1>5, <3>2 DEF DInv, Typed, NoNumber
    <3> QED
      BY <1>6, <1>7, <1>9, <3>2, <3>7, <3>10, <3>11 DEF DInv
  <2> QED
    BY <2>4, <2>5
<1>13. CASE /\ kind = "code" /\ Len(readers) = 3 /\ entry # <<>> /\ frames # <<>>
            /\ todo[1] = S("body") /\ \E n \in Nat : Tail(todo) = FunctionEnd(n)
  <2>1. PICK n \in Nat : Tail(todo) = FunctionEnd(n)
    BY <1>13
  <2>2. x = "body"
    BY <1>13 DEF S
  <2>3. readers' = Advanced /\ frames' = FramesAfter(v) /\ todo' = AfterBody(v) \o Tail(todo)
    BY <2>2
  <2>4. frames' \in Seq({"function", "block", "loop", "if", "else"})
    <3> DEFINE t == {"function", "block", "loop", "if", "else"}
    <3>1. frames \in Seq(t)
      BY DEF DInv, Typed
    <3>2. Front(frames) \in Seq(t)
      BY <1>13, <3>1 DEF Front
    <3>3. [frames EXCEPT ![Len(frames)] = "else"] \in Seq(t)
      BY <1>13, <3>1
    <3>4. /\ Append(frames, "block") \in Seq(t) /\ Append(frames, "loop") \in Seq(t)
          /\ Append(frames, "if") \in Seq(t)
      BY <3>1
    <3>5. FramesAfter(v) \in {Append(frames, "block"), Append(frames, "loop"),
                              Append(frames, "if"), [frames EXCEPT ![Len(frames)] = "else"],
                              Front(frames), frames}
      BY DEF FramesAfter
    <3> HIDE DEF t
    <3>6. FramesAfter(v) \in Seq(t)
      BY <3>1, <3>2, <3>3, <3>4, <3>5, Zenon
    <3> QED
      BY <2>3, <3>6 DEF t
  <2> DEFINE p == ArgumentsOf(v)
  <2>5. p \in Seq(InnerItems)
    BY ArgumentsInner
  <2>6. AfterBody(v) = p \o (IF frames' = <<>> THEN <<>> ELSE <<S("body")>>)
    BY <2>3, Zenon DEF AfterBody
  <2> HIDE DEF p
  <2>7. Shaped("code", 3, todo', frames', entry')
    <3>1. /\ frames' # <<>> => Shaped("code", 3, (p \o <<S("body")>>) \o FunctionEnd(n), frames', entry')
          /\ Shaped("code", 3, (p \o <<>>) \o FunctionEnd(n), frames', entry')
      BY <1>4, <2>5, BodyReplaced
    <3>2. CASE frames' = <<>>
      <4>1. todo' = (p \o <<>>) \o FunctionEnd(n)
        BY <2>1, <2>3, <2>6, <3>2, Zenon
      <4> QED
        BY <3>1, <4>1, Zenon
    <3>3. CASE frames' # <<>>
      <4>1. todo' = (p \o <<S("body")>>) \o FunctionEnd(n)
        BY <2>1, <2>3, <2>6, <3>3, Zenon
      <4> QED
        BY <3>1, <3>3, <4>1, Zenon
    <3> QED
      BY <3>2, <3>3
  <2>8. CallsShaped'
    BY <1>9, <1>13, <2>3, <2>7, Zenon DEF CallsShaped
  <2>9. FormPending'
    BY <1>3, <1>4, <1>13 DEF FormPending
  <2>10. Typed'
    BY <1>4, <1>5, <2>4 DEF DInv, Typed, NoNumber
  <2> QED
    BY <1>6, <1>7, <1>9, <2>3, <2>8, <2>9, <2>10 DEF DInv
<1> HIDE DEF x, y
<1> QED
  BY <1>10, <1>11, <1>12, <1>13, SymbolsRead

LEMMA FinishedValue ==
  ASSUME DInv, todo # <<>>, todo[1][1] \in NumberSymbols, NEW b \in Bytes
  PROVE  /\ Finished(NumberType(Symbol), number.x, number.i, b) \in Int
         /\ todo[1][1] \in {"vec", "name"} =>
              Finished(NumberType(Symbol), number.x, number.i, b) \in Nat
<1>1. number.x \in Nat /\ number.i \in Nat
  BY DEF DInv, Typed
<1>2. Symbol \in {"vec", "name"} => ~Signed(NumberType(Symbol))
  BY DEF NumberType, Signed
<1> QED
  BY <1>1, <1>2, FinishedTyped DEF Symbol

LEMMA ReceiveInvariant ==
  ASSUME DInv, todo # <<>>, Symbol \in ByteSymbols \cup NumberSymbols, outcome = "reading",
         Room > 0, NEW v \in Int, Symbol \in {"vec", "name"} => v \in Nat, NEW b \in Bytes,
         Receive(v, b)
  PROVE  DInv'
<1>1. CASE readers' = Advanced /\ Refuse("Invalid")
  BY <1>1, ByteRefused DEF Receive, Outcomes
<1>2. CASE readers' = Advanced /\ Refuse("OutOfRange")
  BY <1>2, ByteRefused DEF Receive, Outcomes
<1> DEFINE Taken ==
             /\ data' = Append(data, b)
             /\ Accepted(v) /\ Ensured(Symbol, v, Room - 1)
             /\ entry' = Append(entry, [symbol |-> Symbol, value |-> v,
                                        from |-> Len(data) - number.i, to |-> Len(data) + 1])
             /\ number' = NoNumber
             /\ readers' = IF Symbol = "codesize" THEN Scoped(Advanced, v) ELSE Advanced
             /\ frames' = CASE Symbol = "codesize" -> <<"function">>
                            [] Symbol = "body"     -> FramesAfter(v)
                            [] OTHER               -> frames
             /\ todo' = (IF Symbol = "body" THEN AfterBody(v) ELSE After(todo[1], v)) \o Rest
             /\ section' = section /\ outcome' = outcome
<1>3. CASE Taken
  <2>1. Symbol # "blocktype" => Valid(Symbol, v)
    BY <1>3 DEF Accepted, ShortBlockType
  <2> QED
    BY <2>1, <1>3, ValueTaken DEF Symbol, Rest
<1>4. \/ readers' = Advanced /\ Refuse("Invalid")
      \/ readers' = Advanced /\ Refuse("OutOfRange")
      \/ Taken
  BY Zenon DEF Receive
<1> QED
  BY <1>1, <1>2, <1>3, <1>4

LEMMA ReadInvariant == ASSUME DInv, NEW b \in Bytes, Read(b) PROVE DInv'
<1>1. CASE ReadByte(b)
  <2>1. /\ todo # <<>> /\ Symbol \in ByteSymbols /\ outcome = "reading" /\ Room > 0
        /\ Receive(b, b)
    BY <1>1 DEF ReadByte, Reading
  <2>2. b \in Nat
    BY DEF Bytes
  <2> QED
    BY <2>1, <2>2, ReceiveInvariant
<1>2. CASE ReadShortBlockType(b)
  <2> DEFINE v == b - \h80
  <2>1. /\ todo # <<>> /\ Symbol = "blocktype" /\ outcome = "reading" /\ Room > 0
        /\ Receive(v, b)
    BY <1>2 DEF ReadShortBlockType, Reading
  <2>2. v \in Int
    BY DEF Bytes
  <2>3. "blocktype" \in NumberSymbols
    BY DEF NumberSymbols
  <2> HIDE DEF v
  <2> QED
    BY <2>1, <2>2, <2>3, ReceiveInvariant
<1>3. CASE ReadDigit(b)
  BY <1>3, DigitInvariant
<1>4. CASE ReadLastDigit(b)
  <2> DEFINE v == Finished(NumberType(Symbol), number.x, number.i, b)
  <2>1. /\ todo # <<>> /\ Symbol \in NumberSymbols /\ outcome = "reading" /\ Room > 0
        /\ \/ data' = Append(data, b) /\ readers' = Advanced /\ Refuse("ValueOverflow")
           \/ Receive(v, b)
    BY <1>4, Zenon DEF ReadLastDigit, Reading
  <2>2. v \in Int /\ (Symbol \in {"vec", "name"} => v \in Nat)
    BY <2>1, FinishedValue DEF Symbol
  <2> HIDE DEF v
  <2>3. CASE data' = Append(data, b) /\ readers' = Advanced /\ Refuse("ValueOverflow")
    BY <2>1, <2>3, ByteRefused DEF Outcomes
  <2>4. CASE Receive(v, b)
    BY <2>1, <2>2, <2>4, ReceiveInvariant
  <2> QED
    BY <2>1, <2>3, <2>4
<1>5. CASE TooManyBytes(b)
  BY <1>5, TooManyBytesInvariant
<1> QED
  BY <1>1, <1>2, <1>3, <1>4, <1>5 DEF Read

LEMMA InitInvariant == Init => DInv
<1> SUFFICES ASSUME Init PROVE DInv
  OBVIOUS
<1> DEFINE kind == section.kind
           n == Len(section.bytes)
           w == <<[pos |-> 0, end |-> n]>>
<1>1. /\ section \in Inputs /\ data = <<>> /\ todo = SectionBody(kind) /\ number = NoNumber
      /\ frames = <<>> /\ entry = <<>> /\ outcome = "reading"
      /\ readers = IF kind \in EntryKinds THEN Scoped(w, n) ELSE w
  BY DEF Init
<1>2. kind \in Kinds /\ n \in Nat
  <2>1. section \in Input
    BY <1>1, InputAssumption
  <2> QED
    BY <2>1 DEF Input
<1> HIDE DEF n
<1>3. /\ Nested(w, 0) /\ Len(w) = 1 /\ w[1].pos = 0 /\ w[1].end = n
  BY <1>2 DEF Nested, ReaderSet
<1> HIDE DEF w
<1>4. /\ Nested(Scoped(w, n), 0) /\ Len(Scoped(w, n)) = 2
      /\ Scoped(w, n)[1].end = n /\ Scoped(w, n)[1].pos = n
  <2>1. n <= w[Len(w)].end - w[Len(w)].pos
    BY <1>2, <1>3
  <2>2. /\ Nested(Scoped(w, n), 0) /\ Len(Scoped(w, n)) = Len(w) + 1
        /\ Scoped(w, n)[1].end = w[1].end
    BY <1>2, <1>3, <2>1, ScopedNested
  <2>3. Scoped(w, n)[2].pos = 0 /\ Scoped(w, n)[2].end = n
    BY <1>2, <1>3 DEF Scoped, w
  <2>4. Scoped(w, n)[2].end = Scoped(w, n)[1].pos
    <3> DEFINE r == Scoped(w, n)
    <3>1. /\ \A k \in DOMAIN r \ {1} : r[k].end = r[k - 1].pos
          /\ r \in Seq(ReaderSet)
      BY <2>2, Zenon DEF Nested
    <3>2. Len(r) = 2
      BY <1>3, <2>2
    <3> HIDE DEF r
    <3>3. r[2].end = r[1].pos
      BY <3>1, <3>2
    <3> QED
      BY <3>3 DEF r
  <2> QED
    BY <1>3, <2>2, <2>3, <2>4
<1>5. Len(data) = 0 /\ <<>> \in Seq(Bytes) /\ <<>> \in Seq(Fields)
      /\ <<>> \in Seq({"function", "block", "loop", "if", "else"}) /\ Len(entry) = 0
  BY <1>1
<1>6. Typed
  BY <1>1, <1>5 DEF Typed, NoNumber, Outcomes
<1>7. NumberUnderWay /\ EntryStarted /\ FormPending
  BY <1>1, <1>5 DEF NumberUnderWay, NoNumber, EntryStarted, FormPending
<1>8. CASE kind \in EntryKinds
  <2>1. readers = Scoped(w, n)
    BY <1>1, <1>8
  <2>2. ReadersFit
    BY <1>4, <1>5, <2>1 DEF ReadersFit
  <2>3. todo = <<Vec(kind), S("close")>>
    BY <1>1, <1>8 DEF SectionBody, EntryKinds
  <2>4. AtCount(kind, Len(readers), todo, entry)
    BY <1>1, <1>4, <1>8, <2>1, <2>3 DEF AtCount
  <2> QED
    BY <1>6, <1>7, <2>2, <2>4 DEF DInv, CallsShaped, Shaped
<1>9. CASE kind \notin EntryKinds
  <2>1. readers = w
    BY <1>1, <1>9
  <2>2. ReadersFit
    BY <1>3, <1>5, <1>9, <2>1 DEF ReadersFit
  <2>3. todo \in Seq(InnerItems)
    <3>1. kind \in {"start", "datacount", "custom", "u64", "i32", "i64", "expr"}
      BY <1>2, <1>9 DEF Kinds
    <3>2. /\ S("u32") \in InnerItems /\ S("name") \in InnerItems /\ S("u64") \in InnerItems
          /\ S("i32") \in InnerItems /\ S("i64") \in InnerItems /\ S("expr") \in InnerItems
      BY InnerNamed, InnerSymbol
    <3>3. todo \in {<<S("u32")>>, <<S("name")>>, <<S("u64")>>, <<S("i32")>>, <<S("i64")>>,
                    <<S("expr")>>}
      BY <1>1, <1>9, <3>1 DEF SectionBody
    <3> QED
      BY <3>2, <3>3, One, Zenon
  <2>4. AtValue(kind, Len(readers), todo)
    BY <1>3, <1>9, <2>1, <2>3 DEF AtValue
  <2> QED
    BY <1>6, <1>7, <2>2, <2>4 DEF DInv, CallsShaped, Shaped
<1> QED
  BY <1>8, <1>9

LEMMA NextInvariant == DInv /\ [Next]_vars => DInv'
<1> SUFFICES ASSUME DInv, [Next]_vars PROVE DInv'
  OBVIOUS
<1>1. CASE Len(data) < Len(section.bytes) /\ \E b \in section.bytes[Len(data) + 1] : Read(b)
  BY <1>1, BytesOf, ReadInvariant
<1>2. CASE UNCHANGED vars
  BY <1>2 DEF vars, DInv, Typed, CallsShaped, ReadersFit, NumberUnderWay, NoNumber,
              EntryStarted, FormPending
<1> QED
  BY <1>1, <1>2, PastEndInvariant, DescendInvariant, NextElementInvariant, CheckLocalsInvariant,
     CloseInvariant, FinishInvariant DEF Next

(* The invariant holds in every state the decoder reaches.                 *)
THEOREM DecoderInvariant == Spec => []DInv
  BY InitInvariant, NextInvariant, PTL DEF Spec

-----------------------------------------------------------------------------
(* What it implies.                                                        *)

LEMMA ItemsTyped ==
  ASSUME NEW t \in Items
  PROVE  \/ t \in {<<x>> : x \in Symbols \cup DOMAIN Parts \cup {"close", "localslimit"}}
         \/ t[1] = "vec" /\ Len(t) = 2
         \/ t[1] = "elems" /\ t[3] \in Nat
<1>1. Names \subseteq Symbols \cup DOMAIN Parts \cup {"close", "localslimit"}
  <2>1. InnerNames \subseteq Symbols \cup PartNames \cup {"localslimit"}
    BY DEF InnerNames, Symbols
  <2>2. OpeningNames \cup {"body"} \subseteq Symbols
    BY DEF OpeningNames, Symbols, ByteSymbols, NumberSymbols
  <2> QED
    BY <2>1, <2>2, PartsDomain DEF Names
<1>2. CASE \E x \in Names : t = S(x)
  BY <1>1, <1>2 DEF S
<1>3. CASE \E x \in Names : t = Vec(x)
  BY <1>3, ItemParts
<1>4. CASE \E x \in Names, n \in Nat : t = Elems(x, n)
  BY <1>4, ItemParts
<1> QED
  BY <1>2, <1>3, <1>4 DEF Items, Among

(* The state keeps its types, whatever bytes are read.                     *)
THEOREM TypesKept == Spec => []TypeOK
<1>1. DInv => TypeOK
  <2> SUFFICES ASSUME DInv PROVE TypeOK
    OBVIOUS
  <2>1. readers \in Seq([pos : Nat, end : Nat]) /\ todo \in Seq(Items)
    BY Pieces DEF ReaderSet
  <2>2. \A k \in DOMAIN todo : todo[k] \in Items
    BY <2>1
  <2>3. \A k \in DOMAIN todo :
          \/ todo[k] \in {<<x>> : x \in Symbols \cup DOMAIN Parts \cup {"close", "localslimit"}}
          \/ todo[k][1] = "vec" /\ Len(todo[k]) = 2
          \/ todo[k][1] = "elems" /\ todo[k][3] \in Nat
    BY <2>2, ItemsTyped
  <2> QED
    BY <2>1, <2>3, Zenon DEF DInv, Typed, TypeOK
<1> QED
  BY <1>1, DecoderInvariant, PTL

(* binary/reader.rs: whatever sizes a section and its functions declare, a *)
(* reader's position stays within its range, and a scoped reader covers    *)
(* exactly what the one outside of it has skipped.                         *)
THEOREM NoByteReadTwice == Spec => []ReadersNested
<1>1. DInv => ReadersNested
  BY Zenon DEF DInv, ReadersFit, Nested, ReadersNested, Top
<1> QED
  BY <1>1, DecoderInvariant, PTL

(* element.rs, data.rs: every flag selects the parts of its own form, in   *)
(* that form's order.                                                      *)
THEOREM FlagsSelectForms == Spec => []SegmentForms
<1>1. DInv => SegmentForms
  BY Zenon DEF DInv, FormPending, SegmentForms
<1> QED
  BY <1>1, DecoderInvariant, PTL

-----------------------------------------------------------------------------
(* The refinement: what is left to be read and what has been taken.        *)

LeftOf(td) ==
  CASE Len(td) = 2 /\ td[Len(td) - 1][1] = "vec"   -> -1
    [] Len(td) = 2 /\ td[Len(td) - 1][1] = "elems" -> td[Len(td) - 1][3]
    [] Len(td) > 2                                 -> td[Len(td) - 1][3] + 1
    [] OTHER                                       -> 0

(* len bytes have been read, and the entry under way begins after start.   *)
TakenOf(td, start, len) ==
  CASE Len(td) = 2 /\ td[Len(td) - 1][1] = "vec" -> 0
    [] Len(td) > 2                               -> start
    [] OTHER                                     -> len

LEMMA MeasuresAre ==
  /\ EntriesLeft = LeftOf(todo) /\ EntriesLeft' = LeftOf(todo')
  /\ BytesTaken = TakenOf(todo, EntryStart, Len(data))
  /\ BytesTaken' = TakenOf(todo', EntryStart', Len(data'))
<1>1. EntriesLeft = LeftOf(todo)
  BY Zenon DEF EntriesLeft, CountUnread, AmongEntries, WithinEntry, LastVector, LeftOf
<1>2. EntriesLeft' = LeftOf(todo')
  BY Zenon DEF EntriesLeft, CountUnread, AmongEntries, WithinEntry, LastVector, LeftOf
<1>3. BytesTaken = TakenOf(todo, EntryStart, Len(data))
  BY Zenon DEF BytesTaken, CountUnread, WithinEntry, LastVector, TakenOf
<1>4. BytesTaken' = TakenOf(todo', EntryStart', Len(data'))
  BY Zenon DEF BytesTaken, CountUnread, WithinEntry, LastVector, TakenOf
<1> QED
  BY <1>1, <1>2, <1>3, <1>4

(* An entry is under way, and n are to follow it.                          *)
Within(td, kind, n) == Len(td) \in Nat /\ Len(td) > 2 /\ td[Len(td) - 1] = Elems(kind, n)

LEMMA MeasuresOf ==
  ASSUME NEW kind, NEW n \in Nat, NEW start, NEW len
  PROVE  /\ LeftOf(<<Vec(kind), S("close")>>) = -1
         /\ TakenOf(<<Vec(kind), S("close")>>, start, len) = 0
         /\ LeftOf(Remaining(kind, n)) = n
         /\ TakenOf(Remaining(kind, n), start, len) = len
         /\ LeftOf(<<S("close")>>) = 0 /\ TakenOf(<<S("close")>>, start, len) = len
         /\ LeftOf(<<>>) = 0 /\ TakenOf(<<>>, start, len) = len
<1> DEFINE a == Vec(kind)
           b == Elems(kind, n)
           c == S("close")
<1>1. a[1] = "vec" /\ b[1] = "elems" /\ b[3] = n /\ Remaining(kind, n) = <<b, c>>
  BY ItemParts DEF Remaining
<1> HIDE DEF a, b, c
<1>2. LeftOf(<<a, c>>) = -1 /\ TakenOf(<<a, c>>, start, len) = 0
  BY <1>1 DEF LeftOf, TakenOf
<1>3. LeftOf(<<b, c>>) = n /\ TakenOf(<<b, c>>, start, len) = len
  BY <1>1 DEF LeftOf, TakenOf
<1>4. /\ LeftOf(<<c>>) = 0 /\ TakenOf(<<c>>, start, len) = len
      /\ LeftOf(<<>>) = 0 /\ TakenOf(<<>>, start, len) = len
  BY DEF LeftOf, TakenOf
<1> QED
  BY <1>1, <1>2, <1>3, <1>4 DEF a, c

LEMMA MeasuresWithin ==
  ASSUME NEW td, NEW kind, NEW n \in Nat, NEW start, NEW len, Within(td, kind, n)
  PROVE  LeftOf(td) = n + 1 /\ TakenOf(td, start, len) = start
<1>1. Len(td) \in Nat /\ Len(td) > 2 /\ td[Len(td) - 1][3] = n
  BY ItemParts DEF Within
<1> QED
  BY <1>1 DEF LeftOf, TakenOf

(* What a sequence that ends so is.                                        *)
LEMMA EndsWithin ==
  ASSUME NEW p \in Seq(Items), p # <<>>, NEW kind \in EntryKinds, NEW n \in Nat
  PROVE  Within(p \o Remaining(kind, n), kind, n)
<1> DEFINE r == Remaining(kind, n)
           s == p \o r
<1>1. r \in Seq(Items) /\ Len(r) = 2 /\ r[1] = Elems(kind, n) /\ Len(p) \in Nat /\ Len(p) > 0
  <2>1. r \in Seq(Items)
    BY EndsAreItems
  <2>2. Len(r) = 2 /\ r[1] = Elems(kind, n)
    BY DEF Remaining
  <2>3. Len(p) \in Nat /\ Len(p) > 0
    OBVIOUS
  <2> QED
    BY <2>1, <2>2, <2>3, Zenon
<1> HIDE DEF r
<1>2. /\ Len(s) = Len(p) + Len(r)
      /\ \A i \in 1 .. Len(p) + Len(r) : s[i] = IF i <= Len(p) THEN p[i] ELSE r[i - Len(p)]
  BY <1>1, ConcatProperties
<1> HIDE DEF s
<1>3. Len(s) \in Nat /\ Len(s) > 2 /\ Len(s) - 1 = Len(p) + 1
  BY <1>1, <1>2
<1>4. s[Len(p) + 1] = r[1]
  BY <1>1, <1>2
<1> QED
  BY <1>1, <1>3, <1>4 DEF Within, s, r

LEMMA FunctionWithin ==
  ASSUME NEW p \in Seq(Items), NEW n \in Nat
  PROVE  Within(p \o FunctionEnd(n), "code", n) /\ Within(p \o BodyEnd(n), "code", n)
<1>1. "code" \in EntryKinds
  BY DEF EntryKinds
<1>2. FunctionEnd(n) \in Seq(Items) /\ BodyEnd(n) \in Seq(Items)
  BY <1>1, EndsAreItems
<1>3. /\ Len(FunctionEnd(n)) = 3 /\ FunctionEnd(n)[2] = Elems("code", n)
      /\ Len(BodyEnd(n)) = 4 /\ BodyEnd(n)[3] = Elems("code", n)
  BY DEF FunctionEnd, BodyEnd
<1>4. ASSUME NEW r \in Seq(Items), Len(r) > 2, r[Len(r) - 1] = Elems("code", n)
      PROVE  Within(p \o r, "code", n)
  <2> DEFINE s == p \o r
  <2>1. /\ Len(s) = Len(p) + Len(r)
        /\ \A i \in 1 .. Len(p) + Len(r) : s[i] = IF i <= Len(p) THEN p[i] ELSE r[i - Len(p)]
    BY ConcatProperties
  <2> HIDE DEF s
  <2>2. Len(p) \in Nat /\ Len(r) \in Nat
    OBVIOUS
  <2>3. Len(s) \in Nat /\ Len(s) > 2 /\ (Len(s) - 1) - Len(p) = Len(r) - 1
        /\ Len(s) - 1 \in 1 .. Len(p) + Len(r) /\ ~(Len(s) - 1 <= Len(p))
    BY <1>4, <2>1, <2>2
  <2>4. s[Len(s) - 1] = r[Len(r) - 1]
    BY <2>1, <2>3
  <2> QED
    BY <1>4, <2>3, <2>4 DEF Within, s
<1>5. Len(FunctionEnd(n)) > 2 /\ FunctionEnd(n)[Len(FunctionEnd(n)) - 1] = Elems("code", n)
  BY <1>3
<1>6. Len(BodyEnd(n)) > 2 /\ BodyEnd(n)[Len(BodyEnd(n)) - 1] = Elems("code", n)
  BY <1>3
<1> QED
  BY <1>2, <1>4, <1>5, <1>6, Zenon

(* The state in those terms.                                               *)
LEMMA MeasureCases ==
  ASSUME NEW kind \in EntryKinds, NEW depth, NEW td, NEW fr, NEW en,
         Shaped(kind, depth, td, fr, en)
  PROVE  \/ td = <<Vec(kind), S("close")>> \/ td = <<S("close")>> \/ td = <<>>
         \/ \E n \in Nat : td = Remaining(kind, n)
         \/ \E n \in Nat : Within(td, kind, n)
<1>1. CASE AtOpening(kind, depth, td, en)
  <2>1. PICK n \in Nat, o \in Openings(kind) : td = <<o>> \o Remaining(kind, n)
    BY <1>1 DEF AtOpening
  <2>2. <<o>> \in Seq(Items) /\ <<o>> # <<>>
    BY OpeningSymbols
  <2>3. Within(td, kind, n)
    BY <2>1, <2>2, EndsWithin, Zenon
  <2> QED
    BY <2>3
<1>2. CASE InEntry(kind, depth, td, en)
  <2>1. PICK n \in Nat, p \in Seq(InnerItems) : td = p \o Remaining(kind, n)
    BY <1>2 DEF InEntry
  <2>2. p \in Seq(Items) /\ Remaining(kind, n) \in Seq(Items)
    <3>1. p \in Seq(Items)
      BY InnerAreItems
    <3> QED
      BY <3>1, EndsAreItems
  <2>3. CASE p = <<>>
    BY <2>1, <2>2, <2>3, ConcatEmptySeq
  <2>4. CASE p # <<>>
    BY <2>1, <2>2, <2>4, EndsWithin, Zenon
  <2> QED
    BY <2>3, <2>4
<1>3. CASE InFunction(kind, depth, td, fr, en)
  <2>1. PICK n \in Nat, p \in Seq(InnerItems) : td = p \o FunctionEnd(n) \/ td = p \o BodyEnd(n)
    BY <1>3 DEF InFunction
  <2>2. p \in Seq(Items)
    BY InnerAreItems
  <2>3. Within(td, "code", n) /\ kind = "code"
    BY <1>3, <2>1, <2>2, FunctionWithin, Zenon DEF InFunction
  <2> QED
    BY <2>3
<1>4. CASE AtCount(kind, depth, td, en)
  BY <1>4 DEF AtCount
<1>5. CASE AtClose(kind, depth, td)
  BY <1>5 DEF AtClose
<1>6. CASE AtEnd(kind, depth, td)
  BY <1>6 DEF AtEnd
<1>7. CASE AtValue(kind, depth, td)
  BY <1>7 DEF AtValue
<1> QED
  BY <1>1, <1>2, <1>3, <1>4, <1>5, <1>6, <1>7 DEF Shaped

(* An inner item is replaced: either the entry goes on, or it is over.     *)
LEMMA InnerMeasures ==
  ASSUME NEW kind \in EntryKinds, NEW depth, NEW td, NEW fr, NEW en,
         Shaped(kind, depth, td, fr, en), td # <<>>, td[1] \in InnerItems,
         NEW q \in Seq(InnerItems)
  PROVE  \E n \in Nat :
           /\ Within(td, kind, n)
           /\ \/ Within(q \o Tail(td), kind, n)
              \/ q = <<>> /\ LeftOf(q \o Tail(td)) = n
                 /\ \A start, len : TakenOf(q \o Tail(td), start, len) = len
<1>1. ~AtValue(kind, depth, td)
  BY DEF AtValue
<1>2. PICK n \in Nat : Within(td, kind, n)
  <2>1. CASE /\ kind \in EntryKinds /\ depth = 2
             /\ \E n \in Nat, p \in Seq(InnerItems) : td = p \o Remaining(kind, n) /\ p # <<>>
    <3>1. PICK n \in Nat, p \in Seq(InnerItems) : td = p \o Remaining(kind, n) /\ p # <<>>
      BY <2>1
    <3>2. p \in Seq(Items)
      BY InnerAreItems
    <3> QED
      BY <3>1, <3>2, EndsWithin, Zenon
  <2>2. CASE /\ kind = "code"
             /\ \E n \in Nat, p \in Seq(InnerItems) : td = p \o FunctionEnd(n) \/ td = p \o BodyEnd(n)
    <3>1. PICK n \in Nat, p \in Seq(InnerItems) : td = p \o FunctionEnd(n) \/ td = p \o BodyEnd(n)
      BY <2>2
    <3>2. p \in Seq(Items)
      BY InnerAreItems
    <3> QED
      BY <2>2, <3>1, <3>2, FunctionWithin, Zenon
  <2> QED
    BY <1>1, <2>1, <2>2, InnerCases
<1> DEFINE s == q \o Tail(td)
<1>3. td \in Seq(Items) /\ q \in Seq(Items) /\ Len(td) \in Nat /\ Len(td) > 2
      /\ td[Len(td) - 1] = Elems(kind, n)
  <2>1. td \in Seq(Items)
    BY ShapedItems
  <2>2. q \in Seq(Items)
    BY InnerAreItems
  <2> QED
    BY <1>2, <2>1, <2>2 DEF Within
<1>4. /\ Tail(td) \in Seq(Items) /\ Len(Tail(td)) = Len(td) - 1
      /\ \A i \in 1 .. Len(td) - 1 : Tail(td)[i] = td[i + 1]
  BY <1>3
<1> DEFINE u == Tail(td)
<1> HIDE DEF u
<1>5. /\ u \in Seq(Items) /\ Len(u) = Len(td) - 1 /\ u[Len(td) - 2] = Elems(kind, n)
      /\ s = q \o u
  BY <1>3, <1>4 DEF u
<1>6. /\ s \in Seq(Items) /\ Len(s) = Len(q) + Len(u)
      /\ \A i \in 1 .. Len(q) + Len(u) : s[i] = IF i <= Len(q) THEN q[i] ELSE u[i - Len(q)]
  BY <1>3, <1>5, ConcatProperties
<1>7. Len(q) \in Nat
  OBVIOUS
<1> HIDE DEF s
<1>8. Len(s) \in Nat /\ Len(s) >= 2 /\ Len(s) - 1 \in 1 .. Len(q) + Len(u)
      /\ ~(Len(s) - 1 <= Len(q)) /\ (Len(s) - 1) - Len(q) = Len(td) - 2
      /\ (q # <<>> => Len(s) > 2)
  BY <1>3, <1>5, <1>6, <1>7
<1>9. s[Len(s) - 1] = Elems(kind, n)
  BY <1>5, <1>6, <1>8
<1>10. CASE Len(s) > 2
  <2>1. Within(s, kind, n)
    BY <1>8, <1>9, <1>10 DEF Within
  <2> QED
    BY <1>2, <2>1 DEF s
<1>11. CASE Len(s) = 2
  <2>1. s[1] = Elems(kind, n) /\ q = <<>>
    BY <1>8, <1>9, <1>11
  <2>2. s[1][1] = "elems" /\ s[1][3] = n
    BY <2>1, ItemParts
  <2>3. LeftOf(s) = n /\ \A start, len : TakenOf(s, start, len) = len
    BY <1>11, <2>2 DEF LeftOf, TakenOf
  <2> QED
    BY <1>2, <2>1, <2>3 DEF s
<1>12. Len(s) > 2 \/ Len(s) = 2
  <2>1. Len(s) \in Nat /\ Len(s) >= 2
    BY <1>8, Zenon
  <2> DEFINE m == Len(s)
  <2>2. m \in Nat /\ m >= 2
    BY <2>1
  <2> HIDE DEF m
  <2>3. m > 2 \/ m = 2
    BY <2>2
  <2> QED
    BY <2>3 DEF m
<1> QED
  BY <1>10, <1>11, <1>12, Zenon

(* The state in those terms, and the next one.                             *)
LEMMA WithinNow ==
  ASSUME NEW kind, NEW n \in Nat, Within(todo, kind, n)
  PROVE  EntriesLeft = n + 1 /\ BytesTaken = EntryStart
<1> DEFINE s == EntryStart
           l == Len(data)
<1>1. EntriesLeft = LeftOf(todo) /\ BytesTaken = TakenOf(todo, s, l)
  BY MeasuresAre
<1> HIDE DEF s, l
<1>2. LeftOf(todo) = n + 1 /\ TakenOf(todo, s, l) = s
  BY MeasuresWithin
<1> QED
  BY <1>1, <1>2 DEF s

LEMMA WithinNext ==
  ASSUME NEW kind, NEW n \in Nat, Within(todo', kind, n)
  PROVE  EntriesLeft' = n + 1 /\ BytesTaken' = EntryStart'
<1> DEFINE d == todo'
           s == EntryStart'
           l == Len(data')
<1>1. EntriesLeft' = LeftOf(d) /\ BytesTaken' = TakenOf(d, s, l)
  BY MeasuresAre
<1>2. Within(d, kind, n)
  OBVIOUS
<1> HIDE DEF d, s, l
<1>3. LeftOf(d) = n + 1 /\ TakenOf(d, s, l) = s
  BY <1>2, MeasuresWithin
<1> QED
  BY <1>1, <1>3 DEF s

LEMMA OuterNow ==
  ASSUME NEW kind, NEW n \in Nat
  PROVE  /\ todo = <<Vec(kind), S("close")>> => EntriesLeft = -1 /\ BytesTaken = 0
         /\ todo = Remaining(kind, n) => EntriesLeft = n /\ BytesTaken = Len(data)
         /\ todo = <<S("close")>> => EntriesLeft = 0 /\ BytesTaken = Len(data)
         /\ todo = <<>> => EntriesLeft = 0 /\ BytesTaken = Len(data)
<1> DEFINE s == EntryStart
           l == Len(data)
<1>1. EntriesLeft = LeftOf(todo) /\ BytesTaken = TakenOf(todo, s, l)
  BY MeasuresAre
<1> HIDE DEF s, l
<1>2. /\ LeftOf(<<Vec(kind), S("close")>>) = -1
      /\ TakenOf(<<Vec(kind), S("close")>>, s, l) = 0
      /\ LeftOf(Remaining(kind, n)) = n
      /\ TakenOf(Remaining(kind, n), s, l) = l
      /\ LeftOf(<<S("close")>>) = 0 /\ TakenOf(<<S("close")>>, s, l) = l
      /\ LeftOf(<<>>) = 0 /\ TakenOf(<<>>, s, l) = l
  BY MeasuresOf
<1> QED
  BY <1>1, <1>2, Zenon DEF l

LEMMA OuterNext ==
  ASSUME NEW kind, NEW n \in Nat
  PROVE  /\ todo' = <<Vec(kind), S("close")>> => EntriesLeft' = -1 /\ BytesTaken' = 0
         /\ todo' = Remaining(kind, n) => EntriesLeft' = n /\ BytesTaken' = Len(data')
         /\ todo' = <<S("close")>> => EntriesLeft' = 0 /\ BytesTaken' = Len(data')
         /\ todo' = <<>> => EntriesLeft' = 0 /\ BytesTaken' = Len(data')
<1> DEFINE d == todo'
           s == EntryStart'
           l == Len(data')
<1>1. EntriesLeft' = LeftOf(d) /\ BytesTaken' = TakenOf(d, s, l)
  BY MeasuresAre
<1> HIDE DEF d, s, l
<1>2. /\ LeftOf(<<Vec(kind), S("close")>>) = -1
      /\ TakenOf(<<Vec(kind), S("close")>>, s, l) = 0
      /\ LeftOf(Remaining(kind, n)) = n
      /\ TakenOf(Remaining(kind, n), s, l) = l
      /\ LeftOf(<<S("close")>>) = 0 /\ TakenOf(<<S("close")>>, s, l) = l
      /\ LeftOf(<<>>) = 0 /\ TakenOf(<<>>, s, l) = l
  BY MeasuresOf
<1> QED
  BY <1>1, <1>2, Zenon DEF l, d

(* What a step does to them.                                               *)
Progress ==
  \/ /\ outcome' = outcome /\ EntriesLeft' = EntriesLeft /\ BytesTaken' = BytesTaken
  \/ /\ outcome' = outcome /\ EntriesLeft = -1 /\ EntriesLeft' \in Nat
     /\ BytesTaken = 0 /\ BytesTaken' > BytesTaken
  \/ /\ outcome' = outcome /\ EntriesLeft \in Nat /\ EntriesLeft > 0
     /\ EntriesLeft' = EntriesLeft - 1 /\ BytesTaken' > BytesTaken
  \/ /\ outcome' \in Outcomes \ {"reading", "decoded"}
     /\ EntriesLeft' = EntriesLeft /\ BytesTaken' >= BytesTaken
  \/ /\ outcome' = "decoded" /\ EntriesLeft = 0 /\ EntriesLeft' = EntriesLeft
     /\ BytesTaken = readers[1].end /\ BytesTaken' = BytesTaken

LEMMA StartTyped ==
  ASSUME DInv
  PROVE  /\ EntryStart \in Nat /\ EntryStart <= Len(data) /\ Len(data) \in Nat
         /\ number = NoNumber /\ entry = <<>> => EntryStart = Len(data)
         /\ entry # <<>> => EntryStart < Len(data)
<1>1. Len(data) \in Nat /\ number.i \in Nat /\ number.i <= Len(data)
  BY Pieces DEF DInv, Typed, NumberUnderWay
<1>2. CASE entry = <<>>
  <2>1. EntryStart = Len(data) - number.i
    BY <1>2 DEF EntryStart
  <2>2. number = NoNumber => number.i = 0
    BY DEF NoNumber
  <2> QED
    BY <1>1, <1>2, <2>1, <2>2
<1>3. CASE entry # <<>>
  <2>1. EntryStart = entry[1].from
    BY <1>3 DEF EntryStart
  <2>2. entry[1] \in Fields
    BY <1>3 DEF DInv, Typed
  <2>3. entry[1].from \in Nat /\ entry[1].from < Len(data)
    BY <1>3, <2>2 DEF DInv, EntryStarted, Fields
  <2> QED
    BY <1>1, <1>3, <2>1, <2>3
<1> QED
  BY <1>2, <1>3

(* What has been taken lies within the section.                            *)
LEMMA TakenTyped ==
  ASSUME DInv, section.kind \in EntryKinds
  PROVE  /\ BytesTaken \in Nat /\ BytesTaken <= readers[1].end /\ readers[1].end \in Nat
         /\ EntriesLeft \in Nat \cup {-1}
<1> DEFINE kind == section.kind
<1>1. EntryStart \in Nat /\ EntryStart <= Len(data) /\ Len(data) \in Nat
  BY StartTyped
<1>2. Len(data) <= readers[1].end /\ readers[1].end \in Nat
  BY <1>1, Pieces, WithinSection DEF DInv, ReadersFit
<1>3. \/ todo = <<Vec(kind), S("close")>> \/ todo = <<S("close")>> \/ todo = <<>>
      \/ \E n \in Nat : todo = Remaining(kind, n)
      \/ \E n \in Nat : Within(todo, kind, n)
  BY MeasureCases DEF DInv, CallsShaped
<1>4. /\ BytesTaken \in {0, EntryStart, Len(data)}
      /\ EntriesLeft \in Nat \cup {-1}
  <2> HIDE DEF kind
  <2>1. CASE todo = <<Vec(kind), S("close")>> \/ todo = <<S("close")>> \/ todo = <<>>
    <3>1. \/ EntriesLeft = -1 /\ BytesTaken = 0
          \/ EntriesLeft = 0 /\ BytesTaken = Len(data)
      BY <2>1, OuterNow
    <3> QED
      BY <3>1
  <2>2. CASE \E n \in Nat : todo = Remaining(kind, n)
    BY <2>2, OuterNow
  <2>3. CASE \E n \in Nat : Within(todo, kind, n)
    <3>1. PICK n \in Nat : Within(todo, kind, n)
      BY <2>3
    <3>2. BytesTaken = EntryStart /\ EntriesLeft = n + 1
      BY <3>1, WithinNow
    <3> QED
      BY <3>2
  <2> QED
    BY <1>3, <2>1, <2>2, <2>3
<1> QED
  BY <1>1, <1>2, <1>4

TakenWithin ==
  /\ BytesTaken \in Nat /\ BytesTaken <= readers[1].end /\ readers[1].end \in Nat
  /\ EntriesLeft \in Nat \cup {-1}

LEMMA TakenNext == DInv' /\ (section.kind \in EntryKinds)' => TakenWithin'
<1>1. DInv /\ section.kind \in EntryKinds => TakenWithin
  BY TakenTyped DEF TakenWithin
<1> QED
  BY <1>1, PTL

(* A refusal.                                                              *)
LEMMA RefusedProgress ==
  ASSUME DInv, section.kind \in EntryKinds, NEW e \in Outcomes \ {"reading", "decoded"},
         Refuse(e), data' = data \/ \E b \in Bytes : data' = Append(data, b)
  PROVE  Progress
<1> DEFINE kind == section.kind
<1>1. todo' = todo /\ number' = number /\ entry' = entry /\ outcome' = e
  BY DEF Refuse
<1>2. Len(data) \in Nat /\ Len(data') \in {Len(data), Len(data) + 1}
  BY Pieces DEF DInv, Typed
<1>3. EntryStart' \in Nat /\ EntryStart' >= EntryStart /\ EntryStart \in Nat
  <2>1. EntryStart \in Nat
    BY StartTyped
  <2>2. CASE entry = <<>>
    <3>1. /\ EntryStart = Len(data) - number.i /\ EntryStart' = Len(data') - number.i
          /\ number.i \in Nat
      BY <1>1, <2>2 DEF EntryStart, DInv, Typed
    <3> QED
      BY <1>2, <2>1, <3>1
  <2>3. CASE entry # <<>>
    <3>1. EntryStart' = EntryStart
      BY <1>1, <2>3 DEF EntryStart
    <3> QED
      BY <2>1, <3>1
  <2> QED
    BY <2>2, <2>3
<1>4. EntriesLeft' = EntriesLeft
  BY <1>1, MeasuresAre, Zenon
<1>5. \/ todo = <<Vec(kind), S("close")>> \/ todo = <<S("close")>> \/ todo = <<>>
      \/ \E n \in Nat : todo = Remaining(kind, n)
      \/ \E n \in Nat : Within(todo, kind, n)
  BY MeasureCases DEF DInv, CallsShaped
<1>6. \/ BytesTaken = 0 /\ BytesTaken' = 0
      \/ BytesTaken = EntryStart /\ BytesTaken' = EntryStart'
      \/ BytesTaken = Len(data) /\ BytesTaken' = Len(data')
  <2> HIDE DEF kind
  <2>1. CASE todo = <<Vec(kind), S("close")>>
    BY <1>1, <2>1, OuterNow, OuterNext
  <2>2. CASE todo = <<S("close")>>
    BY <1>1, <2>2, OuterNow, OuterNext
  <2>3. CASE todo = <<>>
    BY <1>1, <2>3, OuterNow, OuterNext
  <2>4. CASE \E n \in Nat : todo = Remaining(kind, n)
    BY <1>1, <2>4, OuterNow, OuterNext
  <2>5. CASE \E n \in Nat : Within(todo, kind, n)
    <3>1. PICK n \in Nat : Within(todo, kind, n)
      BY <2>5
    <3>2. Within(todo', kind, n)
      BY <1>1, <3>1
    <3> QED
      BY <3>1, <3>2, WithinNow, WithinNext
  <2> QED
    BY <1>5, <2>1, <2>2, <2>3, <2>4, <2>5
<1>7. BytesTaken' >= BytesTaken
  BY <1>2, <1>3, <1>6
<1> QED
  BY <1>1, <1>4, <1>7, Zenon DEF Progress

(* An inner item is replaced: the entry goes on, or it was the last of it. *)
LEMMA InnerProgress ==
  ASSUME DInv, section.kind \in EntryKinds, todo # <<>>, todo[1] \in InnerItems,
         NEW q \in Seq(InnerItems), todo' = q \o Tail(todo), outcome' = outcome,
         EntryStart' = EntryStart, q = <<>> => EntryStart < Len(data')
  PROVE  Progress
<1> DEFINE kind == section.kind
<1>1. Shaped(kind, Len(readers), todo, frames, entry)
  BY DEF DInv, CallsShaped
<1> HIDE DEF kind
<1>2. PICK n \in Nat :
        /\ Within(todo, kind, n)
        /\ \/ Within(q \o Tail(todo), kind, n)
           \/ q = <<>> /\ LeftOf(q \o Tail(todo)) = n
              /\ \A start, len : TakenOf(q \o Tail(todo), start, len) = len
  BY <1>1, InnerMeasures DEF kind
<1>3. EntriesLeft = n + 1 /\ BytesTaken = EntryStart
  BY <1>2, WithinNow
<1>4. CASE Within(q \o Tail(todo), kind, n)
  <2>0. Within(todo', kind, n)
    BY <1>4, Zenon
  <2>1. EntriesLeft' = n + 1 /\ BytesTaken' = EntryStart'
    BY <2>0, WithinNext
  <2> QED
    BY <1>3, <2>1, Zenon DEF Progress
<1>5. CASE /\ q = <<>> /\ LeftOf(q \o Tail(todo)) = n
           /\ \A start, len : TakenOf(q \o Tail(todo), start, len) = len
  <2>1. EntriesLeft' = n /\ BytesTaken' = Len(data')
    BY <1>5, MeasuresAre, Zenon
  <2>2. EntriesLeft \in Nat /\ EntriesLeft > 0 /\ EntriesLeft' = EntriesLeft - 1
    BY <1>3, <2>1
  <2>3. BytesTaken' > BytesTaken
    <3>1. BytesTaken < BytesTaken'
      BY <1>3, <1>5, <2>1, Zenon
    <3> QED
      BY <3>1
  <2> QED
    BY <2>2, <2>3, Zenon DEF Progress
<1> QED
  BY <1>2, <1>4, <1>5

(* An entry goes on.                                                       *)
LEMMA WithinProgress ==
  ASSUME NEW kind, NEW n \in Nat, Within(todo, kind, n), Within(todo', kind, n),
         outcome' = outcome, EntryStart' = EntryStart
  PROVE  Progress
<1>1. EntriesLeft = n + 1 /\ BytesTaken = EntryStart
  BY WithinNow
<1>2. EntriesLeft' = n + 1 /\ BytesTaken' = EntryStart'
  BY WithinNext
<1> QED
  BY <1>1, <1>2, Zenon DEF Progress

LEMMA DigitProgress ==
  ASSUME DInv, section.kind \in EntryKinds, NEW b \in Bytes, ReadDigit(b)
  PROVE  Progress
<1> DEFINE kind == section.kind
<1>1. /\ todo' = todo /\ entry' = entry /\ outcome' = outcome
      /\ number'.i = number.i + 1 /\ data' = Append(data, b)
      /\ todo # <<>> /\ todo[1][1] \in NumberSymbols
  BY DEF ReadDigit, Reading, Symbol
<1>2. Len(data) \in Nat /\ Len(data') = Len(data) + 1 /\ number.i \in Nat
  BY <1>1, Pieces DEF DInv, Typed
<1>3. EntryStart' = EntryStart
  BY <1>1, <1>2 DEF EntryStart
<1>4. \/ todo = <<Vec(kind), S("close")>> \/ todo = <<S("close")>> \/ todo = <<>>
      \/ \E n \in Nat : todo = Remaining(kind, n)
      \/ \E n \in Nat : Within(todo, kind, n)
  BY MeasureCases DEF DInv, CallsShaped
<1> HIDE DEF kind
<1>5. CASE todo = <<Vec(kind), S("close")>>
  <2>1. EntriesLeft' = EntriesLeft /\ BytesTaken = 0 /\ BytesTaken' = 0
    BY <1>1, <1>5, OuterNow, OuterNext
  <2> QED
    BY <1>1, <2>1, Zenon DEF Progress
<1>6. CASE \E n \in Nat : Within(todo, kind, n)
  BY <1>1, <1>3, <1>6, WithinProgress, Zenon
<1>7. CASE todo = <<S("close")>>
  <2>1. todo[1][1] = "close"
    BY <1>7 DEF S
  <2> QED
    BY <1>1, <2>1, NamesApart
<1>8. CASE \E n \in Nat : todo = Remaining(kind, n)
  <2>1. todo[1][1] = "elems"
    <3>1. PICK n \in Nat : todo = Remaining(kind, n)
      BY <1>8
    <3>2. todo[1] = Elems(kind, n)
      BY <3>1, EndParts, Zenon
    <3> QED
      BY <3>2, ItemParts
  <2> QED
    BY <1>1, <2>1, NamesApart
<1> QED
  BY <1>1, <1>4, <1>5, <1>6, <1>7, <1>8

LEMMA DescendProgress == ASSUME DInv, section.kind \in EntryKinds, Descend PROVE Progress
<1> DEFINE kind == section.kind
           x == todo[1][1]
<1>1. /\ todo # <<>> /\ x \in DOMAIN Parts /\ todo' = Parts[x] \o Tail(todo)
      /\ UNCHANGED <<section, data, readers, number, frames, entry, outcome>>
  BY DEF Descend, Reading, Symbol, Rest
<1>2. Shaped(kind, Len(readers), todo, frames, entry)
  BY DEF DInv, CallsShaped
<1>3. x \notin ByteSymbols \cup NumberSymbols \cup {"vec", "elems", "body", "close", "localslimit"}
  BY <1>1, NamesApart
<1>4. EntryStart' = EntryStart
  BY <1>1 DEF EntryStart
<1>5. CASE todo[1] \in InnerItems
  <2>1. x \in PartNames
    BY <1>1, <1>3, <1>5, InnerSymbols, NamesApart
  <2>2. Parts[x] \in Seq(InnerItems) /\ Parts[x] # <<>>
    BY <2>1, PartsInner
  <2> QED
    BY <1>1, <1>4, <1>5, <2>2, InnerProgress
<1>6. CASE \E n \in Nat, o \in Openings(kind) :
             todo = <<o>> \o Remaining(kind, n) /\ todo[1] = o /\ Tail(todo) = Remaining(kind, n)
  <2>1. PICK n \in Nat, o \in Openings(kind) :
          todo = <<o>> \o Remaining(kind, n) /\ todo[1] = o /\ Tail(todo) = Remaining(kind, n)
    BY <1>6
  <2>2. o = S(kind) /\ o \in Items
    BY <1>1, <2>1, OpeningSymbols
  <2>3. x = kind
    BY <2>1, <2>2, ItemParts
  <2>4. Within(todo, kind, n)
    <3>1. <<o>> \in Seq(Items) /\ <<o>> # <<>>
      BY <2>2
    <3> QED
      BY <2>1, <3>1, EndsWithin, Zenon
  <2>5. Parts[kind] \in Seq(Items) /\ Parts[kind] # <<>>
    <3>1. CASE kind \in Special
      <4>1. OpeningOf(kind) \in Items
        BY <3>1, OpeningSymbols DEF Openings
      <4>2. Parts[kind] = <<OpeningOf(kind)>>
        BY <3>1, PartsOpening
      <4> DEFINE q == <<OpeningOf(kind)>>
      <4>3. q \in Seq(Items) /\ q # <<>>
        BY <4>1
      <4> HIDE DEF q
      <4>4. Parts[kind] = q
        BY <4>2 DEF q
      <4> QED
        BY <4>3, <4>4, Zenon
    <3>2. CASE kind \notin Special
      BY <3>2, PartsInner, InnerAreItems
    <3> QED
      BY <3>1, <3>2
  <2>6. Within(todo', kind, n)
    <3>1. todo' = Parts[kind] \o Remaining(kind, n)
      BY <1>1, <2>1, <2>3, Zenon
    <3> HIDE DEF kind
    <3>2. Within(Parts[kind] \o Remaining(kind, n), kind, n)
      BY <2>5, EndsWithin DEF kind
    <3> QED
      BY <3>1, <3>2, Zenon
  <2> QED
    BY <1>1, <1>4, <2>4, <2>6, WithinProgress
<1>7. CASE todo[1] \in {Vec(kind), S("close"), S("body")} \/ \E n \in Nat : todo[1] = Elems(kind, n)
  BY <1>3, <1>7, ItemParts
<1> HIDE DEF kind
<1> QED
  BY <1>1, <1>2, <1>5, <1>6, <1>7, TopCases

LEMMA NextElementProgress ==
  ASSUME DInv, section.kind \in EntryKinds, NextElement
  PROVE  Progress
<1> DEFINE kind == section.kind
           y == todo[1][2]
           m == todo[1][3]
<1>1. /\ todo # <<>> /\ todo[1][1] = "elems"
      /\ todo' = IF m = 0 THEN Tail(todo) ELSE <<S(y), Elems(y, m - 1)>> \o Tail(todo)
      /\ entry' = IF y \in EntryKinds THEN <<>> ELSE entry
      /\ UNCHANGED <<section, data, readers, number, frames, outcome>>
  BY DEF NextElement, Reading, Symbol, Rest
<1>2. Shaped(kind, Len(readers), todo, frames, entry)
  BY DEF DInv, CallsShaped
<1>3. number = NoNumber
  BY <1>1, NamesApart DEF DInv, NumberUnderWay
<1>4. CASE todo[1] \in InnerItems
  <2>1. PICK x \in InnerNames, n \in Nat : todo[1] = Elems(x, n)
    BY <1>1, <1>4, InnerSymbols
  <2>2. y = x /\ m = n
    BY <2>1, ItemParts
  <2>3. entry' = entry
    BY <1>1, <2>2, NamesApart
  <2>4. entry # <<>>
    <3>1. todo[1] \notin ReadItems
      <4>1. \A z : S(z)[1] = z
        BY ItemParts
      <4>2. "elems" \notin ReadNames
        BY NamesApart DEF ReadNames
      <4> QED
        BY <1>1, <4>1, <4>2 DEF ReadItems
    <3> QED
      BY <1>1, <1>2, <1>4, <3>1, FirstOfEntry
  <2>5. EntryStart' = EntryStart /\ EntryStart < Len(data')
    BY <1>1, <2>3, <2>4, StartTyped DEF EntryStart
  <2>6. CASE n = 0
    <3>1. todo' = <<>> \o Tail(todo)
      <4>1. todo' = Tail(todo)
        BY <1>1, <2>2, <2>6
      <4>2. Tail(todo) \in Seq(Items)
        BY <1>1, Pieces
      <4> QED
        BY <4>1, <4>2, ConcatEmptySeq
    <3> QED
      BY <1>1, <1>4, <2>5, <3>1, None, InnerProgress
  <2>7. CASE n # 0
    <3> DEFINE q == <<S(x), Elems(x, n - 1)>>
    <3>1. q \in Seq(InnerItems)
      <4>1. S(x) \in InnerItems /\ Elems(x, n - 1) \in InnerItems
        BY <2>1, <2>7, InnerSymbol, InnerElems
      <4> QED
        BY <4>1, Two
    <3>2. todo' = q \o Tail(todo)
      BY <1>1, <2>2, <2>7
    <3> HIDE DEF q
    <3> QED
      BY <1>1, <1>4, <2>5, <3>1, <3>2, InnerProgress
  <2> QED
    BY <2>6, <2>7
<1>5. CASE \E n \in Nat : /\ todo = Remaining(kind, n) /\ todo[1] = Elems(kind, n)
                          /\ Tail(todo) = <<S("close")>>
  <2>1. PICK n \in Nat : /\ todo = Remaining(kind, n) /\ todo[1] = Elems(kind, n)
                         /\ Tail(todo) = <<S("close")>>
    BY <1>5
  <2>2. y = kind /\ m = n
    BY <2>1, ItemParts
  <2>3. entry' = <<>>
    BY <1>1, <2>2
  <2>4. EntriesLeft = n /\ BytesTaken = Len(data) /\ Len(data') = Len(data)
    BY <1>1, <2>1, OuterNow
  <2>5. CASE n = 0
    <3>1. todo' = <<S("close")>>
      BY <1>1, <2>1, <2>2, <2>5
    <3>2. EntriesLeft' = 0 /\ BytesTaken' = Len(data')
      BY <3>1, OuterNext
    <3> QED
      BY <1>1, <2>4, <2>5, <3>2 DEF Progress
  <2>6. CASE n # 0
    <3>1. n - 1 \in Nat
      BY <2>6
    <3>2. todo' = <<S(kind), Elems(kind, n - 1)>> \o <<S("close")>>
      BY <1>1, <2>1, <2>2, <2>6, Zenon
    <3>3. Within(todo', kind, n - 1)
      <4> HIDE DEF kind
      <4>0. kind \in EntryKinds
        BY DEF kind
      <4>1. todo' = <<S(kind)>> \o Remaining(kind, n - 1)
        BY <3>1, <3>2, <4>0, ElementReplaced, Zenon
      <4>2. <<S(kind)>> \in Seq(Items) /\ <<S(kind)>> # <<>>
        <5>1. S(kind) \in Items
          BY <4>0 DEF Items, Among, Names
        <5> QED
          BY <5>1
      <4> QED
        BY <3>1, <4>0, <4>1, <4>2, EndsWithin, Zenon
    <3>4. EntriesLeft' = (n - 1) + 1 /\ BytesTaken' = EntryStart'
      BY <3>1, <3>3, WithinNext
    <3>5. EntryStart' = Len(data)
      <4>1. EntryStart' = Len(data) - 0
        BY <1>1, <1>3, <2>3 DEF EntryStart, NoNumber
      <4> QED
        BY <4>1, StartTyped
    <3>6. EntriesLeft' = EntriesLeft /\ BytesTaken' = BytesTaken
      BY <2>4, <3>4, <3>5
    <3> QED
      BY <1>1, <3>6 DEF Progress
  <2> QED
    BY <2>5, <2>6
<1>6. CASE todo[1] \in {Vec(kind), S("close"), S("body")} \/ todo[1] \in Openings(kind)
  <2>1. Vec(kind)[1] = "vec" /\ S("close")[1] = "close" /\ S("body")[1] = "body"
    BY ItemParts
  <2>2. ASSUME todo[1] \in Openings(kind) PROVE FALSE
    <3>1. todo[1][1] \in {kind} \cup OpeningNames
      BY <2>2, OpeningSymbols
    <3> QED
      BY <1>1, <2>2, <3>1, NamesApart DEF OpeningNames
  <2> QED
    BY <1>1, <1>6, <2>1, <2>2
<1> HIDE DEF kind
<1> QED
  BY <1>1, <1>2, <1>4, <1>5, <1>6, TopCases

LEMMA CheckLocalsProgress ==
  ASSUME DInv, section.kind \in EntryKinds, CheckLocals
  PROVE  Progress
<1>1. /\ todo # <<>> /\ todo[1][1] = "localslimit" /\ data' = data /\ readers' = readers
      /\ \/ Refuse("TooManyLocals")
         \/ todo' = Tail(todo) /\ UNCHANGED <<section, number, frames, entry, outcome>>
  BY DEF CheckLocals, Reading, Symbol, Rest
<1>2. CASE Refuse("TooManyLocals")
  BY <1>1, <1>2, RefusedProgress DEF Outcomes
<1>3. CASE todo' = Tail(todo) /\ UNCHANGED <<section, number, frames, entry, outcome>>
  <2> DEFINE kind == section.kind
  <2>1. Shaped(kind, Len(readers), todo, frames, entry)
    BY DEF DInv, CallsShaped
  <2>2. todo[1] \in InnerItems
    <3>1. /\ Vec(kind)[1] = "vec" /\ S("close")[1] = "close" /\ S("body")[1] = "body"
          /\ \A n : Elems(kind, n)[1] = "elems"
      BY ItemParts
    <3>2. ASSUME kind \in EntryKinds, todo[1] \in Openings(kind) PROVE FALSE
      <4>1. todo[1][1] \in {kind} \cup OpeningNames
        BY <3>2, OpeningSymbols
      <4> QED
        BY <1>1, <3>2, <4>1, NamesApart DEF OpeningNames
    <3> HIDE DEF kind
    <3> QED
      BY <1>1, <2>1, <3>1, <3>2, TopCases
  <2>3. entry # <<>>
    <3>1. todo[1] \notin ReadItems
      <4>1. \A z : S(z)[1] = z
        BY ItemParts
      <4>2. "localslimit" \notin ReadNames
        BY NamesApart
      <4> QED
        BY <1>1, <4>1, <4>2 DEF ReadItems
    <3> QED
      BY <1>1, <2>1, <2>2, <3>1, FirstOfEntry
  <2>4. todo' = <<>> \o Tail(todo)
    <3>1. Tail(todo) \in Seq(Items)
      BY <1>1, Pieces
    <3> QED
      BY <1>3, <3>1, ConcatEmptySeq
  <2>5. EntryStart' = EntryStart /\ EntryStart < Len(data')
    BY <1>1, <1>3, <2>3, StartTyped DEF EntryStart
  <2> QED
    BY <1>1, <1>3, <2>2, <2>4, <2>5, None, InnerProgress
<1> QED
  BY <1>1, <1>2, <1>3

LEMMA CloseProgress == ASSUME DInv, section.kind \in EntryKinds, Close PROVE Progress
<1>1. /\ todo # <<>> /\ todo[1][1] = "close" /\ data' = data
      /\ \/ readers' = readers /\ Refuse("SizeMismatch")
         \/ /\ todo' = Tail(todo)
            /\ UNCHANGED <<section, number, frames, entry, outcome>>
  BY DEF Close, Reading, Symbol, Rest
<1>2. CASE Refuse("SizeMismatch")
  BY <1>1, <1>2, RefusedProgress DEF Outcomes
<1>3. CASE todo' = Tail(todo) /\ UNCHANGED <<section, number, frames, entry, outcome>>
  <2>1. CASE AtClose(section.kind, Len(readers), todo)
    <3>1. todo = <<S("close")>>
      BY <2>1 DEF AtClose
    <3>2. todo' = <<>>
      BY <1>3, <3>1
    <3>3. EntriesLeft = 0 /\ BytesTaken = Len(data) /\ EntriesLeft' = 0 /\ BytesTaken' = Len(data)
      BY <1>1, <3>1, <3>2, OuterNow, OuterNext
    <3> QED
      BY <1>3, <3>3 DEF Progress
  <2>2. CASE /\ section.kind = "code" /\ Len(readers) = 3 /\ entry # <<>>
             /\ \E n \in Nat : todo = FunctionEnd(n) /\ Tail(todo) = Remaining("code", n)
    <3>1. PICK n \in Nat : todo = FunctionEnd(n) /\ Tail(todo) = Remaining("code", n)
      BY <2>2
    <3>2. Within(todo, "code", n)
      <4>1. FunctionEnd(n) = <<S("close"), Elems("code", n), S("close")>>
        BY DEF FunctionEnd
      <4> QED
        BY <3>1, <4>1 DEF Within
    <3>3. EntriesLeft = n + 1 /\ BytesTaken = EntryStart
      BY <3>2, WithinNow
    <3>4. todo' = Remaining("code", n)
      BY <1>3, <3>1
    <3>5. EntriesLeft' = n /\ BytesTaken' = Len(data)
      BY <1>1, <3>4, OuterNext
    <3>6. EntryStart < Len(data) /\ EntryStart \in Nat /\ Len(data) \in Nat
      BY <2>2, StartTyped
    <3>7. BytesTaken' > BytesTaken
      BY <3>3, <3>5, <3>6
    <3>8. EntriesLeft \in Nat /\ EntriesLeft > 0 /\ EntriesLeft' = EntriesLeft - 1
      BY <3>3, <3>5
    <3> QED
      BY <1>3, <3>7, <3>8 DEF Progress
  <2> QED
    BY <1>1, <2>1, <2>2, CloseCases
<1> QED
  BY <1>1, <1>2, <1>3

LEMMA FinishProgress == ASSUME DInv, section.kind \in EntryKinds, Finish PROVE Progress
<1>1. /\ todo = <<>> /\ todo' = todo /\ data' = data /\ outcome' = "decoded"
  BY DEF Finish
<1>2. Len(readers) = 1
  BY <1>1, DepthOf DEF DInv, CallsShaped
<1>3. Len(data) = readers[1].end
  BY <1>2, Pieces DEF DInv, ReadersFit, Top
<1>4. EntriesLeft = 0 /\ BytesTaken = Len(data) /\ EntriesLeft' = 0 /\ BytesTaken' = Len(data)
  BY <1>1, OuterNow, OuterNext
<1> QED
  BY <1>1, <1>3, <1>4 DEF Progress

LEMMA PastEndProgress == ASSUME DInv, section.kind \in EntryKinds, ReadPastEnd PROVE Progress
<1> DEFINE e == IF Symbol \in {"expr", "body"} THEN "MissingEnd" ELSE "OutOfRange"
<1>1. Refuse(e) /\ data' = data
  BY DEF ReadPastEnd
<1>2. e \in Outcomes \ {"reading", "decoded"}
  BY DEF Outcomes
<1> HIDE DEF e
<1> QED
  BY <1>1, <1>2, RefusedProgress

(* What follows a call is the end of its entry: the entry is under way.    *)
LEMMA TailWithin ==
  ASSUME NEW td \in Seq(Items), td # <<>>, NEW kind \in EntryKinds, NEW n \in Nat,
         NEW e \in Seq(Items), Len(e) >= 2, e[Len(e) - 1] = Elems(kind, n), Tail(td) = e
  PROVE  Within(td, kind, n)
<1>1. /\ Len(td) \in Nat /\ Len(td) > 0 /\ Len(Tail(td)) = Len(td) - 1
      /\ \A i \in 1 .. Len(td) - 1 : Tail(td)[i] = td[i + 1]
  OBVIOUS
<1>2. Len(e) = Len(td) - 1 /\ \A i \in 1 .. Len(td) - 1 : e[i] = td[i + 1]
  BY <1>1, Zenon
<1> HIDE DEF Elems
<1>3. Len(e) - 1 \in 1 .. Len(td) - 1 /\ (Len(e) - 1) + 1 = Len(td) - 1 /\ Len(td) > 2
  BY <1>1, <1>2
<1>4. e[Len(e) - 1] = td[(Len(e) - 1) + 1]
  BY <1>2, <1>3, Zenon
<1>5. td[Len(td) - 1] = Elems(kind, n)
  BY <1>3, <1>4, Zenon
<1> QED
  BY <1>1, <1>3, <1>5 DEF Within

LEMMA EndsNow ==
  ASSUME NEW td \in Seq(Items), td # <<>>, NEW kind \in EntryKinds, NEW n \in Nat
  PROVE  /\ Tail(td) = Remaining(kind, n) => Within(td, kind, n)
         /\ Tail(td) = FunctionEnd(n) => Within(td, "code", n)
<1>1. "code" \in EntryKinds
  BY DEF EntryKinds
<1>2. ASSUME Tail(td) = Remaining(kind, n) PROVE Within(td, kind, n)
  <2>1. Remaining(kind, n) \in Seq(Items)
    BY EndsAreItems
  <2>2. Len(Remaining(kind, n)) = 2 /\ Remaining(kind, n)[1] = Elems(kind, n)
    BY DEF Remaining
  <2> DEFINE e == Remaining(kind, n)
  <2> HIDE DEF e
  <2>3. e \in Seq(Items) /\ Len(e) >= 2 /\ e[Len(e) - 1] = Elems(kind, n) /\ Tail(td) = e
    BY <1>2, <2>1, <2>2 DEF e
  <2> QED
    BY <2>3, TailWithin
<1>3. ASSUME Tail(td) = FunctionEnd(n) PROVE Within(td, "code", n)
  <2>1. FunctionEnd(n) \in Seq(Items)
    BY EndsAreItems
  <2>2. Len(FunctionEnd(n)) = 3 /\ FunctionEnd(n)[2] = Elems("code", n)
    BY DEF FunctionEnd
  <2> DEFINE e == FunctionEnd(n)
  <2> HIDE DEF e
  <2>3. e \in Seq(Items) /\ Len(e) >= 2 /\ e[Len(e) - 1] = Elems("code", n) /\ Tail(td) = e
    BY <1>3, <2>1, <2>2 DEF e
  <2> QED
    BY <1>1, <2>3, TailWithin
<1> QED
  BY <1>2, <1>3

(* A value is read: an entry begins where its first value does.            *)
LEMMA ValueStart ==
  ASSUME DInv, NEW b \in Bytes, data' = Append(data, b), NEW x, NEW v,
         entry' = Append(entry, [symbol |-> x, value |-> v,
                                 from |-> Len(data) - number.i, to |-> Len(data) + 1])
  PROVE  EntryStart' = EntryStart /\ EntryStart < Len(data') /\ Len(data') = Len(data) + 1
<1> DEFINE y == Len(data) - number.i
           f == [symbol |-> x, value |-> v, from |-> y, to |-> Len(data) + 1]
<1>1. entry \in Seq(Fields) /\ entry' = Append(entry, f) /\ data \in Seq(Bytes)
  BY DEF DInv, Typed
<1>2. f.from = y
  OBVIOUS
<1> HIDE DEF f, y
<1>3. entry' # <<>> /\ IF entry = <<>> THEN entry'[1] = f ELSE entry'[1] = entry[1]
  <2>1. CASE entry = <<>>
    BY <1>1, <2>1
  <2>2. CASE entry # <<>>
    BY <1>1, <2>2
  <2> QED
    BY <2>1, <2>2
<1>4. EntryStart' = EntryStart
  BY <1>2, <1>3, Zenon DEF EntryStart, y
<1>5. Len(data') = Len(data) + 1
  BY <1>1
<1> QED
  BY <1>4, <1>5, StartTyped

LEMMA ValueProgress ==
  ASSUME DInv, section.kind \in EntryKinds,
         todo # <<>>, todo[1][1] \in ByteSymbols \cup NumberSymbols,
         NEW v \in Int, todo[1][1] \in {"vec", "name"} => v \in Nat, NEW b \in Bytes,
         data' = Append(data, b), todo[1][1] # "blocktype" => Valid(todo[1][1], v),
         entry' = Append(entry, [symbol |-> todo[1][1], value |-> v,
                                 from |-> Len(data) - number.i, to |-> Len(data) + 1]),
         frames' = CASE todo[1][1] = "codesize" -> <<"function">>
                     [] todo[1][1] = "body"     -> FramesAfter(v)
                     [] OTHER                   -> frames,
         todo' = (IF todo[1][1] = "body" THEN AfterBody(v) ELSE After(todo[1], v)) \o Tail(todo),
         outcome' = outcome
  PROVE  Progress
<1> DEFINE x == todo[1][1]
           kind == section.kind
<1>1. EntryStart' = EntryStart /\ EntryStart < Len(data') /\ Len(data') = Len(data) + 1
  BY ValueStart
<1>2. todo \in Seq(Items) /\ Len(data) \in Nat
  BY Pieces
<1>3. CASE todo[1] \in InnerItems
  <2>1. x \in InnerNames \cup {"vec", "elems"} /\ x \notin {"codesize", "body"}
    BY <1>3, InnerSymbols, NamesApart
  <2>2. todo' = After(todo[1], v) \o Tail(todo)
    BY <2>1
  <2>3. x = "importkind" => v \in 0 .. 3
    BY DEF Valid, ImportDescType
  <2>4. After(todo[1], v) \in Seq(InnerItems)
    BY <1>3, <2>3, AfterInner
  <2> DEFINE q == After(todo[1], v)
  <2> HIDE DEF q
  <2>5. q \in Seq(InnerItems) /\ todo' = q \o Tail(todo)
    BY <2>2, <2>4 DEF q
  <2> QED
    BY <1>1, <1>3, <2>5, InnerProgress
<1>4. CASE AtCount(kind, Len(readers), todo, entry) /\ todo[1] = Vec(kind)
  <2>1. x = "vec" /\ todo[1][2] = kind /\ todo = <<Vec(kind), S("close")>>
    BY <1>4, ItemParts DEF AtCount
  <2>2. v \in Nat /\ todo' = <<Elems(kind, v)>> \o Tail(todo)
    <3>1. After(todo[1], v) = <<Elems(kind, v)>>
      BY <2>1 DEF After
    <3> QED
      BY <2>1, <3>1
  <2>3. todo' = Remaining(kind, v)
    BY <2>1, <2>2, CountReplaced, Zenon
  <2> HIDE DEF kind
  <2>4. EntriesLeft = -1 /\ BytesTaken = 0
    BY <2>1, <2>2, OuterNow
  <2>5. EntriesLeft' = v /\ BytesTaken' = Len(data')
    BY <2>2, <2>3, OuterNext
  <2>6. BytesTaken' > BytesTaken
    BY <1>1, <1>2, <2>4, <2>5
  <2> QED
    BY <2>2, <2>4, <2>5, <2>6 DEF Progress
<1>5. CASE /\ kind \in Special /\ todo[1] = OpeningOf(kind)
           /\ \E n \in Nat : Tail(todo) = Remaining(kind, n)
  <2>1. PICK n \in Nat : Tail(todo) = Remaining(kind, n)
    BY <1>5
  <2>2. \/ kind = "element" /\ x = "elementflag"
        \/ kind = "code" /\ x = "codesize"
        \/ kind = "data" /\ x = "dataflag"
    <3>1. \/ kind = "element" /\ todo[1] = S("elementflag")
          \/ kind = "code" /\ todo[1] = S("codesize")
          \/ kind = "data" /\ todo[1] = S("dataflag")
      BY <1>5 DEF Special, OpeningOf
    <3>2. /\ S("elementflag")[1] = "elementflag" /\ S("codesize")[1] = "codesize"
          /\ S("dataflag")[1] = "dataflag"
      BY DEF S
    <3> QED
      BY <3>1, <3>2, Zenon
  <2>3. x # "body" /\ todo' = After(todo[1], v) \o Tail(todo)
    BY <2>2
  <2> DEFINE p == After(todo[1], v)
  <2>4. p \in Seq(Items) /\ p # <<>>
    <3>1. CASE x = "codesize"
      <4>1. p = CodeBody
        BY <3>1 DEF After
      <4>2. Vec("local") \in Items /\ S("localslimit") \in Items /\ S("body") \in Items
            /\ S("close") \in Items
        BY InnerNamed, InnerVec, InnerSymbol, InnerAreItems, NamesApart DEF PartNames, Items, Among, Names
      <4>3. CodeBody \in Seq(Items) /\ CodeBody # <<>>
        BY <4>2 DEF CodeBody
      <4> QED
        BY <4>1, <4>3, Zenon
    <3>2. CASE x # "codesize"
      <4>1. /\ x = "elementflag" => v \in ElementFlags /\ p = AfterElementFlag(v)
            /\ x = "dataflag" => v \in DataFlags /\ p = AfterDataFlag(v)
        BY DEF Valid, After
      <4>2. /\ x = "elementflag" => v \in ElementFlags /\ p = ElementForm[v]
            /\ x = "dataflag" => v \in DataFlags /\ p = DataForm[v]
        BY <4>1, ElementParts, DataParts, Zenon
      <4>3. p \in Seq(InnerItems) /\ p # <<>>
        BY <2>2, <3>2, <4>2, FormsInner
      <4> HIDE DEF p
      <4> QED
        BY <4>3, InnerAreItems
    <3> QED
      BY <3>1, <3>2
  <2> HIDE DEF p
  <2>5. todo' = p \o Remaining(kind, n)
    BY <2>1, <2>3, Zenon DEF p
  <2>6. Within(todo, kind, n)
    <3> HIDE DEF kind
    <3> QED
      BY <1>2, <2>1, EndsNow DEF kind
  <2>7. Within(p \o Remaining(kind, n), kind, n)
    <3> HIDE DEF kind
    <3> QED
      BY <2>4, EndsWithin DEF kind
  <2>8. Within(todo', kind, n)
    BY <2>5, <2>7, Zenon
  <2> QED
    BY <1>1, <2>6, <2>8, WithinProgress
<1>6. CASE todo[1] = S("body") /\ \E n \in Nat : Tail(todo) = FunctionEnd(n)
  <2>1. PICK n \in Nat : Tail(todo) = FunctionEnd(n)
    BY <1>6
  <2>2. x = "body"
    BY <1>6 DEF S
  <2>3. todo' = AfterBody(v) \o Tail(todo)
    BY <2>2
  <2> DEFINE p == AfterBody(v)
  <2>4. p \in Seq(Items)
    <3>1. ArgumentsOf(v) \in Seq(Items)
      <4>1. ArgumentsOf(v) \in Seq(InnerItems)
        BY ArgumentsInner
      <4> DEFINE a == ArgumentsOf(v)
      <4> HIDE DEF a
      <4>2. a \in Seq(InnerItems)
        BY <4>1 DEF a
      <4>3. a \in Seq(Items)
        BY <4>2, InnerAreItems
      <4> QED
        BY <4>3 DEF a
    <3>2. <<S("body")>> \in Seq(Items) /\ <<>> \in Seq(Items)
      <4>1. S("body") \in Items
        BY DEF Items, Among, Names
      <4> QED
        BY <4>1
    <3> DEFINE a == ArgumentsOf(v)
               e == IF FramesAfter(v) = <<>> THEN <<>> ELSE <<S("body")>>
    <3>3. a \in Seq(Items) /\ e \in Seq(Items) /\ p = a \o e
      BY <3>1, <3>2, Zenon DEF AfterBody
    <3> HIDE DEF a, e, p
    <3> QED
      BY <3>3
  <2> HIDE DEF p
  <2>5. todo' = p \o FunctionEnd(n)
    BY <2>1, <2>3, Zenon DEF p
  <2>6. Within(todo, "code", n)
    BY <1>2, <2>1, EndsNow
  <2>7. Within(p \o FunctionEnd(n), "code", n)
    BY <2>4, FunctionWithin
  <2>8. Within(todo', "code", n)
    BY <2>5, <2>7, Zenon
  <2> QED
    BY <1>1, <2>6, <2>8, WithinProgress
<1> QED
  BY <1>3, <1>4, <1>5, <1>6, SymbolsRead

LEMMA ReceiveProgress ==
  ASSUME DInv, section.kind \in EntryKinds,
         todo # <<>>, Symbol \in ByteSymbols \cup NumberSymbols,
         NEW v \in Int, Symbol \in {"vec", "name"} => v \in Nat, NEW b \in Bytes,
         Receive(v, b)
  PROVE  Progress
<1>1. data' = Append(data, b)
  BY DEF Receive
<1>2. CASE Refuse("Invalid")
  BY <1>1, <1>2, RefusedProgress DEF Outcomes
<1>3. CASE Refuse("OutOfRange")
  BY <1>1, <1>3, RefusedProgress DEF Outcomes
<1> DEFINE Taken ==
             /\ Accepted(v)
             /\ entry' = Append(entry, [symbol |-> Symbol, value |-> v,
                                        from |-> Len(data) - number.i, to |-> Len(data) + 1])
             /\ frames' = CASE Symbol = "codesize" -> <<"function">>
                            [] Symbol = "body"     -> FramesAfter(v)
                            [] OTHER               -> frames
             /\ todo' = (IF Symbol = "body" THEN AfterBody(v) ELSE After(todo[1], v)) \o Rest
             /\ outcome' = outcome
<1>4. CASE Taken
  <2>1. Symbol # "blocktype" => Valid(Symbol, v)
    BY <1>4 DEF Accepted, ShortBlockType
  <2> QED
    BY <2>1, <1>1, <1>4, ValueProgress DEF Symbol, Rest
<1>5. Refuse("Invalid") \/ Refuse("OutOfRange") \/ Taken
  BY Zenon DEF Receive
<1> QED
  BY <1>2, <1>3, <1>4, <1>5

LEMMA ReadProgress ==
  ASSUME DInv, section.kind \in EntryKinds, NEW b \in Bytes, Read(b)
  PROVE  Progress
<1>1. CASE ReadByte(b)
  <2>1. todo # <<>> /\ Symbol \in ByteSymbols /\ Receive(b, b)
    BY <1>1 DEF ReadByte, Reading
  <2>2. b \in Nat
    BY DEF Bytes
  <2> QED
    BY <2>1, <2>2, ReceiveProgress
<1>2. CASE ReadShortBlockType(b)
  <2> DEFINE v == b - \h80
  <2>1. todo # <<>> /\ Symbol = "blocktype" /\ Receive(v, b)
    BY <1>2 DEF ReadShortBlockType, Reading
  <2>2. v \in Int
    BY DEF Bytes
  <2>3. "blocktype" \in NumberSymbols
    BY DEF NumberSymbols
  <2> HIDE DEF v
  <2> QED
    BY <2>1, <2>2, <2>3, ReceiveProgress
<1>3. CASE ReadDigit(b)
  BY <1>3, DigitProgress
<1>4. CASE ReadLastDigit(b)
  <2> DEFINE v == Finished(NumberType(Symbol), number.x, number.i, b)
  <2>1. /\ todo # <<>> /\ Symbol \in NumberSymbols
        /\ \/ data' = Append(data, b) /\ Refuse("ValueOverflow")
           \/ Receive(v, b)
    BY <1>4, Zenon DEF ReadLastDigit, Reading
  <2>2. v \in Int /\ (Symbol \in {"vec", "name"} => v \in Nat)
    BY <2>1, FinishedValue DEF Symbol
  <2> HIDE DEF v
  <2>3. CASE data' = Append(data, b) /\ Refuse("ValueOverflow")
    BY <2>3, RefusedProgress DEF Outcomes
  <2>4. CASE Receive(v, b)
    BY <2>1, <2>2, <2>4, ReceiveProgress
  <2> QED
    BY <2>1, <2>3, <2>4
<1>5. CASE TooManyBytes(b)
  <2>1. data' = Append(data, b) /\ Refuse("TooManyBytes")
    BY <1>5 DEF TooManyBytes
  <2> QED
    BY <2>1, RefusedProgress DEF Outcomes
<1> QED
  BY <1>1, <1>2, <1>3, <1>4, <1>5 DEF Read

LEMMA NextProgress ==
  ASSUME DInv, section.kind \in EntryKinds, Next
  PROVE  Progress
<1>1. CASE Len(data) < Len(section.bytes) /\ \E b \in section.bytes[Len(data) + 1] : Read(b)
  BY <1>1, BytesOf, ReadProgress
<1> QED
  BY <1>1, PastEndProgress, DescendProgress, NextElementProgress, CheckLocalsProgress,
     CloseProgress, FinishProgress DEF Next

(* No step changes the section, nor where it ends.                         *)
LEMMA EndKept ==
  ASSUME DInv, Next
  PROVE  section' = section /\ readers'[1].end = readers[1].end /\ outcome = "reading"
<1>1. CASE UNCHANGED <<section, readers>> /\ outcome = "reading"
  BY <1>1
<1>2. ASSUME NEW b \in Bytes, data' = Append(data, b), readers' = Advanced, section' = section,
             todo # <<>>, Room > 0
      PROVE  readers'[1].end = readers[1].end
  BY <1>2, ByteTaken
<1>3. ASSUME NEW b \in Bytes, NEW v, Receive(v, b), Room > 0, todo # <<>>,
             Symbol \in ByteSymbols \cup NumberSymbols
      PROVE  section' = section /\ readers'[1].end = readers[1].end
  <2>1. section' = section /\ data' = Append(data, b)
    BY <1>3, Zenon DEF Receive, Refuse
  <2>2. CASE readers' = Advanced
    BY <1>2, <1>3, <2>1, <2>2
  <2>3. CASE Symbol = "codesize" /\ Ensured(Symbol, v, Room - 1) /\ readers' = Scoped(Advanced, v)
    <3> DEFINE a == Advanced
    <3>1. v \in Nat /\ v <= Room - 1
      BY <2>3, Pieces DEF Ensured
    <3>2. Nested(readers, Len(data)) /\ readers[Len(readers)].end - readers[Len(readers)].pos > 0
      BY <1>3 DEF DInv, ReadersFit, Room, Top
    <3>3. Len(data) \in Nat /\ Len(data) + 1 \in Nat
      BY Pieces
    <3>4. /\ Nested(a, Len(data) + 1) /\ Len(a) = Len(readers) /\ a[1].end = readers[1].end
          /\ a[Len(a)].end = readers[Len(readers)].end
      BY <3>2, <3>3, AdvancedNested, Zenon DEF Advanced
    <3> HIDE DEF a
    <3>5. a[Len(a)].pos = Len(data) + 1
      BY <3>4, Zenon DEF Nested
    <3>6. v <= a[Len(a)].end - a[Len(a)].pos
      <4>1. a[Len(a)].end = Top.end /\ a[Len(a)].pos = Top.pos + 1
        BY <3>4, <3>5, Pieces, Zenon DEF Top
      <4>2. v <= (Top.end - Top.pos) - 1 /\ Top.end \in Nat /\ Top.pos \in Nat
        BY <3>1, Pieces DEF Room
      <4> QED
        BY <3>1, <4>1, <4>2
    <3>7. Scoped(a, v)[1].end = a[1].end
      BY <3>1, <3>3, <3>4, <3>6, ScopedNested
    <3>8. readers' = Scoped(a, v)
      BY <2>3 DEF a
    <3> QED
      BY <2>1, <3>4, <3>7, <3>8, Zenon
  <2>4. \/ readers' = Advanced
        \/ Symbol = "codesize" /\ Ensured(Symbol, v, Room - 1) /\ readers' = Scoped(Advanced, v)
    BY <1>3, Zenon DEF Receive
  <2> QED
    BY <2>2, <2>3, <2>4
<1>4. CASE Len(data) < Len(section.bytes) /\ \E b \in section.bytes[Len(data) + 1] : Read(b)
  <2>1. PICK b \in Bytes : Read(b)
    BY <1>4, BytesOf
  <2>2. outcome = "reading" /\ Room > 0 /\ todo # <<>>
    BY <2>1 DEF Read, ReadByte, ReadShortBlockType, ReadDigit, ReadLastDigit, TooManyBytes,
                Reading
  <2>3. \/ /\ data' = Append(data, b) /\ readers' = Advanced /\ section' = section
        \/ /\ Symbol \in ByteSymbols \cup NumberSymbols /\ \E v : Receive(v, b)
    <3>1. CASE ReadByte(b)
      BY <3>1 DEF ReadByte, Reading
    <3>2. CASE ReadShortBlockType(b)
      BY <3>2 DEF ReadShortBlockType, Reading, NumberSymbols
    <3>3. CASE ReadDigit(b)
      BY <3>3 DEF ReadDigit
    <3>4. CASE ReadLastDigit(b)
      BY <3>4, Zenon DEF ReadLastDigit, Reading, Refuse
    <3>5. CASE TooManyBytes(b)
      BY <3>5 DEF TooManyBytes, Refuse
    <3> QED
      BY <2>1, <3>1, <3>2, <3>3, <3>4, <3>5 DEF Read
  <2> QED
    BY <1>2, <1>3, <2>2, <2>3
<1>5. CASE Close
  <2>1. /\ outcome = "reading" /\ section' = section /\ todo # <<>> /\ todo[1][1] = "close"
        /\ readers' = readers \/ (Room = 0 /\ readers' = Front(readers))
    BY <1>5 DEF Close, Reading, Symbol, Refuse, Exhausted
  <2>2. CASE readers' = readers
    BY <2>1, <2>2
  <2>3. CASE Room = 0 /\ readers' = Front(readers)
    <3>1. Nested(readers, Len(data)) /\ readers[Len(readers)].end - readers[Len(readers)].pos = 0
      BY <2>3 DEF DInv, ReadersFit, Room, Top
    <3>2. Len(readers) > 1
      <4>1. Len(readers) = 2 \/ Len(readers) = 3
        BY <2>1, CloseCases, Zenon DEF AtClose
      <4> QED
        BY <4>1
    <3>3. Front(readers)[1] = readers[1]
      BY <3>1, <3>2, Pieces, FrontNested
    <3> QED
      BY <2>1, <2>3, <3>3
  <2> QED
    BY <2>1, <2>2, <2>3
<1>6. CASE ReadPastEnd \/ Descend \/ NextElement \/ CheckLocals \/ Finish
  BY <1>1, <1>6 DEF ReadPastEnd, Descend, NextElement, CheckLocals, Finish, Reading, Refuse
<1> QED
  BY <1>4, <1>5, <1>6 DEF Next

(* What SectionReader sees of the state.                                   *)
Seen ==
  <<readers[1].end, IF OfEntries THEN BytesTaken ELSE 0,
    IF OfEntries THEN EntriesLeft ELSE -1, IF OfEntries THEN Result ELSE "reading">>

LEMMA InitRefines == DInv /\ Init => SR!Init
<1> SUFFICES ASSUME DInv, Init PROVE SR!Init
  OBVIOUS
<1> DEFINE kind == section.kind
<1>1. readers[1].end \in Nat
  BY Pieces, WithinSection DEF DInv, ReadersFit
<1>2. outcome = "reading" /\ todo = SectionBody(kind)
  BY DEF Init
<1>3. CASE OfEntries
  <2>1. todo = <<Vec(kind), S("close")>>
    BY <1>2, <1>3 DEF SectionBody, OfEntries, EntryKinds
  <2> HIDE DEF kind
  <2>2. EntriesLeft = -1 /\ BytesTaken = 0
    <3>1. 0 \in Nat
      OBVIOUS
    <3> QED
      BY <2>1, <3>1, OuterNow
  <2>3. Result = "reading"
    BY <1>2 DEF Result
  <2> QED
    BY <1>1, <1>3, <2>2, <2>3 DEF SR!Init, SR!Unknown
<1>4. CASE ~OfEntries
  BY <1>1, <1>4 DEF SR!Init, SR!Unknown
<1> QED
  BY <1>3, <1>4

LEMMA StepRefines == DInv /\ DInv' /\ [Next]_vars => [SR!Next]_Seen
<1> SUFFICES ASSUME DInv, DInv', [Next]_vars PROVE SR!Next \/ UNCHANGED Seen
  OBVIOUS
<1>1. CASE UNCHANGED vars
  <2>1. /\ EntriesLeft' = EntriesLeft /\ BytesTaken' = BytesTaken /\ Result' = Result
        /\ OfEntries' = OfEntries /\ readers' = readers
    BY <1>1, Zenon DEF vars, EntriesLeft, BytesTaken, Result, OfEntries, CountUnread, AmongEntries,
                       WithinEntry, LastVector, EntryStart
  <2> QED
    BY <2>1, Zenon DEF Seen
<1>2. CASE Next /\ OfEntries
  <2>1. /\ section' = section /\ readers'[1].end = readers[1].end /\ outcome = "reading"
        /\ Progress
    BY <1>2, EndKept, NextProgress DEF OfEntries
  <2>2. OfEntries' /\ Result = "reading"
    BY <1>2, <2>1 DEF OfEntries, Result
  <2>3. BytesTaken \in Nat /\ EntriesLeft \in Nat \cup {-1}
    BY <1>2, TakenTyped DEF OfEntries
  <2>4. BytesTaken' \in Nat /\ BytesTaken' <= readers[1].end /\ readers[1].end \in Nat
    BY <2>1, <2>2, TakenNext DEF OfEntries, TakenWithin
  <2>5. CASE /\ outcome' = outcome /\ EntriesLeft' = EntriesLeft /\ BytesTaken' = BytesTaken
    <3>1. Result' = Result
      BY <2>5, Zenon DEF Result
    <3> QED
      BY <1>2, <2>1, <2>2, <2>5, <3>1, Zenon DEF Seen
  <2>6. CASE /\ outcome' = outcome /\ EntriesLeft = -1 /\ EntriesLeft' \in Nat
             /\ BytesTaken = 0 /\ BytesTaken' > BytesTaken
    <3>1. Result' = Result
      BY <2>6, Zenon DEF Result
    <3>2. BytesTaken' \in BytesTaken + 1 .. readers[1].end
      BY <2>3, <2>4, <2>6
    <3>3. SR!ReadCount
      BY <1>2, <2>1, <2>2, <2>6, <3>1, <3>2 DEF SR!ReadCount, SR!Unknown
    <3> QED
      BY <1>2, <2>2, <3>3 DEF SR!Next
  <2>7. CASE /\ outcome' = outcome /\ EntriesLeft \in Nat /\ EntriesLeft > 0
             /\ EntriesLeft' = EntriesLeft - 1 /\ BytesTaken' > BytesTaken
    <3>1. Result' = Result
      BY <2>7, Zenon DEF Result
    <3>2. BytesTaken' \in BytesTaken + 1 .. readers[1].end
      BY <2>3, <2>4, <2>7
    <3>3. SR!ReadEntry
      BY <1>2, <2>1, <2>2, <2>7, <3>1, <3>2 DEF SR!ReadEntry
    <3> QED
      BY <1>2, <2>2, <3>3 DEF SR!Next
  <2>8. CASE /\ outcome' \in Outcomes \ {"reading", "decoded"}
             /\ EntriesLeft' = EntriesLeft /\ BytesTaken' >= BytesTaken
    <3>1. Result' = "refused"
      BY <2>8 DEF Result
    <3>2. BytesTaken' \in BytesTaken .. readers[1].end
      BY <2>3, <2>4, <2>8
    <3>3. SR!Refuse
      BY <1>2, <2>1, <2>2, <2>8, <3>1, <3>2 DEF SR!Refuse
    <3> QED
      BY <1>2, <2>2, <3>3 DEF SR!Next
  <2>9. CASE /\ outcome' = "decoded" /\ EntriesLeft = 0 /\ EntriesLeft' = EntriesLeft
             /\ BytesTaken = readers[1].end /\ BytesTaken' = BytesTaken
    <3>1. Result' = "accepted"
      BY <2>9 DEF Result
    <3>2. SR!Accept
      BY <1>2, <2>1, <2>2, <2>9, <3>1 DEF SR!Accept
    <3> QED
      BY <1>2, <2>2, <3>2 DEF SR!Next
  <2> QED
    BY <2>1, <2>5, <2>6, <2>7, <2>8, <2>9, Zenon DEF Progress
<1>3. CASE Next /\ ~OfEntries
  <2>1. section' = section /\ readers'[1].end = readers[1].end
    BY <1>3, EndKept DEF OfEntries
  <2>2. ~OfEntries'
    BY <1>3, <2>1 DEF OfEntries
  <2> QED
    BY <1>3, <2>1, <2>2, Zenon DEF Seen
<1> QED
  BY <1>1, <1>2, <1>3

(* decode_section accepts a section only after as many entries as it       *)
(* declares, each of a byte or more, that together fill it: the decoder    *)
(* implements SectionReader.                                               *)
THEOREM DecoderImplements == Spec => ImplementsSectionReader
<1>1. DInv /\ Init => SR!Init
  BY InitRefines
<1>2. DInv /\ DInv' /\ [Next]_vars => [SR!Next]_Seen
  BY StepRefines
<1> QED
  BY <1>1, <1>2, InitInvariant, DecoderInvariant, PTL
     DEF Spec, ImplementsSectionReader, SR!Spec, Seen

-----------------------------------------------------------------------------
(* Sums.                                                                   *)

(* Induction, for a set of numbers.                                        *)
LEMMA AllNumbers ==
  ASSUME NEW T, 0 \in T, \A n \in Nat : n \in T => n + 1 \in T
  PROVE  Nat \subseteq T
<1> SUFFICES ASSUME Nat \ T # {} PROVE FALSE
  OBVIOUS
<1>1. PICK e \in Nat \ T : \A f \in Nat \ T : ~(<<f, e>> \in OpToRel(<, Nat))
  BY WFMin, NatLessThanWellFounded
<1>2. \A f \in Nat \ T : ~(f < e)
  BY <1>1 DEF OpToRel
<1>3. e # 0 /\ e - 1 \in Nat
  OBVIOUS
<1>4. e - 1 \in T
  BY <1>2, <1>3
<1>5. (e - 1) + 1 \in T
  BY <1>3, <1>4
<1> QED
  BY <1>5

(* sum is the function of the first k terms that SumOf takes.              *)
Adds(sum, terms) ==
  /\ sum \in [0 .. Len(terms) -> Int]
  /\ sum[0] = 0
  /\ \A k \in 1 .. Len(terms) : sum[k] = sum[k - 1] + terms[k]

(* The sums up to n exist.                                                 *)
LEMMA SumsExist ==
  ASSUME NEW terms \in Seq(Int)
  PROVE  \E sum : Adds(sum, terms)
<1> DEFINE Upto(n) == \E s \in [0 .. n -> Int] :
                        s[0] = 0 /\ \A k \in 1 .. n : s[k] = s[k - 1] + terms[k]
           T == {n \in Nat : n <= Len(terms) => Upto(n)}
<1>1. Upto(0)
  <2> DEFINE z == [k \in 0 .. 0 |-> 0]
  <2>1. z \in [0 .. 0 -> Int] /\ z[0] = 0 /\ 1 .. 0 = {}
    OBVIOUS
  <2> HIDE DEF z
  <2> QED
    BY <2>1, Zenon
<1>2. ASSUME NEW n \in Nat, n + 1 <= Len(terms), Upto(n) PROVE Upto(n + 1)
  <2>1. \A k \in 1 .. Len(terms) : terms[k] \in Int
    OBVIOUS
  <2>2. PICK s \in [0 .. n -> Int] : s[0] = 0 /\ \A k \in 1 .. n : s[k] = s[k - 1] + terms[k]
    BY <1>2, Zenon
  <2> DEFINE m == n + 1
             y == s[n] + terms[m]
             r == [k \in 0 .. m |-> IF k = m THEN y ELSE s[k]]
  <2>3. y \in Int
    BY <1>2, <2>1, <2>2
  <2> HIDE DEF y
  <2>4. r \in [0 .. m -> Int]
    BY <2>3
  <2>5. r[0] = 0
    BY <2>2
  <2>6. ASSUME NEW k \in 1 .. m PROVE r[k] = r[k - 1] + terms[k]
    <3>1. CASE k = m
      <4>1. r[k] = y /\ r[k - 1] = s[n]
        BY <3>1
      <4> QED
        BY <3>1, <4>1 DEF y
    <3>2. CASE k # m
      <4>1. r[k] = s[k] /\ r[k - 1] = s[k - 1] /\ k \in 1 .. n
        BY <3>2
      <4> QED
        BY <2>2, <4>1
    <3> QED
      BY <3>1, <3>2
  <2> HIDE DEF r
  <2> QED
    BY <2>4, <2>5, <2>6, Zenon
<1> HIDE DEF Upto
<1>3. Nat \subseteq T
  <2>1. 0 \in T
    BY <1>1
  <2>2. ASSUME NEW n \in Nat, n \in T PROVE n + 1 \in T
    <3>1. n + 1 \in Nat /\ (n + 1 <= Len(terms) => n <= Len(terms))
      OBVIOUS
    <3>2. n + 1 <= Len(terms) => Upto(n + 1)
      BY <1>2, <2>2, <3>1
    <3> QED
      BY <3>1, <3>2
  <2> QED
    BY <2>1, <2>2, AllNumbers, Zenon
<1>4. Len(terms) \in Nat
  OBVIOUS
<1>5. Upto(Len(terms))
  BY <1>3, <1>4
<1> QED
  BY <1>5 DEF Adds, Upto

(* They are unique, also as far as the terms agree only.                   *)
LEMMA SumsAgree ==
  ASSUME NEW s, NEW f, NEW r, NEW g, Adds(f, s), Adds(g, r), NEW n \in Nat,
         Len(s) \in Nat, Len(r) \in Nat, n <= Len(s), n <= Len(r),
         \A k \in 1 .. n : s[k] = r[k]
  PROVE  f[n] = g[n]
<1> DEFINE T == {k \in Nat : k <= n => f[k] = g[k]}
<1>1. 0 \in T
  BY DEF Adds
<1>2. ASSUME NEW k \in Nat, k \in T PROVE k + 1 \in T
  <2>1. SUFFICES ASSUME k + 1 <= n PROVE f[k + 1] = g[k + 1]
    OBVIOUS
  <2>2. f[k] = g[k] /\ s[k + 1] = r[k + 1] /\ k + 1 \in 1 .. Len(s) /\ k + 1 \in 1 .. Len(r)
    BY <1>2, <2>1
  <2>3. f[k + 1] = f[(k + 1) - 1] + s[k + 1] /\ g[k + 1] = g[(k + 1) - 1] + r[k + 1]
    BY <2>2 DEF Adds
  <2>4. (k + 1) - 1 = k
    OBVIOUS
  <2> QED
    BY <2>2, <2>3, <2>4, Zenon
<1>3. Nat \subseteq T
  BY <1>1, <1>2, AllNumbers, Zenon
<1> QED
  BY <1>3

LEMMA SumIs ==
  ASSUME NEW terms \in Seq(Int), NEW f, Adds(f, terms)
  PROVE  SumOf(terms) = f[Len(terms)]
<1> DEFINE n == Len(terms)
           Is(g) == g = [k \in 0 .. n |-> IF k = 0 THEN 0 ELSE g[k - 1] + terms[k]]
           c == CHOOSE g : Is(g)
<1>1. n \in Nat /\ \A k \in 1 .. n : terms[k] \in Int
  OBVIOUS
<1>2. Is(f)
  <2> DEFINE h == [k \in 0 .. n |-> IF k = 0 THEN 0 ELSE f[k - 1] + terms[k]]
  <2>1. DOMAIN h = 0 .. n /\ \A k \in 0 .. n : h[k] = IF k = 0 THEN 0 ELSE f[k - 1] + terms[k]
    BY Zenon
  <2>2. f \in [0 .. n -> Int] /\ f[0] = 0 /\ \A k \in 1 .. n : f[k] = f[k - 1] + terms[k]
    BY DEF Adds
  <2>3. f = [k \in 0 .. n |-> f[k]]
    BY <2>2
  <2>4. h = [k \in 0 .. n |-> h[k]]
    BY <2>1, Zenon
  <2> HIDE DEF h
  <2>5. \A k \in 0 .. n : f[k] = h[k]
    BY <2>1, <2>2
  <2>6. [k \in 0 .. n |-> f[k]] = [k \in 0 .. n |-> h[k]]
    BY <2>5, Zenon
  <2>7. f = h
    BY <2>3, <2>4, <2>6, Zenon
  <2> QED
    BY <2>7, Zenon DEF h
<1>3. Is(c)
  BY <1>2, Zenon
<1>4. SumOf(terms) = c[n]
  BY Zenon DEF SumOf
<1> HIDE DEF c
<1>5. /\ DOMAIN c = 0 .. n
      /\ \A k \in 0 .. n : c[k] = IF k = 0 THEN 0 ELSE c[k - 1] + terms[k]
  <2> DEFINE h == [k \in 0 .. n |-> IF k = 0 THEN 0 ELSE c[k - 1] + terms[k]]
  <2>1. c = h
    BY <1>3, Zenon
  <2>2. DOMAIN h = 0 .. n /\ \A k \in 0 .. n : h[k] = IF k = 0 THEN 0 ELSE c[k - 1] + terms[k]
    BY Zenon
  <2> HIDE DEF h
  <2>3. \A k \in 0 .. n : c[k] = h[k]
    BY <2>1, Zenon
  <2> QED
    BY <2>1, <2>2, <2>3, Zenon
<1> HIDE DEF Is
<1> DEFINE T == {k \in Nat : k <= n => c[k] = f[k]}
<1>6. 0 \in T
  BY <1>1, <1>5 DEF Adds
<1>7. ASSUME NEW k \in Nat, k \in T PROVE k + 1 \in T
  <2>1. SUFFICES ASSUME k + 1 <= n PROVE c[k + 1] = f[k + 1]
    OBVIOUS
  <2>2. c[k] = f[k] /\ k + 1 \in 1 .. n /\ k + 1 \in 0 .. n /\ k + 1 # 0 /\ (k + 1) - 1 = k
    BY <1>1, <1>7, <2>1
  <2>3. c[k + 1] = c[(k + 1) - 1] + terms[k + 1]
    BY <1>5, <2>2, Zenon
  <2>4. f[k + 1] = f[(k + 1) - 1] + terms[k + 1]
    BY <2>2 DEF Adds
  <2> QED
    BY <2>2, <2>3, <2>4, Zenon
<1>8. Nat \subseteq T
  BY <1>6, <1>7, AllNumbers, Zenon
<1>9. c[n] = f[n]
  BY <1>1, <1>8
<1> QED
  BY <1>4, <1>9, Zenon

(* A sum is a number, that of no terms is zero, and one more term adds     *)
(* its value.                                                              *)
LEMMA SumTyped == ASSUME NEW terms \in Seq(Int) PROVE SumOf(terms) \in Int
<1>1. PICK f : Adds(f, terms)
  BY SumsExist
<1>2. f[Len(terms)] \in Int
  BY <1>1 DEF Adds
<1>3. SumOf(terms) = f[Len(terms)]
  BY <1>1, SumIs, Zenon
<1> QED
  BY <1>2, <1>3, Zenon

LEMMA SumEmpty == ASSUME NEW terms \in Seq(Int), Len(terms) = 0 PROVE SumOf(terms) = 0
<1>1. PICK f : Adds(f, terms)
  BY SumsExist
<1>2. SumOf(terms) = f[Len(terms)]
  BY <1>1, SumIs, Zenon
<1> QED
  BY <1>1, <1>2 DEF Adds

LEMMA SumLonger ==
  ASSUME NEW s \in Seq(Int), NEW r \in Seq(Int), Len(r) = Len(s) + 1,
         \A k \in 1 .. Len(s) : r[k] = s[k]
  PROVE  SumOf(r) = SumOf(s) + r[Len(r)]
<1>1. PICK f : Adds(f, s)
  BY SumsExist
<1>2. PICK g : Adds(g, r)
  BY SumsExist
<1> DEFINE n == Len(s)
<1>3. n \in Nat /\ n <= Len(s) /\ n <= Len(r) /\ Len(r) \in Nat
  OBVIOUS
<1> HIDE DEF n
<1>4. f[n] = g[n]
  <2>1. Len(s) \in Nat /\ \A k \in 1 .. n : s[k] = r[k]
    BY DEF n
  <2> QED
    BY <1>1, <1>2, <1>3, <2>1, SumsAgree, SMTT(20)
<1>5. SumOf(s) = f[n]
  BY <1>1, SumIs, Zenon DEF n
<1>6. SumOf(r) = g[Len(r)]
  BY <1>2, SumIs, Zenon
<1>7. g[Len(r)] = g[n] + r[Len(r)]
  <2>1. Len(r) \in 1 .. Len(r) /\ Len(r) - 1 = n
    BY <1>3 DEF n
  <2>2. g[Len(r)] = g[Len(r) - 1] + r[Len(r)]
    BY <1>2, <2>1 DEF Adds
  <2> QED
    BY <2>1, <2>2, Zenon
<1> QED
  BY <1>4, <1>5, <1>6, <1>7, Zenon
-----------------------------------------------------------------------------
(* Powers of two.                                                          *)

(* A set with one more element has twice as many subsets: those without it *)
(* and those with it.                                                      *)
LEMMA PowerDoubles ==
  ASSUME NEW n \in Nat
  PROVE  2^(n + 1) = 2 * 2^n
<1> DEFINE s == 1 .. n
           e == n + 1
           a == SUBSET s
           f == [x \in a |-> x \cup {e}]
           b == {f[x] : x \in a}
<1>1. IsFiniteSet(s) /\ Cardinality(s) = n
  BY FS_Interval
<1>2. e \notin s /\ 1 .. (n + 1) = s \cup {e}
  OBVIOUS
<1>3. IsFiniteSet(1 .. (n + 1)) /\ Cardinality(1 .. (n + 1)) = n + 1
  BY FS_Interval
<1> HIDE DEF s, e
<1>4. IsFiniteSet(a) /\ Cardinality(a) = 2^n
  BY <1>1, FS_SUBSET, Zenon
<1>5. IsFiniteSet(SUBSET (s \cup {e})) /\ Cardinality(SUBSET (s \cup {e})) = 2^(n + 1)
  BY <1>2, <1>3, FS_SUBSET, Zenon
<1>6. \A x \in a : f[x] = x \cup {e} /\ x \subseteq s
  OBVIOUS
<1>7. f \in Bijection(a, b)
  <2>1. f \in [a -> b]
    OBVIOUS
  <2>2. ASSUME NEW x \in a, NEW y \in a, f[x] = f[y] PROVE x = y
    <3>1. f[x] = x \cup {e} /\ f[y] = y \cup {e} /\ x \subseteq s /\ y \subseteq s
      BY <1>6
    <3>2. x \cup {e} = y \cup {e}
      BY <2>2, <3>1
    <3> QED
      BY <1>2, <3>1, <3>2
  <2>3. \A z \in b : \E x \in a : f[x] = z
    OBVIOUS
  <2> HIDE DEF f, b, a
  <2> QED
    BY <2>1, <2>2, <2>3 DEF Bijection, Injection, Surjection, IsInjective
<1>8. IsFiniteSet(b) /\ Cardinality(b) = Cardinality(a)
  BY <1>4, <1>7, FS_Bijection, Zenon DEF ExistsBijection
<1>9. SUBSET (s \cup {e}) = a \cup b
  <2>1. ASSUME NEW z \in SUBSET (s \cup {e}) PROVE z \in a \cup b
    <3>1. CASE e \in z
      <4>1. z \ {e} \in a /\ z = (z \ {e}) \cup {e}
        BY <3>1
      <4>2. f[z \ {e}] = z
        BY <4>1
      <4> QED
        BY <4>1, <4>2
    <3>2. CASE e \notin z
      BY <3>2
    <3> QED
      BY <3>1, <3>2
  <2>2. ASSUME NEW z \in a \cup b PROVE z \in SUBSET (s \cup {e})
    <3>1. CASE z \in a
      BY <3>1
    <3>2. CASE z \in b
      <4>1. PICK x \in a : z = f[x]
        BY <3>2
      <4>2. z = x \cup {e} /\ x \subseteq s
        BY <1>6, <4>1
      <4> QED
        BY <4>2
    <3> QED
      BY <3>1, <3>2
  <2> HIDE DEF a, b
  <2> QED
    BY <2>1, <2>2
<1>10. a \cap b = {}
  <2>1. \A x \in b : e \in x
    BY <1>6
  <2>2. \A x \in a : e \notin x
    BY <1>2
  <2> HIDE DEF a, b
  <2> QED
    BY <2>1, <2>2
<1> HIDE DEF a, b
<1>11. Cardinality(a \cup b) = Cardinality(a) + Cardinality(b) - Cardinality(a \cap b)
  BY <1>4, <1>8, FS_Union, Zenon
<1>12. Cardinality(a \cap b) = 0
  BY <1>10, FS_EmptySet, Zenon
<1> DEFINE p == 2^n
           q == 2^(n + 1)
<1>13. q = p + p - 0
  BY <1>4, <1>5, <1>8, <1>9, <1>11, <1>12, Zenon
<1>14. p \in Nat
  BY PowerPositive
<1> HIDE DEF p, q
<1>15. q = 2 * p
  BY <1>13, <1>14
<1> QED
  BY <1>15 DEF p, q

LEMMA PowerGrows ==
  ASSUME NEW m \in Nat, NEW n \in Nat, m <= n
  PROVE  2^m <= 2^n
<1>1. 1 .. m \subseteq 1 .. n
  OBVIOUS
<1>2. SUBSET (1 .. m) \subseteq SUBSET (1 .. n)
  BY <1>1
<1>3. /\ IsFiniteSet(1 .. m) /\ Cardinality(1 .. m) = m
      /\ IsFiniteSet(1 .. n) /\ Cardinality(1 .. n) = n
  BY FS_Interval
<1> DEFINE a == SUBSET (1 .. m)
           b == SUBSET (1 .. n)
<1>4. Cardinality(a) = 2^m /\ IsFiniteSet(b) /\ Cardinality(b) = 2^n
  BY <1>3, FS_SUBSET, Zenon
<1>5. a \in SUBSET b
  BY <1>2
<1> HIDE DEF a, b
<1>6. Cardinality(a) <= Cardinality(b)
  BY <1>4, <1>5, FS_Subset, Zenon
<1> QED
  BY <1>4, <1>6, Zenon

(* 2^(n + k), for the k that occur.                                        *)
LEMMA PowerSeven ==
  ASSUME NEW n \in Nat
  PROVE  /\ 2^(n + 0) = 1 * 2^n
         /\ 2^(n + 1) = 2 * 2^n
         /\ 2^(n + 2) = 4 * 2^n
         /\ 2^(n + 3) = 8 * 2^n
         /\ 2^(n + 4) = 16 * 2^n
         /\ 2^(n + 5) = 32 * 2^n
         /\ 2^(n + 6) = 64 * 2^n
         /\ 2^(n + 7) = 128 * 2^n
<1> DEFINE p(k) == 2^(n + k)
<1>1. \A k \in Nat : p(k) \in Nat /\ p(k + 1) = 2 * p(k)
  <2>1. ASSUME NEW k \in Nat PROVE p(k) \in Nat /\ p(k + 1) = 2 * p(k)
    <3>1. n + k \in Nat /\ (n + k) + 1 = n + (k + 1)
      OBVIOUS
    <3>2. 2^((n + k) + 1) = 2 * 2^(n + k)
      BY <3>1, PowerDoubles, Zenon
    <3>3. 2^(n + k) \in Nat
      BY <3>1, PowerPositive
    <3> QED
      BY <3>1, <3>2, <3>3, Zenon
  <2> QED
    BY <2>1
<1>2. p(0) = 2^n
  <2>1. n + 0 = n
    OBVIOUS
  <2> QED
    BY <2>1, Zenon
<1> HIDE DEF p
<1>3. /\ p(1) = 2 * p(0) /\ p(2) = 2 * p(1) /\ p(3) = 2 * p(2) /\ p(4) = 2 * p(3)
      /\ p(5) = 2 * p(4) /\ p(6) = 2 * p(5) /\ p(7) = 2 * p(6) /\ p(0) \in Nat
  <2>1. \A k \in 0 .. 6 : p(k + 1) = 2 * p(k)
    BY <1>1
  <2>2. /\ p(0 + 1) = 2 * p(0) /\ p(1 + 1) = 2 * p(1) /\ p(2 + 1) = 2 * p(2)
        /\ p(3 + 1) = 2 * p(3) /\ p(4 + 1) = 2 * p(4) /\ p(5 + 1) = 2 * p(5)
        /\ p(6 + 1) = 2 * p(6)
    BY <2>1
  <2> QED
    BY <1>1, <2>2
<1>4. /\ p(0) = 1 * p(0) /\ p(1) = 2 * p(0) /\ p(2) = 4 * p(0) /\ p(3) = 8 * p(0)
      /\ p(4) = 16 * p(0) /\ p(5) = 32 * p(0) /\ p(6) = 64 * p(0) /\ p(7) = 128 * p(0)
  BY <1>3
<1> QED
  BY <1>2, <1>4, Zenon DEF p
-----------------------------------------------------------------------------
(* Products and remainders.                                                *)

LEMMA ProductGrows ==
  ASSUME NEW a \in Nat, NEW c \in Nat, NEW q \in Nat, a <= c
  PROVE  a * q <= c * q
<1>1. (c - a) * q >= 0
  OBVIOUS
<1>2. (c - a) * q = c * q - a * q
  OBVIOUS
<1> DEFINE x == a * q
           y == c * q
           z == (c - a) * q
<1>3. x \in Int /\ y \in Int /\ z \in Int /\ z >= 0 /\ z = y - x
  BY <1>1, <1>2
<1> HIDE DEF x, y, z
<1>4. x <= y
  BY <1>3
<1> QED
  BY <1>4 DEF x, y

LEMMA RemainderIs ==
  ASSUME NEW a \in Int, NEW m \in Nat \ {0}, NEW k \in Int,
         NEW r \in Int, a = k * m + r, 0 <= r, r < m
  PROVE  a % m = r
<1> DEFINE d == a \div m
           p == a % m
<1>1. d \in Int /\ p \in Int /\ 0 <= p /\ p < m /\ a = m * d + p
  OBVIOUS
<1> HIDE DEF d, p
<1>2. (d - k) * m = r - p
  BY <1>1
<1>3. d = k
  <2>1. CASE d >= k + 1
    <3>1. (d - k) * m >= m
      BY <1>1, <2>1
    <3> QED
      BY <1>1, <1>2, <3>1
  <2>2. CASE d <= k - 1
    <3>1. (k - d) * m >= m
      BY <1>1, <2>2
    <3>2. (d - k) * m = 0 - (k - d) * m
      BY <1>1
    <3> QED
      BY <1>1, <1>2, <3>1, <3>2
  <2> QED
    BY <1>1, <2>1, <2>2
<1>4. p = r
  BY <1>1, <1>3
<1> QED
  BY <1>4 DEF p

(* Bits to a number whose digits are seven bits each: q * 7 of them and    *)
(* between one and six more.                                               *)
LEMMA WidthPowers ==
  ASSUME NEW t
  PROVE  LET q == MaxBytes(t) - 1
         IN  /\ q \in Nat
             /\ 7 * q < Width(t) /\ Width(t) < 7 * q + 7
             /\ \E h \in {1, 2, 4, 8, 16, 32} :
                  /\ 2^(Width(t) - 1) = h * 2^(7 * q)
                  /\ 2^Width(t) = (2 * h) * 2^(7 * q)
                  /\ MaxLastByte(t) = 2 * h - 1
                  /\ Mask(t) = 128 - h
<1> DEFINE w == Width(t)
           r == w % 7
           q == w \div 7
<1>1. w \in Nat \ {0} /\ r \in 1 .. 6
  BY Widths
<1>2. /\ MaxBytes(t) = q + 1 /\ MaxLastByte(t) = 2^r - 1 /\ Mask(t) = 128 - 2^(r - 1)
  BY DEF MaxBytes, MaxLastByte, Mask
<1> HIDE DEF w
<1>3. q \in Nat /\ w = 7 * q + r
  BY <1>1
<1> HIDE DEF r, q
<1>4. MaxBytes(t) - 1 = q
  BY <1>2, <1>3
<1>5. 7 * q < w /\ w < 7 * q + 7
  BY <1>1, <1>3
<1>6. 7 * q \in Nat
  BY <1>3
<1> DEFINE n == 7 * q
<1> HIDE DEF n
<1>7. /\ 2^(n + 0) = 1 * 2^n
      /\ 2^(n + 1) = 2 * 2^n
      /\ 2^(n + 2) = 4 * 2^n
      /\ 2^(n + 3) = 8 * 2^n
      /\ 2^(n + 4) = 16 * 2^n
      /\ 2^(n + 5) = 32 * 2^n
      /\ 2^(n + 6) = 64 * 2^n
  <2>1. n \in Nat
    BY <1>6 DEF n
  <2> QED
    BY <2>1, PowerSeven, Zenon
<1>8. /\ 2^0 = 1 /\ 2^1 = 2 /\ 2^2 = 4 /\ 2^3 = 8 /\ 2^4 = 16 /\ 2^5 = 32 /\ 2^6 = 64
  OBVIOUS
<1>9. w = n + r /\ w - 1 = n + (r - 1)
  BY <1>1, <1>3 DEF n
<1> DEFINE Fits(h) == /\ 2^(n + (r - 1)) = h * 2^n
                      /\ 2^(n + r) = (2 * h) * 2^n
                      /\ 2^r = 2 * h /\ 2^(r - 1) = h
<1>10. \E h \in {1, 2, 4, 8, 16, 32} : Fits(h)
  <2>1. CASE r = 1
    <3>1. r - 1 = 0 /\ 2 * 1 = 2
      BY <2>1
    <3>2. Fits(1)
      BY <1>7, <1>8, <2>1, <3>1, Zenon
    <3> QED
      BY <3>2, Zenon
  <2>2. CASE r = 2
    <3>1. r - 1 = 1 /\ 2 * 2 = 4
      BY <2>2
    <3>2. Fits(2)
      BY <1>7, <1>8, <2>2, <3>1, Zenon
    <3> QED
      BY <3>2, Zenon
  <2>3. CASE r = 3
    <3>1. r - 1 = 2 /\ 2 * 4 = 8
      BY <2>3
    <3>2. Fits(4)
      BY <1>7, <1>8, <2>3, <3>1, Zenon
    <3> QED
      BY <3>2, Zenon
  <2>4. CASE r = 4
    <3>1. r - 1 = 3 /\ 2 * 8 = 16
      BY <2>4
    <3>2. Fits(8)
      BY <1>7, <1>8, <2>4, <3>1, Zenon
    <3> QED
      BY <3>2, Zenon
  <2>5. CASE r = 5
    <3>1. r - 1 = 4 /\ 2 * 16 = 32
      BY <2>5
    <3>2. Fits(16)
      BY <1>7, <1>8, <2>5, <3>1, Zenon
    <3> QED
      BY <3>2, Zenon
  <2>6. CASE r = 6
    <3>1. r - 1 = 5 /\ 2 * 32 = 64
      BY <2>6
    <3>2. Fits(32)
      BY <1>7, <1>8, <2>6, <3>1, Zenon
    <3> QED
      BY <3>2, Zenon
  <2> QED
    BY <1>1, <2>1, <2>2, <2>3, <2>4, <2>5, <2>6
<1>11. PICK h \in {1, 2, 4, 8, 16, 32} : Fits(h)
  BY <1>10
<1>12. /\ 2^(w - 1) = h * 2^n /\ 2^w = (2 * h) * 2^n
       /\ MaxLastByte(t) = 2 * h - 1 /\ Mask(t) = 128 - h
  BY <1>2, <1>9, <1>11, Zenon
<1> QED
  BY <1>3, <1>4, <1>5, <1>12, Zenon DEF n, w
-----------------------------------------------------------------------------
(* LEB128.                                                                 *)

LEMMA DigitTyped ==
  ASSUME NEW s \in Seq(Bytes), NEW k \in 1 .. Len(s)
  PROVE  (s[k] % \h80) * 2^(7 * (k - 1)) \in Int
<1> DEFINE p == 2^(7 * (k - 1))
           d == s[k] % \h80
<1>1. 7 * (k - 1) \in Nat
  OBVIOUS
<1>2. p \in Nat
  BY <1>1, PowerPositive
<1>3. d \in Int
  BY DEF Bytes
<1> HIDE DEF p, d
<1>4. d * p \in Int
  BY <1>2, <1>3
<1> QED
  BY <1>4 DEF p, d

LEMMA UnsignedTyped == ASSUME NEW s \in Seq(Bytes) PROVE Unsigned(s) \in Int
<1> DEFINE T == [k \in 1 .. Len(s) |-> (s[k] % \h80) * 2^(7 * (k - 1))]
<1>1. T \in Seq(Int)
  <2>1. \A k \in 1 .. Len(s) : (s[k] % \h80) * 2^(7 * (k - 1)) \in Int
    BY DigitTyped
  <2>2. Len(s) \in Nat
    OBVIOUS
  <2> QED
    BY <2>1, <2>2
<1> HIDE DEF T
<1> QED
  BY <1>1, SumTyped DEF Unsigned, T

LEMMA UnsignedEmpty == ASSUME NEW s \in Seq(Bytes), Len(s) = 0 PROVE Unsigned(s) = 0
<1> DEFINE T == [k \in 1 .. Len(s) |-> (s[k] % \h80) * 2^(7 * (k - 1))]
<1>1. T \in Seq(Int) /\ Len(T) = 0
  <2>1. 1 .. Len(s) = {}
    OBVIOUS
  <2>2. DOMAIN T = 1 .. 0
    OBVIOUS
  <2> QED
    BY <2>1, <2>2
<1> HIDE DEF T
<1> QED
  BY <1>1, SumEmpty DEF Unsigned, T

(* One more byte adds its seven bits above the others.                     *)
LEMMA UnsignedLonger ==
  ASSUME NEW s \in Seq(Bytes), NEW b \in Bytes
  PROVE  Unsigned(Append(s, b)) = Unsigned(s) + (b % \h80) * 2^(7 * Len(s))
<1> DEFINE r == Append(s, b)
           D(z, k) == (z[k] % \h80) * 2^(7 * (k - 1))
           n == Len(s)
           Ts == [k \in 1 .. Len(s) |-> (s[k] % \h80) * 2^(7 * (k - 1))]
           Tr == [k \in 1 .. Len(r) |-> (r[k] % \h80) * 2^(7 * (k - 1))]
<1>1. /\ r \in Seq(Bytes) /\ Len(r) = n + 1 /\ n \in Nat /\ r[n + 1] = b
      /\ \A k \in 1 .. n : r[k] = s[k]
  OBVIOUS
<1> HIDE DEF r
<1>2. ASSUME NEW z \in Seq(Bytes), NEW k \in 1 .. Len(z)
      PROVE  D(z, k) \in Int
  BY <1>2, DigitTyped, Zenon
<1>3. /\ Ts \in Seq(Int) /\ Len(Ts) = n
      /\ \A k \in 1 .. n : Ts[k] = D(s, k)
  <2>1. \A k \in 1 .. Len(s) : D(s, k) \in Int
    BY <1>2
  <2> HIDE DEF D
  <2>2. Ts = [k \in 1 .. Len(s) |-> D(s, k)]
    BY DEF D
  <2>3. [k \in 1 .. Len(s) |-> D(s, k)] \in Seq(Int)
    BY <1>1, <2>1
  <2>4. Len(Ts) = n
    BY <1>1
  <2>5. \A k \in 1 .. n : Ts[k] = D(s, k)
    BY <2>2
  <2> QED
    BY <2>2, <2>3, <2>4, <2>5, Zenon
<1>4. /\ Tr \in Seq(Int) /\ Len(Tr) = n + 1
      /\ \A k \in 1 .. (n + 1) : Tr[k] = D(r, k)
  <2>1. \A k \in 1 .. Len(r) : D(r, k) \in Int
    BY <1>1, <1>2
  <2> HIDE DEF D
  <2>2. Tr = [k \in 1 .. Len(r) |-> D(r, k)]
    BY DEF D
  <2>3. [k \in 1 .. Len(r) |-> D(r, k)] \in Seq(Int)
    BY <1>1, <2>1
  <2>4. Len(Tr) = n + 1
    BY <1>1
  <2>5. \A k \in 1 .. (n + 1) : Tr[k] = D(r, k)
    BY <1>1, <2>2
  <2> QED
    BY <2>2, <2>3, <2>4, <2>5, Zenon
<1>5. \A k \in 1 .. n : D(r, k) = D(s, k)
  BY <1>1, Zenon
<1>6. D(r, n + 1) = (b % \h80) * 2^(7 * n)
  <2>1. (n + 1) - 1 = n
    BY <1>1
  <2> QED
    BY <1>1, <2>1, Zenon
<1> HIDE DEF Ts, Tr, D, n
<1>7. SumOf(Tr) = SumOf(Ts) + Tr[n + 1]
  <2>1. \A k \in 1 .. Len(Ts) : Tr[k] = Ts[k]
    <3>1. ASSUME NEW k \in 1 .. n PROVE Tr[k] = Ts[k]
      <4>1. k \in 1 .. (n + 1)
        BY <1>1
      <4> QED
        BY <1>3, <1>4, <1>5, <4>1, Zenon
    <3> QED
      BY <1>3, <3>1, Zenon
  <2> QED
    BY <1>3, <1>4, <2>1, SumLonger
<1>8. Tr[n + 1] = D(r, n + 1)
  BY <1>1, <1>4
<1>9. Unsigned(r) = SumOf(Tr) /\ Unsigned(s) = SumOf(Ts)
  BY Zenon DEF Unsigned, Ts, Tr
<1>10. Unsigned(r) = Unsigned(s) + (b % \h80) * 2^(7 * n)
  BY <1>6, <1>7, <1>8, <1>9, Zenon
<1> QED
  BY <1>10, Zenon DEF r, n

(* Seven bits more: a number of i digits is less than 2^(7 * i).           *)
LEMMA DigitFits ==
  ASSUME NEW i \in Nat, NEW x \in Nat, x < 2^(7 * i), NEW d \in 0 .. 127
  PROVE  /\ x + d * 2^(7 * i) \in Nat
         /\ x + d * 2^(7 * i) < 2^(7 * (i + 1))
         /\ 2^(7 * (i + 1)) = 128 * 2^(7 * i)
         /\ 2^(7 * i) \in Nat \ {0}
<1> DEFINE n == 7 * i
           p == 2^n
<1>1. n \in Nat /\ 7 * (i + 1) = n + 7
  OBVIOUS
<1>2. 2^(n + 7) = 128 * 2^n
  BY <1>1, PowerSeven
<1>3. p \in Nat \ {0}
  BY <1>1, PowerPositive
<1>4. 2^(7 * (i + 1)) = 128 * p
  BY <1>1, <1>2, Zenon
<1> HIDE DEF p, n
<1>5. d * p <= 127 * p /\ d * p \in Nat
  <2>1. 127 \in Nat /\ d \in Nat /\ d <= 127
    OBVIOUS
  <2> QED
    BY <1>3, <2>1, ProductGrows
<1> DEFINE y == d * p
<1> HIDE DEF y
<1>6. x < p
  BY DEF p, n
<1>7. x + y \in Nat /\ x + y < 128 * p
  BY <1>3, <1>5, <1>6 DEF y
<1>8. x + y = x + d * 2^(7 * i)
  BY DEF y, p, n
<1> QED
  BY <1>3, <1>4, <1>7, <1>8, Zenon DEF p, n
(* A number whose last seven bits are d, above the p values of the others. *)
LEMMA LastDigitBounds ==
  ASSUME NEW p \in Nat \ {0}, NEW x \in Nat, x < p, NEW d \in 0 .. 127, NEW k \in 0 .. 128
  PROVE  /\ d >= k => x + d * p >= k * p
         /\ d < k => x + d * p < k * p
<1> DEFINE y == d * p
           z == k * p
<1>1. y \in Nat /\ z \in Nat
  OBVIOUS
<1>2. ASSUME d >= k PROVE y >= z
  <2>1. k \in Nat /\ d \in Nat /\ p \in Nat /\ k <= d
    BY <1>2
  <2> QED
    BY <2>1, ProductGrows
<1>3. ASSUME d < k PROVE y + p <= z
  <2>1. k \in Nat /\ d + 1 \in Nat /\ p \in Nat /\ d + 1 <= k
    BY <1>3
  <2>2. (d + 1) * p <= k * p
    BY <2>1, ProductGrows
  <2>3. (d + 1) * p = d * p + p
    OBVIOUS
  <2> QED
    BY <2>2, <2>3
<1> HIDE DEF y, z
<1>4. /\ d >= k => x + y >= z
      /\ d < k => x + y < z
  BY <1>1, <1>2, <1>3
<1> QED
  BY <1>4 DEF y, z

(* The remainder of a number that sets all bits past its width is the      *)
(* number without them.                                                    *)
LEMMA NegativeRemainder ==
  ASSUME NEW p \in Nat \ {0}, NEW h \in {1, 2, 4, 8, 16, 32}, NEW u \in Nat,
         u >= (128 - h) * p, u < 128 * p
  PROVE  u % ((2 * h) * p) = (u - 128 * p) + (2 * h) * p
<1>1. \E k \in Nat : k * (2 * h) = 128 - 2 * h
  <2>1. /\ h = 1 => 63 * (2 * h) = 128 - 2 * h
        /\ h = 2 => 31 * (2 * h) = 128 - 2 * h
        /\ h = 4 => 15 * (2 * h) = 128 - 2 * h
        /\ h = 8 => 7 * (2 * h) = 128 - 2 * h
        /\ h = 16 => 3 * (2 * h) = 128 - 2 * h
        /\ h = 32 => 1 * (2 * h) = 128 - 2 * h
    OBVIOUS
  <2>2. 63 \in Nat /\ 31 \in Nat /\ 15 \in Nat /\ 7 \in Nat /\ 3 \in Nat /\ 1 \in Nat
    OBVIOUS
  <2>3. h = 1 \/ h = 2 \/ h = 4 \/ h = 8 \/ h = 16 \/ h = 32
    OBVIOUS
  <2> QED
    BY <2>1, <2>2, <2>3, Zenon
<1>2. PICK k \in Nat : k * (2 * h) = 128 - 2 * h
  BY <1>1
<1> DEFINE m == (2 * h) * p
           g == h * p
           e == 128 * p
           r == (u - e) + m
<1>3. m = 2 * g /\ g \in Nat \ {0} /\ (128 - h) * p = e - g /\ e \in Nat
  OBVIOUS
<1>4. k * m = e - m
  <2>1. k * m = (k * (2 * h)) * p
    OBVIOUS
  <2>2. k * m = (128 - 2 * h) * p
    BY <1>2, <2>1
  <2>3. (128 - 2 * h) * p = 128 * p - (2 * h) * p
    OBVIOUS
  <2> QED
    BY <2>2, <2>3
<1> HIDE DEF m, g, e
<1>5. u >= e - g /\ u < e
  BY <1>3 DEF e
<1>6. r \in Int /\ 0 <= r /\ r < m /\ m \in Nat \ {0}
  BY <1>3, <1>5
<1>7. u = k * m + r
  BY <1>3, <1>4
<1> HIDE DEF r
<1>8. u % m = r
  BY <1>6, <1>7, RemainderIs
<1> QED
  BY <1>8 DEF m, r, e

LEMMA SmallRemainder ==
  ASSUME NEW u \in Nat, NEW m \in Nat, u < m
  PROVE  u % m = u
OBVIOUS

(* The number whose digits before the last are those of x, and whose last  *)
(* byte, the one at place i, is b.                                         *)
LastOf(t, x, i, b) ==
  IF Signed(t) /\ b >= \h40 THEN (x + b * 2^(7 * i)) - 2^(7 * (i + 1))
                            ELSE x + b * 2^(7 * i)

(* A number that ends before the last byte it may have is within its type. *)
LEMMA EarlyEnd ==
  ASSUME NEW t, NEW i \in Nat, i < MaxBytes(t) - 1, NEW x \in Nat, x < 2^(7 * i),
         NEW b \in 0 .. 127
  PROVE  /\ ~Overflows(t, i, b)
         /\ InRangeOf(t, LastOf(t, x, i, b))
         /\ Finished(t, x, i, b) = LastOf(t, x, i, b)
<1> DEFINE q == MaxBytes(t) - 1
           w == Width(t)
           p == 2^(7 * i)
           e == 2^(7 * (i + 1))
           m == 2^w
           g == 2^(w - 1)
           u == x + b * p
<1>1. /\ u \in Nat /\ u < e /\ e \in Nat
  <2>1. e = 128 * p /\ p \in Nat \ {0} /\ u \in Nat /\ u < e
    BY DigitFits
  <2> HIDE DEF e, u, p
  <2> QED
    BY <2>1
<1>2. q \in Nat /\ 7 * q < w /\ w \in Nat \ {0}
  BY WidthPowers, Widths
<1>3. e <= g
  <2>1. 7 * (i + 1) \in Nat /\ w - 1 \in Nat /\ 7 * (i + 1) <= w - 1
    BY <1>2
  <2> QED
    BY <2>1, PowerGrows
<1>4. m = 2 * g /\ g \in Nat
  <2>1. w - 1 \in Nat /\ (w - 1) + 1 = w
    BY <1>2
  <2>2. 2^((w - 1) + 1) = 2 * 2^(w - 1) /\ 2^(w - 1) \in Nat
    BY <2>1, PowerDoubles, PowerPositive
  <2> QED
    BY <2>1, <2>2, Zenon
<1>5. Accumulate(t, x, i, b) = u % m
  <2>1. b % \h80 = b
    OBVIOUS
  <2> QED
    BY <2>1 DEF Accumulate
<1>6. /\ LastOf(t, x, i, b) = IF Signed(t) /\ b >= \h40 THEN u - e ELSE u
      /\ InRangeOf(t, LastOf(t, x, i, b)) =
           IF Signed(t) THEN LastOf(t, x, i, b) >= -g /\ LastOf(t, x, i, b) < g
                        ELSE LastOf(t, x, i, b) >= 0 /\ LastOf(t, x, i, b) < m
  BY Zenon DEF LastOf, InRangeOf
<1>7. i < q /\ i # q
  BY <1>2
<1> DEFINE a == Accumulate(t, x, i, b)
           ext == IF i < MaxBytes(t) - 1 /\ b >= \h40 THEN a + m - e ELSE a
<1>8. Finished(t, x, i, b) =
        IF ~Signed(t) THEN a ELSE IF ext < g THEN ext ELSE ext - m
  BY Zenon DEF Finished
<1>9. ~Overflows(t, i, b)
  BY <1>7, Zenon DEF Overflows
<1> HIDE DEF u, p, e, m, g
<1>10. a = u
  <2>1. u < m /\ m \in Nat
    BY <1>1, <1>3, <1>4
  <2> QED
    BY <1>1, <1>5, <2>1, SmallRemainder
<1>11. ext = IF b >= \h40 THEN u + m - e ELSE u
  BY <1>7, <1>10 DEF q
<1> HIDE DEF a, ext
<1>12. /\ Finished(t, x, i, b) = LastOf(t, x, i, b)
  BY <1>1, <1>3, <1>4, <1>6, <1>8, <1>10, <1>11
<1>13. InRangeOf(t, LastOf(t, x, i, b))
  <2> DEFINE l == LastOf(t, x, i, b)
  <2>1. l = IF Signed(t) /\ b >= \h40 THEN u - e ELSE u
    BY <1>6
  <2>2. InRangeOf(t, l) = IF Signed(t) THEN l >= -g /\ l < g ELSE l >= 0 /\ l < m
    BY <1>6, Zenon
  <2> HIDE DEF l
  <2>3. IF Signed(t) THEN l >= -g /\ l < g ELSE l >= 0 /\ l < m
    BY <1>1, <1>3, <1>4, <2>1
  <2>4. InRangeOf(t, l)
    BY <2>2, <2>3, Zenon
  <2> QED
    BY <2>4 DEF l
<1> QED
  BY <1>9, <1>12, <1>13

(* A number with all the bytes it may have is, if and only if its last     *)
(* byte does not overflow.                                                 *)
LEMMA FullEnd ==
  ASSUME NEW t, NEW i \in Nat, i = MaxBytes(t) - 1, NEW x \in Nat, x < 2^(7 * i),
         NEW b \in 0 .. 127
  PROVE  /\ Overflows(t, i, b) <=> ~InRangeOf(t, LastOf(t, x, i, b))
         /\ ~Overflows(t, i, b) => Finished(t, x, i, b) = LastOf(t, x, i, b)
<1> DEFINE w == Width(t)
           p == 2^(7 * i)
           e == 2^(7 * (i + 1))
           m == 2^w
           g == 2^(w - 1)
           u == x + b * p
<1>1. PICK h \in {1, 2, 4, 8, 16, 32} :
        /\ g = h * p /\ m = (2 * h) * p /\ MaxLastByte(t) = 2 * h - 1 /\ Mask(t) = 128 - h
  BY WidthPowers, Zenon
<1>2. /\ u \in Nat /\ u < e /\ e = 128 * p /\ p \in Nat \ {0}
  BY DigitFits
<1>3. x < p
  OBVIOUS
<1>4. Accumulate(t, x, i, b) = u % m
  <2>1. b % \h80 = b
    OBVIOUS
  <2> QED
    BY <2>1 DEF Accumulate
<1>5. /\ LastOf(t, x, i, b) = IF Signed(t) /\ b >= \h40 THEN u - e ELSE u
      /\ InRangeOf(t, LastOf(t, x, i, b)) =
           IF Signed(t) THEN LastOf(t, x, i, b) >= -g /\ LastOf(t, x, i, b) < g
                        ELSE LastOf(t, x, i, b) >= 0 /\ LastOf(t, x, i, b) < m
  BY Zenon DEF LastOf, InRangeOf
<1> DEFINE a == Accumulate(t, x, i, b)
           ext == IF i < MaxBytes(t) - 1 /\ b >= \h40 THEN a + m - e ELSE a
<1>6. Finished(t, x, i, b) =
        IF ~Signed(t) THEN a ELSE IF ext < g THEN ext ELSE ext - m
  BY Zenon DEF Finished
<1>7. ext = a
  <2>1. MaxBytes(t) \in Nat /\ ~(i < MaxBytes(t) - 1)
    BY Widths
  <2> QED
    BY <2>1
<1>8. Overflows(t, i, b) <=> IF Signed(t) THEN b >= \h80 - Mask(t) /\ b < Mask(t)
                                          ELSE b > MaxLastByte(t)
  BY Zenon DEF Overflows
<1> HIDE DEF p, a, ext
<1>9. \A k \in 0 .. 128 : (b >= k => u >= k * p) /\ (b < k => u < k * p)
  BY <1>2, <1>3, LastDigitBounds
<1>10. h \in 0 .. 128 /\ 2 * h \in 0 .. 128 /\ 128 - h \in 0 .. 128 /\ h <= 32
  OBVIOUS
<1>11. /\ (b >= h => u >= g) /\ (b < h => u < g)
       /\ (b >= 2 * h => u >= m) /\ (b < 2 * h => u < m)
       /\ (b >= 128 - h => u >= (128 - h) * p) /\ (b < 128 - h => u < (128 - h) * p)
  BY <1>1, <1>9, <1>10
<1>12. /\ m = 2 * g /\ (128 - h) * p = e - g /\ g \in Nat \ {0} /\ m \in Nat /\ e \in Nat
  <2>1. (128 - h) * p = 128 * p - h * p /\ (2 * h) * p = 2 * (h * p) /\ h * p \in Nat \ {0}
    BY <1>2
  <2> HIDE DEF u, e, m, g
  <2>2. g = h * p /\ m = (2 * h) * p /\ e = 128 * p
    BY <1>1, <1>2
  <2>3. m = 2 * g /\ (128 - h) * p = e - g /\ g \in Nat \ {0}
    BY <2>1, <2>2, Zenon
  <2>4. e \in Nat
    BY <1>2
  <2> QED
    BY <2>3, <2>4
<1>13. u < m => a = u
  BY <1>2, <1>4, <1>12, SmallRemainder DEF a
<1>14. b >= 128 - h => a = (u - e) + m
  <2>1. SUFFICES ASSUME b >= 128 - h PROVE a = (u - e) + m
    OBVIOUS
  <2>2. u >= (128 - h) * p /\ u < 128 * p
    BY <1>2, <1>11, <2>1
  <2>3. u % ((2 * h) * p) = (u - 128 * p) + (2 * h) * p
    BY <1>2, <2>2, NegativeRemainder
  <2> QED
    BY <1>1, <1>2, <1>4, <2>3, Zenon DEF a
<1> HIDE DEF u, e, m, g
<1>15. CASE ~Signed(t)
  <2>1. Overflows(t, i, b) <=> b >= 2 * h
    BY <1>1, <1>8, <1>15
  <2>2. LastOf(t, x, i, b) = u /\ (InRangeOf(t, LastOf(t, x, i, b)) <=> u >= 0 /\ u < m)
    BY <1>5, <1>15
  <2>3. Finished(t, x, i, b) = a
    BY <1>6, <1>15
  <2> QED
    BY <1>2, <1>10, <1>11, <1>12, <1>13, <2>1, <2>2, <2>3
<1>16. CASE Signed(t)
  <2>1. Overflows(t, i, b) <=> b >= h /\ b < 128 - h
    BY <1>1, <1>8, <1>16
  <2>2. /\ LastOf(t, x, i, b) = IF b >= 64 THEN u - e ELSE u
        /\ InRangeOf(t, LastOf(t, x, i, b)) <=>
             LastOf(t, x, i, b) >= -g /\ LastOf(t, x, i, b) < g
    BY <1>5, <1>16
  <2>3. Finished(t, x, i, b) = IF a < g THEN a ELSE a - m
    BY <1>6, <1>7, <1>16
  <2>4. CASE b >= 64
    <3>1. LastOf(t, x, i, b) = u - e /\ u - e < 0 /\ b >= h
      BY <1>2, <1>10, <1>12, <2>2, <2>4
    <3>2. CASE b >= 128 - h
      BY <1>2, <1>10, <1>11, <1>12, <1>14, <2>1, <2>2, <2>3, <3>1, <3>2
    <3>3. CASE b < 128 - h
      BY <1>2, <1>10, <1>11, <1>12, <2>1, <2>2, <2>3, <3>1, <3>3
    <3> QED
      BY <1>10, <3>2, <3>3
  <2>5. CASE b < 64
    <3>1. LastOf(t, x, i, b) = u /\ b < 128 - h
      BY <1>2, <1>10, <1>12, <2>2, <2>5
    <3>2. CASE b >= h
      BY <1>2, <1>10, <1>11, <1>12, <2>1, <2>2, <2>3, <3>1, <3>2
    <3>3. CASE b < h
      BY <1>2, <1>10, <1>11, <1>12, <1>13, <2>1, <2>2, <2>3, <3>1, <3>3
    <3> QED
      BY <1>10, <3>2, <3>3
  <2> QED
    BY <2>4, <2>5
<1> QED
  BY <1>15, <1>16
(* The digits of a number and its last byte encode it, unless the last     *)
(* byte overflows; then they encode no number of the type.                 *)
LEMMA LastByteExact ==
  ASSUME NEW t, NEW s \in Seq(Bytes), NEW b \in Bytes, ~Continues(b),
         Len(s) < MaxBytes(t), Unsigned(s) \in Nat, Unsigned(s) < 2^(7 * Len(s))
  PROVE  /\ ~Overflows(t, Len(s), b) =>
              /\ Encodes(t, Append(s, b))
              /\ Finished(t, Unsigned(s), Len(s), b) = Value(t, Append(s, b))
         /\ Overflows(t, Len(s), b) => ~Encodes(t, Append(s, b))
         /\ Value(t, Append(s, b)) = LastOf(t, Unsigned(s), Len(s), b)
<1> DEFINE i == Len(s)
           x == Unsigned(s)
           r == Append(s, b)
           l == LastOf(t, x, i, b)
<1>1. i \in Nat /\ Len(r) = i + 1 /\ r[i + 1] = b
  OBVIOUS
<1>2. b \in 0 .. 127 /\ b % \h80 = b
  BY DEF Bytes, Continues
<1>3. Unsigned(r) = x + b * 2^(7 * i)
  <2>1. Unsigned(r) = x + (b % \h80) * 2^(7 * i)
    BY UnsignedLonger, Zenon
  <2> QED
    BY <1>2, <2>1, Zenon
<1>4. Value(t, r) = l
  <2>1. Len(r) = i + 1 /\ r[Len(r)] % \h80 = b
    BY <1>1, <1>2
  <2> HIDE DEF r, x, i
  <2> QED
    BY <1>3, <2>1, Zenon DEF Value, LastOf, l
<1>5. Len(r) * 7 < Width(t) + 7
  <2>1. /\ MaxBytes(t) - 1 \in Nat /\ 7 * (MaxBytes(t) - 1) < Width(t)
    BY WidthPowers
  <2>2. Width(t) \in Nat /\ MaxBytes(t) \in Nat
    BY Widths
  <2>3. i <= MaxBytes(t) - 1
    BY <1>1, <2>2
  <2> QED
    BY <1>1, <2>1, <2>2, <2>3
<1>6. Encodes(t, r) <=> InRangeOf(t, l)
  BY <1>4, <1>5, Zenon DEF Encodes
<1>7. x \in Nat /\ x < 2^(7 * i)
  OBVIOUS
<1> HIDE DEF i, x, r, l
<1>8. i < MaxBytes(t)
  BY DEF i
<1>9. /\ ~Overflows(t, i, b) => InRangeOf(t, l) /\ Finished(t, x, i, b) = l
      /\ Overflows(t, i, b) => ~InRangeOf(t, l)
  <2>1. CASE i < MaxBytes(t) - 1
    BY <1>1, <1>2, <1>7, <2>1, EarlyEnd DEF l
  <2>2. CASE i = MaxBytes(t) - 1
    BY <1>1, <1>2, <1>7, <2>2, FullEnd DEF l
  <2>3. i < MaxBytes(t) - 1 \/ i = MaxBytes(t) - 1
    BY <1>1, <1>8, Widths
  <2> QED
    BY <2>1, <2>2, <2>3
<1> QED
  BY <1>4, <1>6, <1>9, Zenon DEF i, x, r, l

(* More bytes than a type may have encode no number of it.                 *)
LEMMA TooLong ==
  ASSUME NEW t, NEW s, Len(s) = MaxBytes(t) + 1
  PROVE  ~Encodes(t, s)
<1>1. /\ MaxBytes(t) - 1 \in Nat /\ Width(t) < 7 * (MaxBytes(t) - 1) + 7
  BY WidthPowers
<1>2. MaxBytes(t) \in Nat /\ Width(t) \in Nat
  BY Widths
<1>3. ~(Len(s) * 7 < Width(t) + 7)
  BY <1>1, <1>2
<1> QED
  BY <1>3, Zenon DEF Encodes

(* Before the last byte a number may have, nothing of it is lost.          *)
LEMMA DigitExact ==
  ASSUME NEW t, NEW s \in Seq(Bytes), NEW b \in Bytes, Len(s) + 1 < MaxBytes(t),
         Unsigned(s) \in Nat, Unsigned(s) < 2^(7 * Len(s))
  PROVE  /\ Accumulate(t, Unsigned(s), Len(s), b) = Unsigned(Append(s, b))
         /\ Unsigned(Append(s, b)) < 2^(7 * (Len(s) + 1))
<1> DEFINE i == Len(s)
           x == Unsigned(s)
           d == b % \h80
           u == x + d * 2^(7 * i)
           e == 2^(7 * (i + 1))
           m == 2^Width(t)
<1>1. i \in Nat /\ d \in 0 .. 127
  BY DEF Bytes
<1>2. Unsigned(Append(s, b)) = u
  BY UnsignedLonger, Zenon
<1>3. Accumulate(t, x, i, b) = u % m
  BY Zenon DEF Accumulate
<1>4. u \in Nat /\ u < e
  <2>1. x \in Nat /\ x < 2^(7 * i)
    OBVIOUS
  <2> HIDE DEF x, i, d
  <2> QED
    BY <1>1, <2>1, DigitFits
<1>5. e <= m /\ m \in Nat /\ e \in Nat
  <2>1. /\ MaxBytes(t) - 1 \in Nat /\ 7 * (MaxBytes(t) - 1) < Width(t)
    BY WidthPowers
  <2>2. Width(t) \in Nat /\ MaxBytes(t) \in Nat
    BY Widths
  <2>3. 7 * (i + 1) \in Nat /\ 7 * (i + 1) <= Width(t)
    BY <1>1, <2>1, <2>2
  <2> QED
    BY <2>2, <2>3, PowerGrows, PowerPositive
<1> HIDE DEF u, e, m
<1>6. u % m = u
  <2>1. u < m
    BY <1>4, <1>5
  <2> QED
    BY <1>4, <1>5, <2>1, SmallRemainder
<1> QED
  BY <1>2, <1>3, <1>4, <1>6, Zenon DEF e, x, i

(* A block type of one byte is a negative number.                          *)
LEMMA ShortExact ==
  ASSUME NEW s \in Seq(Bytes), Len(s) = 0, NEW b \in 64 .. 127
  PROVE  Encodes("i64", Append(s, b)) /\ Value("i64", Append(s, b)) = b - \h80
<1>1. Signed("i64") /\ Width("i64") = Bits64
  BY DEF Signed, Width
<1>2. MaxBytes("i64") \in Nat /\ MaxBytes("i64") > 1
  <2> DEFINE w == Bits64
  <2>1. w \in Nat /\ w > 7
    BY WidthAssumption
  <2> HIDE DEF w
  <2>2. w \div 7 \in Nat /\ w \div 7 >= 1
    BY <2>1
  <2> QED
    BY <1>1, <2>2 DEF MaxBytes, w
<1>3. Unsigned(s) = 0
  BY UnsignedEmpty
<1>4. 7 * 0 = 0 /\ 7 * (0 + 1) = 7 /\ 2^0 = 1 /\ 2^7 = 128
  OBVIOUS
<1>5. Unsigned(s) \in Nat /\ Unsigned(s) < 2^(7 * Len(s))
  <2>1. 2^(7 * Len(s)) = 1
    BY <1>4, Zenon
  <2> QED
    BY <1>3, <2>1
<1>6. b \in Bytes /\ ~Continues(b)
  BY DEF Bytes, Continues
<1>7. ~Overflows("i64", Len(s), b)
  <2>1. Len(s) # MaxBytes("i64") - 1
    BY <1>2
  <2> QED
    BY <2>1, Zenon DEF Overflows
<1>8. /\ Encodes("i64", Append(s, b))
      /\ Value("i64", Append(s, b)) = LastOf("i64", Unsigned(s), Len(s), b)
  <2>1. Len(s) < MaxBytes("i64")
    BY <1>2
  <2> QED
    BY <1>5, <1>6, <1>7, <2>1, LastByteExact, Zenon
<1>9. LastOf("i64", 0, 0, b) = b - \h80
  <2>1. LastOf("i64", 0, 0, b) = (0 + b * 2^(7 * 0)) - 2^(7 * (0 + 1))
    <3>1. b >= \h40
      OBVIOUS
    <3> QED
      BY <1>1, <3>1, Zenon DEF LastOf
  <2>2. LastOf("i64", 0, 0, b) = (0 + b * 1) - 128
    BY <1>4, <2>1, Zenon
  <2> QED
    BY <2>2
<1> QED
  BY <1>3, <1>8, <1>9, Zenon

-----------------------------------------------------------------------------
(* The numbers the decoder reads.                                          *)

(* The bytes of the number under way.                                      *)
Held == SubSeq(data, (Len(data) - number.i) + 1, Len(data))

(* They are no more than its type may have, and until there are so many,   *)
(* the number is what they say.                                            *)
NumberHeld ==
  LET t == NumberType(Symbol)
  IN  /\ number.i <= MaxBytes(t)
      /\ number.i < MaxBytes(t) =>
           number.x = Unsigned(Held) /\ number.x < 2^(7 * number.i)

FieldExact(f) ==
  LET bytes == SubSeq(data, f.from + 1, f.to)
      t     == NumberType(f.symbol)
  IN  /\ f.to <= Len(data)
      /\ f.symbol \in NumberSymbols => Encodes(t, bytes) /\ f.value = Value(t, bytes)

FieldsExact == \A k \in DOMAIN entry : FieldExact(entry[k])

RefusedExact ==
  outcome \in {"TooManyBytes", "ValueOverflow"} =>
    ~Encodes(NumberType(Symbol), SubSeq(data, Len(data) - number.i, Len(data)))

NumbersInv == (outcome = "reading" => NumberHeld) /\ FieldsExact /\ RefusedExact

(* The last i elements of a sequence, and one more.                        *)
LEMMA Window ==
  ASSUME NEW d \in Seq(Bytes), NEW b \in Bytes, NEW i \in 0 .. Len(d)
  PROVE  LET r == SubSeq(d, (Len(d) - i) + 1, Len(d))
         IN  /\ r \in Seq(Bytes) /\ Len(r) = i
             /\ SubSeq(Append(d, b), (Len(d) - i) + 1, Len(d) + 1) = Append(r, b)
<1> DEFINE n == Len(d)
           m == (n - i) + 1
           r == SubSeq(d, m, n)
           e == Append(d, b)
           z == SubSeq(e, m, n + 1)
<1>1. n \in Nat /\ m \in 1 .. (n + 1) /\ (n - m) + 1 = i /\ ((n + 1) - m) + 1 = i + 1
  OBVIOUS
<1>2. /\ e \in Seq(Bytes) /\ Len(e) = n + 1 /\ e[n + 1] = b
      /\ \A k \in 1 .. n : e[k] = d[k]
  OBVIOUS
<1>3. \A k \in m .. n : d[k] \in Bytes
  BY <1>1
<1>4. \A k \in m .. (n + 1) : e[k] \in Bytes
  BY <1>1, <1>2
<1> HIDE DEF n, m, e
<1>5. /\ r \in Seq(Bytes)
      /\ Len(r) = IF m <= n THEN (n - m) + 1 ELSE 0
      /\ \A k \in 1 .. ((n - m) + 1) : r[k] = d[(m + k) - 1]
  BY <1>1, <1>3, SubSeqProperties
<1>6. /\ z \in Seq(Bytes)
      /\ Len(z) = IF m <= n + 1 THEN ((n + 1) - m) + 1 ELSE 0
      /\ \A k \in 1 .. (((n + 1) - m) + 1) : z[k] = e[(m + k) - 1]
  <2>1. n + 1 \in Int /\ m \in Int
    BY <1>1
  <2> QED
    BY <1>4, <2>1, SubSeqProperties
<1> HIDE DEF r, z
<1>7. Len(r) = i /\ Len(z) = i + 1
  BY <1>1, <1>5, <1>6
<1>8. \A k \in 1 .. i : z[k] = r[k]
  BY <1>1, <1>2, <1>5, <1>6
<1>9. z[i + 1] = b
  BY <1>1, <1>2, <1>6
<1> DEFINE y == Append(r, b)
<1>10. y \in Seq(Bytes) /\ Len(y) = i + 1 /\ y[i + 1] = b /\ \A k \in 1 .. i : y[k] = r[k]
  BY <1>5, <1>7
<1> HIDE DEF y
<1>11. z = y
  BY <1>6, <1>7, <1>8, <1>9, <1>10
<1> QED
  BY <1>5, <1>7, <1>11, Zenon DEF z, y, r, m, e, n

(* What has been read is not read again.                                   *)
LEMMA WindowKept ==
  ASSUME NEW d \in Seq(Bytes), NEW b \in Bytes, NEW m \in Nat, NEW n \in Nat,
         n <= Len(d)
  PROVE  SubSeq(Append(d, b), m + 1, n) = SubSeq(d, m + 1, n)
<1> DEFINE e == Append(d, b)
           r == SubSeq(d, m + 1, n)
           z == SubSeq(e, m + 1, n)
<1>1. \A k \in (m + 1) .. n : d[k] \in Bytes /\ e[k] = d[k]
  OBVIOUS
<1> HIDE DEF e
<1>2. m + 1 \in Int /\ n \in Int
  OBVIOUS
<1>3. /\ r \in Seq(Bytes)
      /\ Len(r) = IF m + 1 <= n THEN (n - (m + 1)) + 1 ELSE 0
      /\ \A k \in 1 .. ((n - (m + 1)) + 1) : r[k] = d[((m + 1) + k) - 1]
  BY <1>1, <1>2, SubSeqProperties
<1>4. /\ z \in Seq(Bytes)
      /\ Len(z) = IF m + 1 <= n THEN (n - (m + 1)) + 1 ELSE 0
      /\ \A k \in 1 .. ((n - (m + 1)) + 1) : z[k] = e[((m + 1) + k) - 1]
  <2>1. \A k \in (m + 1) .. n : e[k] \in Bytes
    BY <1>1
  <2> QED
    BY <1>2, <2>1, SubSeqProperties
<1> HIDE DEF r, z
<1>5. Len(r) = Len(z) /\ \A k \in 1 .. Len(r) : r[k] = z[k]
  BY <1>1, <1>2, <1>3, <1>4
<1>6. r = z
  BY <1>3, <1>4, <1>5
<1> QED
  BY <1>6 DEF r, z, e

(* No number is under way.                                                 *)
LEMMA NoneHeld ==
  ASSUME NEW d \in Seq(Bytes), NEW t
  PROVE  /\ 0 <= MaxBytes(t) /\ 0 = Unsigned(SubSeq(d, (Len(d) - 0) + 1, Len(d)))
         /\ 0 < 2^(7 * 0)
<1>1. 0 \in 0 .. Len(d)
  OBVIOUS
<1> DEFINE s == SubSeq(d, (Len(d) - 0) + 1, Len(d))
<1>2. \E b \in Bytes : TRUE
  BY DEF Bytes
<1>3. s \in Seq(Bytes) /\ Len(s) = 0
  BY <1>1, <1>2, Window
<1> HIDE DEF s
<1>4. Unsigned(s) = 0
  BY <1>3, UnsignedEmpty
<1>5. 7 * 0 = 0 /\ 2^0 = 1
  OBVIOUS
<1>6. 0 < 2^(7 * 0)
  <2>1. 2^(7 * 0) = 1
    BY <1>5, Zenon
  <2> QED
    BY <2>1
<1> QED
  BY <1>4, <1>6, Widths DEF s

LEMMA FreshNumber ==
  ASSUME number' = NoNumber, data' \in Seq(Bytes)
  PROVE  NumberHeld'
<1> DEFINE d == data'
           t == NumberType(Symbol)'
<1>1. number'.i = 0 /\ number'.x = 0
  BY DEF NoNumber
<1>2. d \in Seq(Bytes)
  OBVIOUS
<1> HIDE DEF d, t
<1>3. /\ 0 <= MaxBytes(t) /\ 0 = Unsigned(SubSeq(d, (Len(d) - 0) + 1, Len(d)))
      /\ 0 < 2^(7 * 0)
  BY <1>2, NoneHeld
<1> QED
  BY <1>1, <1>3, Zenon DEF NumberHeld, Held, d, t

(* A field that has been read stays exact.                                 *)
LEMMA FieldKept ==
  ASSUME DInv, NEW f \in Fields, FieldExact(f), NEW b \in Bytes, data' = Append(data, b)
  PROVE  /\ f.to <= Len(data')
         /\ f.symbol \in NumberSymbols =>
              /\ Encodes(NumberType(f.symbol), SubSeq(data', f.from + 1, f.to))
              /\ f.value = Value(NumberType(f.symbol), SubSeq(data', f.from + 1, f.to))
<1>1. f.from \in Nat /\ f.to \in Nat
  BY DEF Fields
<1>2. f.to <= Len(data)
  BY DEF FieldExact
<1>3. data \in Seq(Bytes)
  BY DEF DInv, Typed
<1>4. SubSeq(Append(data, b), f.from + 1, f.to) = SubSeq(data, f.from + 1, f.to)
  BY <1>1, <1>2, <1>3, WindowKept
<1>5. SubSeq(data', f.from + 1, f.to) = SubSeq(data, f.from + 1, f.to)
  BY <1>4, Zenon
<1>6. Len(data') = Len(data) + 1 /\ Len(data) \in Nat
  BY <1>3
<1>7. f.to <= Len(data')
  BY <1>1, <1>2, <1>6
<1> QED
  BY <1>5, <1>7, Zenon DEF FieldExact

LEMMA FieldsKept ==
  ASSUME DInv, FieldsExact, NEW b \in Bytes, data' = Append(data, b), entry' = entry
  PROVE  FieldsExact'
<1>1. entry \in Seq(Fields)
  BY DEF DInv, Typed
<1>2. ASSUME NEW k \in DOMAIN entry
      PROVE  LET f == entry[k]
             IN  /\ f.to <= Len(data')
                 /\ f.symbol \in NumberSymbols =>
                      /\ Encodes(NumberType(f.symbol), SubSeq(data', f.from + 1, f.to))
                      /\ f.value = Value(NumberType(f.symbol), SubSeq(data', f.from + 1, f.to))
  <2> DEFINE f == entry[k]
  <2>1. f \in Fields
    BY <1>1
  <2>2. FieldExact(f)
    BY DEF FieldsExact
  <2> HIDE DEF f
  <2>3. /\ f.to <= Len(data')
        /\ f.symbol \in NumberSymbols =>
             /\ Encodes(NumberType(f.symbol), SubSeq(data', f.from + 1, f.to))
             /\ f.value = Value(NumberType(f.symbol), SubSeq(data', f.from + 1, f.to))
    BY <2>1, <2>2, FieldKept
  <2> QED
    BY <2>3, Zenon DEF f
<1> QED
  BY <1>2, Zenon DEF FieldsExact, FieldExact

(* The bytes held, and one more.                                           *)
LEMMA HeldLonger ==
  ASSUME DInv, NEW b \in Bytes, data' = Append(data, b)
  PROVE  /\ Held \in Seq(Bytes) /\ Len(Held) = number.i /\ number.i \in Nat
         /\ SubSeq(data', (Len(data) - number.i) + 1, Len(data')) = Append(Held, b)
         /\ Len(data') = Len(data) + 1 /\ Len(data) \in Nat /\ number.i <= Len(data)
<1>1. data \in Seq(Bytes) /\ number.i \in Nat /\ number.i <= Len(data)
  BY DEF DInv, Typed, NumberUnderWay
<1>2. Len(data') = Len(data) + 1 /\ Len(data) \in Nat
  BY <1>1
<1>3. number.i \in 0 .. Len(data)
  BY <1>1, <1>2
<1> DEFINE d == data
           i == number.i
<1> HIDE DEF d, i
<1>4. /\ SubSeq(d, (Len(d) - i) + 1, Len(d)) \in Seq(Bytes)
      /\ Len(SubSeq(d, (Len(d) - i) + 1, Len(d))) = i
      /\ SubSeq(Append(d, b), (Len(d) - i) + 1, Len(d) + 1)
           = Append(SubSeq(d, (Len(d) - i) + 1, Len(d)), b)
  <2>1. d \in Seq(Bytes) /\ i \in 0 .. Len(d)
    BY <1>1, <1>3 DEF d, i
  <2> QED
    BY <2>1, Window
<1> QED
  BY <1>1, <1>2, <1>4, Zenon DEF Held, d, i

(* A byte that is refused.                                                 *)
LEMMA RefusedNumbers ==
  ASSUME DInv, NumbersInv, NEW b \in Bytes, data' = Append(data, b), NEW e, Refuse(e),
         e # "reading",
         e \in {"TooManyBytes", "ValueOverflow"} =>
           ~Encodes(NumberType(Symbol), Append(Held, b))
  PROVE  NumbersInv'
<1>1. outcome' = e /\ todo' = todo /\ number' = number /\ entry' = entry
  BY DEF Refuse
<1>2. FieldsExact'
  BY <1>1, FieldsKept DEF NumbersInv
<1>3. NumberType(Symbol)' = NumberType(Symbol)
  BY <1>1, Zenon DEF Symbol
<1>4. SubSeq(data', Len(data') - number.i, Len(data')) = Append(Held, b)
  <2>1. Len(data') - number.i = (Len(data) - number.i) + 1
    BY HeldLonger
  <2> QED
    BY <2>1, HeldLonger, Zenon
<1>5. RefusedExact'
  <2>1. SubSeq(data', Len(data') - number'.i, Len(data')) = Append(Held, b)
    BY <1>1, <1>4, Zenon
  <2> QED
    BY <1>1, <1>3, <2>1, Zenon DEF RefusedExact
<1> QED
  BY <1>1, <1>2, <1>5, Zenon DEF NumbersInv

(* The value that is received is the one its bytes encode.                 *)
LEMMA ReceivedNumbers ==
  ASSUME DInv, DInv', NumbersInv, outcome = "reading", NEW v \in Int, NEW b \in Bytes,
         Receive(v, b),
         Symbol \in NumberSymbols =>
           /\ Encodes(NumberType(Symbol), Append(Held, b))
           /\ v = Value(NumberType(Symbol), Append(Held, b))
  PROVE  NumbersInv'
<1>1. data' = Append(data, b)
  BY DEF Receive
<1>2. CASE Refuse("Invalid")
  BY <1>1, <1>2, RefusedNumbers
<1>3. CASE Refuse("OutOfRange")
  BY <1>1, <1>3, RefusedNumbers
<1> DEFINE f == [symbol |-> Symbol, value |-> v,
                 from |-> Len(data) - number.i, to |-> Len(data) + 1]
<1>4. CASE entry' = Append(entry, f) /\ number' = NoNumber /\ outcome' = outcome
  <2>1. entry \in Seq(Fields)
    BY DEF DInv, Typed
  <2>2. /\ f.symbol = Symbol /\ f.value = v /\ f.from = Len(data) - number.i
        /\ f.to = Len(data) + 1
    OBVIOUS
  <2> HIDE DEF f
  <2>3. f.to <= Len(data')
    BY <1>1, <2>2, HeldLonger
  <2>4. SubSeq(data', f.from + 1, f.to) = Append(Held, b)
    BY <1>1, <2>2, HeldLonger, Zenon
  <2>5. f.symbol \in NumberSymbols =>
          /\ Encodes(NumberType(f.symbol), SubSeq(data', f.from + 1, f.to))
          /\ f.value = Value(NumberType(f.symbol), SubSeq(data', f.from + 1, f.to))
    BY <2>2, <2>4, Zenon
  <2>6. ASSUME NEW k \in DOMAIN entry'
        PROVE  LET g == entry'[k]
               IN  /\ g.to <= Len(data')
                   /\ g.symbol \in NumberSymbols =>
                        /\ Encodes(NumberType(g.symbol), SubSeq(data', g.from + 1, g.to))
                        /\ g.value = Value(NumberType(g.symbol), SubSeq(data', g.from + 1, g.to))
    <3> DEFINE g == entry'[k]
    <3>1. CASE k \in DOMAIN entry
      <4>1. g = entry[k] /\ entry[k] \in Fields
        BY <1>4, <2>1, <3>1
      <4>2. FieldExact(entry[k])
        BY <3>1, Zenon DEF NumbersInv, FieldsExact
      <4> HIDE DEF g
      <4>3. g \in Fields /\ FieldExact(g)
        BY <4>1, <4>2, Zenon
      <4>4. /\ g.to <= Len(data')
            /\ g.symbol \in NumberSymbols =>
                 /\ Encodes(NumberType(g.symbol), SubSeq(data', g.from + 1, g.to))
                 /\ g.value = Value(NumberType(g.symbol), SubSeq(data', g.from + 1, g.to))
        BY <1>1, <4>3, FieldKept
      <4> QED
        BY <4>4, Zenon DEF g
    <3>2. CASE k \notin DOMAIN entry
      <4>1. entry' \in Seq(Fields)
        BY DEF DInv, Typed
      <4>2. g = f
        BY <1>4, <2>1, <3>2, <4>1
      <4> QED
        BY <2>3, <2>5, <4>2, Zenon
    <3> QED
      BY <3>1, <3>2
  <2>7. FieldsExact'
    BY <2>6, Zenon DEF FieldsExact, FieldExact
  <2>8. NumberHeld'
    <3>1. data' \in Seq(Bytes)
      BY DEF DInv, Typed
    <3> QED
      BY <1>4, <3>1, FreshNumber
  <2>9. RefusedExact'
    <3>1. outcome' = "reading"
      BY <1>4
    <3> QED
      BY <3>1 DEF RefusedExact
  <2> QED
    BY <2>7, <2>8, <2>9 DEF NumbersInv
<1>5. \/ Refuse("Invalid") \/ Refuse("OutOfRange")
      \/ entry' = Append(entry, f) /\ number' = NoNumber /\ outcome' = outcome
  BY Zenon DEF Receive
<1> QED
  BY <1>2, <1>3, <1>4, <1>5

(* The digits held, while more may follow.                                 *)
LEMMA HeldExact ==
  ASSUME DInv, NumbersInv, outcome = "reading", number.i < MaxBytes(NumberType(Symbol)),
         NEW b \in Bytes, data' = Append(data, b)
  PROVE  /\ Held \in Seq(Bytes) /\ Len(Held) = number.i
         /\ Unsigned(Held) = number.x /\ Unsigned(Held) \in Nat
         /\ Unsigned(Held) < 2^(7 * Len(Held))
<1>1. /\ number.x = Unsigned(Held) /\ number.x < 2^(7 * number.i)
  BY DEF NumbersInv, NumberHeld
<1>2. Held \in Seq(Bytes) /\ Len(Held) = number.i
  BY HeldLonger
<1>3. number.x \in Nat
  BY DEF DInv, Typed
<1> QED
  BY <1>1, <1>2, <1>3, Zenon

LEMMA DigitNumbers ==
  ASSUME DInv, DInv', NumbersInv, NEW b \in Bytes, ReadDigit(b)
  PROVE  NumbersInv'
<1> DEFINE t == NumberType(Symbol)
<1>1. /\ outcome = "reading" /\ outcome' = outcome /\ todo' = todo /\ entry' = entry
      /\ data' = Append(data, b) /\ number.i < MaxBytes(t)
      /\ number' = [x |-> Accumulate(t, number.x, number.i, b), i |-> number.i + 1]
  BY DEF ReadDigit, Reading
<1>2. NumberType(Symbol)' = t
  BY <1>1, Zenon DEF Symbol
<1> HIDE DEF t
<1>3. number'.i = number.i + 1 /\ number'.x = Accumulate(t, number.x, number.i, b)
  BY <1>1
<1>4. /\ Held \in Seq(Bytes) /\ Len(Held) = number.i
      /\ Unsigned(Held) = number.x /\ Unsigned(Held) \in Nat
      /\ Unsigned(Held) < 2^(7 * Len(Held))
  BY <1>1, HeldExact DEF t
<1>5. Held' = Append(Held, b)
  <2>1. (Len(data') - number'.i) + 1 = (Len(data) - number.i) + 1
    BY <1>1, <1>3, HeldLonger
  <2>2. SubSeq(data', (Len(data) - number.i) + 1, Len(data')) = Append(Held, b)
    BY <1>1, HeldLonger
  <2> QED
    BY <2>1, <2>2, Zenon DEF Held
<1>6. number'.i <= MaxBytes(t)
  <2>1. MaxBytes(t) \in Nat /\ number.i \in Nat
    BY <1>1, Widths, HeldLonger
  <2> QED
    BY <1>1, <1>3, <2>1
<1>7. number'.i < MaxBytes(t) =>
        /\ number'.x = Unsigned(Held') /\ number'.x < 2^(7 * number'.i)
  <2> SUFFICES ASSUME number'.i < MaxBytes(t)
               PROVE  number'.x = Unsigned(Held') /\ number'.x < 2^(7 * number'.i)
    OBVIOUS
  <2> DEFINE h == Held
  <2> HIDE DEF h
  <2>1. h \in Seq(Bytes) /\ Len(h) + 1 < MaxBytes(t) /\ Unsigned(h) \in Nat
        /\ Unsigned(h) < 2^(7 * Len(h))
    BY <1>3, <1>4 DEF h
  <2>2. /\ Accumulate(t, Unsigned(h), Len(h), b) = Unsigned(Append(h, b))
        /\ Unsigned(Append(h, b)) < 2^(7 * (Len(h) + 1))
    BY <2>1, DigitExact
  <2> QED
    BY <1>3, <1>4, <1>5, <2>2, Zenon DEF h
<1>8. NumberHeld'
  BY <1>2, <1>6, <1>7, Zenon DEF NumberHeld
<1>9. FieldsExact'
  BY <1>1, FieldsKept DEF NumbersInv
<1>10. RefusedExact'
  <2>1. outcome' = "reading"
    BY <1>1
  <2> QED
    BY <2>1 DEF RefusedExact
<1> QED
  BY <1>8, <1>9, <1>10 DEF NumbersInv

LEMMA LastDigitNumbers ==
  ASSUME DInv, DInv', NumbersInv, NEW b \in Bytes, ReadLastDigit(b)
  PROVE  NumbersInv'
<1> DEFINE t == NumberType(Symbol)
           v == Finished(t, number.x, number.i, b)
<1>1. /\ outcome = "reading" /\ todo # <<>> /\ Symbol \in NumberSymbols
      /\ number.i < MaxBytes(t) /\ ~Continues(b)
      /\ \/ /\ Overflows(t, number.i, b) /\ data' = Append(data, b) /\ Refuse("ValueOverflow")
         \/ ~Overflows(t, number.i, b) /\ Receive(v, b)
  BY DEF ReadLastDigit, Reading
<1>2. v \in Int
  BY <1>1, FinishedValue DEF Symbol
<1>3. data' = Append(data, b)
  BY <1>1 DEF Receive
<1>4. /\ Held \in Seq(Bytes) /\ Len(Held) = number.i
      /\ Unsigned(Held) = number.x /\ Unsigned(Held) \in Nat
      /\ Unsigned(Held) < 2^(7 * Len(Held))
  BY <1>1, <1>3, HeldExact
<1> DEFINE h == Held
<1> HIDE DEF h, t
<1>5. /\ ~Overflows(t, Len(h), b) =>
           /\ Encodes(t, Append(h, b))
           /\ Finished(t, Unsigned(h), Len(h), b) = Value(t, Append(h, b))
      /\ Overflows(t, Len(h), b) => ~Encodes(t, Append(h, b))
  <2>1. h \in Seq(Bytes) /\ Len(h) < MaxBytes(t) /\ Unsigned(h) \in Nat
        /\ Unsigned(h) < 2^(7 * Len(h))
    BY <1>1, <1>4 DEF h
  <2> QED
    BY <1>1, <2>1, LastByteExact
<1>6. /\ ~Overflows(t, number.i, b) =>
           /\ Encodes(NumberType(Symbol), Append(Held, b))
           /\ v = Value(NumberType(Symbol), Append(Held, b))
      /\ Overflows(t, number.i, b) => ~Encodes(NumberType(Symbol), Append(Held, b))
  BY <1>4, <1>5, Zenon DEF h, t
<1> HIDE DEF v
<1>7. CASE Overflows(t, number.i, b) /\ data' = Append(data, b) /\ Refuse("ValueOverflow")
  BY <1>6, <1>7, RefusedNumbers
<1>8. CASE ~Overflows(t, number.i, b) /\ Receive(v, b)
  BY <1>1, <1>2, <1>6, <1>8, ReceivedNumbers
<1> QED
  BY <1>1, <1>7, <1>8

LEMMA ReadNumbers ==
  ASSUME DInv, DInv', NumbersInv, NEW b \in Bytes, Read(b)
  PROVE  NumbersInv'
<1>1. CASE ReadByte(b)
  <2>1. outcome = "reading" /\ Symbol \in ByteSymbols /\ Receive(b, b)
    BY <1>1 DEF ReadByte, Reading
  <2>2. Symbol \notin NumberSymbols
    BY <2>1 DEF ByteSymbols, NumberSymbols
  <2>3. b \in Int
    BY DEF Bytes
  <2> QED
    BY <2>1, <2>2, <2>3, ReceivedNumbers
<1>2. CASE ReadShortBlockType(b)
  <2> DEFINE v == b - \h80
  <2>1. /\ outcome = "reading" /\ Symbol = "blocktype" /\ number.i = 0
        /\ b \in {EmptyBlock} \cup ValTypes /\ Receive(v, b)
    BY <1>2 DEF ReadShortBlockType, ShortBlockType, Reading
  <2>2. b \in 64 .. 127 /\ v \in Int
    BY <2>1 DEF EmptyBlock, ValTypes, RefTypes
  <2>3. data' = Append(data, b)
    BY <2>1 DEF Receive
  <2>4. Held \in Seq(Bytes) /\ Len(Held) = 0
    BY <2>1, <2>3, HeldLonger
  <2>5. NumberType(Symbol) = "i64"
    BY <2>1 DEF NumberType
  <2> DEFINE h == Held
  <2> HIDE DEF h
  <2>6. Encodes("i64", Append(h, b)) /\ Value("i64", Append(h, b)) = v
    <3>1. h \in Seq(Bytes) /\ Len(h) = 0
      BY <2>4 DEF h
    <3> QED
      BY <2>2, <3>1, ShortExact
  <2> HIDE DEF v
  <2>7. /\ Encodes(NumberType(Symbol), Append(Held, b))
        /\ v = Value(NumberType(Symbol), Append(Held, b))
    BY <2>5, <2>6, Zenon DEF h
  <2> QED
    BY <2>1, <2>2, <2>7, ReceivedNumbers
<1>3. CASE ReadDigit(b)
  BY <1>3, DigitNumbers
<1>4. CASE ReadLastDigit(b)
  BY <1>4, LastDigitNumbers
<1>5. CASE TooManyBytes(b)
  <2> DEFINE t == NumberType(Symbol)
  <2>1. number.i = MaxBytes(t) /\ data' = Append(data, b) /\ Refuse("TooManyBytes")
    BY <1>5 DEF TooManyBytes
  <2>2. Held \in Seq(Bytes) /\ Len(Held) = number.i
    BY <2>1, HeldLonger
  <2> DEFINE r == Append(Held, b)
  <2>3. Len(r) = MaxBytes(t) + 1
    BY <2>1, <2>2
  <2> HIDE DEF r, t
  <2>4. ~Encodes(t, r)
    BY <2>3, TooLong
  <2> QED
    BY <2>1, <2>4, RefusedNumbers DEF r, t
<1> QED
  BY <1>1, <1>2, <1>3, <1>4, <1>5 DEF Read

(* The calls that read no byte, except for the end of the input.           *)
LEMMA CallNumbers ==
  ASSUME DInv, DInv', NumbersInv, outcome = "reading",
         data' = data, number' = number,
         entry' = entry \/ entry' = <<>>,
         \/ outcome' = outcome /\ (todo # <<>> => Symbol \notin NumberSymbols)
         \/ outcome' \notin {"reading", "TooManyBytes", "ValueOverflow"}
  PROVE  NumbersInv'
<1>1. FieldsExact'
  <2>1. CASE entry' = entry
    BY <2>1, Zenon DEF NumbersInv, FieldsExact, FieldExact
  <2>2. CASE entry' = <<>>
    <3>1. DOMAIN entry' = {}
      BY <2>2
    <3> QED
      BY <3>1, Zenon DEF FieldsExact
  <2> QED
    BY <2>1, <2>2
<1>2. outcome' \notin {"TooManyBytes", "ValueOverflow"}
  OBVIOUS
<1>3. RefusedExact'
  BY <1>2 DEF RefusedExact
<1>4. outcome' = "reading" => NumberHeld'
  <2>1. SUFFICES ASSUME outcome' = "reading" PROVE NumberHeld'
    OBVIOUS
  <2>2. todo # <<>> => Symbol \notin NumberSymbols
    BY <2>1
  <2>3. number = NoNumber
    BY <2>2 DEF DInv, NumberUnderWay, Symbol
  <2>4. data' \in Seq(Bytes)
    BY DEF DInv, Typed
  <2> QED
    BY <2>3, <2>4, FreshNumber
<1> QED
  BY <1>1, <1>3, <1>4 DEF NumbersInv

LEMMA NextNumbers ==
  ASSUME DInv, DInv', NumbersInv, [Next]_vars
  PROVE  NumbersInv'
<1>1. CASE Len(data) < Len(section.bytes) /\ \E b \in section.bytes[Len(data) + 1] : Read(b)
  BY <1>1, BytesOf, ReadNumbers
<1>2. CASE ReadPastEnd
  <2>1. /\ outcome = "reading" /\ data' = data /\ number' = number /\ entry' = entry
        /\ outcome' \in {"MissingEnd", "OutOfRange"}
    BY <1>2 DEF ReadPastEnd, Reading, Refuse
  <2> QED
    BY <2>1, CallNumbers
<1>3. CASE Descend
  <2>1. /\ outcome = "reading" /\ data' = data /\ number' = number /\ entry' = entry
        /\ outcome' = outcome /\ Symbol \in DOMAIN Parts
    BY <1>3 DEF Descend, Reading
  <2>2. Symbol \notin NumberSymbols
    BY <2>1, NamesApart
  <2> QED
    BY <2>1, <2>2, CallNumbers
<1>4. CASE NextElement
  <2>1. /\ outcome = "reading" /\ data' = data /\ number' = number
        /\ entry' = entry \/ entry' = <<>>
        /\ outcome' = outcome /\ Symbol = "elems"
    BY <1>4 DEF NextElement, Reading
  <2>2. Symbol \notin NumberSymbols
    BY <2>1, NamesApart
  <2> QED
    BY <2>1, <2>2, CallNumbers
<1>5. CASE CheckLocals
  <2>1. /\ outcome = "reading" /\ data' = data /\ number' = number /\ entry' = entry
        /\ outcome' = outcome \/ outcome' = "TooManyLocals"
        /\ Symbol = "localslimit"
    BY <1>5 DEF CheckLocals, Reading, Refuse
  <2>2. Symbol \notin NumberSymbols
    BY <2>1, NamesApart
  <2> QED
    BY <2>1, <2>2, CallNumbers
<1>6. CASE Close
  <2>1. /\ outcome = "reading" /\ data' = data /\ number' = number /\ entry' = entry
        /\ outcome' = outcome \/ outcome' = "SizeMismatch"
        /\ Symbol = "close"
    BY <1>6 DEF Close, Reading, Refuse
  <2>2. Symbol \notin NumberSymbols
    BY <2>1, NamesApart
  <2> QED
    BY <2>1, <2>2, CallNumbers
<1>7. CASE Finish
  <2>1. /\ outcome = "reading" /\ data' = data /\ number' = number /\ entry' = entry
        /\ outcome' = "decoded"
    BY <1>7 DEF Finish
  <2> QED
    BY <2>1, CallNumbers
<1>8. CASE UNCHANGED vars
  BY <1>8, Zenon DEF vars, NumbersInv, NumberHeld, Held, FieldsExact, FieldExact, RefusedExact,
                     Symbol
<1> QED
  BY <1>1, <1>2, <1>3, <1>4, <1>5, <1>6, <1>7, <1>8 DEF Next

(* leb128.rs, for any widths: a number that is read is the one its bytes   *)
(* encode, within the width of its type, and what is refused as too long   *)
(* or too large encodes no number of the type.                             *)
THEOREM NumbersAreExact == Spec => []NumbersExact
<1>1. Init => NumbersInv
  <2> SUFFICES ASSUME Init PROVE NumbersInv
    OBVIOUS
  <2>1. /\ data = <<>> /\ number = NoNumber /\ entry = <<>> /\ outcome = "reading"
    BY DEF Init
  <2>2. data \in Seq(Bytes) /\ DOMAIN entry = {} /\ number.i = 0 /\ number.x = 0
    BY <2>1 DEF NoNumber
  <2>3. FieldsExact
    BY <2>2, Zenon DEF FieldsExact
  <2> DEFINE t == NumberType(Symbol)
  <2> HIDE DEF t
  <2>4. /\ 0 <= MaxBytes(t) /\ 0 = Unsigned(SubSeq(data, (Len(data) - 0) + 1, Len(data)))
        /\ 0 < 2^(7 * 0)
    BY <2>2, NoneHeld
  <2>5. NumberHeld
    BY <2>2, <2>4, Zenon DEF NumberHeld, Held, t
  <2>6. RefusedExact
    BY <2>1 DEF RefusedExact
  <2> QED
    BY <2>3, <2>5, <2>6 DEF NumbersInv
<1>2. DInv /\ DInv' /\ NumbersInv /\ [Next]_vars => NumbersInv'
  BY NextNumbers
<1>3. NumbersInv => NumbersExact
  BY Zenon DEF NumbersInv, FieldsExact, FieldExact, RefusedExact, NumbersExact
<1> QED
  BY <1>1, <1>2, <1>3, InitInvariant, DecoderInvariant, PTL DEF Spec
-----------------------------------------------------------------------------
(* Functions are read exactly.                                             *)

(* What is not read before the locals of a function have been checked.     *)
PlainNames == Names \ {"local", "localcount"}
PlainItems == Among(PlainNames)

(* Of the calls under way, those to read x, those that read no locals, and *)
(* the check after which there are only these.                             *)
Pending(x, td) == \E k \in DOMAIN td : td[k] = S(x)

AllPlain(td) == \A k \in DOMAIN td : td[k] \in PlainItems

LimitAhead(td) ==
  \E j \in DOMAIN td : /\ td[j] = S("localslimit")
                       /\ \A k \in DOMAIN td : k > j => td[k] \in PlainItems

(* The fields of an entry that are one of some opcodes, and the locals     *)
(* that an entry declares.                                                 *)
Opcodewise(en, ops) == Cardinality({k \in DOMAIN en : IsOpcode(ops, en[k])})

LocalsOf(en) ==
  SumOf([k \in DOMAIN en |-> IF en[k].symbol = "localcount" THEN en[k].value ELSE 0])

LEMMA OpcodewiseTyped ==
  ASSUME NEW en \in Seq(Fields), NEW ops
  PROVE  Opcodewise(en, ops) \in Nat
<1> DEFINE t == {k \in DOMAIN en : IsOpcode(ops, en[k])}
           u == 1 .. Len(en)
<1>1. IsFiniteSet(u)
  BY FS_Interval
<1>2. t \in SUBSET u
  OBVIOUS
<1> HIDE DEF t, u
<1>3. IsFiniteSet(t)
  BY <1>1, <1>2, FS_Subset
<1>4. Cardinality(t) \in Nat
  BY <1>3, FS_CardinalityType
<1> QED
  BY <1>4 DEF Opcodewise, t

(* One more field.                                                         *)
LEMMA OpcodewiseLonger ==
  ASSUME NEW en \in Seq(Fields), NEW f \in Fields, NEW ops
  PROVE  Opcodewise(Append(en, f), ops) =
           Opcodewise(en, ops) + (IF IsOpcode(ops, f) THEN 1 ELSE 0)
<1> DEFINE n == Len(en)
           e == Append(en, f)
           s == {k \in DOMAIN en : IsOpcode(ops, en[k])}
           t == {k \in DOMAIN e : IsOpcode(ops, e[k])}
           u == 1 .. n
<1>1. /\ n \in Nat /\ DOMAIN en = 1 .. n /\ DOMAIN e = 1 .. (n + 1) /\ e[n + 1] = f
      /\ \A k \in 1 .. n : e[k] = en[k]
  OBVIOUS
<1>2. IsFiniteSet(u)
  BY <1>1, FS_Interval
<1>3. s \in SUBSET u /\ n + 1 \notin s
  BY <1>1
<1> HIDE DEF e
<1>4. t = IF IsOpcode(ops, f) THEN s \cup {n + 1} ELSE s
  <2>1. \A k \in 1 .. (n + 1) : k \in 1 .. n \/ k = n + 1
    BY <1>1
  <2>2. 1 .. n \subseteq 1 .. (n + 1) /\ n + 1 \in 1 .. (n + 1) /\ n + 1 \notin 1 .. n
    BY <1>1
  <2>3. \A k \in 1 .. n : k \in t <=> k \in s
    BY <1>1, <2>2
  <2>4. n + 1 \in t <=> IsOpcode(ops, f)
    BY <1>1, <2>2
  <2>5. t \subseteq 1 .. (n + 1) /\ s \subseteq 1 .. n
    BY <1>1
  <2>6. \A k \in t : k \in s \/ k = n + 1
    BY <2>1, <2>3, <2>5, Zenon
  <2>7. \A k \in s : k \in t
    BY <2>3, <2>5, Zenon
  <2> HIDE DEF n, s, t
  <2>8. CASE IsOpcode(ops, f)
    <3>1. t = s \cup {n + 1}
      BY <2>4, <2>6, <2>7, <2>8
    <3> QED
      BY <2>8, <3>1
  <2>9. CASE ~IsOpcode(ops, f)
    <3>1. t = s
      BY <2>4, <2>6, <2>7, <2>9
    <3> QED
      BY <2>9, <3>1
  <2> QED
    BY <2>8, <2>9
<1> HIDE DEF s, t, u, n
<1>5. IsFiniteSet(s)
  BY <1>2, <1>3, FS_Subset
<1>6. Cardinality(s) \in Nat
  BY <1>5, FS_CardinalityType
<1>7. Cardinality(s \cup {n + 1}) = Cardinality(s) + 1
  BY <1>3, <1>5, FS_AddElement
<1>8. Opcodewise(en, ops) = Cardinality(s) /\ Opcodewise(e, ops) = Cardinality(t)
  BY DEF Opcodewise, s, t
<1>9. Cardinality(t) = Cardinality(s) + (IF IsOpcode(ops, f) THEN 1 ELSE 0)
  BY <1>4, <1>6, <1>7
<1> QED
  BY <1>8, <1>9, Zenon DEF e

LEMMA OpcodewiseNone == ASSUME NEW ops PROVE Opcodewise(<<>>, ops) = 0
<1>1. {k \in DOMAIN <<>> : IsOpcode(ops, <<>>[k])} = {}
  OBVIOUS
<1> QED
  BY <1>1, FS_EmptySet, Zenon DEF Opcodewise

LEMMA LocalsLonger ==
  ASSUME NEW en \in Seq(Fields), NEW f \in Fields
  PROVE  /\ LocalsOf(en) \in Int
         /\ LocalsOf(Append(en, f)) =
              LocalsOf(en) + (IF f.symbol = "localcount" THEN f.value ELSE 0)
<1> DEFINE Term(g) == IF g.symbol = "localcount" THEN g.value ELSE 0
           e == Append(en, f)
           s == [k \in DOMAIN en |-> Term(en[k])]
           r == [k \in DOMAIN e |-> Term(e[k])]
           n == Len(en)
<1>1. \A g \in Fields : Term(g) \in Int
  BY DEF Fields
<1>2. /\ n \in Nat /\ DOMAIN en = 1 .. n /\ DOMAIN e = 1 .. (n + 1) /\ e[n + 1] = f
      /\ \A k \in 1 .. n : e[k] = en[k] /\ en[k] \in Fields
  OBVIOUS
<1> HIDE DEF e, n, Term
<1>3. s = [k \in 1 .. n |-> Term(en[k])] /\ \A k \in 1 .. n : s[k] = Term(en[k])
  BY <1>2
<1>4. /\ s \in Seq(Int) /\ Len(s) = n
  BY <1>1, <1>2, <1>3
<1>5. r = [k \in 1 .. (n + 1) |-> Term(e[k])] /\ \A k \in 1 .. (n + 1) : r[k] = Term(e[k])
  BY <1>2
<1>6. \A k \in 1 .. (n + 1) : e[k] \in Fields
  BY <1>2
<1>7. r \in Seq(Int) /\ Len(r) = n + 1
  BY <1>1, <1>2, <1>5, <1>6
<1>8. r[n + 1] = Term(f) /\ \A k \in 1 .. n : r[k] = s[k]
  BY <1>2, <1>3, <1>5
<1>9. LocalsOf(en) = SumOf(s) /\ LocalsOf(e) = SumOf(r)
  BY Zenon DEF LocalsOf, Term
<1> HIDE DEF s, r
<1>10. SumOf(r) = SumOf(s) + Term(f) /\ SumOf(s) \in Int
  BY <1>4, <1>7, <1>8, SumLonger, SumTyped
<1> QED
  BY <1>9, <1>10, Zenon DEF e, Term

(* Of two sets of names.                                                   *)
LEMMA AmongBoth ==
  ASSUME NEW A, NEW B, NEW t \in Among(A), t \in Among(B)
  PROVE  t \in Among(A \cap B)
<1>1. CASE \E x \in A : t = S(x)
  <2>1. PICK x \in A : t = S(x)
    BY <1>1
  <2>2. Len(t) = 1 /\ t[1] = x
    BY <2>1, ItemParts
  <2>3. x \in B
    BY <2>2, ItemParts DEF Among
  <2> QED
    BY <2>1, <2>3, AmongSymbol
<1>2. CASE \E x \in A : t = Vec(x)
  <2>1. PICK x \in A : t = Vec(x)
    BY <1>2
  <2>2. Len(t) = 2 /\ t[2] = x
    BY <2>1, ItemParts
  <2>3. x \in B
    BY <2>2, ItemParts DEF Among
  <2> QED
    BY <2>1, <2>3, AmongVec
<1>3. CASE \E x \in A, n \in Nat : t = Elems(x, n)
  <2>1. PICK x \in A, n \in Nat : t = Elems(x, n)
    BY <1>3
  <2>2. Len(t) = 3 /\ t[2] = x
    BY <2>1, ItemParts
  <2>3. x \in B
    BY <2>2, ItemParts DEF Among
  <2> QED
    BY <2>1, <2>3, AmongElems
<1> QED
  BY <1>1, <1>2, <1>3 DEF Among

LEMMA AmongMore == ASSUME NEW A, NEW B, A \subseteq B PROVE Among(A) \subseteq Among(B)
  BY DEF Among

(* What follows an item that reads no locals reads none.                   *)
LEMMA PlainInner ==
  ASSUME NEW t \in InnerItems, t \in PlainItems
  PROVE  t \in Among(InnerNames \ {"local", "localcount"})
<1>1. t \in Among(InnerNames \cap PlainNames)
  BY AmongBoth DEF InnerItems, PlainItems
<1>2. InnerNames \cap PlainNames \subseteq InnerNames \ {"local", "localcount"}
  BY DEF PlainNames
<1> QED
  BY <1>1, <1>2, AmongMore

LEMMA PlainFollow ==
  /\ FollowNames \subseteq InnerNames \ {"local", "localcount"}
  /\ InnerNames \ {"local", "localcount"} \subseteq PlainNames
  /\ Among(InnerNames \ {"local", "localcount"}) \subseteq PlainItems
<1>1. FollowNames \subseteq InnerNames \ {"local", "localcount"}
  BY FollowInner DEF FollowNames
<1>2. InnerNames \ {"local", "localcount"} \subseteq PlainNames
  BY DEF PlainNames, Names
<1> QED
  BY <1>1, <1>2, AmongMore DEF PlainItems

LEMMA PlainAfter ==
  ASSUME NEW t \in InnerItems, t \in PlainItems, NEW v,
         t[1] \in {"vec", "name"} => v \in Nat, t[1] = "importkind" => v \in 0 .. 3
  PROVE  After(t, v) \in Seq(PlainItems)
<1> DEFINE N == InnerNames \ {"local", "localcount"}
<1>1. N \cap ({"vec", "elems", "body"} \cup OpeningNames) = {}
  BY DEF InnerNames, ByteSymbols, NumberSymbols, PartNames, OpeningNames
<1>2. t \in Among(N) /\ FollowNames \subseteq N /\ Among(N) \subseteq PlainItems
  BY PlainInner, PlainFollow
<1> HIDE DEF N
<1>3. After(t, v) \in Seq(Among(N))
  BY <1>1, <1>2, AfterAmong
<1> QED
  BY <1>2, <1>3

LEMMA PlainArguments == ASSUME NEW op PROVE ArgumentsOf(op) \in Seq(PlainItems)
<1> DEFINE N == InnerNames \ {"local", "localcount"}
<1>1. FollowNames \subseteq N /\ Among(N) \subseteq PlainItems
  BY PlainFollow
<1> HIDE DEF N
<1>2. ArgumentsOf(op) \in Seq(Among(N))
  BY <1>1, ArgumentsAmong
<1> QED
  BY <1>1, <1>2

LEMMA PlainParts ==
  ASSUME NEW x \in PartNames \ {"local"}
  PROVE  Parts[x] \in Seq(PlainItems)
<1>1. /\ S("reftype") \in PlainItems /\ S("limit") \in PlainItems
      /\ S("valtype") \in PlainItems /\ S("mutability") \in PlainItems
  <2>1. {"reftype", "limit", "valtype", "mutability"} \subseteq PlainNames
    BY PlainFollow DEF FollowNames
  <2> QED
    BY <2>1, AmongSymbol DEF PlainItems
<1>2. Parts[x] \in {<<S("reftype"), S("limit")>>, <<S("valtype"), S("mutability")>>}
  BY DEF PartNames, Parts, TableType, GlobalType
<1> QED
  BY <1>1, <1>2, Two, Zenon

(* The first of the calls under way, td, is replaced by q.                 *)
LEMMA Spliced ==
  ASSUME NEW T, NEW td \in Seq(T), td # <<>>, NEW q \in Seq(T)
  PROVE  /\ q \o Tail(td) \in Seq(T)
         /\ \A k \in 1 .. Len(q) : k \in DOMAIN (q \o Tail(td)) /\ (q \o Tail(td))[k] = q[k]
         /\ \A k \in DOMAIN td : k # 1 =>
              /\ (Len(q) + k) - 1 \in DOMAIN (q \o Tail(td))
              /\ (q \o Tail(td))[(Len(q) + k) - 1] = td[k]
         /\ \A k \in DOMAIN (q \o Tail(td)) : k > Len(q) =>
              /\ (k - Len(q)) + 1 \in DOMAIN td \ {1}
              /\ (q \o Tail(td))[k] = td[(k - Len(q)) + 1]
<1> DEFINE r == Tail(td)
           n == Len(q)
           m == Len(td)
<1>1. /\ r \in Seq(T) /\ n \in Nat /\ m \in Nat \ {0} /\ Len(r) = m - 1 /\ DOMAIN td = 1 .. m
      /\ \A k \in 1 .. (m - 1) : r[k] = td[k + 1]
  OBVIOUS
<1> HIDE DEF r
<1> DEFINE z == q \o r
<1>2. /\ z \in Seq(T) /\ Len(z) = n + (m - 1) /\ DOMAIN z = 1 .. (n + (m - 1))
      /\ \A k \in 1 .. n : z[k] = q[k]
      /\ \A k \in 1 .. (m - 1) : z[n + k] = r[k]
  <2>1. z \in Seq(T) /\ Len(z) = n + Len(r)
    BY <1>1, ConcatProperties
  <2>2. /\ \A k \in 1 .. n : z[k] = q[k]
        /\ \A k \in 1 .. Len(r) : z[n + k] = r[k]
    <3>1. \A k \in 1 .. (Len(q) + Len(r)) : z[k] = IF k <= Len(q) THEN q[k] ELSE r[k - Len(q)]
      BY <1>1, ConcatProperties
    <3>2. ASSUME NEW k \in 1 .. n PROVE z[k] = q[k]
      BY <1>1, <3>1
    <3>3. ASSUME NEW k \in 1 .. Len(r) PROVE z[n + k] = r[k]
      <4>1. n + k \in 1 .. (Len(q) + Len(r)) /\ ~(n + k <= Len(q)) /\ (n + k) - Len(q) = k
        BY <1>1
      <4> HIDE DEF z
      <4> QED
        BY <3>1, <4>1
    <3> QED
      BY <3>2, <3>3
  <2> HIDE DEF z
  <2> QED
    BY <1>1, <2>1, <2>2
<1> HIDE DEF z, n, m
<1>3. \A k \in 1 .. n : k \in DOMAIN z /\ z[k] = q[k]
  BY <1>1, <1>2
<1>4. ASSUME NEW k \in 1 .. m, k # 1
      PROVE  (n + k) - 1 \in DOMAIN z /\ z[(n + k) - 1] = td[k]
  <2>1. k - 1 \in 1 .. (m - 1) /\ n + (k - 1) = (n + k) - 1 /\ (k - 1) + 1 = k
    BY <1>1, <1>4
  <2>2. z[n + (k - 1)] = td[(k - 1) + 1]
    BY <1>1, <1>2, <2>1
  <2>3. (n + k) - 1 \in 1 .. (n + (m - 1))
    BY <1>1, <1>4
  <2> QED
    BY <1>2, <2>1, <2>2, <2>3
<1>5. ASSUME NEW k \in 1 .. (n + (m - 1)), k > n
      PROVE  (k - n) + 1 \in (1 .. m) \ {1} /\ z[k] = td[(k - n) + 1]
  <2>1. k - n \in 1 .. (m - 1) /\ n + (k - n) = k /\ (k - n) + 1 \in (1 .. m) \ {1}
    BY <1>1, <1>5
  <2>2. z[n + (k - n)] = td[(k - n) + 1]
    BY <1>1, <1>2, <2>1
  <2> QED
    BY <2>1, <2>2
<1> QED
  BY <1>1, <1>2, <1>3, <1>4, <1>5, Zenon DEF z, r, n, m

LEMMA SplicedPending ==
  ASSUME NEW td \in Seq(Items), td # <<>>, NEW q \in Seq(Items), NEW x, Pending(x, td),
         td[1] # S(x)
  PROVE  Pending(x, q \o Tail(td))
<1>1. PICK k \in DOMAIN td : td[k] = S(x)
  BY DEF Pending
<1>2. k # 1
  BY <1>1
<1>3. /\ (Len(q) + k) - 1 \in DOMAIN (q \o Tail(td))
      /\ (q \o Tail(td))[(Len(q) + k) - 1] = td[k]
  BY <1>2, Spliced
<1> QED
  BY <1>1, <1>3, Zenon DEF Pending

LEMMA SplicedPlain ==
  ASSUME NEW td \in Seq(Items), td # <<>>, NEW q \in Seq(Items), AllPlain(td), AllPlain(q)
  PROVE  AllPlain(q \o Tail(td))
<1> DEFINE z == q \o Tail(td)
<1>1. /\ z \in Seq(Items) /\ Len(q) \in Nat
      /\ \A k \in 1 .. Len(q) : z[k] = q[k]
      /\ \A k \in DOMAIN z : k > Len(q) =>
           (k - Len(q)) + 1 \in DOMAIN td \ {1} /\ z[k] = td[(k - Len(q)) + 1]
  BY Spliced
<1> HIDE DEF z
<1>2. ASSUME NEW k \in DOMAIN z PROVE z[k] \in PlainItems
  <2>1. k \in Nat \ {0}
    BY <1>1
  <2>2. CASE k > Len(q)
    BY <1>1, <2>2 DEF AllPlain
  <2>3. CASE ~(k > Len(q))
    <3>1. k \in 1 .. Len(q) /\ k \in DOMAIN q
      BY <1>1, <2>1, <2>3
    <3> QED
      BY <1>1, <3>1 DEF AllPlain
  <2> QED
    BY <2>2, <2>3
<1> QED
  BY <1>2 DEF AllPlain, z

LEMMA SplicedLimit ==
  ASSUME NEW td \in Seq(Items), td # <<>>, NEW q \in Seq(Items), LimitAhead(td)
  PROVE  /\ td[1] # S("localslimit") => LimitAhead(q \o Tail(td))
         /\ AllPlain(q) => AllPlain(q \o Tail(td)) \/ LimitAhead(q \o Tail(td))
<1> DEFINE z == q \o Tail(td)
           n == Len(q)
<1>1. /\ z \in Seq(Items) /\ n \in Nat
      /\ \A k \in 1 .. n : z[k] = q[k]
      /\ \A k \in DOMAIN td : k # 1 => (n + k) - 1 \in DOMAIN z /\ z[(n + k) - 1] = td[k]
      /\ \A k \in DOMAIN z : k > n =>
           (k - n) + 1 \in DOMAIN td \ {1} /\ z[k] = td[(k - n) + 1]
  BY Spliced
<1>2. PICK j \in DOMAIN td : /\ td[j] = S("localslimit")
                             /\ \A k \in DOMAIN td : k > j => td[k] \in PlainItems
  BY DEF LimitAhead
<1> HIDE DEF z
<1>3. CASE j # 1
  <2> DEFINE i == (n + j) - 1
  <2>1. i \in DOMAIN z /\ z[i] = S("localslimit") /\ j \in Nat \ {0, 1}
    BY <1>1, <1>2, <1>3
  <2>2. ASSUME NEW k \in DOMAIN z, k > i PROVE z[k] \in PlainItems
    <3>1. k \in Nat /\ k > n
      BY <1>1, <2>1, <2>2
    <3>2. (k - n) + 1 \in DOMAIN td /\ z[k] = td[(k - n) + 1]
      BY <1>1, <3>1
    <3>3. (k - n) + 1 > j
      BY <1>1, <2>1, <2>2, <3>1
    <3> QED
      BY <1>2, <3>2, <3>3
  <2> HIDE DEF i
  <2>3. LimitAhead(z)
    BY <2>1, <2>2, Zenon DEF LimitAhead
  <2> QED
    BY <2>3 DEF z
<1>4. CASE j = 1
  <2>1. ASSUME AllPlain(q), NEW k \in DOMAIN z PROVE z[k] \in PlainItems
    <3>1. k \in Nat \ {0}
      BY <1>1
    <3>2. CASE k > n
      <4>1. (k - n) + 1 \in DOMAIN td /\ z[k] = td[(k - n) + 1]
        BY <1>1, <3>2
      <4>2. (k - n) + 1 > j
        BY <1>1, <1>4, <3>1, <3>2
      <4> QED
        BY <1>2, <4>1, <4>2
    <3>3. CASE ~(k > n)
      <4>1. k \in 1 .. n /\ k \in DOMAIN q
        BY <1>1, <3>1, <3>3
      <4> QED
        BY <1>1, <2>1, <4>1 DEF AllPlain
    <3> QED
      BY <3>2, <3>3
  <2>2. AllPlain(q) => AllPlain(z)
    BY <2>1 DEF AllPlain
  <2> QED
    BY <1>2, <1>4, <2>2 DEF z
<1> QED
  BY <1>3, <1>4

(* The calls under way in a function.                                      *)
LEMMA PlainNamed ==
  /\ S("body") \in PlainItems /\ S("close") \in PlainItems
  /\ \A n \in Nat : Elems("code", n) \in PlainItems
<1>1. {"body", "close", "code"} \subseteq PlainNames
  BY DEF PlainNames, Names, EntryKinds
<1> QED
  BY <1>1, AmongSymbol, AmongElems DEF PlainItems

LEMMA SymbolsDiffer ==
  /\ S("body") # S("close") /\ S("localslimit") # S("close") /\ S("localslimit") # S("body")
  /\ \A n : Elems("code", n) # S("body") /\ Elems("code", n) # S("localslimit")
<1>1. /\ S("body")[1] = "body" /\ S("close")[1] = "close" /\ S("localslimit")[1] = "localslimit"
      /\ \A n : Elems("code", n)[1] = "elems"
  BY ItemParts
<1> QED
  BY <1>1

LEMMA EndWithout ==
  ASSUME NEW n \in Nat
  PROVE  ~Pending("body", FunctionEnd(n)) /\ ~LimitAhead(FunctionEnd(n))
<1> DEFINE c == S("close")
           e == Elems("code", n)
           f == FunctionEnd(n)
<1>1. DOMAIN f = 1 .. 3 /\ f[1] = c /\ f[2] = e /\ f[3] = c
  BY DEF FunctionEnd
<1> HIDE DEF f, c, e
<1>2. \A k \in DOMAIN f : f[k] = c \/ f[k] = e
  BY <1>1
<1>3. \A k \in DOMAIN f : f[k] # S("body") /\ f[k] # S("localslimit")
  BY <1>2, SymbolsDiffer, Zenon DEF c, e
<1> QED
  BY <1>3, Zenon DEF Pending, LimitAhead, f

LEMMA OpenedAhead ==
  ASSUME NEW n \in Nat
  PROVE  /\ LimitAhead(CodeBody \o Remaining("code", n))
         /\ Pending("body", CodeBody \o Remaining("code", n))
<1> DEFINE a == Vec("local")
           b == S("localslimit")
           c == S("body")
           d == S("close")
           e == Elems("code", n)
           l == CodeBody \o Remaining("code", n)
<1>1. CodeBody = <<a, b, c, d>> /\ Remaining("code", n) = <<e, d>>
  BY DEF CodeBody, Remaining
<1>2. c \in PlainItems /\ d \in PlainItems /\ e \in PlainItems
  BY PlainNamed
<1> HIDE DEF a, b, c, d, e
<1> DEFINE m == <<a, b, c, d>> \o <<e, d>>
<1>3. l = m
  BY <1>1, Zenon
<1>4. /\ DOMAIN m = 1 .. 6 /\ m[2] = b /\ m[3] = c /\ m[4] = d /\ m[5] = e /\ m[6] = d
  OBVIOUS
<1> HIDE DEF m, l
<1>5. \A k \in DOMAIN m : k > 2 => m[k] \in PlainItems
  BY <1>2, <1>4
<1>6. 2 \in DOMAIN m /\ 3 \in DOMAIN m
  BY <1>4
<1>7. LimitAhead(m)
  BY <1>4, <1>5, <1>6, Zenon DEF LimitAhead, b
<1>8. Pending("body", m)
  BY <1>4, <1>6, Zenon DEF Pending, c
<1> QED
  BY <1>3, <1>7, <1>8 DEF l

(* An instruction is replaced by its arguments and the next instruction.   *)
LEMMA BodyAhead ==
  ASSUME NEW p \in Seq(PlainItems), NEW n \in Nat
  PROVE  LET l == (p \o <<S("body")>>) \o FunctionEnd(n)
         IN  Pending("body", l) /\ AllPlain(l)
<1> DEFINE b == <<S("body")>>
           f == FunctionEnd(n)
<1>1. b \in Seq(PlainItems) /\ Len(b) = 1 /\ b[1] = S("body")
  BY PlainNamed
<1>2. f \in Seq(PlainItems)
  BY PlainNamed DEF FunctionEnd
<1> HIDE DEF b, f
<1> DEFINE q == p \o b
<1>3. q \in Seq(PlainItems) /\ Len(q) = Len(p) + 1 /\ q[Len(p) + 1] = S("body") /\ Len(p) \in Nat
  <2>0. q \in Seq(PlainItems) /\ Len(q) = Len(p) + Len(b) /\ Len(p) \in Nat
    <3>1. q \in Seq(PlainItems)
      BY <1>1, Both
    <3>2. Len(q) = Len(p) + Len(b)
      BY <1>1, ConcatProperties
    <3> QED
      BY <3>1, <3>2
  <2>1. \A k \in 1 .. (Len(p) + Len(b)) : q[k] = IF k <= Len(p) THEN p[k] ELSE b[k - Len(p)]
    BY <1>1, ConcatProperties
  <2>2. /\ Len(p) + 1 \in 1 .. (Len(p) + Len(b)) /\ ~(Len(p) + 1 <= Len(p))
        /\ (Len(p) + 1) - Len(p) = 1
    BY <1>1, <2>0
  <2> HIDE DEF q
  <2> QED
    BY <1>1, <2>0, <2>1, <2>2
<1> HIDE DEF q
<1> DEFINE l == q \o f
<1>4. l \in Seq(PlainItems) /\ Len(p) + 1 \in DOMAIN l /\ l[Len(p) + 1] = S("body")
  BY <1>2, <1>3
<1> HIDE DEF l
<1>5. Pending("body", l)
  BY <1>4, Zenon DEF Pending
<1>6. AllPlain(l)
  BY <1>4 DEF AllPlain
<1> QED
  BY <1>5, <1>6 DEF l, q, b, f

(* The inductive invariant: within a function's own reader, which ends     *)
(* where the size says, there is a frame for every block that is open, and *)
(* its body goes on as long as there is one; the check of the locals has   *)
(* passed or comes after all of them.                                      *)
IsFunction == entry # <<>> /\ entry[1].symbol = "codesize"

FunctionOpen ==
  /\ Top.end = entry[1].to + entry[1].value
  /\ Len(frames) + Count({End}) = Count({Block, Loop, If}) + 1
  /\ frames = <<>> => todo[1] = S("close") /\ IsOpcode({End}, entry[Len(entry)])
  /\ frames # <<>> => Pending("body", todo)
  /\ \/ LocalsDeclared <= MaxLocals /\ AllPlain(todo)
     \/ LimitAhead(todo)

FunctionExact ==
  /\ entry[1].value = Len(data) - entry[1].to
  /\ IsOpcode({End}, entry[Len(entry)])
  /\ Count({End}) = Count({Block, Loop, If}) + 1
  /\ LocalsDeclared <= MaxLocals

FunctionsInv ==
  IsFunction => /\ section.kind = "code"
                /\ Len(readers) = 3 => FunctionOpen
                /\ Len(readers) # 3 => FunctionExact

(* Where a call of a function may be under way.                            *)
LEMMA FunctionCases ==
  ASSUME DInv, IsFunction, section.kind = "code", todo # <<>>
  PROVE  \/ todo[1] \in InnerItems /\ Len(readers) = 3
         \/ todo[1] = S("close") /\ (Len(readers) = 3 => \E n \in Nat : todo = FunctionEnd(n))
         \/ Len(readers) = 3 /\ frames # <<>> /\ todo[1] = S("body")
              /\ \E n \in Nat : Tail(todo) = FunctionEnd(n)
         \/ Len(readers) = 2 /\ \E n \in Nat : todo[1] = Elems("code", n)
<1> DEFINE kind == section.kind
<1>0. entry # <<>> /\ kind = "code" /\ kind \in EntryKinds
  BY DEF IsFunction, EntryKinds
<1> HIDE DEF kind
<1>1. Shaped(kind, Len(readers), todo, frames, entry)
  BY DEF DInv, CallsShaped, kind
<1>2. todo[1] \in InnerItems => Len(readers) = 3
  <2>1. ASSUME todo[1] \in InnerItems, AtValue(kind, Len(readers), todo) PROVE FALSE
    BY <1>0, <2>1 DEF AtValue
  <2> QED
    BY <1>0, <1>1, <2>1, InnerCases
<1>3. \/ todo[1] \in InnerItems
      \/ AtClose(kind, Len(readers), todo) /\ todo[1] = S("close")
      \/ /\ Len(readers) = 2
         /\ \E n \in Nat : todo[1] = Elems(kind, n)
      \/ /\ \E n \in Nat : todo = FunctionEnd(n) /\ todo[1] = S("close")
      \/ /\ Len(readers) = 3 /\ frames # <<>>
         /\ \E n \in Nat : todo[1] = S("body") /\ Tail(todo) = FunctionEnd(n)
  <2>1. \/ todo[1] \in InnerItems
        \/ AtCount(kind, Len(readers), todo, entry) /\ todo[1] = Vec(kind)
        \/ AtClose(kind, Len(readers), todo) /\ todo[1] = S("close")
        \/ /\ kind \in EntryKinds /\ Len(readers) = 2 /\ entry = <<>>
           /\ \E n \in Nat, o \in Openings(kind) :
                todo = <<o>> \o Remaining(kind, n) /\ todo[1] = o
                  /\ Tail(todo) = Remaining(kind, n)
        \/ /\ kind \in EntryKinds /\ Len(readers) = 2
           /\ \E n \in Nat : /\ todo = Remaining(kind, n) /\ todo[1] = Elems(kind, n)
                             /\ Tail(todo) = <<S("close")>>
        \/ /\ kind = "code" /\ Len(readers) = 3 /\ entry # <<>>
           /\ \E n \in Nat : /\ todo = FunctionEnd(n) /\ todo[1] = S("close")
                             /\ Tail(todo) = Remaining("code", n)
        \/ /\ kind = "code" /\ Len(readers) = 3 /\ entry # <<>> /\ frames # <<>>
           /\ \E n \in Nat : /\ todo = BodyEnd(n) /\ todo[1] = S("body")
                             /\ Tail(todo) = FunctionEnd(n)
    BY <1>1, TopCases, Zenon
  <2>2. ~AtCount(kind, Len(readers), todo, entry)
    BY <1>0 DEF AtCount
  <2> QED
    BY <1>0, <2>1, <2>2, Zenon
<1>4. AtClose(kind, Len(readers), todo) => Len(readers) # 3
  BY DEF AtClose
<1> QED
  BY <1>0, <1>2, <1>3, <1>4, Zenon

(* A step that leaves the function as it is.                               *)
LEMMA FunctionKept ==
  ASSUME FunctionsInv, UNCHANGED <<section, todo, frames, entry>>,
         Len(readers') = Len(readers), Top.end' = Top.end,
         IsFunction => Len(readers) = 3 \/ data' = data
  PROVE  FunctionsInv'
<1>1. IsFunction' <=> IsFunction
  BY DEF IsFunction
<1>2. (Count({End})' = Count({End})) /\ (Count({Block, Loop, If})' = Count({Block, Loop, If}))
  BY DEF Count, IsOpcode
<1>3. LocalsDeclared' = LocalsDeclared
  BY DEF LocalsDeclared
<1>4. FunctionOpen => FunctionOpen'
  BY <1>2, <1>3, Zenon DEF FunctionOpen, IsOpcode
<1>5. data' = data /\ FunctionExact => FunctionExact'
  BY <1>2, <1>3, Zenon DEF FunctionExact, IsOpcode
<1> QED
  BY <1>1, <1>4, <1>5, Zenon DEF FunctionsInv

(* An item of a function that reads nothing itself is replaced.            *)
LEMMA FunctionReplaced ==
  ASSUME DInv, FunctionsInv, UNCHANGED <<section, data, readers, frames, entry>>,
         todo # <<>>, todo[1] \in InnerItems, NEW q \in Seq(InnerItems), todo' = q \o Tail(todo),
         todo[1] \in PlainItems => AllPlain(q),
         todo[1] = S("localslimit") => AllPlain(q) /\ LocalsDeclared <= MaxLocals
  PROVE  FunctionsInv'
<1> SUFFICES ASSUME IsFunction PROVE FunctionsInv'
  BY DEF FunctionsInv, IsFunction
<1>1. section.kind = "code"
  BY DEF FunctionsInv
<1>2. S("close") \notin InnerItems /\ S("body") \notin InnerItems
  <2>1. S("close")[1] = "close" /\ S("body")[1] = "body"
    BY ItemParts
  <2> QED
    BY <2>1, InnerSymbols, NamesApart
<1>3. Len(readers) = 3
  <2>1. \A n \in Nat : Elems("code", n) \notin InnerItems
    <3>1. ASSUME NEW n \in Nat, Elems("code", n) \in InnerItems PROVE FALSE
      <4>1. Elems("code", n)[1] = "elems" /\ Elems("code", n)[2] = "code"
        BY ItemParts
      <4>2. PICK x \in InnerNames, m \in Nat : Elems("code", n) = Elems(x, m)
        BY <3>1, <4>1, InnerSymbols
      <4>3. x = "code"
        BY <4>1, <4>2, ItemParts
      <4> QED
        BY <4>3, NamesApart DEF EntryKinds
    <3> QED
      BY <3>1
  <2> QED
    BY <1>1, <1>2, <2>1, FunctionCases, Zenon
<1>4. FunctionOpen
  BY <1>3 DEF FunctionsInv
<1>5. frames # <<>> /\ Pending("body", todo)
  BY <1>2, <1>4, Zenon DEF FunctionOpen
<1>6. todo \in Seq(Items) /\ q \in Seq(Items)
  <2>1. todo \in Seq(Items)
    BY Pieces
  <2>2. q \in Seq(Items)
    BY InnerAreItems
  <2> QED
    BY <2>1, <2>2
<1> DEFINE td == todo
           d == todo'
<1>7. td \in Seq(Items) /\ td # <<>> /\ d = q \o Tail(td) /\ td[1] \in InnerItems
      /\ Pending("body", td) /\ td[1] # S("body")
  BY <1>2, <1>5, <1>6
<1>8. (LocalsDeclared <= MaxLocals /\ AllPlain(td)) \/ LimitAhead(td)
  BY <1>4, Zenon DEF FunctionOpen
<1>9. td[1] \in PlainItems => AllPlain(q)
  OBVIOUS
<1>10. td[1] = S("localslimit") => AllPlain(q) /\ LocalsDeclared <= MaxLocals
  OBVIOUS
<1> HIDE DEF td, d
<1>11. Pending("body", q \o Tail(td))
  BY <1>6, <1>7, SplicedPending
<1>12. (LocalsDeclared <= MaxLocals /\ AllPlain(d)) \/ LimitAhead(d)
  <2>1. CASE LocalsDeclared <= MaxLocals /\ AllPlain(td)
    <3>1. td[1] \in PlainItems
      <4>1. 1 \in DOMAIN td
        BY <1>7
      <4> QED
        BY <2>1, <4>1 DEF AllPlain
    <3>2. AllPlain(q \o Tail(td))
      BY <1>6, <1>7, <1>9, <2>1, <3>1, SplicedPlain
    <3> QED
      BY <1>7, <2>1, <3>2, Zenon
  <2>2. CASE LimitAhead(td)
    <3>1. /\ td[1] # S("localslimit") => LimitAhead(q \o Tail(td))
          /\ AllPlain(q) => AllPlain(q \o Tail(td)) \/ LimitAhead(q \o Tail(td))
      BY <1>6, <1>7, <2>2, SplicedLimit
    <3> QED
      BY <1>7, <1>10, <3>1, Zenon
  <2> QED
    BY <1>8, <2>1, <2>2
<1>13. (Count({End})' = Count({End})) /\ (Count({Block, Loop, If})' = Count({Block, Loop, If}))
       /\ LocalsDeclared' = LocalsDeclared
  BY DEF Count, IsOpcode, LocalsDeclared
<1>14. Top.end' = Top.end
  BY DEF Top
<1>15. Pending("body", todo') /\ ((LocalsDeclared' <= MaxLocals /\ AllPlain(todo')) \/ LimitAhead(todo'))
  BY <1>7, <1>11, <1>12, <1>13, Zenon DEF d
<1>16. FunctionOpen'
  BY <1>4, <1>5, <1>13, <1>14, <1>15, Zenon DEF FunctionOpen
<1> QED
  BY <1>1, <1>3, <1>16, Zenon DEF FunctionsInv

(* A value that is read adds a field to the entry.                         *)
Counted(ops, f) == IF IsOpcode(ops, f) THEN 1 ELSE 0

LEMMA FieldAdded ==
  ASSUME DInv, DInv', NEW f, entry' = Append(entry, f)
  PROVE  /\ f \in Fields /\ entry' # <<>> /\ entry'[Len(entry')] = f
         /\ entry # <<>> => entry'[1] = entry[1]
         /\ entry = <<>> => entry'[1] = f
<1>1. entry \in Seq(Fields) /\ entry' \in Seq(Fields)
  BY DEF DInv, Typed
<1>2. Len(entry) \in Nat /\ Len(entry') = Len(entry) + 1 /\ entry'[Len(entry) + 1] = f
  BY <1>1
<1>3. f \in Fields
  <2>1. Len(entry') \in DOMAIN entry'
    BY <1>1, <1>2
  <2> QED
    BY <1>1, <1>2, <2>1
<1> QED
  BY <1>1, <1>2, <1>3

LEMMA FieldCounted ==
  ASSUME DInv, DInv', NEW f, entry' = Append(entry, f)
  PROVE  /\ Count({End}) \in Nat /\ (Count({End})' = Count({End}) + Counted({End}, f))
         /\ Count({Block, Loop, If}) \in Nat
         /\ (Count({Block, Loop, If})' = Count({Block, Loop, If}) + Counted({Block, Loop, If}, f))
         /\ entry = <<>> => Count({End}) = 0 /\ Count({Block, Loop, If}) = 0
<1>1. entry \in Seq(Fields) /\ f \in Fields
  BY FieldAdded DEF DInv, Typed
<1> DEFINE o == {End}
           c == {Block, Loop, If}
           e == entry'
<1> HIDE DEF o, c, e
<1>2. Opcodewise(entry, o) \in Nat /\ Opcodewise(entry, c) \in Nat
  BY <1>1, OpcodewiseTyped
<1>3. /\ Opcodewise(e, o) = Opcodewise(entry, o) + Counted(o, f)
      /\ Opcodewise(e, c) = Opcodewise(entry, c) + Counted(c, f)
  <2>1. e = Append(entry, f)
    BY DEF e
  <2>2. Opcodewise(Append(entry, f), o) = Opcodewise(entry, o) + Counted(o, f)
    BY <1>1, OpcodewiseLonger DEF Counted
  <2>3. Opcodewise(Append(entry, f), c) = Opcodewise(entry, c) + Counted(c, f)
    BY <1>1, OpcodewiseLonger DEF Counted
  <2> QED
    BY <2>1, <2>2, <2>3, Zenon
<1>4. entry = <<>> => Opcodewise(entry, o) = 0 /\ Opcodewise(entry, c) = 0
  BY OpcodewiseNone, Zenon
<1> QED
  BY <1>2, <1>3, <1>4, Zenon DEF Count, Opcodewise, o, c, e

LEMMA FieldLocals ==
  ASSUME DInv, DInv', NEW f, entry' = Append(entry, f)
  PROVE  /\ LocalsDeclared \in Int
         /\ LocalsDeclared' = LocalsDeclared + (IF f.symbol = "localcount" THEN f.value ELSE 0)
<1>1. entry \in Seq(Fields) /\ f \in Fields
  BY FieldAdded DEF DInv, Typed
<1>2. /\ LocalsOf(entry) \in Int
      /\ LocalsOf(Append(entry, f)) =
           LocalsOf(entry) + (IF f.symbol = "localcount" THEN f.value ELSE 0)
  BY <1>1, LocalsLonger
<1> DEFINE e == entry'
<1>3. LocalsDeclared = LocalsOf(entry) /\ LocalsDeclared' = LocalsOf(e)
  BY Zenon DEF LocalsDeclared, LocalsOf
<1>4. e = Append(entry, f)
  OBVIOUS
<1> HIDE DEF e
<1> QED
  BY <1>2, <1>3, <1>4, Zenon

LEMMA PlainSymbol ==
  ASSUME NEW t \in PlainItems
  PROVE  t[1] \notin {"local", "localcount"}
<1> DEFINE l == {"local", "localcount"}
<1>1. /\ \A x \in PlainNames : S(x)[1] \notin l
      /\ \A x : Vec(x)[1] \notin l
      /\ \A x, n : Elems(x, n)[1] \notin l
  <2>1. \A x \in PlainNames : S(x)[1] \notin l
    BY DEF PlainNames, S
  <2> QED
    BY <2>1 DEF Vec, Elems
<1> DEFINE N == PlainNames
<1>2. \/ \E x \in N : t = S(x)
      \/ \E x \in N : t = Vec(x)
      \/ \E x \in N, n \in Nat : t = Elems(x, n)
  <2> HIDE DEF N
  <2>1. t \in Among(N)
    BY DEF PlainItems, N
  <2> QED
    BY <2>1 DEF Among
<1> HIDE DEF l
<1> QED
  BY <1>1, <1>2, Zenon DEF l

LEMMA LimitTail ==
  ASSUME NEW td \in Seq(Items), td # <<>>, td[1] # S("localslimit"), LimitAhead(td)
  PROVE  LimitAhead(Tail(td))
<1> DEFINE q == <<>>
<1>1. q \in Seq(Items)
  BY None
<1>2. LimitAhead(q \o Tail(td))
  <2> HIDE DEF q
  <2> QED
    BY <1>1, SplicedLimit
<1> DEFINE l == q \o Tail(td)
<1>3. l = Tail(td)
  OBVIOUS
<1> HIDE DEF l
<1>4. LimitAhead(l)
  BY <1>2 DEF l
<1> QED
  BY <1>3, <1>4, Zenon

(* What an instruction does to the blocks that are open.                   *)
LEMMA FramesCounted ==
  ASSUME frames \in Seq({"function", "block", "loop", "if", "else"}), frames # <<>>, NEW v
  PROVE  /\ Len(FramesAfter(v)) \in Nat
         /\ Len(FramesAfter(v)) + (IF v = End THEN 1 ELSE 0) =
              Len(frames) + (IF v \in {Block, Loop, If} THEN 1 ELSE 0)
         /\ FramesAfter(v) = <<>> => v = End
<1> DEFINE T == {"function", "block", "loop", "if", "else"}
           r == FramesAfter(v)
<1>0. frames \in Seq(T) /\ Len(frames) \in Nat /\ Len(frames) > 0
  OBVIOUS
<1> HIDE DEF T
<1>1. CASE v = Block \/ v = Loop \/ v = If
  <2>1. r = Append(frames, "block") \/ r = Append(frames, "loop") \/ r = Append(frames, "if")
    BY <1>1 DEF FramesAfter, Block, Loop, If, Else, End
  <2>2. Len(r) = Len(frames) + 1
    BY <1>0, <2>1
  <2>3. r # <<>>
    BY <1>0, <2>2
  <2>4. v # End /\ v \in {Block, Loop, If}
    BY <1>1 DEF Block, Loop, If, End
  <2> QED
    BY <1>0, <2>2, <2>3, <2>4
<1>2. CASE v = Else
  <2>1. r = [frames EXCEPT ![Len(frames)] = "else"]
    BY <1>2 DEF FramesAfter, Block, Loop, If, Else, End
  <2>2. Len(r) = Len(frames)
    BY <1>0, <2>1
  <2>3. r # <<>>
    BY <1>0, <2>2
  <2>4. v # End /\ v \notin {Block, Loop, If}
    BY <1>2 DEF Block, Loop, If, End, Else
  <2> QED
    BY <1>0, <2>2, <2>3, <2>4
<1>3. CASE v = End
  <2>1. r = Front(frames)
    BY <1>3 DEF FramesAfter, Block, Loop, If, Else, End
  <2>2. Len(r) = Len(frames) - 1
    <3> DEFINE u == Len(frames) - 1
    <3>1. r = SubSeq(frames, 1, u)
      BY <2>1 DEF Front
    <3>2. u \in Nat /\ u <= Len(frames)
      BY <1>0
    <3>3. Len(SubSeq(frames, 1, u)) = u
      <4> HIDE DEF u
      <4> QED
        BY <1>0, <3>2, SubSeqProperties
    <3> QED
      BY <3>1, <3>3
  <2>3. v = End /\ v \notin {Block, Loop, If}
    BY <1>3 DEF Block, Loop, If, End
  <2> QED
    BY <1>0, <2>2, <2>3
<1>4. CASE ~(v = Block \/ v = Loop \/ v = If) /\ v # Else /\ v # End
  <2>1. r = frames
    BY <1>4 DEF FramesAfter
  <2> QED
    BY <1>0, <1>4, <2>1
<1> QED
  BY <1>1, <1>2, <1>3, <1>4
(* What every value that is read has in common.                            *)
FieldRead(f) ==
  /\ entry' = Append(entry, f) /\ f.symbol = todo[1][1] /\ f.to = Len(data) + 1
  /\ section' = section

(* The end of a reader that is made for v bytes.                           *)
LEMMA ScopedEnd ==
  ASSUME NEW m \in Nat \ {0}, NEW a \in Seq(ReaderSet), Len(a) = m,
         NEW p \in Nat, a[m].pos = p, NEW v \in Nat
  PROVE  Len(Scoped(a, v)) = m + 1 /\ Scoped(a, v)[m + 1].end = p + v
<1> DEFINE y == p + v
           x == [pos |-> p, end |-> y]
           e == [a EXCEPT ![m].pos = y]
           s == Scoped(a, v)
<1>1. y \in Nat /\ a[m] \in ReaderSet
  OBVIOUS
<1>2. s = Append(e, x)
  BY DEF Scoped
<1> HIDE DEF y, s
<1>3. x \in ReaderSet /\ x.end = y
  BY <1>1 DEF ReaderSet
<1>4. e \in Seq(ReaderSet) /\ Len(e) = m
  BY <1>1 DEF ReaderSet
<1> HIDE DEF e, x
<1>5. Len(s) = m + 1 /\ s[m + 1] = x
  BY <1>2, <1>3, <1>4
<1> QED
  BY <1>3, <1>5 DEF y, s

(* The size of a function: its own reader is opened.                       *)
LEMMA FunctionBegun ==
  ASSUME DInv, DInv', entry = <<>>, todo # <<>>, todo[1][1] = "codesize", NEW f, FieldRead(f),
         frames' = <<"function">>, readers' = Scoped(Advanced, f.value), Room > 0, f.value \in Nat,
         todo' = CodeBody \o Tail(todo)
  PROVE  FunctionsInv'
<1>1. section.kind = "code" /\ Len(readers) = 2
      /\ \E n \in Nat : Tail(todo) = Remaining("code", n)
  <2>1. todo[1][1] \in ByteSymbols \cup NumberSymbols
    BY DEF NumberSymbols
  <2>2. \/ todo[1] \in InnerItems
        \/ AtCount(section.kind, Len(readers), todo, entry) /\ todo[1] = Vec(section.kind)
        \/ /\ section.kind \in Special /\ Len(readers) = 2 /\ entry = <<>>
           /\ todo[1] = OpeningOf(section.kind)
           /\ \E n \in Nat : Tail(todo) = Remaining(section.kind, n)
        \/ todo[1] = S("body")
    BY <2>1, SymbolsRead, Zenon
  <2>3. todo[1] \notin InnerItems
    <3>1. todo[1] \in InnerItems => todo[1][1] \in InnerNames \cup {"vec", "elems"}
      BY InnerSymbols
    <3> QED
      BY <3>1, NamesApart
  <2>4. todo[1] # Vec(section.kind) /\ todo[1] # S("body")
    <3>1. Vec(section.kind)[1] = "vec" /\ S("body")[1] = "body"
      BY ItemParts
    <3> QED
      BY <3>1
  <2>5. section.kind \in Special => OpeningOf(section.kind)[1] \in
          (CASE section.kind = "element" -> {"elementflag"}
             [] section.kind = "code" -> {"codesize"}
             [] section.kind = "data" -> {"dataflag"})
    BY ItemParts DEF OpeningOf, Special
  <2>6. section.kind \in Special /\ todo[1] = OpeningOf(section.kind) => section.kind = "code"
    BY <2>5 DEF Special
  <2> QED
    BY <2>2, <2>3, <2>4, <2>6
<1>2. PICK n \in Nat : Tail(todo) = Remaining("code", n)
  BY <1>1
<1>3. LimitAhead(todo') /\ Pending("body", todo')
  <2>1. todo' = CodeBody \o Remaining("code", n)
    BY <1>2
  <2> DEFINE d == todo'
  <2>2. d = CodeBody \o Remaining("code", n)
    BY <2>1
  <2> HIDE DEF d
  <2>3. LimitAhead(d) /\ Pending("body", d)
    BY <2>2, OpenedAhead, Zenon
  <2> QED
    BY <2>3 DEF d
<1>4. entry'[1] = f /\ f \in Fields /\ entry' # <<>>
  BY FieldAdded DEF FieldRead
<1>5. Len(readers') = 3 /\ Top.end' = entry'[1].to + entry'[1].value
  <2> DEFINE a == Advanced
             v == f.value
             m == Len(data)
             s == Scoped(a, v)
  <2>1. Nested(a, m + 1) /\ Len(a) = 2
    <3>1. Nested(readers, Len(data)) /\ readers[Len(readers)].end - readers[Len(readers)].pos > 0
      BY DEF DInv, ReadersFit, Room, Top
    <3>2. m \in Nat
      BY Pieces
    <3>3. Nested(a, m + 1) /\ Len(a) = Len(readers)
      BY <3>1, <3>2, AdvancedNested, Zenon DEF Advanced
    <3> QED
      BY <1>1, <3>3
  <2>2. s[Len(s)].end = (m + 1) + v /\ Len(s) = 3
    <3> DEFINE p == m + 1
    <3>1. p \in Nat /\ v \in Nat
      BY Pieces
    <3>2. a \in Seq(ReaderSet) /\ a[Len(a)].pos = p
      BY <2>1, Zenon DEF Nested
    <3>3. Len(a) = 2
      BY <2>1
    <3> HIDE DEF a, p, v
    <3> DEFINE k == Len(a)
    <3>4. Len(s) = k + 1 /\ s[k + 1].end = p + v
      <4>1. k \in Nat \ {0} /\ a[k].pos = p /\ Len(a) = k
        BY <3>2, <3>3
      <4> HIDE DEF k, s
      <4>2. Len(Scoped(a, v)) = k + 1 /\ Scoped(a, v)[k + 1].end = p + v
        BY <3>1, <3>2, <4>1, ScopedEnd
      <4> QED
        BY <4>2 DEF s
    <3>5. k + 1 = 3
      BY <3>3
    <3> HIDE DEF k, s
    <3> QED
      BY <3>4, <3>5 DEF p
  <2> HIDE DEF a, s, v, m
  <2>3. readers' = s
    BY DEF s, a, v
  <2>4. Top.end' = (m + 1) + v
    BY <2>2, <2>3, Zenon DEF Top
  <2>5. entry'[1].to = m + 1 /\ entry'[1].value = v
    BY <1>4, Zenon DEF FieldRead, m, v
  <2> QED
    BY <2>2, <2>3, <2>4, <2>5
<1>6. /\ (Count({End})' = 0) /\ (Count({Block, Loop, If})' = 0)
  <2>1. Counted({End}, f) = 0 /\ Counted({Block, Loop, If}, f) = 0
    BY DEF Counted, IsOpcode, FieldRead
  <2>2. /\ (Count({End})' = Count({End}) + Counted({End}, f)) /\ Count({End}) = 0
        /\ (Count({Block, Loop, If})' = Count({Block, Loop, If}) + Counted({Block, Loop, If}, f))
        /\ Count({Block, Loop, If}) = 0
    BY FieldCounted, Zenon DEF FieldRead
  <2> QED
    BY <2>1, <2>2
<1>7. Len(frames') = 1 /\ frames' # <<>>
  OBVIOUS
<1>8. FunctionOpen'
  BY <1>3, <1>5, <1>6, <1>7 DEF FunctionOpen
<1> QED
  BY <1>1, <1>5, <1>8 DEF FunctionsInv, FieldRead
(* A byte is read: the reader ends where it did.                           *)
LEMMA EndStays ==
  ASSUME DInv, Room > 0, readers' = Advanced
  PROVE  Len(readers') = Len(readers) /\ Top.end' = Top.end
<1>1. Nested(readers, Len(data)) /\ readers[Len(readers)].end - readers[Len(readers)].pos > 0
  BY DEF DInv, ReadersFit, Room, Top
<1>2. Len(data) \in Nat
  BY Pieces
<1>3. Len(readers') = Len(readers) /\ readers'[Len(readers')].end = readers[Len(readers)].end
  BY <1>1, <1>2, AdvancedNested, Zenon DEF Advanced
<1> QED
  BY <1>3, Zenon DEF Top

(* A value within a function: the function goes on.                        *)
LEMMA FunctionField ==
  ASSUME DInv, DInv', FunctionsInv, IsFunction, Len(readers) = 3, NEW f, FieldRead(f),
         readers' = Advanced, Room > 0
  PROVE  /\ IsFunction' /\ section.kind = "code" /\ section' = section
         /\ Len(readers') = 3 /\ FunctionOpen
         /\ Top.end' = entry'[1].to + entry'[1].value
         /\ entry'[Len(entry')] = f
<1>1. entry # <<>> /\ entry[1].symbol = "codesize" /\ section.kind = "code" /\ FunctionOpen
  BY DEF IsFunction, FunctionsInv
<1>2. entry' # <<>> /\ entry'[1] = entry[1] /\ entry'[Len(entry')] = f
  BY <1>1, FieldAdded DEF FieldRead
<1>3. Len(readers') = Len(readers) /\ Top.end' = Top.end
  BY EndStays
<1> QED
  BY <1>1, <1>2, <1>3, Zenon DEF IsFunction, FunctionOpen, FieldRead

LEMMA FunctionInner ==
  ASSUME DInv, DInv', FunctionsInv, IsFunction, Len(readers) = 3, NEW f, FieldRead(f),
         readers' = Advanced, Room > 0, frames' = frames,
         todo # <<>>, todo[1] \in InnerItems, todo[1][1] \in ByteSymbols \cup NumberSymbols,
         NEW q \in Seq(InnerItems), todo' = q \o Tail(todo),
         todo[1] \in PlainItems => q \in Seq(PlainItems)
  PROVE  FunctionsInv'
<1>1. /\ IsFunction' /\ section.kind = "code" /\ section' = section
      /\ Len(readers') = 3 /\ FunctionOpen
      /\ Top.end' = entry'[1].to + entry'[1].value
      /\ entry'[Len(entry')] = f
  BY FunctionField
<1>2. todo[1][1] \notin {"close", "body", "localslimit"}
  <2>1. todo[1][1] \in InnerNames \cup {"vec", "elems"}
    BY InnerSymbols
  <2> QED
    BY <2>1, NamesApart
<1>3. todo[1] # S("close") /\ todo[1] # S("body") /\ todo[1] # S("localslimit")
  <2>1. S("close")[1] = "close" /\ S("body")[1] = "body" /\ S("localslimit")[1] = "localslimit"
    BY ItemParts
  <2> QED
    BY <1>2, <2>1
<1>4. frames # <<>> /\ Pending("body", todo)
  BY <1>1, <1>3, Zenon DEF FunctionOpen
<1>5. (LocalsDeclared <= MaxLocals /\ AllPlain(todo)) \/ LimitAhead(todo)
  BY <1>1, Zenon DEF FunctionOpen
<1>6. todo \in Seq(Items) /\ q \in Seq(Items)
  <2>1. todo \in Seq(Items)
    BY Pieces
  <2>2. q \in Seq(Items)
    BY InnerAreItems
  <2> QED
    BY <2>1, <2>2
<1> DEFINE td == todo
           d == todo'
<1>7. td \in Seq(Items) /\ td # <<>> /\ d = q \o Tail(td) /\ td[1] # S("localslimit")
      /\ Pending("body", td) /\ td[1] # S("body")
  BY <1>3, <1>4, <1>6
<1>8. (LocalsDeclared <= MaxLocals /\ AllPlain(td)) \/ LimitAhead(td)
  BY <1>5
<1>9. td[1] \in PlainItems => AllPlain(q)
  BY DEF AllPlain
<1>10. td[1] \in PlainItems => LocalsDeclared' = LocalsDeclared
  <2>1. /\ LocalsDeclared \in Int
        /\ LocalsDeclared' = LocalsDeclared + (IF f.symbol = "localcount" THEN f.value ELSE 0)
    BY FieldLocals DEF FieldRead
  <2>2. td[1] \in PlainItems => f.symbol # "localcount"
    BY PlainSymbol DEF FieldRead
  <2> QED
    BY <2>1, <2>2
<1> HIDE DEF td, d
<1>11. Pending("body", d)
  <2>1. Pending("body", q \o Tail(td))
    BY <1>6, <1>7, SplicedPending
  <2> QED
    BY <1>7, <2>1, Zenon
<1>12. (LocalsDeclared' <= MaxLocals /\ AllPlain(d)) \/ LimitAhead(d)
  <2>1. CASE LocalsDeclared <= MaxLocals /\ AllPlain(td)
    <3>1. td[1] \in PlainItems
      <4>1. 1 \in DOMAIN td
        BY <1>7
      <4> QED
        BY <2>1, <4>1 DEF AllPlain
    <3>2. AllPlain(q \o Tail(td))
      BY <1>6, <1>7, <1>9, <2>1, <3>1, SplicedPlain
    <3> QED
      BY <1>7, <1>10, <2>1, <3>1, <3>2, Zenon
  <2>2. CASE LimitAhead(td)
    <3>1. LimitAhead(q \o Tail(td))
      BY <1>6, <1>7, <2>2, SplicedLimit
    <3> QED
      BY <1>7, <3>1, Zenon
  <2> QED
    BY <1>8, <2>1, <2>2
<1>13. (Count({End})' = Count({End})) /\ (Count({Block, Loop, If})' = Count({Block, Loop, If}))
  <2>1. /\ Count({End}) \in Nat /\ (Count({End})' = Count({End}) + Counted({End}, f))
        /\ Count({Block, Loop, If}) \in Nat
        /\ (Count({Block, Loop, If})' = Count({Block, Loop, If}) + Counted({Block, Loop, If}, f))
    BY FieldCounted, Zenon DEF FieldRead
  <2>2. Counted({End}, f) = 0 /\ Counted({Block, Loop, If}, f) = 0
    BY <1>2 DEF Counted, IsOpcode, FieldRead
  <2> QED
    BY <2>1, <2>2
<1>14. Pending("body", todo') /\ ((LocalsDeclared' <= MaxLocals /\ AllPlain(todo')) \/ LimitAhead(todo'))
  BY <1>11, <1>12, Zenon DEF d
<1>15. FunctionOpen'
  <2>1. Len(frames) + Count({End}) = Count({Block, Loop, If}) + 1
    BY <1>1, Zenon DEF FunctionOpen
  <2> QED
    BY <1>1, <1>4, <1>13, <1>14, <2>1, Zenon DEF FunctionOpen
<1> QED
  BY <1>1, <1>15, Zenon DEF FunctionsInv
(* An instruction of a function's body.                                    *)
LEMMA EndAllPlain == ASSUME NEW n \in Nat PROVE AllPlain(FunctionEnd(n))
<1>1. S("close") \in PlainItems /\ Elems("code", n) \in PlainItems
  BY PlainNamed
<1>2. FunctionEnd(n) \in Seq(PlainItems)
  <2> DEFINE a == S("close")
             b == Elems("code", n)
  <2>1. a \in PlainItems /\ b \in PlainItems
    BY <1>1
  <2> HIDE DEF a, b
  <2>2. <<a, b, a>> \in Seq(PlainItems)
    BY <2>1, Three
  <2> QED
    BY <2>2 DEF FunctionEnd, a, b
<1> QED
  BY <1>2 DEF AllPlain

LEMMA FunctionInstruction ==
  ASSUME DInv, DInv', FunctionsInv, IsFunction, Len(readers) = 3, NEW f, FieldRead(f),
         readers' = Advanced, Room > 0, frames # <<>>, frames' = FramesAfter(f.value),
         todo # <<>>, todo[1] = S("body"), NEW n \in Nat, Tail(todo) = FunctionEnd(n),
         todo' = AfterBody(f.value) \o Tail(todo)
  PROVE  FunctionsInv'
<1> DEFINE v == f.value
           c == {Block, Loop, If}
<1>1. /\ IsFunction' /\ section.kind = "code" /\ section' = section
      /\ Len(readers') = 3 /\ FunctionOpen
      /\ Top.end' = entry'[1].to + entry'[1].value
      /\ entry'[Len(entry')] = f
  BY FunctionField
<1>2. f.symbol = "body"
  <2>1. S("body")[1] = "body"
    BY ItemParts
  <2> QED
    BY <2>1 DEF FieldRead
<1>3. /\ Len(frames') \in Nat
      /\ Len(frames') + (IF v = End THEN 1 ELSE 0) = Len(frames) + (IF v \in c THEN 1 ELSE 0)
      /\ frames' = <<>> => v = End
  <2>1. frames \in Seq({"function", "block", "loop", "if", "else"})
    BY DEF DInv, Typed
  <2> DEFINE r == FramesAfter(v)
  <2>2. /\ Len(r) \in Nat
        /\ Len(r) + (IF v = End THEN 1 ELSE 0) = Len(frames) + (IF v \in c THEN 1 ELSE 0)
        /\ r = <<>> => v = End
    BY <2>1, FramesCounted
  <2>3. frames' = r
    OBVIOUS
  <2> HIDE DEF r
  <2> QED
    BY <2>2, <2>3, Zenon
<1>4. Len(frames') + Count({End})' = Count(c)' + 1
  <2>1. Len(frames) + Count({End}) = Count(c) + 1
    BY <1>1, Zenon DEF FunctionOpen
  <2>2. /\ Count({End}) \in Nat /\ (Count({End})' = Count({End}) + Counted({End}, f))
        /\ Count(c) \in Nat /\ (Count(c)' = Count(c) + Counted(c, f))
    BY FieldCounted, Zenon DEF FieldRead
  <2>3. Counted({End}, f) = (IF v = End THEN 1 ELSE 0) /\ Counted(c, f) = (IF v \in c THEN 1 ELSE 0)
    BY <1>2 DEF Counted, IsOpcode
  <2>4. Len(frames) \in Nat
    BY DEF DInv, Typed
  <2> HIDE DEF v, c
  <2> QED
    BY <1>3, <2>1, <2>2, <2>3, <2>4
<1>5. LocalsDeclared <= MaxLocals /\ AllPlain(todo)
  <2>1. ~LimitAhead(todo)
    <3>1. LimitAhead(todo) => LimitAhead(Tail(todo))
      <4>1. todo \in Seq(Items)
        BY Pieces
      <4>2. todo[1] # S("localslimit")
        BY SymbolsDiffer
      <4> DEFINE td == todo
      <4> HIDE DEF td
      <4>3. td \in Seq(Items) /\ td # <<>> /\ td[1] # S("localslimit") /\ LimitAhead(td)
              => LimitAhead(Tail(td))
        BY LimitTail
      <4> QED
        BY <4>1, <4>2, <4>3 DEF td
    <3>2. ~LimitAhead(FunctionEnd(n))
      BY EndWithout
    <3> QED
      BY <3>1, <3>2, Zenon
  <2> QED
    BY <1>1, <2>1, Zenon DEF FunctionOpen
<1>6. LocalsDeclared' <= MaxLocals
  <2>1. /\ LocalsDeclared \in Int
        /\ LocalsDeclared' = LocalsDeclared + (IF f.symbol = "localcount" THEN f.value ELSE 0)
    BY FieldLocals DEF FieldRead
  <2>2. LocalsDeclared' = LocalsDeclared
    BY <1>2, <2>1
  <2> QED
    BY <1>5, <2>2, Zenon
<1> DEFINE d == todo'
<1>7. ArgumentsOf(v) \in Seq(PlainItems)
  BY PlainArguments
<1>8. CASE frames' # <<>>
  <2> DEFINE p == ArgumentsOf(v)
             l == (p \o <<S("body")>>) \o FunctionEnd(n)
  <2>1. d = l
    BY <1>8, Zenon DEF AfterBody
  <2>2. Pending("body", l) /\ AllPlain(l)
    <3> HIDE DEF p
    <3> QED
      BY <1>7, BodyAhead DEF p
  <2> HIDE DEF l, d
  <2>3. Pending("body", d) /\ AllPlain(d)
    BY <2>1, <2>2, Zenon
  <2>4. FunctionOpen'
    BY <1>1, <1>4, <1>6, <1>8, <2>3, Zenon DEF FunctionOpen, d
  <2> QED
    BY <1>1, <2>4, Zenon DEF FunctionsInv
<1>9. CASE frames' = <<>>
  <2>1. v = End
    BY <1>3, <1>9
  <2>2. ArgumentsOf(v) = <<>>
    BY <2>1 DEF ArgumentsOf, End, Block, Loop, If, Bulk
  <2>3. d = (<<>> \o <<>>) \o FunctionEnd(n)
    BY <1>9, <2>2, Zenon DEF AfterBody
  <2> DEFINE l == (<<>> \o <<>>) \o FunctionEnd(n)
  <2>4. l = FunctionEnd(n)
    <3>1. FunctionEnd(n) \in Seq(Items)
      BY EndsAreItems DEF EntryKinds
    <3> DEFINE e == FunctionEnd(n)
    <3> HIDE DEF e
    <3>2. e \in Seq(Items) => (<<>> \o <<>>) \o e = e
      OBVIOUS
    <3> QED
      BY <3>1, <3>2, Zenon DEF e
  <2> HIDE DEF l, d
  <2>5. d = FunctionEnd(n)
    BY <2>3, <2>4, Zenon DEF l
  <2>6. d[1] = S("close") /\ AllPlain(d)
    BY <2>5, EndParts, EndAllPlain, Zenon
  <2>7. IsOpcode({End}, entry'[Len(entry')])
    BY <1>1, <1>2, <2>1, Zenon DEF IsOpcode, v
  <2>8. FunctionOpen'
    BY <1>1, <1>4, <1>6, <1>9, <2>6, <2>7, Zenon DEF FunctionOpen, d
  <2> QED
    BY <1>1, <2>8, Zenon DEF FunctionsInv
<1> QED
  BY <1>8, <1>9
(* A byte is only read of a function within its own reader.                *)
LEMMA ReadingDepth ==
  ASSUME DInv, FunctionsInv, IsFunction, todo # <<>>,
         todo[1][1] \in ByteSymbols \cup NumberSymbols
  PROVE  /\ Len(readers) = 3
         /\ \/ todo[1] \in InnerItems
            \/ /\ frames # <<>> /\ todo[1] = S("body")
               /\ \E n \in Nat : Tail(todo) = FunctionEnd(n)
<1>1. section.kind = "code"
  BY DEF FunctionsInv
<1>2. \/ todo[1] \in InnerItems /\ Len(readers) = 3
      \/ todo[1] = S("close")
      \/ Len(readers) = 3 /\ frames # <<>> /\ todo[1] = S("body")
           /\ \E n \in Nat : Tail(todo) = FunctionEnd(n)
      \/ \E n \in Nat : todo[1] = Elems("code", n)
  BY <1>1, FunctionCases, Zenon
<1>3. /\ S("close")[1] = "close" /\ \A n \in Nat : Elems("code", n)[1] = "elems"
  BY ItemParts
<1>4. todo[1] # S("close") /\ \A n \in Nat : todo[1] # Elems("code", n)
  BY <1>3, NamesApart
<1> QED
  BY <1>2, <1>4, Zenon

(* A byte is read of no value yet, or of one that is refused.              *)
LEMMA FunctionByte ==
  ASSUME DInv, FunctionsInv, todo # <<>>, todo[1][1] \in ByteSymbols \cup NumberSymbols,
         Room > 0, readers' = Advanced, UNCHANGED <<section, todo, frames, entry>>
  PROVE  FunctionsInv'
<1>1. Len(readers') = Len(readers) /\ Top.end' = Top.end
  BY EndStays
<1>2. IsFunction => Len(readers) = 3
  BY ReadingDepth
<1> QED
  BY <1>1, <1>2, FunctionKept

LEMMA FunctionValue ==
  ASSUME DInv, DInv', FunctionsInv, todo # <<>>, todo[1][1] \in ByteSymbols \cup NumberSymbols,
         Room > 0, NEW v \in Int, todo[1][1] \in {"vec", "name"} => v \in Nat, NEW b \in Bytes,
         todo[1][1] # "blocktype" => Valid(todo[1][1], v),
         Ensured(todo[1][1], v, Room - 1),
         entry' = Append(entry, [symbol |-> todo[1][1], value |-> v,
                                 from |-> Len(data) - number.i, to |-> Len(data) + 1]),
         readers' = IF todo[1][1] = "codesize" THEN Scoped(Advanced, v) ELSE Advanced,
         frames' = CASE todo[1][1] = "codesize" -> <<"function">>
                     [] todo[1][1] = "body"     -> FramesAfter(v)
                     [] OTHER                   -> frames,
         todo' = (IF todo[1][1] = "body" THEN AfterBody(v) ELSE After(todo[1], v)) \o Tail(todo),
         section' = section
  PROVE  FunctionsInv'
<1> DEFINE x == todo[1][1]
           f == [symbol |-> x, value |-> v, from |-> Len(data) - number.i, to |-> Len(data) + 1]
<1>1. FieldRead(f) /\ f.value = v /\ f.symbol = x
  BY DEF FieldRead
<1> HIDE DEF f
<1>2. entry' # <<>> /\ (entry # <<>> => entry'[1] = entry[1]) /\ (entry = <<>> => entry'[1] = f)
  BY <1>1, FieldAdded DEF FieldRead
<1>3. CASE entry = <<>> /\ x = "codesize"
  <2>1. v \in Nat
    <3>1. v \in 0 .. (Room - 1)
      BY <1>3 DEF Ensured
    <3> QED
      BY <3>1
  <2>2. After(todo[1], v) = CodeBody
    BY <1>3 DEF After
  <2>3. todo' = CodeBody \o Tail(todo)
    BY <1>3, <2>2, Zenon
  <2>4. frames' = <<"function">> /\ readers' = Scoped(Advanced, f.value) /\ f.value \in Nat
    BY <1>1, <1>3, <2>1
  <2> QED
    BY <1>1, <1>3, <2>3, <2>4, FunctionBegun
<1>4. CASE entry = <<>> /\ x # "codesize"
  <2>1. ~IsFunction'
    BY <1>1, <1>2, <1>4, Zenon DEF IsFunction
  <2> QED
    BY <2>1, Zenon DEF FunctionsInv
<1>5. CASE entry # <<>> /\ ~IsFunction
  <2>1. ~IsFunction'
    BY <1>2, <1>5, Zenon DEF IsFunction
  <2> QED
    BY <2>1, Zenon DEF FunctionsInv
<1>6. CASE IsFunction
  <2>1. /\ Len(readers) = 3
        /\ \/ todo[1] \in InnerItems
           \/ /\ frames # <<>> /\ todo[1] = S("body")
              /\ \E n \in Nat : Tail(todo) = FunctionEnd(n)
    BY <1>6, ReadingDepth
  <2>2. CASE todo[1] \in InnerItems
    <3>1. x # "codesize" /\ x # "body"
      <4>1. x \in InnerNames \cup {"vec", "elems"}
        BY <2>2, InnerSymbols
      <4> QED
        BY <4>1, NamesApart
    <3> DEFINE q == After(todo[1], v)
    <3>2. readers' = Advanced /\ frames' = frames /\ todo' = q \o Tail(todo)
      BY <3>1
    <3>3. x = "importkind" => v \in 0 .. 3
      BY DEF Valid, ImportDescType
    <3>4. q \in Seq(InnerItems)
      BY <2>2, <3>3, AfterInner
    <3>5. todo[1] \in PlainItems => q \in Seq(PlainItems)
      BY <2>2, <3>3, PlainAfter
    <3> HIDE DEF q
    <3> QED
      BY <1>1, <1>6, <2>1, <2>2, <3>2, <3>4, <3>5, FunctionInner
  <2>3. CASE frames # <<>> /\ todo[1] = S("body") /\ \E n \in Nat : Tail(todo) = FunctionEnd(n)
    <3>1. PICK n \in Nat : Tail(todo) = FunctionEnd(n)
      BY <2>3
    <3>2. x = "body"
      <4>1. S("body")[1] = "body"
        BY ItemParts
      <4> QED
        BY <2>3, <4>1
    <3>3. readers' = Advanced /\ frames' = FramesAfter(f.value)
          /\ todo' = AfterBody(f.value) \o Tail(todo)
      BY <1>1, <3>2
    <3> QED
      BY <1>1, <1>6, <2>1, <2>3, <3>1, <3>3, FunctionInstruction
  <2> QED
    BY <2>1, <2>2, <2>3
<1> QED
  BY <1>3, <1>4, <1>5, <1>6

LEMMA ReceiveFunctions ==
  ASSUME DInv, DInv', FunctionsInv, todo # <<>>, Symbol \in ByteSymbols \cup NumberSymbols,
         Room > 0, NEW v \in Int, Symbol \in {"vec", "name"} => v \in Nat, NEW b \in Bytes,
         Receive(v, b)
  PROVE  FunctionsInv'
<1>1. ASSUME NEW e, readers' = Advanced, Refuse(e) PROVE FunctionsInv'
  <2>1. UNCHANGED <<section, todo, frames, entry>>
    BY <1>1 DEF Refuse
  <2>2. todo[1][1] \in ByteSymbols \cup NumberSymbols
    BY DEF Symbol
  <2> QED
    BY <1>1, <2>1, <2>2, FunctionByte
<1> DEFINE Taken ==
             /\ Accepted(v) /\ Ensured(Symbol, v, Room - 1)
             /\ entry' = Append(entry, [symbol |-> Symbol, value |-> v,
                                        from |-> Len(data) - number.i, to |-> Len(data) + 1])
             /\ readers' = IF Symbol = "codesize" THEN Scoped(Advanced, v) ELSE Advanced
             /\ frames' = CASE Symbol = "codesize" -> <<"function">>
                            [] Symbol = "body"     -> FramesAfter(v)
                            [] OTHER               -> frames
             /\ todo' = (IF Symbol = "body" THEN AfterBody(v) ELSE After(todo[1], v)) \o Rest
             /\ section' = section
<1>2. CASE Taken
  <2>1. Symbol # "blocktype" => Valid(Symbol, v)
    BY <1>2 DEF Accepted, ShortBlockType
  <2> QED
    BY <2>1, <1>2, FunctionValue DEF Symbol, Rest
<1>3. \/ readers' = Advanced /\ Refuse("Invalid")
      \/ readers' = Advanced /\ Refuse("OutOfRange")
      \/ Taken
  BY Zenon DEF Receive
<1> QED
  BY <1>1, <1>2, <1>3
LEMMA ReadFunctions ==
  ASSUME DInv, DInv', FunctionsInv, NEW b \in Bytes, Read(b)
  PROVE  FunctionsInv'
<1>1. CASE ReadByte(b)
  <2>1. todo # <<>> /\ Symbol \in ByteSymbols /\ Room > 0 /\ Receive(b, b)
    BY <1>1 DEF ReadByte, Reading
  <2>2. b \in Nat
    BY DEF Bytes
  <2> QED
    BY <2>1, <2>2, ReceiveFunctions
<1>2. CASE ReadShortBlockType(b)
  <2> DEFINE v == b - \h80
  <2>1. todo # <<>> /\ Symbol = "blocktype" /\ Room > 0 /\ Receive(v, b)
    BY <1>2 DEF ReadShortBlockType, Reading
  <2>2. v \in Int
    BY DEF Bytes
  <2>3. "blocktype" \in NumberSymbols
    BY DEF NumberSymbols
  <2> HIDE DEF v
  <2> QED
    BY <2>1, <2>2, <2>3, ReceiveFunctions
<1>3. CASE ReadDigit(b)
  <2>1. /\ todo # <<>> /\ todo[1][1] \in NumberSymbols /\ Room > 0 /\ readers' = Advanced
        /\ UNCHANGED <<section, todo, frames, entry>>
    BY <1>3 DEF ReadDigit, Reading, Symbol
  <2> QED
    BY <2>1, FunctionByte
<1>4. CASE ReadLastDigit(b)
  <2> DEFINE v == Finished(NumberType(Symbol), number.x, number.i, b)
  <2>1. /\ todo # <<>> /\ Symbol \in NumberSymbols /\ Room > 0
        /\ \/ readers' = Advanced /\ Refuse("ValueOverflow")
           \/ Receive(v, b)
    BY <1>4, Zenon DEF ReadLastDigit, Reading
  <2>2. v \in Int /\ (Symbol \in {"vec", "name"} => v \in Nat)
    BY <2>1, FinishedValue DEF Symbol
  <2> HIDE DEF v
  <2>3. CASE readers' = Advanced /\ Refuse("ValueOverflow")
    BY <2>1, <2>3, FunctionByte DEF Refuse, Symbol
  <2>4. CASE Receive(v, b)
    BY <2>1, <2>2, <2>4, ReceiveFunctions
  <2> QED
    BY <2>1, <2>3, <2>4
<1>5. CASE TooManyBytes(b)
  <2>1. /\ todo # <<>> /\ todo[1][1] \in NumberSymbols /\ Room > 0 /\ readers' = Advanced
        /\ UNCHANGED <<section, todo, frames, entry>>
    BY <1>5 DEF TooManyBytes, Reading, Symbol, Refuse
  <2> QED
    BY <2>1, FunctionByte
<1> QED
  BY <1>1, <1>2, <1>3, <1>4, <1>5 DEF Read

(* A step that reads nothing and leaves the calls as they are.             *)
LEMMA FunctionStays ==
  ASSUME FunctionsInv, UNCHANGED <<section, data, readers, todo, frames, entry>>
  PROVE  FunctionsInv'
<1>1. Len(readers') = Len(readers) /\ Top.end' = Top.end
  BY DEF Top
<1> QED
  BY <1>1, FunctionKept

(* The calls of a function that read no byte.                              *)
LEMMA DescendFunctions == ASSUME DInv, FunctionsInv, Descend PROVE FunctionsInv'
<1>1. /\ todo # <<>> /\ Symbol \in DOMAIN Parts /\ todo' = Parts[Symbol] \o Tail(todo)
      /\ UNCHANGED <<section, data, readers, frames, entry>>
  BY DEF Descend, Reading, Rest
<1> SUFFICES ASSUME IsFunction PROVE FunctionsInv'
  BY <1>1 DEF FunctionsInv, IsFunction
<1>2. todo[1] \in InnerItems
  <2>1. section.kind = "code"
    BY DEF FunctionsInv
  <2>2. \/ todo[1] \in InnerItems \/ todo[1] = S("close") \/ todo[1] = S("body")
        \/ \E n \in Nat : todo[1] = Elems("code", n)
    BY <1>1, <2>1, FunctionCases, Zenon
  <2>3. S("close")[1] = "close" /\ S("body")[1] = "body"
        /\ \A n \in Nat : Elems("code", n)[1] = "elems"
    BY ItemParts
  <2>4. todo[1][1] \notin {"close", "body", "elems"}
    BY <1>1, NamesApart DEF Symbol
  <2> QED
    BY <2>2, <2>3, <2>4
<1>3. Symbol \in PartNames /\ todo[1] = S(Symbol)
  <2>1. Symbol \in InnerNames \cup {"vec", "elems"} /\ (Symbol \notin {"vec", "elems"} => todo[1] = S(Symbol))
    BY <1>2, InnerSymbols DEF Symbol
  <2> QED
    BY <1>1, <2>1, NamesApart
<1> DEFINE q == Parts[Symbol]
<1>4. q \in Seq(InnerItems)
  BY <1>3, PartsInner
<1>5. todo[1] \in PlainItems => AllPlain(q)
  <2>1. todo[1] \in PlainItems => Symbol # "local"
    <3>1. todo[1] \in PlainItems => todo[1][1] # "local"
      BY PlainSymbol
    <3> QED
      BY <3>1 DEF Symbol
  <2>2. Symbol # "local" => q \in Seq(PlainItems)
    BY <1>3, PlainParts
  <2> QED
    BY <2>1, <2>2 DEF AllPlain
<1>6. todo[1] # S("localslimit")
  <2>1. S("localslimit")[1] = "localslimit"
    BY ItemParts
  <2> QED
    BY <1>1, <2>1, NamesApart DEF Symbol
<1> HIDE DEF q
<1>7. todo' = q \o Tail(todo)
  BY <1>1 DEF q
<1> QED
  BY <1>1, <1>2, <1>4, <1>5, <1>6, <1>7, FunctionReplaced
LEMMA PlainElements ==
  ASSUME NEW x \in InnerNames, NEW n \in Nat, Elems(x, n) \in PlainItems
  PROVE  S(x) \in PlainItems /\ \A m \in Nat : Elems(x, m) \in PlainItems
<1> DEFINE N == InnerNames \ {"local", "localcount"}
           t == Elems(x, n)
<1>1. t \in InnerItems
  BY InnerElems
<1>2. t \in Among(N)
  BY <1>1, PlainInner
<1>3. N \subseteq PlainNames
  BY PlainFollow
<1>4. x \in N
  <2> HIDE DEF N, t
  <2>1. \/ \E y \in N : t = S(y)
        \/ \E y \in N : t = Vec(y)
        \/ \E y \in N, m \in Nat : t = Elems(y, m)
    BY <1>2 DEF Among
  <2>2. Len(t) = 3 /\ t[2] = x
    BY ItemParts DEF t
  <2>3. ASSUME NEW y \in N, t = S(y) PROVE FALSE
    <3>1. Len(S(y)) = 1
      BY ItemParts
    <3> QED
      BY <2>2, <2>3, <3>1
  <2>4. ASSUME NEW y \in N, t = Vec(y) PROVE FALSE
    <3>1. Len(Vec(y)) = 2
      BY ItemParts
    <3> QED
      BY <2>2, <2>4, <3>1
  <2>5. ASSUME NEW y \in N, NEW m \in Nat, t = Elems(y, m) PROVE x \in N
    <3>1. Elems(y, m)[2] = y
      BY ItemParts
    <3> QED
      BY <2>2, <2>5, <3>1
  <2> QED
    BY <2>1, <2>3, <2>4, <2>5
<1> HIDE DEF N
<1>5. x \in PlainNames
  BY <1>3, <1>4
<1> QED
  BY <1>5, AmongSymbol, AmongElems DEF PlainItems

LEMMA NextElementFunctions == ASSUME DInv, FunctionsInv, NextElement PROVE FunctionsInv'
<1> DEFINE y == todo[1][2]
           m == todo[1][3]
<1>1. /\ todo # <<>> /\ todo[1][1] = "elems"
      /\ todo' = IF m = 0 THEN Tail(todo) ELSE <<S(y), Elems(y, m - 1)>> \o Tail(todo)
      /\ entry' = IF y \in EntryKinds THEN <<>> ELSE entry
      /\ UNCHANGED <<section, data, readers, frames>>
  BY DEF NextElement, Reading, Symbol, Rest
<1>2. CASE entry' = <<>>
  <2>1. ~IsFunction'
    BY <1>2, Zenon DEF IsFunction
  <2> QED
    BY <2>1, Zenon DEF FunctionsInv
<1>3. CASE entry' = entry /\ y \notin EntryKinds /\ ~IsFunction
  <2>1. ~IsFunction'
    BY <1>3, Zenon DEF IsFunction
  <2> QED
    BY <2>1, Zenon DEF FunctionsInv
<1>4. CASE entry' = entry /\ y \notin EntryKinds /\ IsFunction
  <2>1. todo[1] \in InnerItems
    <3>1. section.kind = "code"
      BY <1>4 DEF FunctionsInv
    <3>2. \/ todo[1] \in InnerItems \/ todo[1] = S("close") \/ todo[1] = S("body")
          \/ \E n \in Nat : todo[1] = Elems("code", n)
      BY <1>1, <1>4, <3>1, FunctionCases, Zenon
    <3>3. S("close")[1] = "close" /\ S("body")[1] = "body"
          /\ \A n \in Nat : Elems("code", n)[2] = "code"
      BY ItemParts
    <3>4. "code" \in EntryKinds
      BY DEF EntryKinds
    <3> QED
      BY <1>1, <1>4, <3>2, <3>3, <3>4
  <2>2. PICK x \in InnerNames, n \in Nat : todo[1] = Elems(x, n)
    BY <1>1, <2>1, InnerSymbols
  <2>3. y = x /\ m = n
    BY <2>2, ItemParts
  <2>4. todo[1] \in PlainItems => S(x) \in PlainItems /\ \A k \in Nat : Elems(x, k) \in PlainItems
    BY <2>2, PlainElements
  <2>5. todo[1] # S("localslimit")
    <3>1. S("localslimit")[1] = "localslimit"
      BY ItemParts
    <3> QED
      BY <1>1, <3>1
  <2>6. CASE n = 0
    <3> DEFINE q == <<>>
    <3>1. todo' = q \o Tail(todo)
      <4>1. todo' = Tail(todo)
        BY <1>1, <2>3, <2>6
      <4>2. Tail(todo) \in Seq(Items)
        BY <1>1, Pieces
      <4> QED
        BY <4>1, <4>2, ConcatEmptySeq
    <3>2. q \in Seq(InnerItems) /\ AllPlain(q)
      BY None DEF AllPlain
    <3> HIDE DEF q
    <3> QED
      BY <1>1, <1>4, <2>1, <2>5, <3>1, <3>2, FunctionReplaced
  <2>7. CASE n # 0
    <3> DEFINE q == <<S(x), Elems(x, n - 1)>>
    <3>1. q \in Seq(InnerItems)
      <4>1. S(x) \in InnerItems /\ Elems(x, n - 1) \in InnerItems
        BY <2>2, <2>7, InnerSymbol, InnerElems
      <4> QED
        BY <4>1, Two
    <3>2. todo' = q \o Tail(todo)
      BY <1>1, <2>3, <2>7
    <3>3. todo[1] \in PlainItems => AllPlain(q)
      <4>1. SUFFICES ASSUME todo[1] \in PlainItems PROVE AllPlain(q)
        OBVIOUS
      <4>2. S(x) \in PlainItems /\ Elems(x, n - 1) \in PlainItems
        BY <2>4, <2>7, <4>1
      <4>3. q \in Seq(PlainItems)
        BY <4>2, Two
      <4> HIDE DEF q
      <4> QED
        BY <4>3 DEF AllPlain
    <3> HIDE DEF q
    <3> QED
      BY <1>1, <1>4, <2>1, <2>5, <3>1, <3>2, <3>3, FunctionReplaced
  <2> QED
    BY <2>6, <2>7
<1> QED
  BY <1>1, <1>2, <1>3, <1>4

LEMMA CheckLocalsFunctions == ASSUME DInv, FunctionsInv, CheckLocals PROVE FunctionsInv'
<1>1. /\ todo # <<>> /\ Symbol = "localslimit"
      /\ UNCHANGED <<section, data, readers, frames, entry>>
      /\ \/ todo' = todo
         \/ ~TooManyLocals /\ todo' = Tail(todo)
  BY DEF CheckLocals, Reading, Rest, Refuse
<1>2. CASE todo' = todo
  BY <1>1, <1>2, FunctionStays
<1>3. CASE ~TooManyLocals /\ todo' = Tail(todo)
  <2> SUFFICES ASSUME IsFunction PROVE FunctionsInv'
    BY <1>1 DEF FunctionsInv, IsFunction
  <2>1. LocalsDeclared <= MaxLocals
    <3>1. LocalsDeclared \in Int
      <4>1. entry \in Seq(Fields)
        BY DEF DInv, Typed
      <4>2. LocalsOf(entry) \in Int
        <5>1. PICK f \in Fields : TRUE
          <6>1. 1 \in DOMAIN entry
            BY <4>1 DEF IsFunction
          <6> QED
            BY <4>1, <6>1
        <5> QED
          BY <4>1, <5>1, LocalsLonger
      <4> QED
        BY <4>2, Zenon DEF LocalsDeclared, LocalsOf
    <3>2. MaxLocals \in Int
      BY LimitAssumption
    <3> QED
      BY <1>3, <3>1, <3>2 DEF TooManyLocals
  <2>2. todo[1] \in InnerItems
    <3>1. section.kind = "code"
      BY DEF FunctionsInv
    <3>2. \/ todo[1] \in InnerItems \/ todo[1] = S("close") \/ todo[1] = S("body")
          \/ \E n \in Nat : todo[1] = Elems("code", n)
      BY <1>1, <3>1, FunctionCases, Zenon
    <3>3. S("close")[1] = "close" /\ S("body")[1] = "body"
          /\ \A n \in Nat : Elems("code", n)[1] = "elems"
      BY ItemParts
    <3> QED
      BY <1>1, <3>2, <3>3 DEF Symbol
  <2> DEFINE q == <<>>
  <2>3. todo' = q \o Tail(todo)
    <3>1. Tail(todo) \in Seq(Items)
      BY <1>1, Pieces
    <3> QED
      BY <1>3, <3>1, ConcatEmptySeq
  <2>4. q \in Seq(InnerItems) /\ AllPlain(q)
    BY None DEF AllPlain
  <2> HIDE DEF q
  <2> QED
    BY <1>1, <2>1, <2>2, <2>3, <2>4, FunctionReplaced
<1> QED
  BY <1>1, <1>2, <1>3
LEMMA CloseFunctions == ASSUME DInv, FunctionsInv, Close PROVE FunctionsInv'
<1>1. /\ todo # <<>> /\ todo[1][1] = "close" /\ data' = data
      /\ \/ readers' = readers /\ Refuse("SizeMismatch")
         \/ /\ Room = 0 /\ readers' = Front(readers)
            /\ UNCHANGED <<section, frames, entry>>
  BY DEF Close, Reading, Symbol, Exhausted
<1>2. CASE readers' = readers /\ Refuse("SizeMismatch")
  BY <1>1, <1>2, FunctionStays DEF Refuse
<1>3. CASE Room = 0 /\ readers' = Front(readers) /\ UNCHANGED <<section, frames, entry>>
  <2> SUFFICES ASSUME IsFunction PROVE FunctionsInv'
    BY <1>3 DEF FunctionsInv, IsFunction
  <2>1. section.kind = "code" /\ (Len(readers) = 3 => FunctionOpen)
        /\ (Len(readers) # 3 => FunctionExact)
    BY DEF FunctionsInv
  <2>2. Len(readers') = Len(readers) - 1 /\ (Len(readers) = 2 \/ Len(readers) = 3)
    <3>1. \/ AtClose(section.kind, Len(readers), todo)
          \/ section.kind = "code" /\ Len(readers) = 3
      BY <1>1, CloseCases
    <3>2. Len(readers) = 2 \/ Len(readers) = 3
      BY <3>1, Zenon DEF AtClose
    <3>3. Nested(readers, Len(data)) /\ readers[Len(readers)].end - readers[Len(readers)].pos = 0
      BY <1>3 DEF DInv, ReadersFit, Room, Top
    <3>4. Len(readers) > 1
      BY <3>2
    <3> QED
      BY <1>3, <3>2, <3>3, <3>4, Pieces, FrontNested
  <2>3. FunctionExact
    <3>1. CASE Len(readers) # 3
      BY <2>1, <3>1
    <3>2. CASE Len(readers) = 3
      <4>1. FunctionOpen
        BY <2>1, <3>2
      <4>2. PICK n \in Nat : todo = FunctionEnd(n)
        <5>1. \/ todo[1] \in InnerItems /\ Len(readers) = 3
              \/ todo[1] = S("close") /\ (Len(readers) = 3 => \E n \in Nat : todo = FunctionEnd(n))
              \/ todo[1] = S("body")
              \/ \E n \in Nat : todo[1] = Elems("code", n)
          BY <1>1, <2>1, FunctionCases, Zenon
        <5>2. S("body")[1] = "body" /\ \A n \in Nat : Elems("code", n)[1] = "elems"
          BY ItemParts
        <5>3. todo[1] \notin InnerItems
          <6>1. todo[1] \in InnerItems => todo[1][1] \in InnerNames \cup {"vec", "elems"}
            BY InnerSymbols
          <6> QED
            BY <1>1, <6>1, NamesApart
        <5> QED
          BY <1>1, <3>2, <5>1, <5>2, <5>3
      <4>3. ~Pending("body", todo) /\ ~LimitAhead(todo)
        BY <4>2, EndWithout, Zenon
      <4>4. frames = <<>> /\ LocalsDeclared <= MaxLocals /\ IsOpcode({End}, entry[Len(entry)])
        BY <4>1, <4>3, Zenon DEF FunctionOpen
      <4>5. Count({End}) = Count({Block, Loop, If}) + 1
        <5>1. Len(frames) + Count({End}) = Count({Block, Loop, If}) + 1
          BY <4>1, Zenon DEF FunctionOpen
        <5>2. Len(frames) = 0
          BY <4>4
        <5>3. Count({End}) \in Nat
          <6>1. entry \in Seq(Fields)
            BY DEF DInv, Typed
          <6> DEFINE o == {End}
          <6> HIDE DEF o
          <6>2. Opcodewise(entry, o) \in Nat
            BY <6>1, OpcodewiseTyped
          <6> QED
            BY <6>2, Zenon DEF Count, Opcodewise, o
        <5> QED
          BY <5>1, <5>2, <5>3
      <4>6. entry[1].value = Len(data) - entry[1].to
        <5>1. Top.end = entry[1].to + entry[1].value
          BY <4>1, Zenon DEF FunctionOpen
        <5>2. Top.end = Len(data) /\ Len(data) \in Nat
          <6>1. Top.end \in Nat /\ Top.pos \in Nat /\ Len(data) = Top.pos
            BY Pieces
          <6> QED
            BY <1>3, <6>1 DEF Room
        <5>3. entry[1].to \in Int /\ entry[1].value \in Int
          <6>1. entry \in Seq(Fields) /\ entry # <<>>
            BY DEF DInv, Typed, IsFunction
          <6>2. entry[1] \in Fields
            BY <6>1
          <6> QED
            BY <6>2 DEF Fields
        <5> QED
          BY <5>1, <5>2, <5>3
      <4> QED
        BY <4>4, <4>5, <4>6, Zenon DEF FunctionExact
    <3> QED
      BY <3>1, <3>2
  <2>4. FunctionExact'
    <3>1. (Count({End})' = Count({End})) /\ (Count({Block, Loop, If})' = Count({Block, Loop, If}))
          /\ LocalsDeclared' = LocalsDeclared
      BY <1>3 DEF Count, IsOpcode, LocalsDeclared
    <3> QED
      BY <1>1, <1>3, <2>3, <3>1, Zenon DEF FunctionExact, IsOpcode
  <2>5. Len(readers') # 3
    BY <2>2
  <2> QED
    BY <1>3, <2>1, <2>4, <2>5, Zenon DEF FunctionsInv
<1> QED
  BY <1>1, <1>2, <1>3

LEMMA NextFunctions ==
  ASSUME DInv, DInv', FunctionsInv, [Next]_vars
  PROVE  FunctionsInv'
<1>1. CASE Len(data) < Len(section.bytes) /\ \E b \in section.bytes[Len(data) + 1] : Read(b)
  BY <1>1, BytesOf, ReadFunctions
<1>2. CASE ReadPastEnd
  BY <1>2, FunctionStays DEF ReadPastEnd, Refuse
<1>3. CASE Descend
  BY <1>3, DescendFunctions
<1>4. CASE NextElement
  BY <1>4, NextElementFunctions
<1>5. CASE CheckLocals
  BY <1>5, CheckLocalsFunctions
<1>6. CASE Close
  BY <1>6, CloseFunctions
<1>7. CASE Finish
  BY <1>7, FunctionStays DEF Finish
<1>8. CASE UNCHANGED vars
  BY <1>8, FunctionStays DEF vars
<1> QED
  BY <1>1, <1>2, <1>3, <1>4, <1>5, <1>6, <1>7, <1>8 DEF Next

(* Until its own reader is closed, more than the rest of the section is    *)
(* still to be read.                                                       *)
LEMMA WithinFunction ==
  ASSUME DInv, section.kind = "code", Len(readers) = 3
  PROVE  Len(todo) # 2
<1>1. Shaped("code", 3, todo, frames, entry)
  BY DEF DInv, CallsShaped
<1>2. PICK n \in Nat, p \in Seq(InnerItems) : todo = p \o FunctionEnd(n) \/ todo = p \o BodyEnd(n)
  <2>1. ~AtValue("code", 3, todo) /\ ~AtEnd("code", 3, todo) /\ ~AtCount("code", 3, todo, entry)
        /\ ~AtClose("code", 3, todo)
    BY DEF AtValue, AtEnd, AtCount, AtClose
  <2>2. ~AtOpening("code", 3, todo, entry) /\ ~InEntry("code", 3, todo, entry)
    <3>1. 3 # 2
      OBVIOUS
    <3> QED
      BY <3>1, Zenon DEF AtOpening, InEntry
  <2>3. InFunction("code", 3, todo, frames, entry)
    BY <1>1, <2>1, <2>2, Zenon DEF Shaped
  <2> QED
    BY <2>3, Zenon DEF InFunction
<1>3. p \in Seq(Items)
  BY InnerAreItems
<1>4. Within(todo, "code", n)
  BY <1>2, <1>3, FunctionWithin, Zenon
<1>5. Len(todo) \in Nat /\ Len(todo) > 2
  BY <1>4, Zenon DEF Within
<1>6. 2 \in Nat /\ ~(2 > 2)
  OBVIOUS
<1> QED
  BY <1>5, <1>6, Zenon

(* code.rs: a function whose decoding is over took exactly the size it     *)
(* declares, its last instruction closes its outermost block and no        *)
(* earlier one does, and its locals, all groups together, are within the   *)
(* limit.                                                                  *)
THEOREM FunctionsAreExact == Spec => []CodeEntriesExact
<1>1. Init => FunctionsInv
  BY DEF Init, FunctionsInv, IsFunction
<1>2. DInv /\ DInv' /\ FunctionsInv /\ [Next]_vars => FunctionsInv'
  BY NextFunctions
<1>3. DInv /\ FunctionsInv => CodeEntriesExact
  <2> SUFFICES ASSUME DInv, FunctionsInv, IsFunction, Len(todo) = 2
               PROVE  FunctionExact
    BY Zenon DEF CodeEntriesExact, IsFunction, FunctionExact
  <2>1. Len(readers) # 3
    BY WithinFunction DEF FunctionsInv
  <2> QED
    BY <2>1 DEF FunctionsInv
<1> QED
  BY <1>1, <1>2, <1>3, InitInvariant, DecoderInvariant, PTL DEF Spec

=============================================================================
