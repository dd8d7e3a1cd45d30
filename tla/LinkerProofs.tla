---------------------------- MODULE LinkerProofs ----------------------------
(***************************************************************************)
(* The properties of Linker for any modules and host items: what           *)
(* registered modules hold stays in the store and good, segments stay      *)
(* aligned, limits hold for importers, names resolve, and constant         *)
(* expressions evaluate, whatever phase a load fails in.                   *)
(*                                                                         *)
(* The predicates about items take the store S they are about as a         *)
(* parameter.  So what any step may do to the store is one relation        *)
(* (Effects), and that it spoils nothing is proved once.                   *)
(***************************************************************************)
EXTENDS Linker, TLAPS, FiniteSetTheorems

-----------------------------------------------------------------------------
(* Lists.                                                                  *)

(* A list is a function on 1 .. Len.                                       *)
LEMMA ListFacts ==
  ASSUME NEW s, IsList(s)
  PROVE  /\ Len(s) \in Nat
         /\ DOMAIN s = 1 .. Len(s)
         /\ s = [k \in 1 .. Len(s) |-> s[k]]
BY DEF IsList, Entries

(* A function on 1 .. n is a list of length n.                             *)
LEMMA FunctionIsList ==
  ASSUME NEW f, NEW n \in Nat, f = [k \in 1 .. n |-> f[k]]
  PROVE  IsList(f) /\ Len(f) = n
<1>1. f \in Seq({f[k] : k \in DOMAIN f})
  <2>1. DOMAIN f = 1 .. n
    OBVIOUS
  <2>2. f \in [1 .. n -> {f[k] : k \in DOMAIN f}]
    BY <2>1
  <2> QED
    BY <2>2
<1>2. Len(f) = n
  BY <1>1
<1> QED
  BY <1>1, <1>2 DEF IsList, Entries

LEMMA SeqIsList ==
  ASSUME NEW A, NEW u \in Seq(A)
  PROVE  IsList(u)
<1>1. Len(u) \in Nat /\ u = [k \in 1 .. Len(u) |-> u[k]]
  OBVIOUS
<1> QED
  BY <1>1, FunctionIsList

(* u is s followed by t.                                                   *)
Joined(s, t, u) ==
  /\ IsList(u)
  /\ Len(u) = Len(s) + Len(t)
  /\ \A k \in DOMAIN s : k \in DOMAIN u /\ u[k] = s[k]
  /\ \A k \in DOMAIN t : Len(s) + k \in DOMAIN u /\ u[Len(s) + k] = t[k]
  /\ \A k \in DOMAIN u : k \in DOMAIN s \/ k - Len(s) \in DOMAIN t

LEMMA ConcatJoins ==
  ASSUME NEW s, NEW t, IsList(s), IsList(t)
  PROVE  Joined(s, t, s \o t)
<1> DEFINE A == Entries(s) \cup Entries(t)
<1>1. s \in Seq(A) /\ t \in Seq(A)
  BY DEF IsList
<1> HIDE DEF A
<1>2. /\ s \o t \in Seq(A)
      /\ Len(s \o t) = Len(s) + Len(t)
      /\ \A k \in 1 .. Len(s) + Len(t) :
           (s \o t)[k] = IF k <= Len(s) THEN s[k] ELSE t[k - Len(s)]
  BY <1>1
<1>3. Len(s) \in Nat /\ Len(t) \in Nat /\ DOMAIN s = 1 .. Len(s) /\ DOMAIN t = 1 .. Len(t)
  BY ListFacts
<1>5. IsList(s \o t)
  BY <1>2, SeqIsList
<1>6. DOMAIN (s \o t) = 1 .. Len(s) + Len(t)
  BY <1>2
<1> QED
  BY <1>2, <1>3, <1>5, <1>6 DEF Joined

LEMMA AppendJoins ==
  ASSUME NEW s, NEW x, IsList(s)
  PROVE  Joined(s, <<x>>, Append(s, x))
<1>1. <<x>> = [k \in 1 .. 1 |-> <<x>>[k]]
  OBVIOUS
<1>2. IsList(<<x>>)
  BY <1>1, FunctionIsList
<1>3. Append(s, x) = s \o <<x>>
  <2> DEFINE A == Entries(s) \cup {x}
  <2>1. s \in Seq(A) /\ <<x>> \in Seq(A) /\ x \in A
    BY DEF IsList
  <2> HIDE DEF A
  <2> QED
    BY <2>1
<1> QED
  BY <1>2, <1>3, ConcatJoins

(* The positions Ordered finds are those of the set.                       *)
LEMMA OrderedIn ==
  ASSUME NEW P \in SUBSET Nat, IsFiniteSet(P)
  PROVE  /\ Cardinality(P) \in Nat
         /\ DOMAIN Ordered(P) = 1 .. Cardinality(P)
         /\ \A k \in 1 .. Cardinality(P) : Ordered(P)[k] \in P
         /\ IsList(Ordered(P)) /\ Len(Ordered(P)) = Cardinality(P)
<1> DEFINE n == Cardinality(P)
           B(p) == {q \in P : q < p}
           f == [p \in P |-> Cardinality(B(p))]
<1>1. n \in Nat
  BY FS_CardinalityType
<1>2. \A p \in P : IsFiniteSet(B(p)) /\ Cardinality(B(p)) \in Nat
  BY FS_Subset, FS_CardinalityType
<1>3. ASSUME NEW p \in P
      PROVE  Cardinality(B(p)) \in 0 .. n - 1
  <2>1. B(p) \in SUBSET P /\ B(p) # P
    OBVIOUS
  <2>2. Cardinality(B(p)) <= n /\ Cardinality(B(p)) # n
    BY <2>1, FS_Subset
  <2> QED
    BY <1>1, <1>2, <2>2
<1>4. ASSUME NEW p \in P, NEW r \in P, p < r
      PROVE  Cardinality(B(p)) < Cardinality(B(r))
  <2>0. P \subseteq Nat /\ p \in Nat /\ r \in Nat
    OBVIOUS
  <2>1. B(p) \in SUBSET B(r) /\ B(p) # B(r)
    <3>1. p \in B(r) /\ p \notin B(p)
      BY <1>4, <2>0
    <3>2. \A q \in B(p) : q \in B(r)
      BY <1>4, <2>0
    <3> QED
      BY <3>1, <3>2
  <2>2. Cardinality(B(p)) <= Cardinality(B(r)) /\ Cardinality(B(p)) # Cardinality(B(r))
    BY <1>2, <2>1, FS_Subset
  <2> QED
    BY <1>2, <2>2
<1> DEFINE T == 0 .. n - 1
<1>5. IsFiniteSet(T) /\ Cardinality(T) = n
  <2> HIDE DEF n
  <2>1. Cardinality(0 .. n - 1) = IF 0 > n - 1 THEN 0 ELSE n - 1 - 0 + 1
    BY <1>1, FS_Interval
  <2> QED
    BY <1>1, <2>1, FS_Interval
<1>6. f \in Injection(P, T)
  <2>1. f \in [P -> T]
    BY <1>3
  <2>2. \A p, r \in P : f[p] = f[r] => p = r
    <3> TAKE p, r \in P
    <3>1. f[p] = Cardinality(B(p)) /\ f[r] = Cardinality(B(r))
      OBVIOUS
    <3>2. p < r \/ r < p \/ p = r
      <4>1. p \in Nat /\ r \in Nat
        OBVIOUS
      <4> QED
        BY <4>1
    <3>3. ~(p < r) \/ Cardinality(B(p)) < Cardinality(B(r))
      BY <1>4
    <3>4. ~(r < p) \/ Cardinality(B(r)) < Cardinality(B(p))
      BY <1>4
    <3> HIDE DEF f, B
    <3> QED
      BY <1>2, <3>1, <3>2, <3>3, <3>4
  <2> HIDE DEF f, T
  <2> QED
    BY <2>1, <2>2 DEF Injection, IsInjective
<1>7. f \in Surjection(P, T)
  <2> HIDE DEF f, T
  <2> QED
    BY <1>5, <1>6, FS_Injection
<1>8. ASSUME NEW k \in 1 .. n
      PROVE  \E p \in P : Cardinality(B(p)) = k - 1
  <2>1. k - 1 \in T
    BY <1>1
  <2>2. \E p \in P : f[p] = k - 1
    <3> HIDE DEF f, T
    <3> QED
      BY <1>7, <2>1 DEF Surjection
  <2> QED
    BY <2>2
<1>9. Ordered(P) = [k \in 1 .. n |-> Ordered(P)[k]] /\ DOMAIN Ordered(P) = 1 .. n
  <2> DEFINE e(k) == CHOOSE p \in P : Cardinality(B(p)) = k - 1
  <2>1. Ordered(P) = [k \in 1 .. n |-> e(k)]
    BY DEF Ordered
  <2> HIDE DEF e, n
  <2> QED
    BY <2>1
<1>10. IsList(Ordered(P)) /\ Len(Ordered(P)) = n
  <2> HIDE DEF n
  <2> QED
    BY <1>1, <1>9, FunctionIsList
<1>11. \A k \in 1 .. n : Ordered(P)[k] \in P
  <2> TAKE k \in 1 .. n
  <2>1. Ordered(P)[k] = CHOOSE p \in P : Cardinality(B(p)) = k - 1
    BY DEF Ordered
  <2>2. PICK p \in P : Cardinality(B(p)) = k - 1
    BY <1>8
  <2> QED
    BY <2>1, <2>2
<1> QED
  BY <1>1, <1>9, <1>10, <1>11

-----------------------------------------------------------------------------
(* What is good, of a store S and registered handles R.                    *)

Store == [funcs |-> funcs, tables |-> tables, mems |-> mems, globals |-> globals,
          elems |-> elems, datas |-> datas]
Wasms == {h \in DOMAIN map : map[h].kind = "wasm"}

(* A function of a module in R, a reference to such a function, if to any, *)
(* and what holds only such references.                                    *)
FuncGood(S, R, a) == a \in DOMAIN S.funcs /\ (S.funcs[a].host \/ S.funcs[a].module \in R)
RefGood(S, R, r)  == r.t = "funcref" /\ r.v # 0 => FuncGood(S, R, r.v)
RefsGood(S, R, s) == \A j \in DOMAIN s : RefGood(S, R, s[j])
TableGood(S, R, a)  == a \in DOMAIN S.tables /\ RefsGood(S, R, S.tables[a].refs)
MemGood(S, a)       == a \in DOMAIN S.mems
GlobalGood(S, R, a) == a \in DOMAIN S.globals /\ RefGood(S, R, S.globals[a].value)
ElemGood(S, R, a)   == a \in DOMAIN S.elems /\ RefsGood(S, R, S.elems[a].refs)
DataGood(S, a)      == a \in DOMAIN S.datas

ItemGood(S, R, kind, a) ==
  /\ kind = "func"   => FuncGood(S, R, a)
  /\ kind = "table"  => TableGood(S, R, a)
  /\ kind = "mem"    => MemGood(S, a)
  /\ kind = "global" => GlobalGood(S, R, a)

ExportsGood(S, R, x) ==
  \A n \in DOMAIN x : x[n].kind \in Kinds /\ ItemGood(S, R, x[n].kind, x[n].addr)

InstGood(S, R, i) ==
  /\ \A k \in DOMAIN i.funcs : FuncGood(S, R, i.funcs[k])
  /\ \A k \in DOMAIN i.tables : TableGood(S, R, i.tables[k])
  /\ \A k \in DOMAIN i.mems : MemGood(S, i.mems[k])
  /\ \A k \in DOMAIN i.globals : GlobalGood(S, R, i.globals[k])
  /\ \A k \in DOMAIN i.elems : ElemGood(S, R, i.elems[k])
  /\ \A k \in DOMAIN i.datas : DataGood(S, i.datas[k])

(* An imported table or memory is within what its importer declared, and   *)
(* its own maximum is too.                                                 *)
MaxKept(have, want) == want # NoMax => have # NoMax /\ have <= want
LimitsKept(S, want, a) ==
  /\ want.kind = "table" => /\ a \in DOMAIN S.tables
                            /\ S.tables[a].elem = want.elem
                            /\ Len(S.tables[a].refs) >= want.min
                            /\ MaxKept(S.tables[a].max, want.max)
  /\ want.kind = "mem" => /\ a \in DOMAIN S.mems
                          /\ S.mems[a].size >= want.min
                          /\ MaxKept(S.mems[a].max, want.max)
LinkedGood(S, i) ==
  /\ DOMAIN i.linked = DOMAIN i.mod.imports
  /\ \A k \in DOMAIN i.linked :
       LimitsKept(S, i.mod.imports[k].desc, i.linked[k].addr)

(* The types of the items behind the indices of an instance.               *)
GlobalsKnown(S, i) ==
  \A x \in DOMAIN OfKind(i.mod, "global") :
    /\ x \in DOMAIN i.globals
    /\ S.globals[i.globals[x]].type = OfKind(i.mod, "global")[x].desc.type
TablesKnown(S, i) ==
  \A x \in DOMAIN i.tables :
    S.tables[i.tables[x]].elem = TableTypeAt(i.mod, x - 1)

ElemsAligned(S, i) ==
  /\ Len(i.elems) = Len(i.mod.elems)
  /\ \A k \in DOMAIN i.mod.elems : S.elems[i.elems[k]].elem = i.mod.elems[k].elem
DatasAligned(i) == Len(i.datas) = Len(i.mod.datas)

(* The segments before n have been dropped, declarative ones at once.      *)
Past(e, k, n) == (k < n /\ e.mode # "passive") \/ e.mode = "declarative"
ElemsDropped(S, i, n) ==
  \A k \in DOMAIN i.mod.elems :
    Past(i.mod.elems[k], k, n) => S.elems[i.elems[k]].refs = <<>>
DatasDropped(S, i, n) ==
  \A k \in DOMAIN i.mod.datas :
    k < n /\ i.mod.datas[k].mode # "passive" => S.datas[i.datas[k]].len = 0

IsInst(i) ==
  /\ i = [kind |-> "wasm", mod |-> i.mod, linked |-> i.linked, exports |-> i.exports,
          funcs |-> i.funcs, tables |-> i.tables, mems |-> i.mems,
          globals |-> i.globals, elems |-> i.elems, datas |-> i.datas]
  /\ IsList(i.funcs) /\ IsList(i.tables) /\ IsList(i.mems) /\ IsList(i.globals)
  /\ IsList(i.elems) /\ IsList(i.datas)
  /\ i.mod \in Modules
IsHostEntry(e) == e = [kind |-> "host", exports |-> e.exports]

EntryGood(S, R, e) ==
  /\ ExportsGood(S, R, e.exports)
  /\ \/ IsHostEntry(e)
     \/ /\ IsInst(e) /\ InstGood(S, R, e) /\ LinkedGood(S, e)
        /\ ElemsAligned(S, e) /\ DatasAligned(e)

(* What a handle the embedder has been given stands for.                   *)
Given(S, e) ==
  e.kind = "wasm" => /\ ElemsDropped(S, e, Len(e.mod.elems) + 1)
                     /\ DatasDropped(S, e, Len(e.mod.datas) + 1)

-----------------------------------------------------------------------------
(* What a step may do to the items there are: it keeps types and limits,   *)
(* and writes only references that are there or good.                      *)

FuncsKept(S, T) ==
  \A a \in DOMAIN S.funcs : a \in DOMAIN T.funcs /\ T.funcs[a] = S.funcs[a]
RefsFrom(S, R, old, new) ==
  \A j \in DOMAIN new : (\E k \in DOMAIN old : new[j] = old[k]) \/ RefGood(S, R, new[j])
TablesKept(S, T, R) ==
  \A a \in DOMAIN S.tables :
    /\ a \in DOMAIN T.tables
    /\ T.tables[a].elem = S.tables[a].elem /\ T.tables[a].max = S.tables[a].max
    /\ Len(T.tables[a].refs) >= Len(S.tables[a].refs)
    /\ RefsFrom(S, R, S.tables[a].refs, T.tables[a].refs)
MemsKept(S, T) ==
  \A a \in DOMAIN S.mems :
    /\ a \in DOMAIN T.mems
    /\ T.mems[a].max = S.mems[a].max /\ T.mems[a].size >= S.mems[a].size
GlobalsKept(S, T, R) ==
  \A a \in DOMAIN S.globals :
    /\ a \in DOMAIN T.globals
    /\ T.globals[a].type = S.globals[a].type
    /\ T.globals[a].value = S.globals[a].value \/ RefGood(S, R, T.globals[a].value)
ElemsKept(S, T) ==
  \A a \in DOMAIN S.elems :
    /\ a \in DOMAIN T.elems
    /\ T.elems[a].elem = S.elems[a].elem
    /\ T.elems[a].refs \in {S.elems[a].refs, <<>>}
DatasKept(S, T) ==
  \A a \in DOMAIN S.datas :
    a \in DOMAIN T.datas /\ T.datas[a].len \in {S.datas[a].len, 0}

Effects(S, T, R) ==
  /\ FuncsKept(S, T) /\ TablesKept(S, T, R) /\ MemsKept(S, T)
  /\ GlobalsKept(S, T, R) /\ ElemsKept(S, T) /\ DatasKept(S, T)

LEMMA FuncStays ==
  ASSUME NEW S, NEW T, NEW R, NEW Q, NEW U, Effects(S, T, R), R \subseteq Q, Q \subseteq U
  PROVE  \A a : FuncGood(S, Q, a) => FuncGood(T, U, a)
BY DEF Effects, FuncsKept, FuncGood

LEMMA RefStays ==
  ASSUME NEW S, NEW T, NEW R, NEW Q, NEW U, Effects(S, T, R), R \subseteq Q, Q \subseteq U
  PROVE  /\ \A r : RefGood(S, Q, r) => RefGood(T, U, r)
         /\ \A r : RefGood(S, R, r) => RefGood(T, U, r)
<1>1. R \subseteq U
  OBVIOUS
<1> QED
  BY <1>1, FuncStays DEF RefGood

LEMMA ItemStays ==
  ASSUME NEW S, NEW T, NEW R, NEW Q, NEW U, Effects(S, T, R), R \subseteq Q, Q \subseteq U
  PROVE  /\ \A a : TableGood(S, Q, a) => TableGood(T, U, a)
         /\ \A a : MemGood(S, a) => MemGood(T, a)
         /\ \A a : GlobalGood(S, Q, a) => GlobalGood(T, U, a)
         /\ \A a : ElemGood(S, Q, a) => ElemGood(T, U, a)
         /\ \A a : DataGood(S, a) => DataGood(T, a)
         /\ \A kind, a : ItemGood(S, Q, kind, a) => ItemGood(T, U, kind, a)
<1>1. \A a : TableGood(S, Q, a) => TableGood(T, U, a)
  <2> SUFFICES ASSUME NEW a, TableGood(S, Q, a) PROVE TableGood(T, U, a)
    OBVIOUS
  <2>1. a \in DOMAIN T.tables /\ RefsFrom(S, R, S.tables[a].refs, T.tables[a].refs)
    BY DEF Effects, TablesKept, TableGood
  <2>2. RefsGood(S, Q, S.tables[a].refs)
    BY DEF TableGood
  <2> QED
    BY <2>1, <2>2, RefStays DEF TableGood, RefsGood, RefsFrom
<1>2. \A a : MemGood(S, a) => MemGood(T, a)
  BY DEF Effects, MemsKept, MemGood
<1>3. \A a : GlobalGood(S, Q, a) => GlobalGood(T, U, a)
  BY RefStays DEF Effects, GlobalsKept, GlobalGood
<1>4. \A a : ElemGood(S, Q, a) => ElemGood(T, U, a)
  <2> SUFFICES ASSUME NEW a, ElemGood(S, Q, a) PROVE ElemGood(T, U, a)
    OBVIOUS
  <2>1. a \in DOMAIN T.elems /\ T.elems[a].refs \in {S.elems[a].refs, <<>>}
    BY DEF Effects, ElemsKept, ElemGood
  <2>2. RefsGood(S, Q, S.elems[a].refs)
    BY DEF ElemGood
  <2>3. RefsGood(T, U, S.elems[a].refs)
    BY <2>2, RefStays DEF RefsGood
  <2>4. RefsGood(T, U, <<>>)
    BY DEF RefsGood
  <2> QED
    BY <2>1, <2>3, <2>4 DEF ElemGood
<1>5. \A a : DataGood(S, a) => DataGood(T, a)
  BY DEF Effects, DatasKept, DataGood
<1> QED
  BY <1>1, <1>2, <1>3, <1>4, <1>5, FuncStays DEF ItemGood

(* What an instance holds stays good, in the store and for more handles.   *)
LEMMA InstStays ==
  ASSUME NEW S, NEW T, NEW R, NEW Q, NEW U, Effects(S, T, R), R \subseteq Q, Q \subseteq U,
         NEW i
  PROVE  /\ InstGood(S, Q, i) => InstGood(T, U, i)
         /\ \A x : ExportsGood(S, Q, x) => ExportsGood(T, U, x)
<1>1. ASSUME InstGood(S, Q, i) PROVE InstGood(T, U, i)
  <2>1. \A k \in DOMAIN i.funcs : FuncGood(T, U, i.funcs[k])
    BY <1>1, FuncStays DEF InstGood
  <2>2. /\ \A a : TableGood(S, Q, a) => TableGood(T, U, a)
        /\ \A a : MemGood(S, a) => MemGood(T, a)
        /\ \A a : GlobalGood(S, Q, a) => GlobalGood(T, U, a)
        /\ \A a : ElemGood(S, Q, a) => ElemGood(T, U, a)
        /\ \A a : DataGood(S, a) => DataGood(T, a)
    BY ItemStays
  <2> QED
    BY <1>1, <2>1, <2>2 DEF InstGood
<1>2. \A x : ExportsGood(S, Q, x) => ExportsGood(T, U, x)
  BY ItemStays DEF ExportsGood
<1> QED
  BY <1>1, <1>2

(* The stores keep lists, so the order of lengths is one of numbers.       *)
Ordinary(S) ==
  /\ \A a \in DOMAIN S.tables : Len(S.tables[a].refs) \in Nat
  /\ \A a \in DOMAIN S.mems : S.mems[a].size \in Nat

LEMMA LinksStay ==
  ASSUME NEW S, NEW T, NEW R, Effects(S, T, R), Ordinary(S), Ordinary(T),
         NEW i, i.mod \in Modules, LinkedGood(S, i)
  PROVE  LinkedGood(T, i)
<1> SUFFICES ASSUME NEW k \in DOMAIN i.linked
             PROVE  LimitsKept(T, i.mod.imports[k].desc, i.linked[k].addr)
  BY DEF LinkedGood
<1> DEFINE want == i.mod.imports[k].desc
           a == i.linked[k].addr
<1>1. LimitsKept(S, want, a) /\ k \in DOMAIN i.mod.imports
  BY DEF LinkedGood
<1>2. want.kind \in {"table", "mem"} => want.min \in Nat
  BY <1>1, ModulesAssumption DEF IsModule, IsLimits
<1> HIDE DEF want, a
<1>3. ASSUME want.kind = "table"
      PROVE  /\ a \in DOMAIN T.tables
             /\ T.tables[a].elem = want.elem
             /\ Len(T.tables[a].refs) >= want.min
             /\ MaxKept(T.tables[a].max, want.max)
  <2>1. /\ a \in DOMAIN S.tables
        /\ S.tables[a].elem = want.elem
        /\ Len(S.tables[a].refs) >= want.min
        /\ MaxKept(S.tables[a].max, want.max)
    BY <1>1, <1>3 DEF LimitsKept
  <2>2. /\ a \in DOMAIN T.tables
        /\ T.tables[a].elem = S.tables[a].elem /\ T.tables[a].max = S.tables[a].max
        /\ Len(T.tables[a].refs) >= Len(S.tables[a].refs)
    BY <2>1 DEF Effects, TablesKept
  <2>3. Len(S.tables[a].refs) \in Nat /\ Len(T.tables[a].refs) \in Nat /\ want.min \in Nat
    BY <1>2, <1>3, <2>1, <2>2 DEF Ordinary
  <2> QED
    BY <2>1, <2>2, <2>3
<1>4. ASSUME want.kind = "mem"
      PROVE  /\ a \in DOMAIN T.mems
             /\ T.mems[a].size >= want.min
             /\ MaxKept(T.mems[a].max, want.max)
  <2>1. /\ a \in DOMAIN S.mems
        /\ S.mems[a].size >= want.min
        /\ MaxKept(S.mems[a].max, want.max)
    BY <1>1, <1>4 DEF LimitsKept
  <2>2. /\ a \in DOMAIN T.mems
        /\ T.mems[a].max = S.mems[a].max
        /\ T.mems[a].size >= S.mems[a].size
    BY <2>1 DEF Effects, MemsKept
  <2>3. S.mems[a].size \in Nat /\ T.mems[a].size \in Nat /\ want.min \in Nat
    BY <1>2, <1>4, <2>1, <2>2 DEF Ordinary
  <2> QED
    BY <2>1, <2>2, <2>3
<1>5. LimitsKept(T, want, a)
  BY <1>3, <1>4 DEF LimitsKept
<1> QED
  BY <1>5 DEF want, a

(* Segments keep their types, and dropped ones stay dropped.               *)
LEMMA SegmentsStay ==
  ASSUME NEW S, NEW T, NEW R, Effects(S, T, R), NEW Q, NEW i, InstGood(S, Q, i),
         IsInst(i)
  PROVE  /\ ElemsAligned(S, i) => ElemsAligned(T, i)
         /\ \A n : ElemsAligned(S, i) /\ ElemsDropped(S, i, n) => ElemsDropped(T, i, n)
         /\ \A n : DatasAligned(i) /\ DatasDropped(S, i, n) => DatasDropped(T, i, n)
<1>1. \A k \in DOMAIN i.elems : i.elems[k] \in DOMAIN S.elems
  BY DEF InstGood, ElemGood
<1>2. \A k \in DOMAIN i.datas : i.datas[k] \in DOMAIN S.datas
  BY DEF InstGood, DataGood
<1>3. IsList(i.elems) /\ IsList(i.datas) /\ IsList(i.mod.elems) /\ IsList(i.mod.datas)
  BY ModulesAssumption DEF IsInst, IsModule
<1>4. Len(i.elems) = Len(i.mod.elems) => DOMAIN i.mod.elems = DOMAIN i.elems
  BY <1>3, ListFacts
<1>5. Len(i.datas) = Len(i.mod.datas) => DOMAIN i.mod.datas = DOMAIN i.datas
  BY <1>3, ListFacts
<1>6. ElemsAligned(S, i) => ElemsAligned(T, i)
  BY <1>1, <1>4 DEF ElemsAligned, Effects, ElemsKept
<1>7. ASSUME NEW n, ElemsAligned(S, i), ElemsDropped(S, i, n) PROVE ElemsDropped(T, i, n)
  BY <1>1, <1>4, <1>7 DEF ElemsAligned, ElemsDropped, Effects, ElemsKept
<1>8. ASSUME NEW n, DatasAligned(i), DatasDropped(S, i, n) PROVE DatasDropped(T, i, n)
  BY <1>2, <1>5, <1>8 DEF DatasAligned, DatasDropped, Effects, DatasKept
<1> QED
  BY <1>6, <1>7, <1>8

LEMMA TypesStay ==
  ASSUME NEW S, NEW T, NEW R, Effects(S, T, R), NEW Q, NEW i, InstGood(S, Q, i)
  PROVE  /\ GlobalsKnown(S, i) => GlobalsKnown(T, i)
         /\ TablesKnown(S, i) => TablesKnown(T, i)
<1>1. \A k \in DOMAIN i.globals : i.globals[k] \in DOMAIN S.globals
  BY DEF InstGood, GlobalGood
<1>2. \A k \in DOMAIN i.tables : i.tables[k] \in DOMAIN S.tables
  BY DEF InstGood, TableGood
<1>3. GlobalsKnown(S, i) => GlobalsKnown(T, i)
  BY <1>1 DEF GlobalsKnown, Effects, GlobalsKept
<1>4. TablesKnown(S, i) => TablesKnown(T, i)
  BY <1>2 DEF TablesKnown, Effects, TablesKept
<1> QED
  BY <1>3, <1>4

(* A registered module stays good.                                         *)
LEMMA EntryStays ==
  ASSUME NEW S, NEW T, NEW R, NEW U, Effects(S, T, R), R \subseteq U,
         Ordinary(S), Ordinary(T), NEW e, EntryGood(S, R, e)
  PROVE  /\ EntryGood(T, U, e)
         /\ Given(S, e) => Given(T, e)
<1>1. ExportsGood(T, U, e.exports)
  BY InstStays DEF EntryGood
<1>2. CASE IsHostEntry(e)
  <2>1. e.kind # "wasm"
    BY <1>2 DEF IsHostEntry
  <2> QED
    BY <1>1, <1>2, <2>1 DEF EntryGood, Given
<1>3. CASE /\ IsInst(e) /\ InstGood(S, R, e) /\ LinkedGood(S, e)
           /\ ElemsAligned(S, e) /\ DatasAligned(e)
  <2>1. InstGood(T, U, e)
    BY <1>3, InstStays
  <2>2. LinkedGood(T, e)
    BY <1>3, LinksStay DEF IsInst
  <2>3. ElemsAligned(T, e)
    BY <1>3, SegmentsStay
  <2>4. Given(S, e) => Given(T, e)
    BY <1>3, SegmentsStay DEF Given
  <2> QED
    BY <1>1, <1>3, <2>1, <2>2, <2>3, <2>4 DEF EntryGood
<1> QED
  BY <1>2, <1>3 DEF EntryGood

-----------------------------------------------------------------------------
(* The invariant.                                                          *)

IsTable(r) == /\ r = [elem |-> r.elem, max |-> r.max, refs |-> r.refs]
              /\ IsList(r.refs) /\ \A j \in DOMAIN r.refs : r.refs[j].t = r.elem
              /\ r.max \in Nat \cup {NoMax} /\ WithinMax(Len(r.refs), r.max)
IsMem(r) == /\ r = [size |-> r.size, max |-> r.max]
            /\ r.size \in Nat /\ r.max \in Nat \cup {NoMax} /\ WithinMax(r.size, r.max)
IsGlobal(r) == /\ r = [type |-> r.type, mut |-> r.mut, value |-> r.value]
               /\ r.value.t = r.type
IsElem(r) == /\ r = [elem |-> r.elem, refs |-> r.refs]
             /\ \A j \in DOMAIN r.refs : r.refs[j].t = r.elem
IsData(r) == r = [len |-> r.len]

StoreOK(S) ==
  /\ IsList(S.funcs)
  /\ IsList(S.tables) /\ \A a \in DOMAIN S.tables : IsTable(S.tables[a])
  /\ IsList(S.mems) /\ \A a \in DOMAIN S.mems : IsMem(S.mems[a])
  /\ IsList(S.globals) /\ \A a \in DOMAIN S.globals : IsGlobal(S.globals[a])
  /\ IsList(S.elems) /\ \A a \in DOMAIN S.elems : IsElem(S.elems[a])
  /\ IsList(S.datas) /\ \A a \in DOMAIN S.datas : IsData(S.datas[a])

RegistryOK ==
  /\ nextHandle \in Nat
  /\ DOMAIN map \subseteq 0 .. nextHandle - 1
  /\ \A n \in DOMAIN names : names[n] \in DOMAIN map
  /\ handles \subseteq DOMAIN map

EntriesOK == \A h \in DOMAIN map : EntryGood(Store, Wasms, map[h])
HandlesOK == \A h \in handles : Given(Store, map[h])

Unregistered == {"imports", "funcs", "globals", "tables", "elems", "mems",
                 "exports", "datas", "register"}
Registering  == {"init_elems", "init_datas", "start"}

IsLoad(l) ==
  /\ l = [phase |-> l.phase, mod |-> l.mod, h |-> l.h, k |-> l.k]
  /\ l.phase \in Unregistered \cup Registering
  /\ l.mod \in Modules /\ ModuleValid(l.mod)
  /\ l.k \in Nat \ {0}
LoadOK ==
  \/ load = Idle
  \/ /\ IsLoad(load) /\ load.h \in 0 .. nextHandle - 1
     /\ load.phase \in Unregistered => load.h \notin DOMAIN map
     /\ load.phase \in Registering => load.h \in DOMAIN map /\ map[load.h] = inst

(* How many items an instance has: the imports, and its own ones once the  *)
(* phase that allocates them is over.                                      *)
Own(ph, waits, s) == IF ph \in waits THEN 0 ELSE Len(s)
Sized(i, ph) ==
  /\ Len(i.funcs) = Len(OfKind(i.mod, "func")) + Own(ph, {"funcs"}, i.mod.funcs)
  /\ Len(i.globals) = Len(OfKind(i.mod, "global"))
                        + Own(ph, {"funcs", "globals"}, i.mod.globals)
  /\ Len(i.tables) = Len(OfKind(i.mod, "table"))
                       + Own(ph, {"funcs", "globals", "tables"}, i.mod.tables)
  /\ Len(i.mems) = Len(OfKind(i.mod, "mem"))
       + Own(ph, {"funcs", "globals", "tables", "elems", "mems"}, i.mod.mems)

SegmentsBuilt(S, i, l) ==
  /\ l.phase \notin {"funcs", "globals", "tables", "elems"} =>
       ElemsAligned(S, i) /\ ElemsDropped(S, i, 1)
  /\ l.phase \in {"register"} \cup Registering => DatasAligned(i)
  /\ l.phase = "init_elems" => ElemsDropped(S, i, l.k)
  /\ l.phase \in {"init_datas", "start"} => ElemsDropped(S, i, Len(i.mod.elems) + 1)
  /\ l.phase = "init_datas" => DatasDropped(S, i, l.k)
  /\ l.phase = "start" => DatasDropped(S, i, Len(i.mod.datas) + 1)

(* The instance i that the load l has built so far.                        *)
Built(S, R, l, i) ==
  /\ IsInst(i) /\ i.mod = l.mod
  /\ InstGood(S, R, i) /\ ExportsGood(S, R, i.exports)
  /\ LinkedGood(S, i) /\ GlobalsKnown(S, i) /\ TablesKnown(S, i)
  /\ Sized(i, l.phase) /\ SegmentsBuilt(S, i, l)

Building == load.phase \notin {"idle", "imports"}
InstOK == Building => Built(Store, Wasms \cup {load.h}, load, inst)

LInv == StoreOK(Store) /\ RegistryOK /\ EntriesOK /\ HandlesOK /\ LoadOK /\ InstOK

-----------------------------------------------------------------------------
(* Steps in general.                                                       *)

LEMMA StoreFields ==
  /\ Store.funcs = funcs /\ Store.tables = tables /\ Store.mems = mems
  /\ Store.globals = globals /\ Store.elems = elems /\ Store.datas = datas
BY DEF Store

LEMMA StoreFieldsNext ==
  /\ Store'.funcs = funcs' /\ Store'.tables = tables' /\ Store'.mems = mems'
  /\ Store'.globals = globals' /\ Store'.elems = elems' /\ Store'.datas = datas'
BY DEF Store

LEMMA OKIsOrdinary ==
  ASSUME NEW S, StoreOK(S)
  PROVE  Ordinary(S)
<1>1. \A a \in DOMAIN S.tables : Len(S.tables[a].refs) \in Nat
  BY ListFacts DEF StoreOK, IsTable
<1>2. \A a \in DOMAIN S.mems : S.mems[a].size \in Nat
  BY DEF StoreOK, IsMem
<1> QED
  BY <1>1, <1>2 DEF Ordinary

(* A store that does not change.                                           *)
LEMMA SameEffects ==
  ASSUME NEW S, NEW R, Ordinary(S)
  PROVE  Effects(S, S, R)
<1>1. FuncsKept(S, S)
  BY DEF FuncsKept
<1>2. TablesKept(S, S, R)
  BY DEF TablesKept, RefsFrom, Ordinary
<1>3. MemsKept(S, S)
  BY DEF MemsKept, Ordinary
<1>4. GlobalsKept(S, S, R)
  BY DEF GlobalsKept
<1>5. ElemsKept(S, S)
  BY DEF ElemsKept
<1>6. DatasKept(S, S)
  BY DEF DatasKept
<1> QED
  BY <1>1, <1>2, <1>3, <1>4, <1>5, <1>6 DEF Effects

LEMMA UnchangedStore ==
  ASSUME UNCHANGED store
  PROVE  Store' = Store
BY DEF store, Store

(* Modules stay registered and good while more are registered.             *)
LEMMA EntriesStay ==
  ASSUME LInv, Effects(Store, Store', Wasms), StoreOK(Store'),
         \A h \in DOMAIN map : h \in DOMAIN map' /\ map'[h].kind = map[h].kind,
         \A h \in DOMAIN map' : \/ h \in DOMAIN map /\ map'[h] = map[h]
                                \/ EntryGood(Store', Wasms', map'[h])
  PROVE  EntriesOK' /\ Wasms \subseteq Wasms'
<1>1. Wasms \subseteq Wasms'
  BY DEF Wasms
<1>2. Ordinary(Store) /\ Ordinary(Store')
  BY OKIsOrdinary DEF LInv
<1>3. ASSUME NEW h \in DOMAIN map', h \in DOMAIN map, map'[h] = map[h]
      PROVE  EntryGood(Store', Wasms', map'[h])
  <2>1. EntryGood(Store, Wasms, map[h])
    BY <1>3 DEF LInv, EntriesOK
  <2> QED
    BY <1>1, <1>2, <1>3, <2>1, EntryStays
<1>4. \A h \in DOMAIN map' : EntryGood(Store', Wasms', map'[h])
  BY <1>3
<1> QED
  BY <1>1, <1>4 DEF EntriesOK

LEMMA HandlesStay ==
  ASSUME LInv, Effects(Store, Store', Wasms), StoreOK(Store'),
         NEW h \in handles, map'[h] = map[h]
  PROVE  Given(Store', map'[h])
<1>1. h \in DOMAIN map
  BY DEF LInv, RegistryOK
<1>2. Ordinary(Store) /\ Ordinary(Store')
  BY OKIsOrdinary DEF LInv
<1>3. EntryGood(Store, Wasms, map[h]) /\ Given(Store, map[h])
  BY <1>1 DEF LInv, EntriesOK, HandlesOK
<1>4. Given(Store', map[h])
  BY <1>2, <1>3, EntryStays
<1> QED
  BY <1>4

(* What has been built stays built.                                        *)
LEMMA BuiltStays ==
  ASSUME NEW S, NEW T, NEW R, NEW Q, NEW U, Effects(S, T, R), R \subseteq Q, Q \subseteq U,
         Ordinary(S), Ordinary(T), NEW l, NEW i, Built(S, Q, l, i)
  PROVE  Built(T, U, l, i)
<1>1. IsInst(i) /\ InstGood(S, Q, i)
  BY DEF Built
<1>2. InstGood(T, U, i) /\ ExportsGood(T, U, i.exports)
  BY InstStays DEF Built
<1>3. LinkedGood(T, i)
  BY <1>1, LinksStay DEF Built, IsInst
<1>4. GlobalsKnown(T, i) /\ TablesKnown(T, i)
  BY <1>1, TypesStay DEF Built
<1>5. SegmentsBuilt(T, i, l)
  <2>1. /\ ElemsAligned(S, i) => ElemsAligned(T, i)
        /\ \A n : ElemsAligned(S, i) /\ ElemsDropped(S, i, n) => ElemsDropped(T, i, n)
        /\ \A n : DatasAligned(i) /\ DatasDropped(S, i, n) => DatasDropped(T, i, n)
    BY <1>1, SegmentsStay
  <2>2. SegmentsBuilt(S, i, l)
    BY DEF Built
  <2> QED
    BY <2>1, <2>2 DEF SegmentsBuilt, Registering
<1> QED
  BY <1>2, <1>3, <1>4, <1>5 DEF Built

(* Code that runs changes the store and nothing else.                      *)
LEMMA StoreStep ==
  ASSUME LInv, Effects(Store, Store', Wasms), StoreOK(Store'),
         UNCHANGED <<names, map, nextHandle, handles, load, inst>>
  PROVE  LInv'
<1>1. EntriesOK'
  BY EntriesStay
<1>2. HandlesOK'
  BY HandlesStay DEF HandlesOK
<1>3. RegistryOK' /\ LoadOK'
  BY DEF LInv, RegistryOK, LoadOK
<1>4. Wasms' = Wasms
  BY DEF Wasms
<1>5. InstOK'
  <2> SUFFICES ASSUME Building PROVE Built(Store', Wasms \cup {load.h}, load, inst)
    BY <1>4 DEF InstOK, Building
  <2>1. Built(Store, Wasms \cup {load.h}, load, inst)
    BY DEF LInv, InstOK
  <2>2. Ordinary(Store) /\ Ordinary(Store')
    BY OKIsOrdinary DEF LInv
  <2> QED
    BY <2>1, <2>2, BuiltStays
<1> QED
  BY <1>1, <1>2, <1>3, <1>5 DEF LInv

Stage(q) == [phase |-> q, mod |-> load.mod, h |-> load.h, k |-> 1]

LEMMA AfterIsNext ==
  ASSUME IsLoad(load)
  PROVE  /\ In("imports") => After = Stage("funcs")
         /\ In("funcs") => After = Stage("globals")
         /\ In("globals") => After = Stage("tables")
         /\ In("tables") => After = Stage("elems")
         /\ In("elems") => After = Stage("mems")
         /\ In("mems") => After = Stage("exports")
         /\ In("exports") => After = Stage("datas")
         /\ In("datas") => After = Stage("register")
         /\ In("register") => After = Stage("init_elems")
         /\ In("init_elems") => After = Stage("init_datas")
         /\ In("init_datas") => After = Stage("start")
<1> DEFINE rank(s) ==
           IF s = "imports" THEN 1 ELSE IF s = "funcs" THEN 2 ELSE 
             IF s = "globals" THEN 3 ELSE IF s = "tables" THEN 4 ELSE 
             IF s = "elems" THEN 5 ELSE IF s = "mems" THEN 6 ELSE 
             IF s = "exports" THEN 7 ELSE IF s = "datas" THEN 8 ELSE 
             IF s = "register" THEN 9 ELSE IF s = "init_elems" THEN 10 ELSE 
             IF s = "init_datas" THEN 11 ELSE 12
<1>1. DOMAIN Phases = 1 .. 12
  BY DEF Phases
<1>2. /\ Phases[1] = "imports" /\ Phases[2] = "funcs" /\ Phases[3] = "globals"
      /\ Phases[4] = "tables" /\ Phases[5] = "elems" /\ Phases[6] = "mems"
      /\ Phases[7] = "exports" /\ Phases[8] = "datas" /\ Phases[9] = "register"
      /\ Phases[10] = "init_elems" /\ Phases[11] = "init_datas" /\ Phases[12] = "start"
  BY DEF Phases
<1>3. /\ rank("imports") = 1 /\ rank("funcs") = 2 /\ rank("globals") = 3
      /\ rank("tables") = 4 /\ rank("elems") = 5 /\ rank("mems") = 6
      /\ rank("exports") = 7 /\ rank("datas") = 8 /\ rank("register") = 9
      /\ rank("init_elems") = 10 /\ rank("init_datas") = 11 /\ rank("start") = 12
  OBVIOUS
<1> HIDE DEF rank
<1>4. ASSUME NEW p \in 1 .. 12
      PROVE  rank(Phases[p]) = p
  <2>1. p \in {1, 2, 3, 4, 5, 6, 7, 8, 9, 10, 11, 12}
    OBVIOUS
  <2> QED
    BY <1>2, <1>3, <2>1
<1>5. ASSUME NEW p \in 1 .. 11, NEW n, n = p + 1, load.phase = Phases[p]
      PROVE  After = Stage(Phases[n])
  <2> DEFINE c == CHOOSE q \in DOMAIN Phases : Phases[q] = load.phase
  <2>1. p \in DOMAIN Phases /\ p \in 1 .. 12
    BY <1>1
  <2>2. c \in DOMAIN Phases /\ Phases[c] = load.phase
    BY <1>5, <2>1, Zenon
  <2>3. After = [load EXCEPT !.phase = Phases[c + 1], !.k = 1]
    BY DEF After
  <2> HIDE DEF c
  <2>4. c = p
    BY <1>1, <1>4, <1>5, <2>1, <2>2, Zenon
  <2>5. After = [load EXCEPT !.phase = Phases[n], !.k = 1]
    BY <1>5, <2>3, <2>4, Zenon
  <2> QED
    BY <2>5 DEF IsLoad, Stage
<1>6. In("imports") => After = Stage("funcs")
  <2>1. 1 \in 1 .. 11 /\ 2 = 1 + 1
    OBVIOUS
  <2> QED
    BY <1>2, <1>5, <2>1 DEF In
<1>7. In("funcs") => After = Stage("globals")
  <2>1. 2 \in 1 .. 11 /\ 3 = 2 + 1
    OBVIOUS
  <2> QED
    BY <1>2, <1>5, <2>1 DEF In
<1>8. In("globals") => After = Stage("tables")
  <2>1. 3 \in 1 .. 11 /\ 4 = 3 + 1
    OBVIOUS
  <2> QED
    BY <1>2, <1>5, <2>1 DEF In
<1>9. In("tables") => After = Stage("elems")
  <2>1. 4 \in 1 .. 11 /\ 5 = 4 + 1
    OBVIOUS
  <2> QED
    BY <1>2, <1>5, <2>1 DEF In
<1>10. In("elems") => After = Stage("mems")
  <2>1. 5 \in 1 .. 11 /\ 6 = 5 + 1
    OBVIOUS
  <2> QED
    BY <1>2, <1>5, <2>1 DEF In
<1>11. In("mems") => After = Stage("exports")
  <2>1. 6 \in 1 .. 11 /\ 7 = 6 + 1
    OBVIOUS
  <2> QED
    BY <1>2, <1>5, <2>1 DEF In
<1>12. In("exports") => After = Stage("datas")
  <2>1. 7 \in 1 .. 11 /\ 8 = 7 + 1
    OBVIOUS
  <2> QED
    BY <1>2, <1>5, <2>1 DEF In
<1>13. In("datas") => After = Stage("register")
  <2>1. 8 \in 1 .. 11 /\ 9 = 8 + 1
    OBVIOUS
  <2> QED
    BY <1>2, <1>5, <2>1 DEF In
<1>14. In("register") => After = Stage("init_elems")
  <2>1. 9 \in 1 .. 11 /\ 10 = 9 + 1
    OBVIOUS
  <2> QED
    BY <1>2, <1>5, <2>1 DEF In
<1>15. In("init_elems") => After = Stage("init_datas")
  <2>1. 10 \in 1 .. 11 /\ 11 = 10 + 1
    OBVIOUS
  <2> QED
    BY <1>2, <1>5, <2>1 DEF In
<1>16. In("init_datas") => After = Stage("start")
  <2>1. 11 \in 1 .. 11 /\ 12 = 11 + 1
    OBVIOUS
  <2> QED
    BY <1>2, <1>5, <2>1 DEF In
<1> QED
  BY <1>6, <1>7, <1>8, <1>9, <1>10, <1>11, <1>12, <1>13, <1>14, <1>15, <1>16

-----------------------------------------------------------------------------
(* Modules.                                                                *)

LEMMA PicksFacts ==
  ASSUME NEW m \in Modules, NEW kind
  PROVE  /\ IsList(Picks(m, kind))
         /\ \A x \in DOMAIN Picks(m, kind) :
              /\ Picks(m, kind)[x] \in DOMAIN m.imports
              /\ m.imports[Picks(m, kind)[x]].desc.kind = kind
<1> DEFINE P == {k \in DOMAIN m.imports : m.imports[k].desc.kind = kind}
<1>1. IsList(m.imports)
  BY ModulesAssumption DEF IsModule
<1>2. DOMAIN m.imports = 1 .. Len(m.imports) /\ Len(m.imports) \in Nat
  BY <1>1, ListFacts
<1>3. P \in SUBSET Nat /\ P \subseteq 1 .. Len(m.imports)
  BY <1>2
<1>4. IsFiniteSet(P)
  <2>1. IsFiniteSet(1 .. Len(m.imports))
    BY <1>2, FS_Interval
  <2> HIDE DEF P
  <2> QED
    BY <1>3, <2>1, FS_Subset
<1>5. Picks(m, kind) = Ordered(P)
  BY DEF Picks
<1>6. /\ IsList(Ordered(P)) /\ \A x \in DOMAIN Ordered(P) : Ordered(P)[x] \in P
  <2> HIDE DEF P
  <2> QED
    BY <1>3, <1>4, OrderedIn
<1>7. \A k \in P : k \in DOMAIN m.imports /\ m.imports[k].desc.kind = kind
  OBVIOUS
<1> HIDE DEF P
<1> QED
  BY <1>5, <1>6, <1>7

LEMMA OfKindFacts ==
  ASSUME NEW m \in Modules, NEW kind
  PROVE  /\ IsList(OfKind(m, kind)) /\ Len(OfKind(m, kind)) \in Nat
         /\ DOMAIN OfKind(m, kind) = 1 .. Len(OfKind(m, kind))
         /\ DOMAIN OfKind(m, kind) = DOMAIN Picks(m, kind)
         /\ \A x \in DOMAIN OfKind(m, kind) :
              OfKind(m, kind)[x] = m.imports[Picks(m, kind)[x]]
<1> DEFINE p == Picks(m, kind)
<1>1. IsList(p)
  BY PicksFacts
<1>2. Len(p) \in Nat /\ DOMAIN p = 1 .. Len(p)
  BY <1>1, ListFacts
<1>3. OfKind(m, kind) = [k \in DOMAIN p |-> m.imports[p[k]]]
  BY DEF OfKind
<1> HIDE DEF p
<1> DEFINE o == OfKind(m, kind)
<1> HIDE DEF o
<1>4. o = [k \in 1 .. Len(p) |-> o[k]] /\ DOMAIN o = DOMAIN p
      /\ \A x \in DOMAIN o : o[x] = m.imports[p[x]]
  BY <1>2, <1>3 DEF o
<1>5. IsList(o) /\ Len(o) = Len(p)
  BY <1>2, <1>4, FunctionIsList
<1> QED
  BY <1>2, <1>4, <1>5 DEF o, p

(* The addresses of the linked items of a kind follow the imports of it.   *)
LEMMA AddrsFacts ==
  ASSUME NEW m \in Modules, NEW evs, NEW kind, DOMAIN evs = DOMAIN m.imports,
         \A k \in DOMAIN m.imports : evs[k].kind = m.imports[k].desc.kind
  PROVE  /\ IsList(Addrs(evs, kind)) /\ Len(Addrs(evs, kind)) = Len(OfKind(m, kind))
         /\ DOMAIN Addrs(evs, kind) = DOMAIN OfKind(m, kind)
         /\ \A x \in DOMAIN OfKind(m, kind) :
              Addrs(evs, kind)[x] = evs[Picks(m, kind)[x]].addr
<1> DEFINE p == Picks(m, kind)
           P == {k \in DOMAIN m.imports : m.imports[k].desc.kind = kind}
           E == {k \in DOMAIN evs : evs[k].kind = kind}
           a == Addrs(evs, kind)
<1>1. E = P
  OBVIOUS
<1>2. Ordered(E) = p
  BY <1>1, Zenon DEF Picks
<1>3. a = [k \in DOMAIN p |-> evs[p[k]].addr]
  BY <1>2, Zenon DEF Addrs
<1>4. /\ DOMAIN p = 1 .. Len(OfKind(m, kind)) /\ DOMAIN p = DOMAIN OfKind(m, kind)
      /\ Len(OfKind(m, kind)) \in Nat
  BY OfKindFacts
<1> HIDE DEF p, E, P, a
<1>5. /\ a = [k \in 1 .. Len(OfKind(m, kind)) |-> a[k]]
      /\ DOMAIN a = DOMAIN OfKind(m, kind)
      /\ \A x \in DOMAIN OfKind(m, kind) : a[x] = evs[p[x]].addr
  BY <1>3, <1>4
<1>6. IsList(a) /\ Len(a) = Len(OfKind(m, kind))
  BY <1>4, <1>5, FunctionIsList
<1> QED
  BY <1>5, <1>6 DEF a, p

LEMMA TableTypes ==
  ASSUME NEW m \in Modules
  PROVE  /\ \A x \in 1 .. Len(OfKind(m, "table")) :
              TableTypeAt(m, x - 1) = OfKind(m, "table")[x].desc.elem
         /\ \A x \in 1 .. Len(m.tables) :
              TableTypeAt(m, Len(OfKind(m, "table")) + x - 1) = m.tables[x].elem
<1> DEFINE o == OfKind(m, "table")
           A == [k \in DOMAIN o |-> o[k].desc.elem]
           B == [k \in DOMAIN m.tables |-> m.tables[k].elem]
<1>1. Len(o) \in Nat /\ DOMAIN o = 1 .. Len(o)
  BY OfKindFacts
<1>2. Len(m.tables) \in Nat /\ DOMAIN m.tables = 1 .. Len(m.tables)
  BY ModulesAssumption, ListFacts DEF IsModule
<1>3. \A x : TableTypeAt(m, x) = (A \o B)[x + 1]
  BY DEF TableTypeAt, At
<1> HIDE DEF o
<1>4. /\ A = [k \in 1 .. Len(o) |-> A[k]] /\ B = [k \in 1 .. Len(m.tables) |-> B[k]]
      /\ \A k \in 1 .. Len(o) : A[k] = o[k].desc.elem
      /\ \A k \in 1 .. Len(m.tables) : B[k] = m.tables[k].elem
      /\ DOMAIN A = 1 .. Len(o) /\ DOMAIN B = 1 .. Len(m.tables)
  BY <1>1, <1>2
<1> HIDE DEF A, B
<1>5. IsList(A) /\ IsList(B) /\ Len(A) = Len(o) /\ Len(B) = Len(m.tables)
  BY <1>1, <1>2, <1>4, FunctionIsList
<1>6. Joined(A, B, A \o B)
  BY <1>5, ConcatJoins
<1>7. ASSUME NEW x \in 1 .. Len(o) PROVE TableTypeAt(m, x - 1) = o[x].desc.elem
  <2>1. x - 1 + 1 = x
    OBVIOUS
  <2>2. (A \o B)[x] = A[x]
    BY <1>4, <1>6 DEF Joined
  <2> QED
    BY <1>3, <1>4, <2>1, <2>2
<1>8. ASSUME NEW x \in 1 .. Len(m.tables)
      PROVE  TableTypeAt(m, Len(o) + x - 1) = m.tables[x].elem
  <2>1. Len(o) + x - 1 + 1 = Len(o) + x
    BY <1>1
  <2>2. (A \o B)[Len(o) + x] = B[x]
    BY <1>4, <1>5, <1>6 DEF Joined
  <2> QED
    BY <1>3, <1>4, <2>1, <2>2
<1> QED
  BY <1>7, <1>8 DEF o

(* The segments and tables of a module are lists.                          *)
LEMMA ModuleLists ==
  ASSUME NEW m \in Modules
  PROVE  /\ Len(m.imports) \in Nat /\ DOMAIN m.imports = 1 .. Len(m.imports)
         /\ Len(m.funcs) \in Nat /\ DOMAIN m.funcs = 1 .. Len(m.funcs)
         /\ Len(m.tables) \in Nat /\ DOMAIN m.tables = 1 .. Len(m.tables)
         /\ Len(m.mems) \in Nat /\ DOMAIN m.mems = 1 .. Len(m.mems)
         /\ Len(m.globals) \in Nat /\ DOMAIN m.globals = 1 .. Len(m.globals)
         /\ Len(m.elems) \in Nat /\ DOMAIN m.elems = 1 .. Len(m.elems)
         /\ Len(m.datas) \in Nat /\ DOMAIN m.datas = 1 .. Len(m.datas)
BY ModulesAssumption, ListFacts DEF IsModule

-----------------------------------------------------------------------------
(* Initial states, and steps that leave the store alone.                   *)

LEMMA InitInv ==
  ASSUME Init
  PROVE  LInv
<1>1. IsList(<<>>) /\ DOMAIN <<>> = {}
  <2>1. <<>> \in Seq({})
    OBVIOUS
  <2>2. IsList(<<>>)
    BY <2>1, SeqIsList
  <2>3. DOMAIN <<>> = {}
    OBVIOUS
  <2> QED
    BY <2>2, <2>3
<1>2. DOMAIN NoExports = {}
  BY DEF NoExports
<1>3. StoreOK(Store)
  BY <1>1, StoreFields DEF Init, StoreOK
<1>4. RegistryOK
  BY <1>2 DEF Init, RegistryOK
<1>5. EntriesOK /\ HandlesOK
  BY <1>2 DEF Init, EntriesOK, HandlesOK
<1>6. LoadOK /\ ~Building
  BY DEF Init, LoadOK, Building, Idle
<1> QED
  BY <1>3, <1>4, <1>5, <1>6 DEF LInv, InstOK

LEMMA QuietStep ==
  ASSUME LInv, UNCHANGED store, UNCHANGED map, handles' \subseteq handles
  PROVE  /\ StoreOK(Store') /\ EntriesOK' /\ HandlesOK'
         /\ Wasms' = Wasms /\ Store' = Store
         /\ Effects(Store, Store', Wasms) /\ Ordinary(Store)
<1>1. Store' = Store /\ StoreOK(Store') /\ Ordinary(Store)
  BY UnchangedStore, OKIsOrdinary DEF LInv
<1>2. Effects(Store, Store', Wasms)
  BY <1>1, SameEffects
<1>3. EntriesOK'
  BY <1>1, <1>2, EntriesStay
<1>4. HandlesOK'
  BY <1>1, <1>2, HandlesStay DEF HandlesOK
<1>5. Wasms' = Wasms
  BY DEF Wasms
<1> QED
  BY <1>1, <1>2, <1>3, <1>4, <1>5

(* A load ends: whatever there was to find stays good.                     *)
LEMMA AbortStep ==
  ASSUME LInv, load' = Idle, UNCHANGED <<names, map, nextHandle, handles>>, UNCHANGED store
  PROVE  LInv'
<1>1. StoreOK(Store') /\ EntriesOK' /\ HandlesOK'
  BY QuietStep
<1>2. RegistryOK' /\ LoadOK'
  BY DEF LInv, RegistryOK, LoadOK
<1>3. InstOK'
  BY DEF InstOK, Building, Idle
<1> QED
  BY <1>1, <1>2, <1>3 DEF LInv

LEMMA ReserveStep ==
  ASSUME LInv, NEW m \in Modules, Reserve(m)
  PROVE  LInv'
<1>1. StoreOK(Store') /\ EntriesOK' /\ HandlesOK'
  BY QuietStep DEF Reserve
<1>2. nextHandle \in Nat /\ nextHandle' = nextHandle + 1 /\ DOMAIN map \subseteq 0 .. nextHandle - 1
  BY DEF LInv, RegistryOK, Reserve
<1>3. RegistryOK'
  BY <1>2 DEF LInv, RegistryOK, Reserve
<1>4. /\ load' = [phase |-> "imports", mod |-> m, h |-> nextHandle, k |-> 1]
      /\ ModuleValid(m)
  BY DEF Reserve
<1>5. /\ load'.phase = "imports" /\ load'.mod = m /\ load'.h = nextHandle /\ load'.k = 1
      /\ load' = [phase |-> load'.phase, mod |-> load'.mod, h |-> load'.h, k |-> load'.k]
  BY <1>4
<1>6. IsLoad(load')
  BY <1>4, <1>5 DEF IsLoad, Unregistered
<1>7. load'.h \in 0 .. nextHandle' - 1 /\ load'.h \notin DOMAIN map'
  <2>1. map' = map
    BY DEF Reserve
  <2> QED
    BY <1>2, <1>5, <2>1
<1>8. LoadOK'
  BY <1>5, <1>6, <1>7 DEF LoadOK, Registering
<1>9. InstOK'
  BY <1>5 DEF InstOK, Building
<1> QED
  BY <1>1, <1>3, <1>8, <1>9 DEF LInv

LEMMA NameStep ==
  ASSUME LInv, NEW n, NEW h \in handles, RegisterName(n, h)
  PROVE  LInv'
<1>1. /\ StoreOK(Store') /\ EntriesOK' /\ HandlesOK' /\ Wasms' = Wasms /\ Store' = Store
  BY QuietStep DEF RegisterName
<1>2. h \in DOMAIN map
  BY DEF LInv, RegistryOK
<1>3. RegistryOK'
  BY <1>2 DEF LInv, RegistryOK, RegisterName, Put
<1>4. LoadOK'
  BY DEF LInv, LoadOK, RegisterName
<1>5. InstOK'
  BY DEF RegisterName, In, InstOK, Building
<1> QED
  BY <1>1, <1>3, <1>4, <1>5 DEF LInv

-----------------------------------------------------------------------------
(* Phases that build the instance.                                         *)

Loading == load.phase \in Unregistered

LEMMA LoadFacts ==
  ASSUME LInv, load.phase \in Unregistered \cup Registering
  PROVE  /\ IsLoad(load) /\ load.h \in 0 .. nextHandle - 1
         /\ load.phase \in Unregistered => load.h \notin DOMAIN map
         /\ load.phase \in Registering => load.h \in DOMAIN map /\ map[load.h] = inst
         /\ M \in Modules /\ ModuleValid(M) /\ load.mod = M
<1>1. load.phase # "idle"
  BY DEF Unregistered, Registering
<1>2. load # Idle
  BY <1>1 DEF Idle
<1> QED
  BY <1>2 DEF LInv, LoadOK, IsLoad, M

(* A phase before the last but three leads to the next one.                *)
LEMMA BuildStep ==
  ASSUME LInv, Loading, Effects(Store, Store', Wasms), StoreOK(Store'),
         UNCHANGED <<names, map, nextHandle, handles>>,
         NEW q \in Unregistered, load' = Stage(q),
         q # "imports", Built(Store', Wasms \cup {load.h}, Stage(q), inst')
  PROVE  LInv'
<1>1. EntriesOK' /\ Wasms' = Wasms
  BY EntriesStay DEF Wasms
<1>2. HandlesOK'
  BY HandlesStay DEF HandlesOK
<1>3. RegistryOK'
  BY DEF LInv, RegistryOK
<1>4. /\ load'.phase = q /\ load'.mod = load.mod /\ load'.h = load.h /\ load'.k = 1
      /\ load' = [phase |-> load'.phase, mod |-> load'.mod, h |-> load'.h, k |-> load'.k]
  BY DEF Stage
<1>5. /\ IsLoad(load) /\ load.h \in 0 .. nextHandle - 1 /\ load.h \notin DOMAIN map
  BY LoadFacts DEF Loading
<1>6. IsLoad(load')
  BY <1>4, <1>5 DEF IsLoad
<1>7. load'.phase \notin Registering
  BY <1>4 DEF Unregistered, Registering
<1>8. LoadOK'
  BY <1>4, <1>5, <1>6, <1>7 DEF LoadOK
<1>9. Built(Store', Wasms' \cup {load'.h}, load', inst')
  BY <1>1, <1>4
<1>10. InstOK'
  BY <1>9 DEF InstOK
<1> QED
  BY <1>1, <1>2, <1>3, <1>8, <1>10 DEF LInv

(* Every item of s is in u, at its place.                                  *)
Extends(s, u) == \A a \in DOMAIN s : a \in DOMAIN u /\ u[a] = s[a]

LEMMA GrownEffects ==
  ASSUME NEW S, NEW T, NEW R, Ordinary(S),
         Extends(S.funcs, T.funcs), Extends(S.tables, T.tables),
         Extends(S.mems, T.mems), Extends(S.globals, T.globals),
         Extends(S.elems, T.elems), Extends(S.datas, T.datas)
  PROVE  Effects(S, T, R)
<1>1. FuncsKept(S, T)
  BY DEF FuncsKept, Extends
<1>2. TablesKept(S, T, R)
  BY DEF TablesKept, RefsFrom, Ordinary, Extends
<1>3. MemsKept(S, T)
  BY DEF MemsKept, Ordinary, Extends
<1>4. GlobalsKept(S, T, R)
  BY DEF GlobalsKept, Extends
<1>5. ElemsKept(S, T)
  BY DEF ElemsKept, Extends
<1>6. DatasKept(S, T)
  BY DEF DatasKept, Extends
<1> QED
  BY <1>1, <1>2, <1>3, <1>4, <1>5, <1>6 DEF Effects

LEMMA ExtendsFacts ==
  /\ \A s : Extends(s, s)
  /\ \A s, t, u : Joined(s, t, u) => Extends(s, u)
BY DEF Extends, Joined

(* What an import finds, of its declaration d.                             *)
LinksTo(S, R, e, d) ==
  /\ e.kind = d.kind
  /\ ItemGood(S, R, e.kind, e.addr)
  /\ LimitsKept(S, d, e.addr)
  /\ d.kind = "global" => S.globals[e.addr].type = d.type

LEMMA LinkableFacts ==
  ASSUME LInv, NEW i, Linkable(i)
  PROVE  LinksTo(Store, Wasms, Resolve(i.mod, i.name), i.desc)
<1> DEFINE e == Resolve(i.mod, i.name)
           h == names[i.mod]
<1>1. h \in DOMAIN map /\ i.name \in DOMAIN map[h].exports /\ e = map[h].exports[i.name]
  BY DEF Linkable, Resolves, Resolve, LInv, RegistryOK
<1>2. ExportsGood(Store, Wasms, map[h].exports)
  BY <1>1 DEF LInv, EntriesOK, EntryGood
<1>3. e.kind \in Kinds /\ ItemGood(Store, Wasms, e.kind, e.addr)
  BY <1>1, <1>2 DEF ExportsGood
<1>4. TypeMatches(TypeOf(e), i.desc)
  BY DEF Linkable
<1> HIDE DEF e, h
<1>5. TypeOf(e).kind = e.kind
  BY <1>3 DEF TypeOf, Kinds
<1>6. e.kind = i.desc.kind
  BY <1>4, <1>5 DEF TypeMatches
<1>7. ASSUME e.kind = "table"
      PROVE  /\ e.addr \in DOMAIN tables
             /\ tables[e.addr].elem = i.desc.elem
             /\ Len(tables[e.addr].refs) >= i.desc.min
             /\ MaxKept(tables[e.addr].max, i.desc.max)
  <2>1. TypeOf(e) = [kind |-> "table", elem |-> tables[e.addr].elem,
                     min |-> Len(tables[e.addr].refs), max |-> tables[e.addr].max]
    BY <1>7 DEF TypeOf
  <2>2. e.addr \in DOMAIN tables
    BY <1>3, <1>7, StoreFields DEF ItemGood, TableGood
  <2> QED
    BY <1>4, <1>6, <1>7, <2>1, <2>2 DEF TypeMatches, LimitMatches, MaxKept
<1>8. ASSUME e.kind = "mem"
      PROVE  /\ e.addr \in DOMAIN mems
             /\ mems[e.addr].size >= i.desc.min
             /\ MaxKept(mems[e.addr].max, i.desc.max)
  <2>1. TypeOf(e) = [kind |-> "mem", min |-> mems[e.addr].size,
                     max |-> mems[e.addr].max]
    BY <1>8 DEF TypeOf
  <2>2. e.addr \in DOMAIN mems
    BY <1>3, <1>8, StoreFields DEF ItemGood, MemGood
  <2> QED
    BY <1>4, <1>6, <1>8, <2>1, <2>2 DEF TypeMatches, LimitMatches, MaxKept
<1>9. LimitsKept(Store, i.desc, e.addr)
  BY <1>6, <1>7, <1>8, StoreFields DEF LimitsKept
<1>10. ASSUME e.kind = "global"
       PROVE  globals[e.addr].type = i.desc.type
  <2>1. TypeOf(e) = [kind |-> "global", type |-> globals[e.addr].type,
                     mut |-> globals[e.addr].mut]
    BY <1>10 DEF TypeOf
  <2>2. TypeOf(e) = i.desc
    BY <1>4, <1>10, <2>1 DEF TypeMatches
  <2> QED
    BY <2>1, <2>2
<1> QED
  BY <1>3, <1>6, <1>9, <1>10, StoreFields DEF LinksTo, e

LEMMA LinkStep ==
  ASSUME LInv, LinkImports
  PROVE  LInv'
<1> DEFINE evs == [k \in DOMAIN M.imports |-> Resolve(M.imports[k].mod, M.imports[k].name)]
           U == Wasms \cup {load.h}
<1>1. load.phase = "imports" /\ Loading
  BY DEF LinkImports, In, Loading, Unregistered
<1>2. IsLoad(load) /\ M \in Modules /\ load.mod = M
  BY <1>1, LoadFacts DEF Loading
<1>3. load' = Stage("funcs")
  BY <1>2, AfterIsNext DEF LinkImports
<1>4. /\ StoreOK(Store') /\ Store' = Store /\ Effects(Store, Store', Wasms)
      /\ Ordinary(Store)
  <2>1. UNCHANGED store /\ UNCHANGED map /\ handles' \subseteq handles
    BY DEF LinkImports, registry
  <2> QED
    BY <2>1, QuietStep
<1>5. inst' = [kind |-> "wasm", mod |-> M, linked |-> evs, exports |-> NoExports,
               funcs |-> Addrs(evs, "func"), tables |-> Addrs(evs, "table"),
               mems |-> Addrs(evs, "mem"), globals |-> Addrs(evs, "global"),
               elems |-> <<>>, datas |-> <<>>]
  BY DEF LinkImports
<1>6. \A k \in DOMAIN M.imports : LinksTo(Store, Wasms, evs[k], M.imports[k].desc)
  BY LinkableFacts DEF LinkImports
<1>7. DOMAIN evs = DOMAIN M.imports
  OBVIOUS
<1> HIDE DEF evs
<1>8. \A k \in DOMAIN M.imports : LinksTo(Store, U, evs[k], M.imports[k].desc)
  <2>1. \A kind, a : ItemGood(Store, Wasms, kind, a) => ItemGood(Store, U, kind, a)
    BY <1>4, ItemStays
  <2> QED
    BY <1>6, <2>1 DEF LinksTo
<1> HIDE DEF U
<1>9. \A k \in DOMAIN M.imports : evs[k].kind = M.imports[k].desc.kind
  BY <1>8 DEF LinksTo
<1>10. ASSUME NEW kind
       PROVE  /\ IsList(Addrs(evs, kind)) /\ Len(Addrs(evs, kind)) = Len(OfKind(M, kind))
              /\ DOMAIN Addrs(evs, kind) = DOMAIN OfKind(M, kind)
              /\ \A x \in DOMAIN OfKind(M, kind) :
                   \E k \in DOMAIN M.imports :
                     /\ M.imports[k].desc.kind = kind
                     /\ OfKind(M, kind)[x] = M.imports[k]
                     /\ Addrs(evs, kind)[x] = evs[k].addr
                     /\ LinksTo(Store, U, evs[k], M.imports[k].desc)
  <2>1. /\ IsList(Addrs(evs, kind)) /\ Len(Addrs(evs, kind)) = Len(OfKind(M, kind))
        /\ DOMAIN Addrs(evs, kind) = DOMAIN OfKind(M, kind)
        /\ \A x \in DOMAIN OfKind(M, kind) :
             Addrs(evs, kind)[x] = evs[Picks(M, kind)[x]].addr
    BY <1>2, <1>7, <1>9, AddrsFacts
  <2>2. \A x \in DOMAIN OfKind(M, kind) :
          /\ OfKind(M, kind)[x] = M.imports[Picks(M, kind)[x]]
          /\ Picks(M, kind)[x] \in DOMAIN M.imports
          /\ M.imports[Picks(M, kind)[x]].desc.kind = kind
    BY <1>2, OfKindFacts, PicksFacts
  <2> QED
    BY <1>8, <2>1, <2>2
<1>11. /\ inst'.kind = "wasm" /\ inst'.mod = M /\ inst'.linked = evs
       /\ inst'.exports = NoExports
       /\ inst'.funcs = Addrs(evs, "func") /\ inst'.tables = Addrs(evs, "table")
       /\ inst'.mems = Addrs(evs, "mem") /\ inst'.globals = Addrs(evs, "global")
       /\ inst'.elems = <<>> /\ inst'.datas = <<>>
       /\ inst' = [kind |-> "wasm", mod |-> inst'.mod, linked |-> inst'.linked,
                   exports |-> inst'.exports,
                   funcs |-> inst'.funcs, tables |-> inst'.tables, mems |-> inst'.mems,
                   globals |-> inst'.globals, elems |-> inst'.elems, datas |-> inst'.datas]
  BY <1>5
<1>12. IsList(<<>>) /\ DOMAIN <<>> = {} /\ DOMAIN NoExports = {}
  <2>1. <<>> \in Seq({})
    OBVIOUS
  <2>2. IsList(<<>>)
    BY <2>1, SeqIsList
  <2>3. DOMAIN <<>> = {}
    OBVIOUS
  <2> QED
    BY <2>2, <2>3 DEF NoExports
<1>13. IsInst(inst')
  BY <1>2, <1>10, <1>11, <1>12 DEF IsInst
<1>14. InstGood(Store, U, inst') /\ ExportsGood(Store, U, inst'.exports)
  <2>1. \A k \in DOMAIN inst'.funcs : FuncGood(Store, U, inst'.funcs[k])
    <3> TAKE k \in DOMAIN inst'.funcs
    <3>1. PICK j \in DOMAIN M.imports :
            /\ M.imports[j].desc.kind = "func"
            /\ Addrs(evs, "func")[k] = evs[j].addr
            /\ LinksTo(Store, U, evs[j], M.imports[j].desc)
      BY <1>10, <1>11
    <3> QED
      BY <1>11, <3>1 DEF LinksTo, ItemGood
  <2>2. \A k \in DOMAIN inst'.tables : TableGood(Store, U, inst'.tables[k])
    BY <1>10, <1>11 DEF LinksTo, ItemGood
  <2>3. \A k \in DOMAIN inst'.mems : MemGood(Store, inst'.mems[k])
    BY <1>10, <1>11 DEF LinksTo, ItemGood
  <2>4. \A k \in DOMAIN inst'.globals : GlobalGood(Store, U, inst'.globals[k])
    BY <1>10, <1>11 DEF LinksTo, ItemGood
  <2>5. DOMAIN inst'.elems = {} /\ DOMAIN inst'.datas = {} /\ DOMAIN inst'.exports = {}
    BY <1>11, <1>12
  <2> QED
    BY <2>1, <2>2, <2>3, <2>4, <2>5 DEF InstGood, ExportsGood
<1>15. LinkedGood(Store, inst')
  BY <1>7, <1>8, <1>11 DEF LinkedGood, LinksTo
<1>16. GlobalsKnown(Store, inst')
  BY <1>10, <1>11 DEF GlobalsKnown, LinksTo
<1>17. TablesKnown(Store, inst')
  <2> SUFFICES ASSUME NEW x \in DOMAIN inst'.tables
               PROVE  Store.tables[inst'.tables[x]].elem = TableTypeAt(M, x - 1)
    BY <1>11 DEF TablesKnown
  <2>1. x \in DOMAIN OfKind(M, "table") /\ x \in 1 .. Len(OfKind(M, "table"))
    BY <1>2, <1>10, <1>11, OfKindFacts
  <2>2. TableTypeAt(M, x - 1) = OfKind(M, "table")[x].desc.elem
    BY <1>2, <2>1, TableTypes
  <2>3. Store.tables[inst'.tables[x]].elem = OfKind(M, "table")[x].desc.elem
    BY <1>10, <1>11, <2>1 DEF LinksTo, LimitsKept
  <2> QED
    BY <2>2, <2>3
<1>18. Sized(inst', "funcs")
  <2>1. \A kind : Len(OfKind(M, kind)) \in Nat
    BY <1>2, OfKindFacts
  <2> QED
    BY <1>10, <1>11, <2>1 DEF Sized, Own
<1>19. SegmentsBuilt(Store, inst', Stage("funcs"))
  BY DEF SegmentsBuilt, Stage, Registering
<1>20. Built(Store, U, Stage("funcs"), inst')
  BY <1>2, <1>11, <1>13, <1>14, <1>15, <1>16, <1>17, <1>18, <1>19 DEF Built, Stage
<1>21. UNCHANGED <<names, map, nextHandle, handles>>
  BY DEF LinkImports, registry
<1>22. "funcs" \in Unregistered
  BY DEF Unregistered
<1> QED
  BY <1>1, <1>3, <1>4, <1>20, <1>21, <1>22, BuildStep DEF U

(* A valid constant expression finds what it names, of its type and good.  *)
LEMMA ConstantFacts ==
  ASSUME LInv, Building, load.phase # "funcs", NEW e, NEW t, IsExpr(e), ExprValid(M, e, t)
  PROVE  /\ Evaluates(e, t)
         /\ Eval(e).t = t
         /\ RefGood(Store, Wasms \cup {load.h}, Eval(e))
<1> DEFINE U == Wasms \cup {load.h}
<1>1. M \in Modules /\ load.mod = M /\ Built(Store, U, load, inst)
  BY DEF LInv, InstOK, Building, LoadOK, Idle, IsLoad, M
<1> HIDE DEF U
<1>2. IsInst(inst) /\ inst.mod = M /\ InstGood(Store, U, inst) /\ GlobalsKnown(Store, inst)
  BY <1>1 DEF Built
<1>3. CASE e.op = "const"
  <2>1. e.val.t = t /\ (e.val.t = "funcref" => e.val.v = 0)
    BY <1>3 DEF IsExpr, ExprValid
  <2>2. Eval(e) = e.val
    BY <1>3 DEF Eval
  <2>3. Evaluates(e, t)
    BY <1>3, <2>1 DEF Evaluates
  <2> QED
    BY <2>1, <2>2, <2>3 DEF RefGood
<1>4. CASE e.op = "ref.func"
  <2>1. e.x \in Nat /\ t = "funcref" /\ e.x < Count(M, "func")
    BY <1>4 DEF IsExpr, ExprValid
  <2>2. Count(M, "func") = Len(OfKind(M, "func")) + Len(M.funcs)
    BY DEF Count
  <2>3. Len(inst.funcs) = Len(OfKind(M, "func")) + Len(M.funcs)
    BY <1>1, <1>2 DEF Built, Sized, Own
  <2>4. Len(inst.funcs) \in Nat /\ DOMAIN inst.funcs = 1 .. Len(inst.funcs)
    BY <1>2, ListFacts DEF IsInst
  <2>5. e.x + 1 \in DOMAIN inst.funcs
    BY <2>1, <2>2, <2>3, <2>4
  <2>6. Eval(e) = FuncRef(inst.funcs[e.x + 1])
    BY <1>4 DEF Eval, At
  <2>7. FuncGood(Store, U, inst.funcs[e.x + 1])
    BY <1>2, <2>5 DEF InstGood
  <2>8. Evaluates(e, t)
    BY <1>4, <2>5 DEF Evaluates
  <2> QED
    BY <2>1, <2>6, <2>7, <2>8 DEF RefGood, FuncRef, U
<1>5. CASE e.op = "global.get"
  <2>1. /\ e.x \in Nat /\ e.x < Len(OfKind(M, "global"))
        /\ OfKind(M, "global")[e.x + 1].desc.type = t
    BY <1>5 DEF IsExpr, ExprValid, At
  <2>2. e.x + 1 \in DOMAIN OfKind(M, "global")
    <3>1. Len(OfKind(M, "global")) \in Nat
          /\ DOMAIN OfKind(M, "global") = 1 .. Len(OfKind(M, "global"))
      BY <1>1, OfKindFacts
    <3> QED
      BY <2>1, <3>1
  <2> DEFINE g == inst.globals[e.x + 1]
  <2>3. e.x + 1 \in DOMAIN inst.globals /\ globals[g].type = t
    BY <1>2, <2>1, <2>2, StoreFields DEF GlobalsKnown
  <2>4. g \in DOMAIN globals /\ RefGood(Store, U, globals[g].value)
    BY <1>2, <2>3, StoreFields DEF InstGood, GlobalGood
  <2>5. globals[g].value.t = t
    BY <2>3, <2>4, StoreFields DEF LInv, StoreOK, IsGlobal
  <2>6. Eval(e) = globals[g].value
    BY <1>5 DEF Eval, At
  <2>7. Evaluates(e, t)
    BY <1>5, <2>3, <2>5 DEF Evaluates, At
  <2> QED
    BY <2>4, <2>5, <2>6, <2>7 DEF U
<1> QED
  BY <1>3, <1>4, <1>5 DEF IsExpr

(* The addresses of n new items after s.                                   *)
LEMMA FreshFacts ==
  ASSUME NEW s, NEW t, NEW u, IsList(s), IsList(t), Joined(s, t, u)
  PROVE  /\ IsList(Fresh(s, Len(t))) /\ Len(Fresh(s, Len(t))) = Len(t)
         /\ DOMAIN Fresh(s, Len(t)) = DOMAIN t
         /\ \A k \in DOMAIN t : /\ Fresh(s, Len(t))[k] \in DOMAIN u
                                /\ u[Fresh(s, Len(t))[k]] = t[k]
<1> DEFINE f == Fresh(s, Len(t))
<1>1. Len(t) \in Nat /\ DOMAIN t = 1 .. Len(t) /\ Len(s) \in Nat
  BY ListFacts
<1>2. f = [k \in 1 .. Len(t) |-> Len(s) + k]
  BY DEF Fresh
<1> HIDE DEF f
<1>3. f = [k \in 1 .. Len(t) |-> f[k]] /\ DOMAIN f = 1 .. Len(t)
      /\ \A k \in 1 .. Len(t) : f[k] = Len(s) + k
  BY <1>2
<1>4. IsList(f) /\ Len(f) = Len(t)
  BY <1>1, <1>3, FunctionIsList
<1>5. \A k \in DOMAIN t : f[k] \in DOMAIN u /\ u[f[k]] = t[k]
  BY <1>1, <1>3 DEF Joined
<1> QED
  BY <1>1, <1>3, <1>4, <1>5 DEF f

(* What the instance and the load are in a phase after linking.            *)
LEMMA BuildingFacts ==
  ASSUME LInv, Loading, load.phase # "imports"
  PROVE  /\ Building /\ IsLoad(load) /\ M \in Modules /\ ModuleValid(M) /\ IsModule(M)
         /\ Built(Store, Wasms \cup {load.h}, load, inst)
         /\ IsInst(inst) /\ inst.mod = M /\ load.mod = M
         /\ Ordinary(Store) /\ StoreOK(Store)
<1>1. IsLoad(load) /\ M \in Modules /\ ModuleValid(M) /\ load.mod = M
  BY LoadFacts DEF Loading
<1>2. IsModule(M)
  BY <1>1, ModulesAssumption
<1>3. Building
  BY DEF Loading, Building, Unregistered
<1>4. Built(Store, Wasms \cup {load.h}, load, inst)
  BY <1>3 DEF LInv, InstOK
<1>5. Ordinary(Store) /\ StoreOK(Store)
  BY OKIsOrdinary DEF LInv
<1> QED
  BY <1>1, <1>2, <1>3, <1>4, <1>5 DEF Built

LEMMA FuncsStep ==
  ASSUME LInv, AllocFuncs
  PROVE  LInv'
<1> DEFINE new == [k \in DOMAIN M.funcs |->
                     [type |-> M.funcs[k], module |-> load.h, host |-> FALSE]]
           fs == inst.funcs \o Fresh(funcs, Len(M.funcs))
           U == Wasms \cup {load.h}
<1>1. load.phase = "funcs" /\ Loading
  BY DEF AllocFuncs, In, Loading, Unregistered
<1>2. /\ Building /\ IsLoad(load) /\ M \in Modules /\ ModuleValid(M) /\ IsModule(M)
      /\ Built(Store, U, load, inst) /\ IsInst(inst) /\ inst.mod = M /\ load.mod = M
      /\ Ordinary(Store) /\ StoreOK(Store)
  BY <1>1, BuildingFacts
<1>3. load' = Stage("globals")
  BY <1>2, AfterIsNext DEF AllocFuncs
<1>4. /\ funcs' = funcs \o new /\ inst' = [inst EXCEPT !.funcs = fs]
      /\ UNCHANGED <<names, map, nextHandle, handles>>
      /\ UNCHANGED <<tables, mems, globals, elems, datas>>
  BY DEF AllocFuncs, registry
<1>5. IsList(new) /\ Len(new) = Len(M.funcs) /\ DOMAIN new = DOMAIN M.funcs
      /\ \A k \in DOMAIN new : new[k].module = load.h
  <2>1. Len(M.funcs) \in Nat /\ DOMAIN M.funcs = 1 .. Len(M.funcs)
    BY <1>2, ModuleLists
  <2>2. /\ new = [k \in 1 .. Len(M.funcs) |-> new[k]] /\ DOMAIN new = DOMAIN M.funcs
        /\ \A k \in DOMAIN new : new[k].module = load.h
    BY <2>1
  <2> HIDE DEF new
  <2> QED
    BY <2>1, <2>2, FunctionIsList
<1> HIDE DEF new, fs, U
<1>6. IsList(funcs) /\ IsList(inst.funcs)
  BY <1>2, StoreFields DEF StoreOK, IsInst
<1>7. Joined(funcs, new, funcs')
  BY <1>4, <1>5, <1>6, ConcatJoins
<1>8. Effects(Store, Store', Wasms)
  BY <1>2, <1>4, <1>7, ExtendsFacts, GrownEffects, StoreFields, StoreFieldsNext
<1>9. StoreOK(Store')
  BY <1>2, <1>4, <1>7, StoreFields, StoreFieldsNext DEF StoreOK, Joined
<1>10. Built(Store', U, load, inst)
  <2>1. Ordinary(Store')
    BY <1>9, OKIsOrdinary
  <2>2. Wasms \subseteq U
    BY DEF U
  <2> QED
    BY <1>2, <1>8, <2>1, <2>2, BuiltStays
<1>11. /\ IsList(Fresh(funcs, Len(M.funcs)))
       /\ Len(Fresh(funcs, Len(M.funcs))) = Len(M.funcs)
       /\ \A k \in DOMAIN Fresh(funcs, Len(M.funcs)) :
            FuncGood(Store', U, Fresh(funcs, Len(M.funcs))[k])
  <2>1. /\ IsList(Fresh(funcs, Len(new))) /\ Len(Fresh(funcs, Len(new))) = Len(new)
        /\ DOMAIN Fresh(funcs, Len(new)) = DOMAIN new
        /\ \A k \in DOMAIN new : /\ Fresh(funcs, Len(new))[k] \in DOMAIN funcs'
                                 /\ funcs'[Fresh(funcs, Len(new))[k]] = new[k]
    BY <1>5, <1>6, <1>7, FreshFacts
  <2> QED
    BY <1>5, <2>1, StoreFieldsNext DEF FuncGood, U
<1>12. Joined(inst.funcs, Fresh(funcs, Len(M.funcs)), fs)
  BY <1>6, <1>11, ConcatJoins DEF fs
<1>13. /\ inst'.kind = inst.kind /\ inst'.mod = inst.mod /\ inst'.linked = inst.linked
       /\ inst'.exports = inst.exports /\ inst'.funcs = fs
       /\ inst'.tables = inst.tables /\ inst'.mems = inst.mems
       /\ inst'.globals = inst.globals /\ inst'.elems = inst.elems
       /\ inst'.datas = inst.datas
       /\ inst' = [kind |-> "wasm", mod |-> inst'.mod, linked |-> inst'.linked,
                   exports |-> inst'.exports,
                   funcs |-> inst'.funcs, tables |-> inst'.tables, mems |-> inst'.mems,
                   globals |-> inst'.globals, elems |-> inst'.elems, datas |-> inst'.datas]
  BY <1>2, <1>4 DEF IsInst
<1>14. IsInst(inst')
  BY <1>2, <1>12, <1>13 DEF IsInst, Joined
<1>15. InstGood(Store', U, inst') /\ ExportsGood(Store', U, inst'.exports)
  <2>1. \A k \in DOMAIN inst'.funcs : FuncGood(Store', U, inst'.funcs[k])
    <3> SUFFICES ASSUME NEW k \in DOMAIN fs PROVE FuncGood(Store', U, fs[k])
      BY <1>13
    <3>1. Len(inst.funcs) \in Nat /\ DOMAIN fs = 1 .. Len(fs)
      BY <1>6, <1>12, ListFacts DEF Joined
    <3>2. CASE k \in DOMAIN inst.funcs
      BY <1>10, <1>12, <3>2 DEF Joined, Built, InstGood
    <3>3. CASE k - Len(inst.funcs) \in DOMAIN Fresh(funcs, Len(M.funcs))
      <4>1. Len(inst.funcs) + (k - Len(inst.funcs)) = k
        BY <3>1
      <4> QED
        BY <1>11, <1>12, <3>3, <4>1 DEF Joined
    <3> QED
      BY <1>12, <3>2, <3>3 DEF Joined
  <2> QED
    BY <1>10, <1>13, <2>1 DEF Built, InstGood
<1>16. LinkedGood(Store', inst') /\ GlobalsKnown(Store', inst') /\ TablesKnown(Store', inst')
  BY <1>10, <1>13 DEF Built, LinkedGood, GlobalsKnown, TablesKnown
<1>17. Sized(inst', "globals")
  <2>1. Len(fs) = Len(inst.funcs) + Len(M.funcs) /\ Len(inst.funcs) = Len(OfKind(M, "func")) + 0
    BY <1>1, <1>2, <1>11, <1>12 DEF Joined, Built, Sized, Own
  <2>2. Len(OfKind(M, "func")) \in Nat /\ Len(M.funcs) \in Nat
    BY <1>2, OfKindFacts, ModuleLists
  <2>3. Sized(inst, "funcs")
    BY <1>1, <1>2 DEF Built
  <2> QED
    BY <1>2, <1>13, <2>1, <2>2, <2>3 DEF Sized, Own
<1>18. SegmentsBuilt(Store', inst', Stage("globals"))
  BY DEF SegmentsBuilt, Stage, Registering
<1>19. Built(Store', U, Stage("globals"), inst')
  BY <1>2, <1>13, <1>14, <1>15, <1>16, <1>17, <1>18 DEF Built, Stage
<1>20. "globals" \in Unregistered
  BY DEF Unregistered
<1> QED
  BY <1>1, <1>3, <1>4, <1>8, <1>9, <1>19, <1>20, BuildStep DEF U

LEMMA JoinedItems ==
  ASSUME NEW s, NEW t, NEW u, IsList(s), IsList(t), Joined(s, t, u), NEW k \in DOMAIN u
  PROVE  \/ k \in DOMAIN s /\ u[k] = s[k]
         \/ \E j \in DOMAIN t : k = Len(s) + j /\ u[k] = t[j]
<1>1. Len(s) \in Nat /\ DOMAIN u = 1 .. Len(u)
  BY ListFacts DEF Joined
<1>2. CASE k \in DOMAIN s
  BY <1>2 DEF Joined
<1>3. CASE k - Len(s) \in DOMAIN t
  <2>1. Len(s) + (k - Len(s)) = k
    BY <1>1
  <2> QED
    BY <1>3, <2>1 DEF Joined
<1> QED
  BY <1>2, <1>3 DEF Joined

(* The constant expressions of an unfinished instance.                     *)
LEMMA GlobalInits ==
  ASSUME LInv, In("globals"), NEW k \in DOMAIN M.globals
  PROVE  /\ Evaluates(M.globals[k].init, M.globals[k].type)
         /\ Eval(M.globals[k].init).t = M.globals[k].type
         /\ RefGood(Store, Wasms \cup {load.h}, Eval(M.globals[k].init))
<1>1. Loading /\ load.phase # "imports" /\ load.phase # "funcs"
  BY DEF In, Loading, Unregistered
<1>2. Building /\ ModuleValid(M) /\ IsModule(M)
  BY <1>1, BuildingFacts
<1>3. IsExpr(M.globals[k].init) /\ ExprValid(M, M.globals[k].init, M.globals[k].type)
  BY <1>2 DEF IsModule, ModuleValid, GlobalsValid
<1> QED
  BY <1>1, <1>2, <1>3, ConstantFacts

LEMMA TableInits ==
  ASSUME LInv, In("tables"), NEW k \in DOMAIN M.tables
  PROVE  /\ Evaluates(M.tables[k].init, M.tables[k].elem)
         /\ Eval(M.tables[k].init).t = M.tables[k].elem
         /\ RefGood(Store, Wasms \cup {load.h}, Eval(M.tables[k].init))
<1>1. Loading /\ load.phase # "imports" /\ load.phase # "funcs"
  BY DEF In, Loading, Unregistered
<1>2. Building /\ ModuleValid(M) /\ IsModule(M)
  BY <1>1, BuildingFacts
<1>3. IsExpr(M.tables[k].init) /\ ExprValid(M, M.tables[k].init, M.tables[k].elem)
  BY <1>2 DEF IsModule, ModuleValid, TablesValid
<1> QED
  BY <1>1, <1>2, <1>3, ConstantFacts

LEMMA ElemInits ==
  ASSUME LInv, In("elems"), NEW k \in DOMAIN M.elems, NEW j \in DOMAIN M.elems[k].items
  PROVE  /\ Evaluates(M.elems[k].items[j], M.elems[k].elem)
         /\ Eval(M.elems[k].items[j]).t = M.elems[k].elem
         /\ RefGood(Store, Wasms \cup {load.h}, Eval(M.elems[k].items[j]))
<1>1. Loading /\ load.phase # "imports" /\ load.phase # "funcs"
  BY DEF In, Loading, Unregistered
<1>2. Building /\ ModuleValid(M) /\ IsModule(M)
  BY <1>1, BuildingFacts
<1>3. IsExpr(M.elems[k].items[j])
  BY <1>2 DEF IsModule
<1>4. ExprValid(M, M.elems[k].items[j], M.elems[k].elem)
  BY <1>2 DEF ModuleValid, ElementsValid
<1> QED
  BY <1>1, <1>2, <1>3, <1>4, ConstantFacts

LEMMA GlobalsStep ==
  ASSUME LInv, AllocGlobals
  PROVE  LInv'
<1> DEFINE new == [k \in DOMAIN M.globals |->
                     [type |-> M.globals[k].type, mut |-> M.globals[k].mut,
                      value |-> Eval(M.globals[k].init)]]
           addrs == inst.globals \o Fresh(globals, Len(M.globals))
           U == Wasms \cup {load.h}
<1>1. load.phase = "globals" /\ Loading
  BY DEF AllocGlobals, In, Loading, Unregistered
<1>2. /\ Building /\ IsLoad(load) /\ M \in Modules /\ ModuleValid(M) /\ IsModule(M)
      /\ Built(Store, U, load, inst) /\ IsInst(inst) /\ inst.mod = M /\ load.mod = M
      /\ Ordinary(Store) /\ StoreOK(Store)
  BY <1>1, BuildingFacts
<1>3. load' = Stage("tables")
  BY <1>2, AfterIsNext DEF AllocGlobals
<1>4. /\ globals' = globals \o new /\ inst' = [inst EXCEPT !.globals = addrs]
      /\ UNCHANGED <<names, map, nextHandle, handles>>
      /\ UNCHANGED <<funcs, tables, mems, elems, datas>>
  BY DEF AllocGlobals, registry
<1>5. /\ IsList(new) /\ Len(new) = Len(M.globals) /\ DOMAIN new = DOMAIN M.globals
      /\ \A k \in DOMAIN new : IsGlobal(new[k]) /\ RefGood(Store, U, new[k].value)
  <2>1. Len(M.globals) \in Nat /\ DOMAIN M.globals = 1 .. Len(M.globals)
    BY <1>2, ModuleLists
  <2>2. new = [k \in 1 .. Len(M.globals) |-> new[k]] /\ DOMAIN new = DOMAIN M.globals
    BY <2>1
  <2>3. \A k \in DOMAIN new : /\ new[k].type = M.globals[k].type
                              /\ new[k].mut = M.globals[k].mut
                              /\ new[k].value = Eval(M.globals[k].init)
    OBVIOUS
  <2>4. \A k \in DOMAIN new :
          new[k] = [type |-> new[k].type, mut |-> new[k].mut, value |-> new[k].value]
    OBVIOUS
  <2> HIDE DEF new, U
  <2>5. ASSUME NEW k \in DOMAIN new
        PROVE  IsGlobal(new[k]) /\ RefGood(Store, U, new[k].value)
    <3>1. /\ Eval(M.globals[k].init).t = M.globals[k].type
          /\ RefGood(Store, U, Eval(M.globals[k].init))
      BY <1>1, <2>2, GlobalInits DEF In, U
    <3> QED
      BY <2>3, <2>4, <3>1 DEF IsGlobal
  <2> QED
    BY <2>1, <2>2, <2>5, FunctionIsList
<1> HIDE DEF new, addrs, U
<1>6. IsList(globals) /\ IsList(inst.globals)
  BY <1>2, StoreFields DEF StoreOK, IsInst
<1>7. Joined(globals, new, globals')
  BY <1>4, <1>5, <1>6, ConcatJoins
<1>8. Effects(Store, Store', Wasms)
  BY <1>2, <1>4, <1>7, ExtendsFacts, GrownEffects, StoreFields, StoreFieldsNext
<1>9. StoreOK(Store')
  <2>1. \A a \in DOMAIN globals' : IsGlobal(globals'[a])
    <3> TAKE a \in DOMAIN globals'
    <3>1. \/ a \in DOMAIN globals /\ globals'[a] = globals[a]
          \/ \E j \in DOMAIN new : globals'[a] = new[j]
      BY <1>5, <1>6, <1>7, JoinedItems
    <3> QED
      BY <1>2, <1>5, <3>1, StoreFields DEF StoreOK
  <2> QED
    BY <1>2, <1>4, <1>7, <2>1, StoreFields, StoreFieldsNext DEF StoreOK, Joined
<1>10. Built(Store', U, load, inst) /\ Wasms \subseteq U
  <2>1. Ordinary(Store')
    BY <1>9, OKIsOrdinary
  <2>2. Wasms \subseteq U
    BY DEF U
  <2> QED
    BY <1>2, <1>8, <2>1, <2>2, BuiltStays
<1>11. /\ IsList(Fresh(globals, Len(M.globals)))
       /\ Len(Fresh(globals, Len(M.globals))) = Len(M.globals)
       /\ \A k \in DOMAIN Fresh(globals, Len(M.globals)) :
            GlobalGood(Store', U, Fresh(globals, Len(M.globals))[k])
  <2>1. /\ IsList(Fresh(globals, Len(new))) /\ Len(Fresh(globals, Len(new))) = Len(new)
        /\ DOMAIN Fresh(globals, Len(new)) = DOMAIN new
        /\ \A k \in DOMAIN new :
             /\ Fresh(globals, Len(new))[k] \in DOMAIN globals'
             /\ globals'[Fresh(globals, Len(new))[k]] = new[k]
    BY <1>5, <1>6, <1>7, FreshFacts
  <2>2. \A k \in DOMAIN new : RefGood(Store', U, new[k].value)
    BY <1>5, <1>8, <1>10, RefStays
  <2> QED
    BY <1>5, <2>1, <2>2, StoreFieldsNext DEF GlobalGood
<1>12. Joined(inst.globals, Fresh(globals, Len(M.globals)), addrs)
  BY <1>6, <1>11, ConcatJoins DEF addrs
<1>13. /\ inst'.kind = inst.kind /\ inst'.mod = inst.mod /\ inst'.linked = inst.linked
       /\ inst'.exports = inst.exports /\ inst'.funcs = inst.funcs
       /\ inst'.tables = inst.tables /\ inst'.mems = inst.mems
       /\ inst'.globals = addrs /\ inst'.elems = inst.elems
       /\ inst'.datas = inst.datas
       /\ inst' = [kind |-> "wasm", mod |-> inst'.mod, linked |-> inst'.linked,
                   exports |-> inst'.exports,
                   funcs |-> inst'.funcs, tables |-> inst'.tables, mems |-> inst'.mems,
                   globals |-> inst'.globals, elems |-> inst'.elems, datas |-> inst'.datas]
  <2>1. inst = [kind |-> "wasm", mod |-> inst.mod, linked |-> inst.linked,
                exports |-> inst.exports, funcs |-> inst.funcs,
                tables |-> inst.tables, mems |-> inst.mems, globals |-> inst.globals,
                elems |-> inst.elems, datas |-> inst.datas]
    BY <1>2 DEF IsInst
  <2>2. inst' = [kind |-> "wasm", mod |-> inst.mod, linked |-> inst.linked,
                   exports |-> inst.exports, funcs |-> inst.funcs,
                   tables |-> inst.tables, mems |-> inst.mems, globals |-> addrs,
                   elems |-> inst.elems, datas |-> inst.datas]
    <3>1. inst' = [inst EXCEPT !.globals = addrs]
      BY <1>4
    <3> QED
      BY <2>1, <3>1
  <2>3. inst.kind = "wasm"
    BY <2>1
  <2> QED
    BY <2>2, <2>3
<1>14. IsInst(inst')
  BY <1>2, <1>12, <1>13 DEF IsInst, Joined
<1>15. InstGood(Store', U, inst') /\ ExportsGood(Store', U, inst'.exports)
  <2>1. \A k \in DOMAIN inst'.globals : GlobalGood(Store', U, inst'.globals[k])
    <3> SUFFICES ASSUME NEW k \in DOMAIN addrs PROVE GlobalGood(Store', U, addrs[k])
      BY <1>13
    <3>1. \/ k \in DOMAIN inst.globals /\ addrs[k] = inst.globals[k]
          \/ \E j \in DOMAIN Fresh(globals, Len(M.globals)) :
               k = Len(inst.globals) + j /\ addrs[k] = Fresh(globals, Len(M.globals))[j]
      <4>1. /\ IsList(inst.globals) /\ IsList(Fresh(globals, Len(M.globals)))
            /\ Joined(inst.globals, Fresh(globals, Len(M.globals)), addrs)
        BY <1>6, <1>11, <1>12
      <4> QED
        BY <4>1, JoinedItems
    <3> QED
      BY <1>10, <1>11, <3>1 DEF Built, InstGood
  <2> QED
    BY <1>10, <1>13, <2>1 DEF Built, InstGood
<1>16. LinkedGood(Store', inst') /\ TablesKnown(Store', inst')
  BY <1>10, <1>13 DEF Built, LinkedGood, TablesKnown
<1>17. GlobalsKnown(Store', inst')
  <2>1. GlobalsKnown(Store', inst)
    BY <1>10, Zenon DEF Built
  <2> DEFINE imps == OfKind(inst.mod, "global")
             S == Store'
  <2>2. OfKind(inst'.mod, "global") = imps /\ inst'.globals = addrs
    BY <1>13, Zenon
  <2>3. ASSUME NEW x \in DOMAIN imps
        PROVE  x \in DOMAIN addrs /\ S.globals[addrs[x]].type = imps[x].desc.type
    <3>1. x \in DOMAIN inst.globals
          /\ S.globals[inst.globals[x]].type = imps[x].desc.type
      BY <2>1, <2>3, Zenon DEF GlobalsKnown
    <3>2. x \in DOMAIN addrs /\ addrs[x] = inst.globals[x]
      BY <1>12, <3>1, Zenon DEF Joined
    <3> QED
      BY <3>1, <3>2, Zenon
  <2> QED
    BY <2>2, <2>3, Zenon DEF GlobalsKnown
<1>18. Sized(inst', "tables")
  <2>1. /\ Len(addrs) = Len(inst.globals) + Len(M.globals)
        /\ Len(inst.globals) = Len(OfKind(M, "global")) + 0
    BY <1>1, <1>2, <1>11, <1>12 DEF Joined, Built, Sized, Own
  <2>2. Len(OfKind(M, "global")) \in Nat /\ Len(M.globals) \in Nat
    BY <1>2, OfKindFacts, ModuleLists
  <2>3. Sized(inst, "globals")
    BY <1>1, <1>2 DEF Built
  <2> QED
    BY <1>2, <1>13, <2>1, <2>2, <2>3 DEF Sized, Own
<1>19. SegmentsBuilt(Store', inst', Stage("tables"))
  BY DEF SegmentsBuilt, Stage, Registering
<1>20. Built(Store', U, Stage("tables"), inst')
  BY <1>2, <1>13, <1>14, <1>15, <1>16, <1>17, <1>18, <1>19 DEF Built, Stage
<1>21. "tables" \in Unregistered
  BY DEF Unregistered
<1> QED
  BY <1>1, <1>3, <1>4, <1>8, <1>9, <1>20, <1>21, BuildStep DEF U

LEMMA TablesStep ==
  ASSUME LInv, AllocTables
  PROVE  LInv'
<1> DEFINE refs(k) == [j \in 1 .. M.tables[k].min |-> Eval(M.tables[k].init)]
           new == [k \in DOMAIN M.tables |->
                     [elem |-> M.tables[k].elem, max |-> M.tables[k].max, refs |-> refs(k)]]
           addrs == inst.tables \o Fresh(tables, Len(M.tables))
           U == Wasms \cup {load.h}
<1>1. load.phase = "tables" /\ Loading
  BY DEF AllocTables, In, Loading, Unregistered
<1>2. /\ Building /\ IsLoad(load) /\ M \in Modules /\ ModuleValid(M) /\ IsModule(M)
      /\ Built(Store, U, load, inst) /\ IsInst(inst) /\ inst.mod = M /\ load.mod = M
      /\ Ordinary(Store) /\ StoreOK(Store)
  BY <1>1, BuildingFacts
<1>3. load' = Stage("elems")
  BY <1>2, AfterIsNext DEF AllocTables
<1>4. /\ tables' = tables \o new /\ inst' = [inst EXCEPT !.tables = addrs]
      /\ UNCHANGED <<names, map, nextHandle, handles>>
      /\ UNCHANGED <<funcs, globals, mems, elems, datas>>
  BY DEF AllocTables, registry
<1>5. /\ IsList(new) /\ Len(new) = Len(M.tables) /\ DOMAIN new = DOMAIN M.tables
      /\ \A k \in DOMAIN new : /\ IsTable(new[k]) /\ RefsGood(Store, U, new[k].refs)
                               /\ new[k].elem = M.tables[k].elem
  <2>1. Len(M.tables) \in Nat /\ DOMAIN M.tables = 1 .. Len(M.tables)
    BY <1>2, ModuleLists
  <2> HIDE DEF refs
  <2>2. new = [k \in 1 .. Len(M.tables) |-> new[k]] /\ DOMAIN new = DOMAIN M.tables
    BY <2>1
  <2>3. \A k \in DOMAIN new : /\ new[k].elem = M.tables[k].elem
                              /\ new[k].max = M.tables[k].max
                              /\ new[k].refs = refs(k)
    OBVIOUS
  <2>4. \A k \in DOMAIN new :
          new[k] = [elem |-> new[k].elem, max |-> new[k].max, refs |-> new[k].refs]
    OBVIOUS
  <2> HIDE DEF new, U
  <2>5. ASSUME NEW k \in DOMAIN new
        PROVE  /\ IsTable(new[k]) /\ RefsGood(Store, U, new[k].refs)
               /\ new[k].elem = M.tables[k].elem
    <3>1. /\ Eval(M.tables[k].init).t = M.tables[k].elem
          /\ RefGood(Store, U, Eval(M.tables[k].init))
      BY <1>1, <2>2, TableInits DEF In, U
    <3>2. /\ M.tables[k].min \in Nat /\ M.tables[k].max \in Nat \cup {NoMax}
          /\ WithinMax(M.tables[k].min, M.tables[k].max)
      BY <1>2, <2>2 DEF IsModule, IsLimits, ModuleValid, TablesValid
    <3>3. /\ refs(k) = [j \in 1 .. M.tables[k].min |-> refs(k)[j]]
          /\ DOMAIN refs(k) = 1 .. M.tables[k].min
          /\ \A j \in DOMAIN refs(k) : refs(k)[j] = Eval(M.tables[k].init)
      BY DEF refs
    <3>4. IsList(refs(k)) /\ Len(refs(k)) = M.tables[k].min
      BY <3>2, <3>3, FunctionIsList
    <3>7. IsTable(new[k])
      <4>1. \A j \in DOMAIN refs(k) : refs(k)[j].t = M.tables[k].elem
        BY <3>1, <3>3
      <4> QED
        BY <2>3, <2>4, <3>2, <3>4, <4>1 DEF IsTable
    <3>8. RefsGood(Store, U, new[k].refs)
      <4>1. \A j \in DOMAIN refs(k) : RefGood(Store, U, refs(k)[j])
        BY <3>1, <3>3
      <4> QED
        BY <2>3, <4>1 DEF RefsGood
    <3> QED
      BY <2>3, <3>7, <3>8
  <2> QED
    BY <2>1, <2>2, <2>5, FunctionIsList
<1> HIDE DEF new, addrs, U
<1>6. IsList(tables) /\ IsList(inst.tables)
  BY <1>2, StoreFields DEF StoreOK, IsInst
<1>7. Joined(tables, new, tables')
  BY <1>4, <1>5, <1>6, ConcatJoins
<1>8. Effects(Store, Store', Wasms)
  BY <1>2, <1>4, <1>7, ExtendsFacts, GrownEffects, StoreFields, StoreFieldsNext
<1>9. StoreOK(Store')
  <2>1. \A a \in DOMAIN tables' : IsTable(tables'[a])
    <3> TAKE a \in DOMAIN tables'
    <3>1. \/ a \in DOMAIN tables /\ tables'[a] = tables[a]
          \/ \E j \in DOMAIN new : tables'[a] = new[j]
      BY <1>5, <1>6, <1>7, JoinedItems
    <3> QED
      BY <1>2, <1>5, <3>1, StoreFields DEF StoreOK
  <2> QED
    BY <1>2, <1>4, <1>7, <2>1, StoreFields, StoreFieldsNext DEF StoreOK, Joined
<1>10. Built(Store', U, load, inst) /\ Wasms \subseteq U
  <2>1. Ordinary(Store')
    BY <1>9, OKIsOrdinary
  <2>2. Wasms \subseteq U
    BY DEF U
  <2> QED
    BY <1>2, <1>8, <2>1, <2>2, BuiltStays
<1> DEFINE f == Fresh(tables, Len(M.tables))
<1>11. /\ IsList(f) /\ Len(f) = Len(M.tables) /\ DOMAIN f = DOMAIN M.tables
       /\ \A k \in DOMAIN f : /\ TableGood(Store', U, f[k])
                              /\ tables'[f[k]].elem = M.tables[k].elem
  <2>1. /\ IsList(Fresh(tables, Len(new))) /\ Len(Fresh(tables, Len(new))) = Len(new)
        /\ DOMAIN Fresh(tables, Len(new)) = DOMAIN new
        /\ \A k \in DOMAIN new :
             /\ Fresh(tables, Len(new))[k] \in DOMAIN tables'
             /\ tables'[Fresh(tables, Len(new))[k]] = new[k]
    BY <1>5, <1>6, <1>7, FreshFacts
  <2>2. \A k \in DOMAIN new : RefsGood(Store', U, new[k].refs)
    BY <1>5, <1>8, <1>10, RefStays DEF RefsGood
  <2> QED
    BY <1>5, <2>1, <2>2, StoreFieldsNext DEF TableGood
<1> HIDE DEF f
<1>12. Joined(inst.tables, f, addrs)
  BY <1>6, <1>11, ConcatJoins DEF addrs, f
<1>13. /\ inst'.kind = inst.kind /\ inst'.mod = inst.mod /\ inst'.linked = inst.linked
       /\ inst'.exports = inst.exports /\ inst'.funcs = inst.funcs
       /\ inst'.tables = addrs /\ inst'.mems = inst.mems
       /\ inst'.globals = inst.globals /\ inst'.elems = inst.elems
       /\ inst'.datas = inst.datas
       /\ inst' = [kind |-> "wasm", mod |-> inst'.mod, linked |-> inst'.linked,
                   exports |-> inst'.exports,
                   funcs |-> inst'.funcs, tables |-> inst'.tables, mems |-> inst'.mems,
                   globals |-> inst'.globals, elems |-> inst'.elems, datas |-> inst'.datas]
  <2>1. inst = [kind |-> "wasm", mod |-> inst.mod, linked |-> inst.linked,
                exports |-> inst.exports, funcs |-> inst.funcs,
                tables |-> inst.tables, mems |-> inst.mems, globals |-> inst.globals,
                elems |-> inst.elems, datas |-> inst.datas]
    BY <1>2 DEF IsInst
  <2>2. inst' = [kind |-> "wasm", mod |-> inst.mod, linked |-> inst.linked,
                   exports |-> inst.exports, funcs |-> inst.funcs,
                   tables |-> addrs, mems |-> inst.mems, globals |-> inst.globals,
                   elems |-> inst.elems, datas |-> inst.datas]
    <3>1. inst' = [inst EXCEPT !.tables = addrs]
      BY <1>4
    <3> QED
      BY <2>1, <3>1
  <2>3. inst.kind = "wasm"
    BY <2>1
  <2> QED
    BY <2>2, <2>3
<1>14. IsInst(inst')
  BY <1>2, <1>12, <1>13 DEF IsInst, Joined
<1>15. \A k \in DOMAIN addrs : \/ k \in DOMAIN inst.tables /\ addrs[k] = inst.tables[k]
                            \/ \E j \in DOMAIN f : k = Len(inst.tables) + j /\ addrs[k] = f[j]
  <2>1. IsList(inst.tables) /\ IsList(f) /\ Joined(inst.tables, f, addrs)
    BY <1>6, <1>11, <1>12
  <2> QED
    BY <2>1, JoinedItems
<1>16. InstGood(Store', U, inst') /\ ExportsGood(Store', U, inst'.exports)
  <2>1. \A k \in DOMAIN inst'.tables : TableGood(Store', U, inst'.tables[k])
    BY <1>10, <1>11, <1>13, <1>15 DEF Built, InstGood
  <2> QED
    BY <1>10, <1>13, <2>1 DEF Built, InstGood
<1>17. LinkedGood(Store', inst') /\ GlobalsKnown(Store', inst')
  BY <1>10, <1>13 DEF Built, LinkedGood, GlobalsKnown
<1>18. Len(inst.tables) = Len(OfKind(M, "table")) /\ Len(OfKind(M, "table")) \in Nat
  <2>1. Len(inst.tables) = Len(OfKind(M, "table")) + 0
    BY <1>1, <1>2 DEF Built, Sized, Own
  <2> QED
    BY <1>2, <2>1, OfKindFacts
<1>19. TablesKnown(Store', inst')
  <2> SUFFICES ASSUME NEW x \in DOMAIN addrs
               PROVE  tables'[addrs[x]].elem = TableTypeAt(M, x - 1)
    BY <1>2, <1>13, StoreFieldsNext DEF TablesKnown
  <2>1. CASE x \in DOMAIN inst.tables /\ addrs[x] = inst.tables[x]
    BY <1>2, <1>10, <2>1, StoreFieldsNext DEF Built, TablesKnown
  <2>2. CASE \E j \in DOMAIN f : x = Len(inst.tables) + j /\ addrs[x] = f[j]
    <3>1. PICK j \in DOMAIN f : x = Len(inst.tables) + j /\ addrs[x] = f[j]
      BY <2>2
    <3>2. j \in 1 .. Len(M.tables)
      BY <1>2, <1>11, ModuleLists
    <3>3. TableTypeAt(M, Len(OfKind(M, "table")) + j - 1) = M.tables[j].elem
      BY <1>2, <3>2, TableTypes
    <3>4. x - 1 = Len(OfKind(M, "table")) + j - 1
      BY <1>18, <3>1, <3>2
    <3> QED
      BY <1>11, <3>1, <3>3, <3>4
  <2> QED
    BY <1>15, <2>1, <2>2
<1>20. Sized(inst', "elems")
  <2>1. Len(addrs) = Len(inst.tables) + Len(M.tables)
    BY <1>11, <1>12 DEF Joined
  <2>2. Len(M.tables) \in Nat
    BY <1>2, ModuleLists
  <2>3. Sized(inst, "tables")
    BY <1>1, <1>2 DEF Built
  <2> QED
    BY <1>2, <1>13, <1>18, <2>1, <2>2, <2>3 DEF Sized, Own
<1>21. SegmentsBuilt(Store', inst', Stage("elems"))
  BY DEF SegmentsBuilt, Stage, Registering
<1>22. Built(Store', U, Stage("elems"), inst')
  BY <1>2, <1>13, <1>14, <1>16, <1>17, <1>19, <1>20, <1>21 DEF Built, Stage
<1>23. "elems" \in Unregistered
  BY DEF Unregistered
<1> QED
  BY <1>1, <1>3, <1>4, <1>8, <1>9, <1>22, <1>23, BuildStep DEF U

LEMMA ElemsStep ==
  ASSUME LInv, AllocElems
  PROVE  LInv'
<1> DEFINE new == [k \in DOMAIN M.elems |->
                     [elem |-> M.elems[k].elem, refs |-> Items(M.elems[k])]]
           f == Fresh(elems, Len(M.elems))
           U == Wasms \cup {load.h}
<1>1. load.phase = "elems" /\ Loading
  BY DEF AllocElems, In, Loading, Unregistered
<1>2. /\ Building /\ IsLoad(load) /\ M \in Modules /\ ModuleValid(M) /\ IsModule(M)
      /\ Built(Store, U, load, inst) /\ IsInst(inst) /\ inst.mod = M /\ load.mod = M
      /\ Ordinary(Store) /\ StoreOK(Store)
  BY <1>1, BuildingFacts
<1>3. load' = Stage("mems")
  BY <1>2, AfterIsNext DEF AllocElems
<1>4. /\ elems' = elems \o new /\ inst' = [inst EXCEPT !.elems = f]
      /\ UNCHANGED <<names, map, nextHandle, handles>>
      /\ UNCHANGED <<funcs, tables, mems, globals, datas>>
  BY DEF AllocElems, registry
<1>5. Len(M.elems) \in Nat /\ DOMAIN M.elems = 1 .. Len(M.elems)
  BY <1>2, ModuleLists
<1>6. /\ IsList(new) /\ Len(new) = Len(M.elems) /\ DOMAIN new = DOMAIN M.elems
      /\ \A k \in DOMAIN new :
           /\ IsElem(new[k]) /\ RefsGood(Store, U, new[k].refs)
           /\ new[k].elem = M.elems[k].elem
           /\ M.elems[k].mode = "declarative" => new[k].refs = <<>>
  <2>1. new = [k \in 1 .. Len(M.elems) |-> new[k]] /\ DOMAIN new = DOMAIN M.elems
    BY <1>5
  <2>2. \A k \in DOMAIN new : /\ new[k].elem = M.elems[k].elem
                              /\ new[k].refs = Items(M.elems[k])
    OBVIOUS
  <2>3. \A k \in DOMAIN new : new[k] = [elem |-> new[k].elem, refs |-> new[k].refs]
    OBVIOUS
  <2> HIDE DEF new, U
  <2>4. ASSUME NEW k \in DOMAIN M.elems, NEW j \in DOMAIN Items(M.elems[k])
        PROVE  /\ Items(M.elems[k])[j].t = M.elems[k].elem
               /\ RefGood(Store, U, Items(M.elems[k])[j])
    <3>1. M.elems[k].mode # "declarative"
      BY DEF Items
    <3>2. /\ j \in DOMAIN M.elems[k].items
          /\ Items(M.elems[k])[j] = Eval(M.elems[k].items[j])
      BY <3>1 DEF Items
    <3> QED
      BY <1>1, <3>2, ElemInits DEF In, U
  <2>5. ASSUME NEW k \in DOMAIN new
        PROVE  /\ IsElem(new[k]) /\ RefsGood(Store, U, new[k].refs)
               /\ M.elems[k].mode = "declarative" => new[k].refs = <<>>
    <3>1. k \in DOMAIN M.elems
      BY <2>1
    <3>2. IsElem(new[k])
      BY <2>2, <2>3, <2>4, <3>1 DEF IsElem
    <3>3. RefsGood(Store, U, new[k].refs)
      BY <2>2, <2>4, <3>1 DEF RefsGood
    <3>4. M.elems[k].mode = "declarative" => new[k].refs = <<>>
      BY <2>2 DEF Items
    <3> QED
      BY <3>2, <3>3, <3>4
  <2> QED
    BY <1>5, <2>1, <2>2, <2>5, FunctionIsList
<1> HIDE DEF new, f, U
<1>7. IsList(elems)
  BY <1>2, StoreFields DEF StoreOK
<1>8. Joined(elems, new, elems')
  BY <1>4, <1>6, <1>7, ConcatJoins
<1>9. Effects(Store, Store', Wasms)
  BY <1>2, <1>4, <1>8, ExtendsFacts, GrownEffects, StoreFields, StoreFieldsNext
<1>10. StoreOK(Store')
  <2>1. \A a \in DOMAIN elems' : IsElem(elems'[a])
    <3> TAKE a \in DOMAIN elems'
    <3>1. \/ a \in DOMAIN elems /\ elems'[a] = elems[a]
          \/ \E j \in DOMAIN new : elems'[a] = new[j]
      BY <1>6, <1>7, <1>8, JoinedItems
    <3> QED
      BY <1>2, <1>6, <3>1, StoreFields DEF StoreOK
  <2> QED
    BY <1>2, <1>4, <1>8, <2>1, StoreFields, StoreFieldsNext DEF StoreOK, Joined
<1>11. Built(Store', U, load, inst) /\ Wasms \subseteq U
  <2>1. Ordinary(Store')
    BY <1>10, OKIsOrdinary
  <2>2. Wasms \subseteq U
    BY DEF U
  <2> QED
    BY <1>2, <1>9, <2>1, <2>2, BuiltStays
<1>12. /\ IsList(f) /\ Len(f) = Len(M.elems) /\ DOMAIN f = DOMAIN M.elems
       /\ \A k \in DOMAIN f :
            /\ ElemGood(Store', U, f[k])
            /\ elems'[f[k]].elem = M.elems[k].elem
            /\ M.elems[k].mode = "declarative" => elems'[f[k]].refs = <<>>
  <2>1. /\ IsList(Fresh(elems, Len(new))) /\ Len(Fresh(elems, Len(new))) = Len(new)
        /\ DOMAIN Fresh(elems, Len(new)) = DOMAIN new
        /\ \A k \in DOMAIN new : /\ Fresh(elems, Len(new))[k] \in DOMAIN elems'
                                 /\ elems'[Fresh(elems, Len(new))[k]] = new[k]
    BY <1>6, <1>7, <1>8, FreshFacts
  <2>2. \A k \in DOMAIN new : RefsGood(Store', U, new[k].refs)
    BY <1>6, <1>9, <1>11, RefStays DEF RefsGood
  <2>3. f = Fresh(elems, Len(new))
    BY <1>6 DEF f
  <2> QED
    BY <1>6, <2>1, <2>2, <2>3, StoreFieldsNext DEF ElemGood
<1>13. /\ inst'.kind = inst.kind /\ inst'.mod = inst.mod /\ inst'.linked = inst.linked
       /\ inst'.exports = inst.exports /\ inst'.funcs = inst.funcs
       /\ inst'.tables = inst.tables /\ inst'.mems = inst.mems
       /\ inst'.globals = inst.globals /\ inst'.elems = f
       /\ inst'.datas = inst.datas
       /\ inst' = [kind |-> "wasm", mod |-> inst'.mod, linked |-> inst'.linked,
                   exports |-> inst'.exports,
                   funcs |-> inst'.funcs, tables |-> inst'.tables, mems |-> inst'.mems,
                   globals |-> inst'.globals, elems |-> inst'.elems, datas |-> inst'.datas]
  <2>1. inst = [kind |-> "wasm", mod |-> inst.mod, linked |-> inst.linked,
                exports |-> inst.exports, funcs |-> inst.funcs,
                tables |-> inst.tables, mems |-> inst.mems, globals |-> inst.globals,
                elems |-> inst.elems, datas |-> inst.datas]
    BY <1>2 DEF IsInst
  <2>2. inst' = [kind |-> "wasm", mod |-> inst.mod, linked |-> inst.linked,
                 exports |-> inst.exports, funcs |-> inst.funcs,
                 tables |-> inst.tables, mems |-> inst.mems, globals |-> inst.globals,
                 elems |-> f, datas |-> inst.datas]
    <3>1. inst' = [inst EXCEPT !.elems = f]
      BY <1>4
    <3> QED
      BY <2>1, <3>1
  <2>3. inst.kind = "wasm"
    BY <2>1
  <2> QED
    BY <2>2, <2>3
<1>14. IsInst(inst')
  BY <1>2, <1>12, <1>13 DEF IsInst
<1>15. InstGood(Store', U, inst') /\ ExportsGood(Store', U, inst'.exports)
  BY <1>11, <1>12, <1>13 DEF Built, InstGood
<1>16. LinkedGood(Store', inst') /\ GlobalsKnown(Store', inst') /\ TablesKnown(Store', inst')
  BY <1>11, <1>13 DEF Built, LinkedGood, GlobalsKnown, TablesKnown
<1>17. Sized(inst', "mems")
  <2>1. Sized(inst, "elems")
    BY <1>1, <1>2 DEF Built
  <2> QED
    BY <1>13, <2>1 DEF Sized, Own
<1>18. ElemsAligned(Store', inst') /\ ElemsDropped(Store', inst', 1)
  <2>1. ElemsAligned(Store', inst')
    BY <1>2, <1>12, <1>13, StoreFieldsNext DEF ElemsAligned
  <2>2. \A k \in DOMAIN M.elems : ~(k < 1)
    BY <1>5
  <2>3. ElemsDropped(Store', inst', 1)
    BY <1>2, <1>12, <1>13, <2>2, StoreFieldsNext DEF ElemsDropped, Past
  <2> QED
    BY <2>1, <2>3
<1>19. SegmentsBuilt(Store', inst', Stage("mems"))
  BY <1>18 DEF SegmentsBuilt, Stage, Registering
<1>20. Built(Store', U, Stage("mems"), inst')
  BY <1>2, <1>13, <1>14, <1>15, <1>16, <1>17, <1>19 DEF Built, Stage
<1>21. "mems" \in Unregistered
  BY DEF Unregistered
<1> QED
  BY <1>1, <1>3, <1>4, <1>9, <1>10, <1>20, <1>21, BuildStep DEF U

LEMMA MemsStep ==
  ASSUME LInv, AllocMems
  PROVE  LInv'
<1> DEFINE new == [k \in DOMAIN M.mems |-> [size |-> M.mems[k].min, max |-> M.mems[k].max]]
           f == Fresh(mems, Len(M.mems))
           addrs == inst.mems \o f
           U == Wasms \cup {load.h}
<1>1. load.phase = "mems" /\ Loading
  BY DEF AllocMems, In, Loading, Unregistered
<1>2. /\ Building /\ IsLoad(load) /\ M \in Modules /\ ModuleValid(M) /\ IsModule(M)
      /\ Built(Store, U, load, inst) /\ IsInst(inst) /\ inst.mod = M /\ load.mod = M
      /\ Ordinary(Store) /\ StoreOK(Store)
  BY <1>1, BuildingFacts
<1>3. load' = Stage("exports")
  BY <1>2, AfterIsNext DEF AllocMems
<1>4. /\ mems' = mems \o new /\ inst' = [inst EXCEPT !.mems = addrs]
      /\ UNCHANGED <<names, map, nextHandle, handles>>
      /\ UNCHANGED <<funcs, tables, globals, elems, datas>>
  BY DEF AllocMems, registry
<1>5. Len(M.mems) \in Nat /\ DOMAIN M.mems = 1 .. Len(M.mems)
  BY <1>2, ModuleLists
<1>6. /\ IsList(new) /\ Len(new) = Len(M.mems) /\ DOMAIN new = DOMAIN M.mems
      /\ \A k \in DOMAIN new : IsMem(new[k])
  <2>1. new = [k \in 1 .. Len(M.mems) |-> new[k]] /\ DOMAIN new = DOMAIN M.mems
    BY <1>5
  <2>2. \A k \in DOMAIN new : new[k].size = M.mems[k].min /\ new[k].max = M.mems[k].max
    OBVIOUS
  <2>3. \A k \in DOMAIN new : new[k] = [size |-> new[k].size, max |-> new[k].max]
    OBVIOUS
  <2> HIDE DEF new
  <2>4. ASSUME NEW k \in DOMAIN new PROVE IsMem(new[k])
    <3>1. k \in DOMAIN M.mems
      BY <2>1
    <3>2. /\ M.mems[k].min \in Nat /\ M.mems[k].max \in Nat \cup {NoMax}
          /\ WithinMax(M.mems[k].min, M.mems[k].max)
      BY <1>2, <3>1 DEF IsModule, IsLimits, ModuleValid, MemoriesValid, MemValid
    <3> QED
      BY <2>2, <2>3, <3>2 DEF IsMem
  <2> QED
    BY <1>5, <2>1, <2>4, FunctionIsList
<1> HIDE DEF new, f, addrs, U
<1>7. IsList(mems) /\ IsList(inst.mems)
  BY <1>2, StoreFields DEF StoreOK, IsInst
<1>8. Joined(mems, new, mems')
  BY <1>4, <1>6, <1>7, ConcatJoins
<1>9. Effects(Store, Store', Wasms)
  BY <1>2, <1>4, <1>8, ExtendsFacts, GrownEffects, StoreFields, StoreFieldsNext
<1>10. StoreOK(Store')
  <2>1. \A a \in DOMAIN mems' : IsMem(mems'[a])
    <3> TAKE a \in DOMAIN mems'
    <3>1. \/ a \in DOMAIN mems /\ mems'[a] = mems[a]
          \/ \E j \in DOMAIN new : mems'[a] = new[j]
      BY <1>6, <1>7, <1>8, JoinedItems
    <3> QED
      BY <1>2, <1>6, <3>1, StoreFields DEF StoreOK
  <2> QED
    BY <1>2, <1>4, <1>8, <2>1, StoreFields, StoreFieldsNext DEF StoreOK, Joined
<1>11. Built(Store', U, load, inst)
  <2>1. Ordinary(Store')
    BY <1>10, OKIsOrdinary
  <2>2. Wasms \subseteq U
    BY DEF U
  <2> QED
    BY <1>2, <1>9, <2>1, <2>2, BuiltStays
<1>12. /\ IsList(f) /\ Len(f) = Len(M.mems)
       /\ \A k \in DOMAIN f : MemGood(Store', f[k])
  <2>1. /\ IsList(Fresh(mems, Len(new))) /\ Len(Fresh(mems, Len(new))) = Len(new)
        /\ DOMAIN Fresh(mems, Len(new)) = DOMAIN new
        /\ \A k \in DOMAIN new : Fresh(mems, Len(new))[k] \in DOMAIN mems'
    BY <1>6, <1>7, <1>8, FreshFacts
  <2>2. f = Fresh(mems, Len(new))
    BY <1>6 DEF f
  <2> QED
    BY <1>6, <2>1, <2>2, StoreFieldsNext DEF MemGood
<1>13. Joined(inst.mems, f, addrs)
  BY <1>7, <1>12, ConcatJoins DEF addrs
<1>14. /\ inst'.kind = inst.kind /\ inst'.mod = inst.mod /\ inst'.linked = inst.linked
       /\ inst'.exports = inst.exports /\ inst'.funcs = inst.funcs
       /\ inst'.tables = inst.tables /\ inst'.mems = addrs
       /\ inst'.globals = inst.globals /\ inst'.elems = inst.elems
       /\ inst'.datas = inst.datas
       /\ inst' = [kind |-> "wasm", mod |-> inst'.mod, linked |-> inst'.linked,
                   exports |-> inst'.exports,
                   funcs |-> inst'.funcs, tables |-> inst'.tables, mems |-> inst'.mems,
                   globals |-> inst'.globals, elems |-> inst'.elems, datas |-> inst'.datas]
  <2>1. inst = [kind |-> "wasm", mod |-> inst.mod, linked |-> inst.linked,
                exports |-> inst.exports, funcs |-> inst.funcs,
                tables |-> inst.tables, mems |-> inst.mems, globals |-> inst.globals,
                elems |-> inst.elems, datas |-> inst.datas]
    BY <1>2 DEF IsInst
  <2>2. inst' = [kind |-> "wasm", mod |-> inst.mod, linked |-> inst.linked,
                 exports |-> inst.exports, funcs |-> inst.funcs,
                 tables |-> inst.tables, mems |-> addrs, globals |-> inst.globals,
                 elems |-> inst.elems, datas |-> inst.datas]
    <3>1. inst' = [inst EXCEPT !.mems = addrs]
      BY <1>4
    <3> QED
      BY <2>1, <3>1
  <2>3. inst.kind = "wasm"
    BY <2>1
  <2> QED
    BY <2>2, <2>3
<1>15. IsInst(inst')
  BY <1>2, <1>13, <1>14 DEF IsInst, Joined
<1>16. InstGood(Store', U, inst') /\ ExportsGood(Store', U, inst'.exports)
  <2>1. \A k \in DOMAIN inst'.mems : MemGood(Store', inst'.mems[k])
    <3> SUFFICES ASSUME NEW k \in DOMAIN addrs PROVE MemGood(Store', addrs[k])
      BY <1>14
    <3>1. IsList(inst.mems) /\ IsList(f) /\ Joined(inst.mems, f, addrs)
      BY <1>7, <1>12, <1>13
    <3>2. \/ k \in DOMAIN inst.mems /\ addrs[k] = inst.mems[k]
          \/ \E j \in DOMAIN f : k = Len(inst.mems) + j /\ addrs[k] = f[j]
      BY <3>1, JoinedItems
    <3> QED
      BY <1>11, <1>12, <3>2 DEF Built, InstGood
  <2> QED
    BY <1>11, <1>14, <2>1 DEF Built, InstGood
<1>17. LinkedGood(Store', inst') /\ GlobalsKnown(Store', inst') /\ TablesKnown(Store', inst')
  BY <1>11, <1>14 DEF Built, LinkedGood, GlobalsKnown, TablesKnown
<1>18. Sized(inst', "exports")
  <2>1. /\ Len(addrs) = Len(inst.mems) + Len(M.mems)
        /\ Len(inst.mems) = Len(OfKind(M, "mem")) + 0
    BY <1>1, <1>2, <1>12, <1>13 DEF Joined, Built, Sized, Own
  <2>2. Len(OfKind(M, "mem")) \in Nat
    BY <1>2, OfKindFacts
  <2>3. Sized(inst, "mems")
    BY <1>1, <1>2 DEF Built
  <2> QED
    BY <1>2, <1>5, <1>14, <2>1, <2>2, <2>3 DEF Sized, Own
<1>19. SegmentsBuilt(Store', inst', Stage("exports"))
  <2>1. ElemsAligned(Store', inst) /\ ElemsDropped(Store', inst, 1)
    BY <1>1, <1>11 DEF Built, SegmentsBuilt
  <2>2. ElemsAligned(Store', inst') /\ ElemsDropped(Store', inst', 1)
    BY <1>14, <2>1 DEF ElemsAligned, ElemsDropped
  <2> QED
    BY <2>2 DEF SegmentsBuilt, Stage, Registering
<1>20. Built(Store', U, Stage("exports"), inst')
  BY <1>2, <1>14, <1>15, <1>16, <1>17, <1>18, <1>19 DEF Built, Stage
<1>21. "exports" \in Unregistered
  BY DEF Unregistered
<1> QED
  BY <1>1, <1>3, <1>4, <1>9, <1>10, <1>20, <1>21, BuildStep DEF U

(* Every index of an instance whose items are all there has an item.       *)
LEMMA IndexFacts ==
  ASSUME LInv, In("exports"), NEW kind \in Kinds, NEW x \in Nat, x < Count(M, kind)
  PROVE  ItemGood(Store, Wasms \cup {load.h}, kind, At(AddrsOf(inst, kind), x))
<1> DEFINE U == Wasms \cup {load.h}
           s == AddrsOf(inst, kind)
<1>1. Loading /\ load.phase # "imports" /\ load.phase = "exports"
  BY DEF In, Loading, Unregistered
<1>2. /\ M \in Modules /\ Built(Store, U, load, inst) /\ IsInst(inst) /\ inst.mod = M
  BY <1>1, BuildingFacts
<1> HIDE DEF U
<1>3. Sized(inst, "exports")
  BY <1>1, <1>2 DEF Built
<1>4. Len(s) = Count(M, kind) /\ IsList(s)
  <2>1. CASE kind = "func"
    BY <1>2, <1>3, <2>1 DEF Sized, Own, Count, AddrsOf, IsInst
  <2>2. CASE kind = "table"
    BY <1>2, <1>3, <2>2 DEF Sized, Own, Count, AddrsOf, IsInst
  <2>3. CASE kind = "mem"
    BY <1>2, <1>3, <2>3 DEF Sized, Own, Count, AddrsOf, IsInst
  <2>4. CASE kind = "global"
    BY <1>2, <1>3, <2>4 DEF Sized, Own, Count, AddrsOf, IsInst
  <2> QED
    BY <2>1, <2>2, <2>3, <2>4 DEF Kinds
<1>5. x + 1 \in DOMAIN s
  BY <1>4, ListFacts
<1>6. InstGood(Store, U, inst)
  BY <1>2 DEF Built
<1>7. ItemGood(Store, U, kind, s[x + 1])
  BY <1>5, <1>6 DEF InstGood, ItemGood, AddrsOf, Kinds
<1> QED
  BY <1>7 DEF At, U

LEMMA ExportsStep ==
  ASSUME LInv, AllocExports
  PROVE  LInv'
<1> DEFINE at(n) == CHOOSE k \in DOMAIN M.exports : M.exports[k].name = n
           exs == [n \in {M.exports[k].name : k \in DOMAIN M.exports} |->
                     [kind |-> M.exports[at(n)].kind,
                      addr |-> At(AddrsOf(inst, M.exports[at(n)].kind), M.exports[at(n)].x)]]
           U == Wasms \cup {load.h}
<1>1. load.phase = "exports" /\ Loading
  BY DEF AllocExports, In, Loading, Unregistered
<1>2. /\ Building /\ IsLoad(load) /\ M \in Modules /\ ModuleValid(M) /\ IsModule(M)
      /\ Built(Store, U, load, inst) /\ IsInst(inst) /\ inst.mod = M /\ load.mod = M
  BY <1>1, BuildingFacts
<1>3. load' = Stage("datas")
  BY <1>2, AfterIsNext DEF AllocExports
<1>4. /\ inst' = [inst EXCEPT !.exports = exs]
      /\ UNCHANGED <<names, map, nextHandle, handles>>
      /\ UNCHANGED store
  BY DEF AllocExports, registry
<1>5. StoreOK(Store') /\ Store' = Store /\ Effects(Store, Store', Wasms)
  BY <1>4, QuietStep
<1>6. ExportsGood(Store, U, exs)
  <2> SUFFICES ASSUME NEW n \in DOMAIN exs
               PROVE  exs[n].kind \in Kinds /\ ItemGood(Store, U, exs[n].kind, exs[n].addr)
    BY DEF ExportsGood
  <2> HIDE DEF U
  <2>1. \E k \in DOMAIN M.exports : M.exports[k].name = n
    OBVIOUS
  <2>2. at(n) \in DOMAIN M.exports
    BY <2>1
  <2>3. /\ exs[n].kind = M.exports[at(n)].kind
        /\ exs[n].addr = At(AddrsOf(inst, M.exports[at(n)].kind), M.exports[at(n)].x)
    OBVIOUS
  <2> HIDE DEF exs, at
  <2>4. /\ M.exports[at(n)].kind \in Kinds /\ M.exports[at(n)].x \in Nat
        /\ M.exports[at(n)].x < Count(M, M.exports[at(n)].kind)
    BY <1>2, <2>2 DEF IsModule, ModuleValid, ExportsValid
  <2>5. ItemGood(Store, U, M.exports[at(n)].kind,
                 At(AddrsOf(inst, M.exports[at(n)].kind), M.exports[at(n)].x))
    BY <1>1, <2>4, IndexFacts DEF In, U
  <2> QED
    BY <2>3, <2>4, <2>5
<1> HIDE DEF exs, U
<1>7. /\ inst'.kind = inst.kind /\ inst'.mod = inst.mod /\ inst'.linked = inst.linked
      /\ inst'.exports = exs /\ inst'.funcs = inst.funcs
      /\ inst'.tables = inst.tables /\ inst'.mems = inst.mems
      /\ inst'.globals = inst.globals /\ inst'.elems = inst.elems
      /\ inst'.datas = inst.datas
      /\ inst' = [kind |-> "wasm", mod |-> inst'.mod, linked |-> inst'.linked,
                  exports |-> inst'.exports,
                  funcs |-> inst'.funcs, tables |-> inst'.tables, mems |-> inst'.mems,
                  globals |-> inst'.globals, elems |-> inst'.elems, datas |-> inst'.datas]
  <2>1. inst = [kind |-> "wasm", mod |-> inst.mod, linked |-> inst.linked,
                exports |-> inst.exports, funcs |-> inst.funcs,
                tables |-> inst.tables, mems |-> inst.mems, globals |-> inst.globals,
                elems |-> inst.elems, datas |-> inst.datas]
    BY <1>2 DEF IsInst
  <2>2. inst' = [kind |-> "wasm", mod |-> inst.mod, linked |-> inst.linked,
                 exports |-> exs, funcs |-> inst.funcs,
                 tables |-> inst.tables, mems |-> inst.mems, globals |-> inst.globals,
                 elems |-> inst.elems, datas |-> inst.datas]
    <3>1. inst' = [inst EXCEPT !.exports = exs]
      BY <1>4
    <3> QED
      BY <2>1, <3>1
  <2>3. inst.kind = "wasm"
    BY <2>1
  <2> QED
    BY <2>2, <2>3
<1>8. IsInst(inst')
  BY <1>2, <1>7 DEF IsInst
<1>9. InstGood(Store', U, inst') /\ ExportsGood(Store', U, inst'.exports)
  BY <1>2, <1>5, <1>6, <1>7 DEF Built, InstGood
<1>10. LinkedGood(Store', inst') /\ GlobalsKnown(Store', inst') /\ TablesKnown(Store', inst')
  BY <1>2, <1>5, <1>7 DEF Built, LinkedGood, GlobalsKnown, TablesKnown
<1>11. Sized(inst', "datas")
  <2>1. Sized(inst, "exports")
    BY <1>1, <1>2 DEF Built
  <2> QED
    BY <1>7, <2>1 DEF Sized, Own
<1>12. SegmentsBuilt(Store', inst', Stage("datas"))
  <2>1. ElemsAligned(Store, inst) /\ ElemsDropped(Store, inst, 1)
    BY <1>1, <1>2 DEF Built, SegmentsBuilt
  <2>2. ElemsAligned(Store', inst') /\ ElemsDropped(Store', inst', 1)
    BY <1>5, <1>7, <2>1 DEF ElemsAligned, ElemsDropped
  <2> QED
    BY <2>2 DEF SegmentsBuilt, Stage, Registering
<1>13. Built(Store', U, Stage("datas"), inst')
  BY <1>2, <1>7, <1>8, <1>9, <1>10, <1>11, <1>12 DEF Built, Stage
<1>14. "datas" \in Unregistered
  BY DEF Unregistered
<1> QED
  BY <1>1, <1>3, <1>4, <1>5, <1>13, <1>14, BuildStep DEF U

LEMMA DatasStep ==
  ASSUME LInv, AllocDatas
  PROVE  LInv'
<1> DEFINE new == [k \in DOMAIN M.datas |-> [len |-> M.datas[k].len]]
           f == Fresh(datas, Len(M.datas))
           U == Wasms \cup {load.h}
<1>1. load.phase = "datas" /\ Loading
  BY DEF AllocDatas, In, Loading, Unregistered
<1>2. /\ Building /\ IsLoad(load) /\ M \in Modules /\ ModuleValid(M) /\ IsModule(M)
      /\ Built(Store, U, load, inst) /\ IsInst(inst) /\ inst.mod = M /\ load.mod = M
      /\ Ordinary(Store) /\ StoreOK(Store)
  BY <1>1, BuildingFacts
<1>3. load' = Stage("register")
  BY <1>2, AfterIsNext DEF AllocDatas
<1>4. /\ datas' = datas \o new /\ inst' = [inst EXCEPT !.datas = f]
      /\ UNCHANGED <<names, map, nextHandle, handles>>
      /\ UNCHANGED <<funcs, tables, mems, globals, elems>>
  BY DEF AllocDatas, registry
<1>5. Len(M.datas) \in Nat /\ DOMAIN M.datas = 1 .. Len(M.datas)
  BY <1>2, ModuleLists
<1>6. /\ IsList(new) /\ Len(new) = Len(M.datas) /\ DOMAIN new = DOMAIN M.datas
      /\ \A k \in DOMAIN new : IsData(new[k])
  <2>1. new = [k \in 1 .. Len(M.datas) |-> new[k]] /\ DOMAIN new = DOMAIN M.datas
    BY <1>5
  <2>2. \A k \in DOMAIN new : new[k] = [len |-> new[k].len]
    OBVIOUS
  <2> HIDE DEF new
  <2> QED
    BY <1>5, <2>1, <2>2, FunctionIsList DEF IsData
<1> HIDE DEF new, f, U
<1>7. IsList(datas)
  BY <1>2, StoreFields DEF StoreOK
<1>8. Joined(datas, new, datas')
  BY <1>4, <1>6, <1>7, ConcatJoins
<1>9. Effects(Store, Store', Wasms)
  BY <1>2, <1>4, <1>8, ExtendsFacts, GrownEffects, StoreFields, StoreFieldsNext
<1>10. StoreOK(Store')
  <2>1. \A a \in DOMAIN datas' : IsData(datas'[a])
    <3> TAKE a \in DOMAIN datas'
    <3>1. \/ a \in DOMAIN datas /\ datas'[a] = datas[a]
          \/ \E j \in DOMAIN new : datas'[a] = new[j]
      BY <1>6, <1>7, <1>8, JoinedItems
    <3> QED
      BY <1>2, <1>6, <3>1, StoreFields DEF StoreOK
  <2> QED
    BY <1>2, <1>4, <1>8, <2>1, StoreFields, StoreFieldsNext DEF StoreOK, Joined
<1>11. Built(Store', U, load, inst)
  <2>1. Ordinary(Store')
    BY <1>10, OKIsOrdinary
  <2>2. Wasms \subseteq U
    BY DEF U
  <2> QED
    BY <1>2, <1>9, <2>1, <2>2, BuiltStays
<1>12. /\ IsList(f) /\ Len(f) = Len(M.datas)
       /\ \A k \in DOMAIN f : DataGood(Store', f[k])
  <2>1. /\ IsList(Fresh(datas, Len(new))) /\ Len(Fresh(datas, Len(new))) = Len(new)
        /\ DOMAIN Fresh(datas, Len(new)) = DOMAIN new
        /\ \A k \in DOMAIN new : Fresh(datas, Len(new))[k] \in DOMAIN datas'
    BY <1>6, <1>7, <1>8, FreshFacts
  <2>2. f = Fresh(datas, Len(new))
    BY <1>6 DEF f
  <2> QED
    BY <1>6, <2>1, <2>2, StoreFieldsNext DEF DataGood
<1>13. /\ inst'.kind = inst.kind /\ inst'.mod = inst.mod /\ inst'.linked = inst.linked
       /\ inst'.exports = inst.exports /\ inst'.funcs = inst.funcs
       /\ inst'.tables = inst.tables /\ inst'.mems = inst.mems
       /\ inst'.globals = inst.globals /\ inst'.elems = inst.elems
       /\ inst'.datas = f
       /\ inst' = [kind |-> "wasm", mod |-> inst'.mod, linked |-> inst'.linked,
                   exports |-> inst'.exports,
                   funcs |-> inst'.funcs, tables |-> inst'.tables, mems |-> inst'.mems,
                   globals |-> inst'.globals, elems |-> inst'.elems, datas |-> inst'.datas]
  <2>1. inst = [kind |-> "wasm", mod |-> inst.mod, linked |-> inst.linked,
                exports |-> inst.exports, funcs |-> inst.funcs,
                tables |-> inst.tables, mems |-> inst.mems, globals |-> inst.globals,
                elems |-> inst.elems, datas |-> inst.datas]
    BY <1>2 DEF IsInst
  <2>2. inst' = [kind |-> "wasm", mod |-> inst.mod, linked |-> inst.linked,
                 exports |-> inst.exports, funcs |-> inst.funcs,
                 tables |-> inst.tables, mems |-> inst.mems, globals |-> inst.globals,
                 elems |-> inst.elems, datas |-> f]
    <3>1. inst' = [inst EXCEPT !.datas = f]
      BY <1>4
    <3> QED
      BY <2>1, <3>1
  <2>3. inst.kind = "wasm"
    BY <2>1
  <2> QED
    BY <2>2, <2>3
<1>14. IsInst(inst')
  BY <1>2, <1>12, <1>13 DEF IsInst
<1>15. InstGood(Store', U, inst') /\ ExportsGood(Store', U, inst'.exports)
  BY <1>11, <1>12, <1>13 DEF Built, InstGood
<1>16. LinkedGood(Store', inst') /\ GlobalsKnown(Store', inst') /\ TablesKnown(Store', inst')
  BY <1>11, <1>13 DEF Built, LinkedGood, GlobalsKnown, TablesKnown
<1>17. Sized(inst', "register")
  <2>1. Sized(inst, "datas")
    BY <1>1, <1>2 DEF Built
  <2> QED
    BY <1>13, <2>1 DEF Sized, Own
<1>18. SegmentsBuilt(Store', inst', Stage("register"))
  <2>1. ElemsAligned(Store', inst) /\ ElemsDropped(Store', inst, 1)
    BY <1>1, <1>11 DEF Built, SegmentsBuilt
  <2>2. ElemsAligned(Store', inst') /\ ElemsDropped(Store', inst', 1)
    BY <1>13, <2>1 DEF ElemsAligned, ElemsDropped
  <2>3. DatasAligned(inst')
    BY <1>2, <1>12, <1>13 DEF DatasAligned
  <2> QED
    BY <2>2, <2>3 DEF SegmentsBuilt, Stage, Registering
<1>19. Built(Store', U, Stage("register"), inst')
  BY <1>2, <1>13, <1>14, <1>15, <1>16, <1>17, <1>18 DEF Built, Stage
<1>20. "register" \in Unregistered
  BY DEF Unregistered
<1> QED
  BY <1>1, <1>3, <1>4, <1>9, <1>10, <1>19, <1>20, BuildStep DEF U

LEMMA RegisterStep ==
  ASSUME LInv, AddInstance
  PROVE  LInv'
<1> DEFINE U == Wasms \cup {load.h}
           new == Stage("init_elems")
<1>1. load.phase = "register" /\ Loading
  BY DEF AddInstance, In, Loading, Unregistered
<1>2. /\ Building /\ IsLoad(load) /\ M \in Modules
      /\ Built(Store, U, load, inst) /\ IsInst(inst) /\ inst.mod = M /\ load.mod = M
  BY <1>1, BuildingFacts
<1>3. /\ load' = new /\ new.phase = "init_elems" /\ new.mod = load.mod
      /\ new.h = load.h /\ new.k = 1
      /\ new = [phase |-> new.phase, mod |-> new.mod, h |-> new.h, k |-> new.k]
  BY <1>2, AfterIsNext DEF AddInstance, Stage
<1>4. load.h \notin DOMAIN map /\ load.h \in 0 .. nextHandle - 1
  BY <1>1, LoadFacts DEF Loading
<1> HIDE DEF U, new
<1>5. /\ UNCHANGED <<names, nextHandle, handles, inst>> /\ UNCHANGED store
      /\ DOMAIN map' = DOMAIN map \cup {load.h} /\ map'[load.h] = inst
      /\ \A h \in DOMAIN map : map'[h] = map[h]
  BY <1>4 DEF AddInstance, Put
<1>6. inst.kind = "wasm"
  <2>1. inst = [kind |-> "wasm", mod |-> inst.mod, linked |-> inst.linked,
                exports |-> inst.exports, funcs |-> inst.funcs,
                tables |-> inst.tables, mems |-> inst.mems, globals |-> inst.globals,
                elems |-> inst.elems, datas |-> inst.datas]
    BY <1>2 DEF IsInst
  <2> QED
    BY <2>1
<1>7. Wasms' = U
  BY <1>5, <1>6 DEF Wasms, U
<1>8. Store' = Store /\ StoreOK(Store') /\ Effects(Store, Store', Wasms)
  BY <1>5, UnchangedStore, OKIsOrdinary, SameEffects DEF LInv
<1>9. EntryGood(Store', Wasms', map'[load.h])
  <2>1. /\ InstGood(Store, U, inst) /\ ExportsGood(Store, U, inst.exports)
        /\ LinkedGood(Store, inst) /\ SegmentsBuilt(Store, inst, load)
    BY <1>2 DEF Built
  <2>2. ElemsAligned(Store, inst) /\ DatasAligned(inst)
    BY <1>1, <2>1 DEF SegmentsBuilt
  <2>3. EntryGood(Store, U, inst)
    BY <1>2, <2>1, <2>2 DEF EntryGood
  <2> QED
    BY <1>5, <1>7, <1>8, <2>3
<1>10. EntriesOK'
  BY <1>5, <1>8, <1>9, EntriesStay
<1>11. HandlesOK'
  BY <1>5, <1>8, HandlesStay DEF HandlesOK, LInv, RegistryOK
<1>12. RegistryOK'
  BY <1>4, <1>5 DEF LInv, RegistryOK
<1>13. IsLoad(load')
  <2>1. load'.phase = "init_elems" /\ load'.mod = load.mod /\ load'.h = load.h /\ load'.k = 1
    BY <1>3
  <2>2. load' = [phase |-> load'.phase, mod |-> load'.mod, h |-> load'.h, k |-> load'.k]
    BY <1>3
  <2>3. load.mod \in Modules /\ ModuleValid(load.mod)
    BY <1>2 DEF IsLoad
  <2> QED
    BY <2>1, <2>2, <2>3 DEF IsLoad, Registering
<1>14. LoadOK'
  BY <1>3, <1>4, <1>5, <1>13 DEF LoadOK, Unregistered
<1>15. Built(Store', U, load', inst)
  <2>1. Sized(inst, "init_elems")
    <3>1. Sized(inst, "register")
      BY <1>1, <1>2 DEF Built
    <3> QED
      BY <3>1 DEF Sized, Own
  <2>2. SegmentsBuilt(Store, inst, load')
    <3>1. ElemsAligned(Store, inst) /\ ElemsDropped(Store, inst, 1) /\ DatasAligned(inst)
      BY <1>1, <1>2 DEF Built, SegmentsBuilt
    <3> QED
      BY <1>3, <3>1 DEF SegmentsBuilt
  <2> QED
    BY <1>2, <1>3, <1>8, <2>1, <2>2 DEF Built
<1>16. InstOK'
  <2>1. Wasms' \cup {load'.h} = U
    BY <1>3, <1>7 DEF U
  <2> QED
    BY <1>5, <1>15, <2>1 DEF InstOK
<1> QED
  BY <1>8, <1>10, <1>11, <1>12, <1>14, <1>16 DEF LInv

-----------------------------------------------------------------------------
(* Phases of a registered instance.                                        *)

Writing == load.phase \in Registering

LEMMA WritingFacts ==
  ASSUME LInv, Writing
  PROVE  /\ Building /\ IsLoad(load) /\ M \in Modules /\ ModuleValid(M) /\ IsModule(M)
         /\ load.h \in DOMAIN map /\ map[load.h] = inst /\ load.h \in Wasms
         /\ Built(Store, Wasms, load, inst)
         /\ IsInst(inst) /\ inst.mod = M /\ load.mod = M
         /\ Ordinary(Store) /\ StoreOK(Store)
<1>1. /\ IsLoad(load) /\ M \in Modules /\ ModuleValid(M) /\ load.mod = M
      /\ load.h \in DOMAIN map /\ map[load.h] = inst
  BY LoadFacts DEF Writing
<1>2. IsModule(M)
  BY <1>1, ModulesAssumption
<1>3. Building
  BY DEF Writing, Building, Registering
<1>4. Built(Store, Wasms \cup {load.h}, load, inst)
  BY <1>3 DEF LInv, InstOK
<1>5. IsInst(inst) /\ inst.mod = M
  BY <1>1, <1>4 DEF Built
<1>6. inst.kind = "wasm"
  <2>1. inst = [kind |-> "wasm", mod |-> inst.mod, linked |-> inst.linked,
                exports |-> inst.exports, funcs |-> inst.funcs,
                tables |-> inst.tables, mems |-> inst.mems, globals |-> inst.globals,
                elems |-> inst.elems, datas |-> inst.datas]
    BY <1>5 DEF IsInst
  <2> QED
    BY <2>1
<1>7. load.h \in Wasms /\ Wasms \cup {load.h} = Wasms
  BY <1>1, <1>6 DEF Wasms
<1>8. Ordinary(Store) /\ StoreOK(Store)
  BY OKIsOrdinary DEF LInv
<1> QED
  BY <1>1, <1>2, <1>3, <1>4, <1>5, <1>7, <1>8

LEMMA WritingStep ==
  ASSUME LInv, Writing, Effects(Store, Store', Wasms), StoreOK(Store'),
         UNCHANGED <<names, map, nextHandle, handles, inst>>,
         IsLoad(load'), load'.phase \in Registering,
         load'.mod = load.mod, load'.h = load.h, SegmentsBuilt(Store', inst, load')
  PROVE  LInv'
<1>1. EntriesOK' /\ Wasms' = Wasms
  BY EntriesStay DEF Wasms
<1>2. HandlesOK'
  BY HandlesStay DEF HandlesOK
<1>3. RegistryOK'
  BY DEF LInv, RegistryOK
<1>4. /\ load.h \in DOMAIN map /\ map[load.h] = inst /\ load.h \in Wasms
      /\ Built(Store, Wasms, load, inst) /\ Ordinary(Store)
  BY WritingFacts
<1>5. load.h \in 0 .. nextHandle - 1
  BY LoadFacts DEF Writing
<1>6. load'.phase \notin Unregistered
  BY DEF Registering, Unregistered
<1>7. LoadOK'
  BY <1>4, <1>5, <1>6 DEF LoadOK
<1>8. Built(Store', Wasms, load, inst)
  BY <1>4, OKIsOrdinary, BuiltStays
<1>9. Sized(inst, load'.phase)
  <2>1. Sized(inst, load.phase)
    BY <1>4 DEF Built
  <2> QED
    BY <2>1 DEF Sized, Own, Writing, Registering
<1>10. Built(Store', Wasms, load', inst)
  BY <1>8, <1>9 DEF Built
<1>11. InstOK'
  <2>1. Wasms' \cup {load'.h} = Wasms
    BY <1>1, <1>4
  <2> QED
    BY <1>10, <2>1 DEF InstOK
<1> QED
  BY <1>1, <1>2, <1>3, <1>7, <1>11 DEF LInv

(* The next segment of the same phase.                                     *)
LEMMA NextSegment ==
  ASSUME IsLoad(load), load' = [load EXCEPT !.k = @ + 1]
  PROVE  /\ load'.phase = load.phase /\ load'.mod = load.mod /\ load'.h = load.h
         /\ load'.k = load.k + 1 /\ load.k \in Nat \ {0} /\ IsLoad(load')
<1>1. load = [phase |-> load.phase, mod |-> load.mod, h |-> load.h, k |-> load.k]
  BY DEF IsLoad
<1>2. load' = [phase |-> load.phase, mod |-> load.mod, h |-> load.h, k |-> load.k + 1]
  BY <1>1
<1>3. /\ load'.phase = load.phase /\ load'.mod = load.mod /\ load'.h = load.h
      /\ load'.k = load.k + 1
  BY <1>2
<1>4. load' = [phase |-> load'.phase, mod |-> load'.mod, h |-> load'.h, k |-> load'.k]
  BY <1>2, <1>3
<1>5. load.k \in Nat \ {0} /\ load'.k \in Nat \ {0}
  BY <1>3 DEF IsLoad
<1>6. IsLoad(load')
  BY <1>3, <1>4, <1>5 DEF IsLoad
<1> QED
  BY <1>3, <1>5, <1>6

(* The segments of a registered instance.                                  *)
LEMMA SegmentFacts ==
  ASSUME LInv, Writing
  PROVE  /\ ElemsAligned(Store, inst) /\ DatasAligned(inst)
         /\ DOMAIN inst.elems = DOMAIN M.elems /\ DOMAIN inst.datas = DOMAIN M.datas
         /\ DOMAIN M.elems = 1 .. Len(M.elems) /\ Len(M.elems) \in Nat
         /\ DOMAIN M.datas = 1 .. Len(M.datas) /\ Len(M.datas) \in Nat
         /\ ElemsDropped(Store, inst, 1)
         /\ In("init_elems") => ElemsDropped(Store, inst, load.k)
         /\ load.phase \in {"init_datas", "start"} =>
              ElemsDropped(Store, inst, Len(M.elems) + 1)
         /\ In("init_datas") => DatasDropped(Store, inst, load.k)
         /\ In("start") => DatasDropped(Store, inst, Len(M.datas) + 1)
<1>1. /\ M \in Modules /\ Built(Store, Wasms, load, inst) /\ IsInst(inst) /\ inst.mod = M
  BY WritingFacts
<1>2. SegmentsBuilt(Store, inst, load)
  BY <1>1 DEF Built
<1>3. ElemsAligned(Store, inst) /\ DatasAligned(inst) /\ ElemsDropped(Store, inst, 1)
  BY <1>2 DEF SegmentsBuilt, Writing, Registering
<1>4. /\ DOMAIN M.elems = 1 .. Len(M.elems) /\ Len(M.elems) \in Nat
      /\ DOMAIN M.datas = 1 .. Len(M.datas) /\ Len(M.datas) \in Nat
  BY <1>1, ModuleLists
<1>5. DOMAIN inst.elems = DOMAIN M.elems /\ DOMAIN inst.datas = DOMAIN M.datas
  BY <1>1, <1>3, <1>4, ListFacts DEF IsInst, ElemsAligned, DatasAligned
<1> QED
  BY <1>1, <1>2, <1>3, <1>4, <1>5 DEF SegmentsBuilt, In

LEMMA SkipStep ==
  ASSUME LInv, SkipSegment
  PROVE  LInv'
<1>1. Writing
  BY DEF SkipSegment, In, Writing, Registering
<1>2. /\ IsLoad(load) /\ IsModule(M) /\ inst.mod = M
  BY <1>1, WritingFacts
<1>3. /\ load' = [load EXCEPT !.k = @ + 1] /\ UNCHANGED store
      /\ UNCHANGED <<names, map, nextHandle, handles, inst>>
  BY DEF SkipSegment, registry
<1>4. /\ load'.phase = load.phase /\ load'.mod = load.mod /\ load'.h = load.h
      /\ load'.k = load.k + 1 /\ load.k \in Nat \ {0} /\ IsLoad(load')
  BY <1>2, <1>3, NextSegment
<1>5. StoreOK(Store') /\ Store' = Store /\ Effects(Store, Store', Wasms)
  BY <1>3, QuietStep
<1>6. /\ ElemsAligned(Store, inst) /\ DatasAligned(inst)
      /\ DOMAIN M.elems = 1 .. Len(M.elems) /\ Len(M.elems) \in Nat
      /\ DOMAIN M.datas = 1 .. Len(M.datas) /\ Len(M.datas) \in Nat
      /\ In("init_elems") => ElemsDropped(Store, inst, load.k)
      /\ load.phase \in {"init_datas", "start"} =>
           ElemsDropped(Store, inst, Len(M.elems) + 1)
      /\ In("init_datas") => DatasDropped(Store, inst, load.k)
  BY <1>1, SegmentFacts
<1>7. ElemsDropped(Store, inst, 1)
  BY <1>1, SegmentFacts
<1>8. ASSUME In("init_elems") PROVE ElemsDropped(Store, inst, load.k + 1)
  <2> SUFFICES ASSUME NEW k \in DOMAIN M.elems, Past(M.elems[k], k, load.k + 1)
               PROVE  Past(M.elems[k], k, load.k)
    BY <1>2, <1>6, <1>8 DEF ElemsDropped
  <2>1. load.k \in DOMAIN M.elems /\ M.elems[load.k].mode # "active"
    BY <1>4, <1>6, <1>8 DEF SkipSegment, In, Seg
  <2>2. M.elems[load.k].mode \in {"passive", "declarative"}
    BY <1>2, <2>1 DEF IsModule
  <2>3. k < load.k \/ k = load.k \/ M.elems[k].mode = "declarative"
    BY <1>4, <1>6 DEF Past
  <2> QED
    BY <2>2, <2>3 DEF Past
<1>9. ASSUME In("init_datas") PROVE DatasDropped(Store, inst, load.k + 1)
  <2> SUFFICES ASSUME NEW k \in DOMAIN M.datas, k < load.k + 1, M.datas[k].mode # "passive"
               PROVE  k < load.k
    BY <1>2, <1>6, <1>9 DEF DatasDropped
  <2>1. load.k \in DOMAIN M.datas /\ M.datas[load.k].mode # "active"
    BY <1>4, <1>6, <1>9 DEF SkipSegment, In
  <2>2. M.datas[load.k].mode = "passive"
    BY <1>2, <2>1 DEF IsModule
  <2> QED
    BY <1>4, <1>6, <2>2
<1>10. SegmentsBuilt(Store', inst, load')
  BY <1>2, <1>4, <1>5, <1>6, <1>7, <1>8, <1>9 DEF SegmentsBuilt, SkipSegment, In
<1> QED
  BY <1>1, <1>3, <1>4, <1>5, <1>10, WritingStep DEF Writing

LEMMA DoneStep ==
  ASSUME LInv, SegmentsDone
  PROVE  LInv'
<1>1. Writing
  BY DEF SegmentsDone, In, Writing, Registering
<1>2. /\ IsLoad(load) /\ inst.mod = M /\ Built(Store, Wasms, load, inst)
  BY <1>1, WritingFacts
<1>3. /\ UNCHANGED store /\ UNCHANGED <<names, map, nextHandle, handles, inst>>
  BY DEF SegmentsDone, registry
<1>4. StoreOK(Store') /\ Store' = Store /\ Effects(Store, Store', Wasms)
  BY <1>3, QuietStep
<1>5. /\ ElemsAligned(Store, inst) /\ DatasAligned(inst)
      /\ DOMAIN M.elems = 1 .. Len(M.elems) /\ Len(M.elems) \in Nat
      /\ DOMAIN M.datas = 1 .. Len(M.datas) /\ Len(M.datas) \in Nat
      /\ In("init_elems") => ElemsDropped(Store, inst, load.k)
      /\ load.phase \in {"init_datas", "start"} =>
           ElemsDropped(Store, inst, Len(M.elems) + 1)
      /\ In("init_datas") => DatasDropped(Store, inst, load.k)
  BY <1>1, SegmentFacts
<1>6. ElemsDropped(Store, inst, 1)
  BY <1>1, SegmentFacts
<1>7. load.k \in Nat \ {0}
  BY <1>2 DEF IsLoad
<1>8. ASSUME NEW q \in {"init_datas", "start"}, load' = Stage(q),
             SegmentsBuilt(Store, inst, load')
      PROVE  LInv'
  <2>1. load'.phase = q /\ load'.mod = load.mod /\ load'.h = load.h /\ load'.k = 1
    BY <1>8 DEF Stage
  <2>2. load' = [phase |-> load'.phase, mod |-> load'.mod, h |-> load'.h, k |-> load'.k]
    BY <1>8, <2>1 DEF Stage
  <2>3. load.mod \in Modules /\ ModuleValid(load.mod)
    BY <1>2 DEF IsLoad
  <2>4. IsLoad(load') /\ load'.phase \in Registering
    BY <2>1, <2>2, <2>3 DEF IsLoad, Registering
  <2> QED
    BY <1>1, <1>3, <1>4, <1>8, <2>1, <2>4, WritingStep
<1>9. CASE In("init_elems") /\ load.k > Len(M.elems)
  <2>1. load' = Stage("init_datas")
    BY <1>2, <1>9, AfterIsNext DEF SegmentsDone
  <2>2. ElemsDropped(Store, inst, Len(M.elems) + 1)
    BY <1>2, <1>5, <1>7, <1>9 DEF ElemsDropped, Past
  <2>3. DatasDropped(Store, inst, 1)
    BY <1>2, <1>5 DEF DatasDropped
  <2>4. SegmentsBuilt(Store, inst, Stage("init_datas"))
    BY <1>2, <1>5, <1>6, <2>2, <2>3 DEF SegmentsBuilt, Stage
  <2> QED
    BY <1>8, <2>1, <2>4
<1>10. CASE In("init_datas") /\ load.k > Len(M.datas)
  <2>1. load' = Stage("start")
    BY <1>2, <1>10, AfterIsNext DEF SegmentsDone
  <2>2. DatasDropped(Store, inst, Len(M.datas) + 1)
    BY <1>2, <1>5, <1>7, <1>10 DEF DatasDropped
  <2>3. ElemsDropped(Store, inst, Len(M.elems) + 1)
    BY <1>5, <1>10 DEF In
  <2>4. SegmentsBuilt(Store, inst, Stage("start"))
    BY <1>2, <1>5, <1>6, <2>2, <2>3 DEF SegmentsBuilt, Stage
  <2> QED
    BY <1>8, <2>1, <2>4
<1> QED
  BY <1>9, <1>10 DEF SegmentsDone

LEMMA DoneLoadStep ==
  ASSUME LInv, Instantiated
  PROVE  LInv'
<1>1. Writing /\ In("start")
  BY DEF Instantiated, In, Writing, Registering
<1>2. /\ load.h \in DOMAIN map /\ map[load.h] = inst /\ inst.mod = M
  BY <1>1, WritingFacts
<1>3. /\ load' = Idle /\ handles' = handles \cup {load.h}
      /\ UNCHANGED store /\ UNCHANGED <<names, map, nextHandle>>
  BY DEF Instantiated, registry, Give
<1>4. /\ ElemsDropped(Store, inst, Len(M.elems) + 1)
      /\ DatasDropped(Store, inst, Len(M.datas) + 1)
  BY <1>1, SegmentFacts DEF In
<1>5. Store' = Store /\ StoreOK(Store') /\ Effects(Store, Store', Wasms)
  BY <1>3, UnchangedStore, OKIsOrdinary, SameEffects DEF LInv
<1>6. EntriesOK'
  BY <1>3, <1>5, EntriesStay
<1>7. HandlesOK'
  <2>1. \A h \in handles : Given(Store', map'[h])
    BY <1>3, <1>5, HandlesStay
  <2>2. Given(Store', map'[load.h])
    BY <1>2, <1>3, <1>4, <1>5 DEF Given
  <2> QED
    BY <1>3, <2>1, <2>2 DEF HandlesOK
<1>8. RegistryOK' /\ LoadOK'
  BY <1>2, <1>3 DEF LInv, RegistryOK, LoadOK
<1>9. InstOK'
  BY <1>3 DEF InstOK, Building, Idle
<1> QED
  BY <1>5, <1>6, <1>7, <1>8, <1>9 DEF LInv

-----------------------------------------------------------------------------
(* Changing an item of the store.                                          *)

LEMMA ExceptIsList ==
  ASSUME NEW s, IsList(s), NEW i, NEW x
  PROVE  /\ IsList([s EXCEPT ![i] = x]) /\ Len([s EXCEPT ![i] = x]) = Len(s)
         /\ DOMAIN [s EXCEPT ![i] = x] = DOMAIN s
<1> DEFINE u == [s EXCEPT ![i] = x]
<1>1. Len(s) \in Nat /\ DOMAIN s = 1 .. Len(s)
  BY ListFacts
<1>2. u = [k \in 1 .. Len(s) |-> u[k]] /\ DOMAIN u = DOMAIN s
  BY <1>1
<1> HIDE DEF u
<1>3. IsList(u) /\ Len(u) = Len(s)
  BY <1>1, <1>2, FunctionIsList
<1> QED
  BY <1>2, <1>3 DEF u

LEMMA OverwriteFacts ==
  ASSUME NEW s, IsList(s), NEW from, NEW new
  PROVE  /\ IsList(Overwrite(s, from, new)) /\ Len(Overwrite(s, from, new)) = Len(s)
         /\ \A j \in DOMAIN Overwrite(s, from, new) :
              \/ j \in DOMAIN s /\ Overwrite(s, from, new)[j] = s[j]
              \/ \E k \in DOMAIN new : Overwrite(s, from, new)[j] = new[k]
<1> DEFINE u == Overwrite(s, from, new)
<1>1. Len(s) \in Nat /\ DOMAIN s = 1 .. Len(s)
  BY ListFacts
<1>2. u = [k \in 1 .. Len(s) |-> u[k]]
  BY <1>1 DEF Overwrite
<1>3. \A j \in DOMAIN u : \/ j \in DOMAIN s /\ u[j] = s[j]
                          \/ \E k \in DOMAIN new : u[j] = new[k]
  BY DEF Overwrite
<1> HIDE DEF u
<1>4. IsList(u) /\ Len(u) = Len(s)
  BY <1>1, <1>2, FunctionIsList
<1> QED
  BY <1>3, <1>4 DEF u

(* New references in a table.                                              *)
LEMMA TableWritten ==
  ASSUME StoreOK(Store), NEW R, NEW t \in DOMAIN tables, NEW r,
         tables' = [tables EXCEPT ![t].refs = r],
         IsList(r), Len(r) >= Len(tables[t].refs), WithinMax(Len(r), tables[t].max),
         RefsFrom(Store, R, tables[t].refs, r),
         \A j \in DOMAIN r : r[j].t = tables[t].elem
  PROVE  /\ TablesKept(Store, Store', R)
         /\ IsList(tables') /\ \A a \in DOMAIN tables' : IsTable(tables'[a])
<1> DEFINE x == [tables[t] EXCEPT !.refs = r]
<1>1. /\ IsList(tables) /\ \A a \in DOMAIN tables : IsTable(tables[a])
      /\ Ordinary(Store)
  BY StoreFields, OKIsOrdinary DEF StoreOK
<1>2. tables' = [tables EXCEPT ![t] = x]
  OBVIOUS
<1>3. /\ x.elem = tables[t].elem /\ x.max = tables[t].max /\ x.refs = r
      /\ x = [elem |-> x.elem, max |-> x.max, refs |-> x.refs]
  <2>1. tables[t] = [elem |-> tables[t].elem, max |-> tables[t].max,
                     refs |-> tables[t].refs]
    BY <1>1 DEF IsTable
  <2> QED
    BY <2>1
<1> HIDE DEF x
<1>4. /\ DOMAIN tables' = DOMAIN tables /\ tables'[t] = x
      /\ \A a \in DOMAIN tables : a # t => tables'[a] = tables[a]
  BY <1>2
<1>5. IsTable(x)
  <2>1. tables[t].max \in Nat \cup {NoMax}
    BY <1>1 DEF IsTable
  <2> QED
    BY <1>3, <2>1 DEF IsTable
<1>6. IsList(tables')
  <2>1. IsList([tables EXCEPT ![t] = x])
    BY <1>1, ExceptIsList
  <2> QED
    BY <1>2, <2>1, Zenon
<1>7. \A a \in DOMAIN tables' : IsTable(tables'[a])
  BY <1>1, <1>4, <1>5
<1>8. TablesKept(Store, Store', R)
  <2> SUFFICES ASSUME NEW a \in DOMAIN tables
               PROVE  /\ tables'[a].elem = tables[a].elem
                      /\ tables'[a].max = tables[a].max
                      /\ Len(tables'[a].refs) >= Len(tables[a].refs)
                      /\ RefsFrom(Store, R, tables[a].refs, tables'[a].refs)
    BY <1>4, StoreFields, StoreFieldsNext DEF TablesKept
  <2>1. CASE a = t
    BY <1>3, <1>4, <2>1
  <2>2. CASE a # t
    <3>1. Len(tables[a].refs) \in Nat
      BY <1>1, StoreFields DEF Ordinary
    <3> QED
      BY <1>4, <2>2, <3>1 DEF RefsFrom
  <2> QED
    BY <2>1, <2>2
<1> QED
  BY <1>6, <1>7, <1>8

(* A segment that is dropped.                                              *)
LEMMA ElemDropped ==
  ASSUME StoreOK(Store), NEW e \in DOMAIN elems,
         elems' = [elems EXCEPT ![e].refs = <<>>]
  PROVE  /\ ElemsKept(Store, Store') /\ elems'[e].refs = <<>>
         /\ IsList(elems') /\ \A a \in DOMAIN elems' : IsElem(elems'[a])
<1> DEFINE x == [elems[e] EXCEPT !.refs = <<>>]
<1>1. IsList(elems) /\ \A a \in DOMAIN elems : IsElem(elems[a])
  BY StoreFields DEF StoreOK
<1>2. elems' = [elems EXCEPT ![e] = x]
  OBVIOUS
<1>3. /\ x.elem = elems[e].elem /\ x.refs = <<>>
      /\ x = [elem |-> x.elem, refs |-> x.refs]
  <2>1. elems[e] = [elem |-> elems[e].elem, refs |-> elems[e].refs]
    BY <1>1 DEF IsElem
  <2> QED
    BY <2>1
<1> HIDE DEF x
<1>4. /\ DOMAIN elems' = DOMAIN elems /\ elems'[e] = x
      /\ \A a \in DOMAIN elems : a # e => elems'[a] = elems[a]
  BY <1>2
<1>5. IsElem(x)
  BY <1>3 DEF IsElem
<1>6. IsList(elems')
  <2>1. IsList([elems EXCEPT ![e] = x])
    BY <1>1, ExceptIsList
  <2> QED
    BY <1>2, <2>1, Zenon
<1>7. \A a \in DOMAIN elems' : IsElem(elems'[a])
  BY <1>1, <1>4, <1>5
<1>8. ElemsKept(Store, Store')
  BY <1>3, <1>4, StoreFields, StoreFieldsNext DEF ElemsKept
<1> QED
  BY <1>3, <1>4, <1>6, <1>7, <1>8

LEMMA DataDropped ==
  ASSUME StoreOK(Store), NEW d \in DOMAIN datas,
         datas' = [datas EXCEPT ![d].len = 0]
  PROVE  /\ DatasKept(Store, Store') /\ datas'[d].len = 0
         /\ IsList(datas') /\ \A a \in DOMAIN datas' : IsData(datas'[a])
<1> DEFINE x == [datas[d] EXCEPT !.len = 0]
<1>1. IsList(datas) /\ \A a \in DOMAIN datas : IsData(datas[a])
  BY StoreFields DEF StoreOK
<1>2. datas' = [datas EXCEPT ![d] = x]
  OBVIOUS
<1>3. x.len = 0 /\ x = [len |-> x.len]
  <2>1. datas[d] = [len |-> datas[d].len]
    BY <1>1 DEF IsData
  <2> QED
    BY <2>1
<1> HIDE DEF x
<1>4. /\ DOMAIN datas' = DOMAIN datas /\ datas'[d] = x
      /\ \A a \in DOMAIN datas : a # d => datas'[a] = datas[a]
  BY <1>2
<1>5. IsList(datas')
  <2>1. IsList([datas EXCEPT ![d] = x])
    BY <1>1, ExceptIsList
  <2> QED
    BY <1>2, <2>1, Zenon
<1>6. \A a \in DOMAIN datas' : IsData(datas'[a])
  BY <1>1, <1>3, <1>4 DEF IsData
<1>7. DatasKept(Store, Store')
  BY <1>3, <1>4, StoreFields, StoreFieldsNext DEF DatasKept
<1> QED
  BY <1>3, <1>4, <1>5, <1>6, <1>7

(* The kinds of items that a step leaves alone.                            *)
LEMMA SameKept ==
  ASSUME StoreOK(Store), NEW R
  PROVE  /\ UNCHANGED funcs => FuncsKept(Store, Store')
         /\ UNCHANGED tables => TablesKept(Store, Store', R)
         /\ UNCHANGED mems => MemsKept(Store, Store')
         /\ UNCHANGED globals => GlobalsKept(Store, Store', R)
         /\ UNCHANGED elems => ElemsKept(Store, Store')
         /\ UNCHANGED datas => DatasKept(Store, Store')
<1>1. Ordinary(Store)
  BY OKIsOrdinary
<1>2. /\ \A a \in DOMAIN tables : Len(tables[a].refs) \in Nat
      /\ \A a \in DOMAIN mems : mems[a].size \in Nat
  BY <1>1, StoreFields DEF Ordinary
<1>3. UNCHANGED funcs => FuncsKept(Store, Store')
  BY StoreFields, StoreFieldsNext DEF FuncsKept
<1>4. UNCHANGED tables => TablesKept(Store, Store', R)
  BY <1>2, StoreFields, StoreFieldsNext DEF TablesKept, RefsFrom
<1>5. UNCHANGED mems => MemsKept(Store, Store')
  BY <1>2, StoreFields, StoreFieldsNext DEF MemsKept
<1>6. UNCHANGED globals => GlobalsKept(Store, Store', R)
  BY StoreFields, StoreFieldsNext DEF GlobalsKept
<1>7. UNCHANGED elems => ElemsKept(Store, Store')
  BY StoreFields, StoreFieldsNext DEF ElemsKept
<1>8. UNCHANGED datas => DatasKept(Store, Store')
  BY StoreFields, StoreFieldsNext DEF DatasKept
<1> QED
  BY <1>3, <1>4, <1>5, <1>6, <1>7, <1>8

-----------------------------------------------------------------------------
(* Writing active segments.                                                *)

LEMMA ElemStep ==
  ASSUME LInv, InitElem
  PROVE  LInv'
<1> DEFINE t == At(inst.tables, Seg.table)
           e == inst.elems[load.k]
           new == elems[e].refs
           from == Offset(Seg.offset)
           r == Overwrite(tables[t].refs, from, new)
<1>1. Writing /\ In("init_elems") /\ load.phase = "init_elems"
  BY DEF InitElem, In, Writing, Registering
<1>2. /\ IsLoad(load) /\ M \in Modules /\ ModuleValid(M) /\ IsModule(M)
      /\ Built(Store, Wasms, load, inst) /\ IsInst(inst) /\ inst.mod = M
      /\ StoreOK(Store)
  BY <1>1, WritingFacts
<1>3. /\ tables' = [tables EXCEPT ![t].refs = r]
      /\ elems' = [elems EXCEPT ![e].refs = <<>>]
      /\ load' = [load EXCEPT !.k = @ + 1]
      /\ UNCHANGED <<names, map, nextHandle, handles, inst>>
      /\ UNCHANGED <<funcs, mems, globals, datas>>
      /\ Seg.mode = "active" /\ load.k <= Len(M.elems)
  BY DEF InitElem, registry
<1>4. /\ load'.phase = load.phase /\ load'.mod = load.mod /\ load'.h = load.h
      /\ load'.k = load.k + 1 /\ load.k \in Nat \ {0} /\ IsLoad(load')
  BY <1>2, <1>3, NextSegment
<1>5. /\ ElemsAligned(Store, inst) /\ DatasAligned(inst)
      /\ DOMAIN inst.elems = DOMAIN M.elems
      /\ DOMAIN M.elems = 1 .. Len(M.elems) /\ Len(M.elems) \in Nat
      /\ ElemsDropped(Store, inst, 1) /\ ElemsDropped(Store, inst, load.k)
  BY <1>1, SegmentFacts
<1>6. load.k \in DOMAIN M.elems /\ Seg = M.elems[load.k]
  <2>1. load.k \in Nat \ {0} /\ load.k <= Len(M.elems)
    BY <1>3, <1>4, Zenon
  <2>2. DOMAIN M.elems = 1 .. Len(M.elems) /\ Len(M.elems) \in Nat
    BY <1>5, Zenon
  <2>3. load.k \in 1 .. Len(M.elems)
    BY <2>1, <2>2
  <2> QED
    BY <2>2, <2>3, Zenon DEF Seg
<1>7. /\ Seg.table \in Nat /\ Seg.table < Count(M, "table")
      /\ TableTypeAt(M, Seg.table) = Seg.elem
  <2>1. M.elems[load.k].mode = "active"
    BY <1>3, <1>6, Zenon
  <2>2. M.elems[load.k].table \in Nat
    BY <1>2, <1>6, <2>1 DEF IsModule
  <2>3. /\ M.elems[load.k].table < Count(M, "table")
        /\ TableTypeAt(M, M.elems[load.k].table) = M.elems[load.k].elem
    BY <1>2, <1>6, <2>1 DEF ModuleValid, ElementsValid
  <2> QED
    BY <1>6, <2>2, <2>3, Zenon
<1>8. Seg.table + 1 \in DOMAIN inst.tables
  <2>1. Sized(inst, "init_elems")
    BY <1>1, <1>2 DEF Built
  <2>2. Len(inst.tables) = Count(M, "table")
    BY <1>2, <2>1 DEF Sized, Own, Count
  <2>3. Len(inst.tables) \in Nat /\ DOMAIN inst.tables = 1 .. Len(inst.tables)
    BY <1>2, ListFacts DEF IsInst
  <2> QED
    BY <1>7, <2>2, <2>3
<1>9. t = inst.tables[Seg.table + 1]
  BY DEF At
<1>10. t \in DOMAIN tables /\ tables[t].elem = Seg.elem
  <2>1. InstGood(Store, Wasms, inst) /\ TablesKnown(Store, inst)
    BY <1>2 DEF Built
  <2>2. (Seg.table + 1) - 1 = Seg.table
    BY <1>7
  <2>3. \A x \in DOMAIN inst.tables : tables[inst.tables[x]].elem = TableTypeAt(M, x - 1)
    BY <1>2, <2>1, StoreFields DEF TablesKnown
  <2>4. tables[t].elem = TableTypeAt(M, (Seg.table + 1) - 1)
    BY <1>8, <1>9, <2>3, Zenon
  <2> QED
    BY <1>7, <1>8, <1>9, <2>1, <2>2, <2>4, StoreFields DEF InstGood, TableGood
<1>11. /\ e \in DOMAIN elems /\ RefsGood(Store, Wasms, new)
       /\ elems[e].elem = Seg.elem /\ IsElem(elems[e])
  <2>1. InstGood(Store, Wasms, inst)
    BY <1>2 DEF Built
  <2>2. e \in DOMAIN elems /\ RefsGood(Store, Wasms, new)
    BY <1>5, <1>6, <2>1, StoreFields DEF InstGood, ElemGood
  <2>3. elems[e].elem = Seg.elem
    BY <1>2, <1>5, <1>6, StoreFields DEF ElemsAligned
  <2> QED
    BY <1>2, <2>2, <2>3, StoreFields DEF StoreOK
<1>12. IsTable(tables[t])
  BY <1>2, <1>10, StoreFields DEF StoreOK
<1> HIDE DEF t, e, new, from
<1>13. /\ IsList(r) /\ Len(r) = Len(tables[t].refs) /\ Len(r) \in Nat
       /\ \A j \in DOMAIN r : \/ \E k \in DOMAIN tables[t].refs : r[j] = tables[t].refs[k]
                              \/ \E k \in DOMAIN new : r[j] = new[k]
  <2>1. IsList(tables[t].refs)
    BY <1>12 DEF IsTable
  <2>2. /\ IsList(r) /\ Len(r) = Len(tables[t].refs)
        /\ \A j \in DOMAIN r : \/ j \in DOMAIN tables[t].refs /\ r[j] = tables[t].refs[j]
                               \/ \E k \in DOMAIN new : r[j] = new[k]
    BY <2>1, OverwriteFacts
  <2> QED
    BY <2>2, ListFacts
<1> HIDE DEF r
<1>14. \A k \in DOMAIN new : new[k].t = tables[t].elem /\ RefGood(Store, Wasms, new[k])
  BY <1>10, <1>11 DEF IsElem, RefsGood, new
<1>15. \A j \in DOMAIN r : r[j].t = tables[t].elem
  BY <1>12, <1>13, <1>14 DEF IsTable
<1>16. RefsFrom(Store, Wasms, tables[t].refs, r)
  BY <1>13, <1>14 DEF RefsFrom
<1>17. Len(r) >= Len(tables[t].refs) /\ WithinMax(Len(r), tables[t].max)
  BY <1>12, <1>13 DEF IsTable
<1>18. /\ TablesKept(Store, Store', Wasms)
       /\ IsList(tables') /\ \A a \in DOMAIN tables' : IsTable(tables'[a])
  BY <1>2, <1>3, <1>10, <1>13, <1>15, <1>16, <1>17, TableWritten
<1>19. /\ ElemsKept(Store, Store') /\ elems'[e].refs = <<>>
       /\ IsList(elems') /\ \A a \in DOMAIN elems' : IsElem(elems'[a])
  BY <1>2, <1>3, <1>11, ElemDropped
<1>20. Effects(Store, Store', Wasms)
  BY <1>2, <1>3, <1>18, <1>19, SameKept DEF Effects
<1>21. StoreOK(Store')
  BY <1>2, <1>3, <1>18, <1>19, StoreFields, StoreFieldsNext DEF StoreOK
<1>22. /\ ElemsAligned(Store', inst) /\ ElemsDropped(Store', inst, 1)
       /\ ElemsDropped(Store', inst, load.k)
  <2>1. InstGood(Store, Wasms, inst)
    BY <1>2 DEF Built
  <2> QED
    BY <1>2, <1>5, <1>20, <2>1, SegmentsStay
<1>23. ElemsDropped(Store', inst, load.k + 1)
  <2> SUFFICES ASSUME NEW k \in DOMAIN M.elems, Past(M.elems[k], k, load.k + 1)
               PROVE  elems'[inst.elems[k]].refs = <<>>
    BY <1>2, StoreFieldsNext DEF ElemsDropped
  <2>1. k = load.k \/ Past(M.elems[k], k, load.k)
    <3>1. k \in Nat
      BY <1>5
    <3> QED
      BY <1>4, <3>1 DEF Past
  <2>2. CASE k = load.k
    BY <1>19, <2>2 DEF e
  <2>3. CASE Past(M.elems[k], k, load.k)
    BY <1>2, <1>22, <2>3, StoreFieldsNext DEF ElemsDropped
  <2> QED
    BY <2>1, <2>2, <2>3
<1>24. SegmentsBuilt(Store', inst, load')
  BY <1>1, <1>4, <1>5, <1>22, <1>23 DEF SegmentsBuilt
<1> QED
  BY <1>1, <1>3, <1>4, <1>20, <1>21, <1>24, WritingStep DEF Writing

LEMMA DataStep ==
  ASSUME LInv, InitData
  PROVE  LInv'
<1> DEFINE d == inst.datas[load.k]
<1>1. Writing /\ In("init_datas") /\ load.phase = "init_datas"
  BY DEF InitData, In, Writing, Registering
<1>2. /\ IsLoad(load) /\ M \in Modules /\ IsModule(M)
      /\ Built(Store, Wasms, load, inst) /\ IsInst(inst) /\ inst.mod = M
      /\ StoreOK(Store)
  BY <1>1, WritingFacts
<1>3. /\ datas' = [datas EXCEPT ![d].len = 0]
      /\ load' = [load EXCEPT !.k = @ + 1]
      /\ UNCHANGED <<names, map, nextHandle, handles, inst>>
      /\ UNCHANGED <<funcs, tables, mems, globals, elems>>
      /\ load.k <= Len(M.datas)
  BY DEF InitData, registry
<1>4. /\ load'.phase = load.phase /\ load'.mod = load.mod /\ load'.h = load.h
      /\ load'.k = load.k + 1 /\ load.k \in Nat \ {0} /\ IsLoad(load')
  BY <1>2, <1>3, NextSegment
<1>5. /\ ElemsAligned(Store, inst) /\ DatasAligned(inst)
      /\ DOMAIN inst.datas = DOMAIN M.datas
      /\ DOMAIN M.datas = 1 .. Len(M.datas) /\ Len(M.datas) \in Nat
      /\ ElemsDropped(Store, inst, 1) /\ ElemsDropped(Store, inst, Len(M.elems) + 1)
      /\ DatasDropped(Store, inst, load.k)
  BY <1>1, SegmentFacts
<1>6. load.k \in DOMAIN M.datas
  BY <1>3, <1>4, <1>5
<1>7. InstGood(Store, Wasms, inst)
  BY <1>2 DEF Built
<1>8. d \in DOMAIN datas
  BY <1>5, <1>6, <1>7, StoreFields DEF InstGood, DataGood
<1> HIDE DEF d
<1>9. /\ DatasKept(Store, Store') /\ datas'[d].len = 0
      /\ IsList(datas') /\ \A a \in DOMAIN datas' : IsData(datas'[a])
  BY <1>2, <1>3, <1>8, DataDropped
<1>10. Effects(Store, Store', Wasms)
  BY <1>2, <1>3, <1>9, SameKept DEF Effects
<1>11. StoreOK(Store')
  BY <1>2, <1>3, <1>9, StoreFields, StoreFieldsNext DEF StoreOK
<1>12. /\ ElemsAligned(Store', inst) /\ ElemsDropped(Store', inst, 1)
       /\ ElemsDropped(Store', inst, Len(M.elems) + 1)
       /\ DatasDropped(Store', inst, load.k)
  BY <1>2, <1>5, <1>7, <1>10, SegmentsStay
<1>13. DatasDropped(Store', inst, load.k + 1)
  <2> SUFFICES ASSUME NEW k \in DOMAIN M.datas, k < load.k + 1,
                      M.datas[k].mode # "passive"
               PROVE  datas'[inst.datas[k]].len = 0
    BY <1>2, StoreFieldsNext DEF DatasDropped
  <2>1. k = load.k \/ k < load.k
    <3>1. k \in Nat
      BY <1>5
    <3> QED
      BY <1>4, <3>1
  <2>2. CASE k = load.k
    BY <1>9, <2>2 DEF d
  <2>3. CASE k < load.k
    BY <1>2, <1>12, <2>3, StoreFieldsNext DEF DatasDropped
  <2> QED
    BY <2>1, <2>2, <2>3
<1>14. SegmentsBuilt(Store', inst, load')
  BY <1>1, <1>2, <1>4, <1>5, <1>12, <1>13 DEF SegmentsBuilt
<1> QED
  BY <1>1, <1>3, <1>4, <1>10, <1>11, <1>14, WritingStep DEF Writing

-----------------------------------------------------------------------------
(* What there is to be had is good.                                        *)

LEMMA WasmEntry ==
  ASSUME LInv, NEW h, IsWasm(h)
  PROVE  /\ IsInst(map[h]) /\ InstGood(Store, Wasms, map[h])
         /\ LinkedGood(Store, map[h]) /\ ElemsAligned(Store, map[h])
         /\ DatasAligned(map[h]) /\ h \in Wasms
<1>1. EntryGood(Store, Wasms, map[h]) /\ h \in Wasms /\ map[h].kind = "wasm"
  BY DEF LInv, EntriesOK, IsWasm, Wasms
<1>2. ~IsHostEntry(map[h])
  <2>1. ASSUME IsHostEntry(map[h]) PROVE map[h].kind = "host"
    BY <2>1 DEF IsHostEntry
  <2> QED
    BY <1>1, <2>1
<1> QED
  BY <1>1, <1>2 DEF EntryGood

LEMMA HeldGood ==
  ASSUME LInv, NEW kind \in Kinds, NEW a \in Held(kind)
  PROVE  ItemGood(Store, Wasms, kind, a)
<1>1. PICK h \in DOMAIN map : a \in HeldBy(h, kind)
  BY DEF Held
<1>2. CASE IsWasm(h)
  <2>1. a \in Entries(AddrsOf(map[h], kind))
    BY <1>1, <1>2 DEF HeldBy
  <2>2. PICK k \in DOMAIN AddrsOf(map[h], kind) : a = AddrsOf(map[h], kind)[k]
    BY <2>1 DEF Entries
  <2>3. InstGood(Store, Wasms, map[h])
    BY <1>2, WasmEntry
  <2> QED
    BY <2>2, <2>3 DEF InstGood, ItemGood, AddrsOf, Kinds
<1>3. CASE ~IsWasm(h)
  <2>1. PICK e \in Entries(map[h].exports) : e.kind = kind /\ a = e.addr
    BY <1>1, <1>3 DEF HeldBy
  <2>2. PICK n \in DOMAIN map[h].exports : e = map[h].exports[n]
    BY <2>1 DEF Entries
  <2>3. ExportsGood(Store, Wasms, map[h].exports)
    BY DEF LInv, EntriesOK, EntryGood
  <2> QED
    BY <2>1, <2>2, <2>3 DEF ExportsGood
<1> QED
  BY <1>2, <1>3

LEMMA ReachGood ==
  ASSUME LInv, NEW a \in InReach
  PROVE  FuncGood(Store, Wasms, a)
<1>1. CASE a \in Held("func")
  BY <1>1, HeldGood DEF Kinds, ItemGood
<1>2. CASE a \notin Held("func")
  <2>1. PICK r \in HeldRefs : r.t = "funcref" /\ r.v # 0 /\ a = r.v
    BY <1>2 DEF InReach
  <2>2. RefGood(Store, Wasms, r)
    <3>1. ASSUME NEW t \in Held("table"), r \in Entries(tables[t].refs)
          PROVE  RefGood(Store, Wasms, r)
      <4>1. TableGood(Store, Wasms, t)
        BY HeldGood DEF Kinds, ItemGood
      <4>2. PICK j \in DOMAIN tables[t].refs : r = tables[t].refs[j]
        BY <3>1 DEF Entries
      <4> QED
        BY <4>1, <4>2, StoreFields DEF TableGood, RefsGood
    <3>2. ASSUME NEW g \in Held("global"), r = globals[g].value
          PROVE  RefGood(Store, Wasms, r)
      <4>1. GlobalGood(Store, Wasms, g)
        BY HeldGood DEF Kinds, ItemGood
      <4> QED
        BY <3>2, <4>1, StoreFields DEF GlobalGood
    <3>3. ASSUME NEW e \in HeldElems, r \in Entries(elems[e].refs)
          PROVE  RefGood(Store, Wasms, r)
      <4>1. PICK h \in DOMAIN map : IsWasm(h) /\ e \in Entries(map[h].elems)
        BY <3>3 DEF HeldElems
      <4>2. PICK k \in DOMAIN map[h].elems : e = map[h].elems[k]
        BY <4>1 DEF Entries
      <4>3. ElemGood(Store, Wasms, e)
        BY <4>1, <4>2, WasmEntry DEF InstGood
      <4>4. PICK j \in DOMAIN elems[e].refs : r = elems[e].refs[j]
        BY <3>3 DEF Entries
      <4> QED
        BY <4>3, <4>4, StoreFields DEF ElemGood, RefsGood
    <3> QED
      BY <2>1, <3>1, <3>2, <3>3 DEF HeldRefs
  <2> QED
    BY <2>1, <2>2 DEF RefGood
<1> QED
  BY <1>1, <1>2

LEMMA ValuesGood ==
  ASSUME LInv, NEW t, NEW r \in ValuesOf(t)
  PROVE  r.t = t /\ RefGood(Store, Wasms, r)
<1>1. CASE t = "funcref"
  <2>1. CASE r = Null(t)
    BY <1>1, <2>1 DEF Null, RefGood
  <2>2. CASE \E a \in InReach : r = FuncRef(a)
    BY <1>1, <2>2, ReachGood DEF FuncRef, RefGood
  <2> QED
    BY <1>1, <2>1, <2>2 DEF ValuesOf
<1>2. CASE t = "externref"
  <2>1. r = Null(t) \/ r = [t |-> t, v |-> 1]
    BY <1>2 DEF ValuesOf
  <2>2. r.t = t
    BY <2>1 DEF Null
  <2> QED
    BY <1>2, <2>2 DEF RefGood
<1>3. CASE t # "funcref" /\ t # "externref"
  <2>1. r = [t |-> t, v |-> 1]
    BY <1>3 DEF ValuesOf
  <2>2. r.t = t
    BY <2>1
  <2> QED
    BY <1>3, <2>2 DEF RefGood
<1> QED
  BY <1>1, <1>2, <1>3

-----------------------------------------------------------------------------
(* Running code.                                                           *)

LEMMA TableSetStep ==
  ASSUME LInv, NEW h, NEW x \in DOMAIN map[h].tables, TableSet(h, x)
  PROVE  LInv'
<1> DEFINE t == map[h].tables[x]
<1>1. IsWasm(h) /\ StoreOK(Store)
  BY DEF TableSet, Executing, LInv
<1>2. PICK j \in DOMAIN tables[t].refs, v \in ValuesOf(tables[t].elem) :
        tables' = [tables EXCEPT ![t].refs[j] = v]
  BY DEF TableSet
<1>3. /\ UNCHANGED <<names, map, nextHandle, handles, load, inst>>
      /\ UNCHANGED <<funcs, mems, globals, elems, datas>>
  BY DEF TableSet, registry
<1>4. t \in DOMAIN tables
  BY <1>1, WasmEntry, StoreFields DEF InstGood, TableGood
<1> HIDE DEF t
<1> DEFINE r == [tables[t].refs EXCEPT ![j] = v]
<1>5. tables' = [tables EXCEPT ![t].refs = r]
  BY <1>2
<1>6. IsTable(tables[t])
  BY <1>1, <1>4, StoreFields DEF StoreOK
<1>7. v.t = tables[t].elem /\ RefGood(Store, Wasms, v)
  BY <1>2, ValuesGood
<1>8. IsList(tables[t].refs)
  BY <1>6 DEF IsTable
<1>9. /\ IsList(r) /\ Len(r) = Len(tables[t].refs) /\ Len(r) \in Nat
      /\ DOMAIN r = DOMAIN tables[t].refs
  BY <1>8, ExceptIsList, ListFacts
<1>10. \A k \in DOMAIN r : r[k] = tables[t].refs[k] \/ r[k] = v
  OBVIOUS
<1> HIDE DEF r
<1>11. \A k \in DOMAIN r : r[k].t = tables[t].elem
  BY <1>6, <1>7, <1>9, <1>10 DEF IsTable
<1>12. RefsFrom(Store, Wasms, tables[t].refs, r)
  BY <1>7, <1>9, <1>10 DEF RefsFrom
<1>13. Len(r) >= Len(tables[t].refs) /\ WithinMax(Len(r), tables[t].max)
  BY <1>6, <1>9 DEF IsTable
<1>14. /\ TablesKept(Store, Store', Wasms)
       /\ IsList(tables') /\ \A a \in DOMAIN tables' : IsTable(tables'[a])
  BY <1>1, <1>4, <1>5, <1>9, <1>11, <1>12, <1>13, TableWritten
<1>15. Effects(Store, Store', Wasms)
  BY <1>1, <1>3, <1>14, SameKept DEF Effects
<1>16. StoreOK(Store')
  BY <1>1, <1>3, <1>14, StoreFields, StoreFieldsNext DEF StoreOK
<1> QED
  BY <1>3, <1>15, <1>16, StoreStep

LEMMA TableGrowStep ==
  ASSUME LInv, NEW h, NEW x \in DOMAIN map[h].tables, TableGrow(h, x)
  PROVE  LInv'
<1> DEFINE t == map[h].tables[x]
<1>1. IsWasm(h) /\ StoreOK(Store)
  BY DEF TableGrow, Executing, LInv
<1>2. PICK v \in ValuesOf(tables[t].elem) :
        tables' = [tables EXCEPT ![t].refs = Append(@, v)]
  BY DEF TableGrow
<1>3. /\ UNCHANGED <<names, map, nextHandle, handles, load, inst>>
      /\ UNCHANGED <<funcs, mems, globals, elems, datas>>
      /\ Below(Len(tables[t].refs), tables[t].max, MaxTableLen)
  BY DEF TableGrow, registry
<1>4. t \in DOMAIN tables
  BY <1>1, WasmEntry, StoreFields DEF InstGood, TableGood
<1> HIDE DEF t
<1> DEFINE r == Append(tables[t].refs, v)
<1>5. tables' = [tables EXCEPT ![t].refs = r]
  BY <1>2
<1>6. IsTable(tables[t])
  BY <1>1, <1>4, StoreFields DEF StoreOK
<1>7. v.t = tables[t].elem /\ RefGood(Store, Wasms, v)
  BY <1>2, ValuesGood
<1>8. IsList(tables[t].refs)
  BY <1>6 DEF IsTable
<1>9. Joined(tables[t].refs, <<v>>, r)
  BY <1>8, AppendJoins
<1> HIDE DEF r
<1>10. /\ IsList(<<v>>) /\ Len(<<v>>) = 1 /\ DOMAIN <<v>> = 1 .. 1 /\ <<v>>[1] = v
  <2>1. <<v>> \in Seq({v})
    OBVIOUS
  <2>2. IsList(<<v>>)
    BY <2>1, SeqIsList
  <2>3. Len(<<v>>) = 1 /\ DOMAIN <<v>> = 1 .. 1 /\ <<v>>[1] = v
    OBVIOUS
  <2> QED
    BY <2>2, <2>3
<1>11. \A k \in DOMAIN r : \/ k \in DOMAIN tables[t].refs /\ r[k] = tables[t].refs[k]
                           \/ r[k] = v
  <2> TAKE k \in DOMAIN r
  <2>1. \/ k \in DOMAIN tables[t].refs /\ r[k] = tables[t].refs[k]
        \/ \E j \in DOMAIN <<v>> : k = Len(tables[t].refs) + j /\ r[k] = <<v>>[j]
    BY <1>8, <1>9, <1>10, JoinedItems
  <2> QED
    BY <1>10, <2>1
<1>12. /\ IsList(r) /\ Len(r) = Len(tables[t].refs) + 1 /\ Len(tables[t].refs) \in Nat
  BY <1>8, <1>9, <1>10, ListFacts DEF Joined
<1>13. \A k \in DOMAIN r : r[k].t = tables[t].elem
  BY <1>6, <1>7, <1>11 DEF IsTable
<1>14. RefsFrom(Store, Wasms, tables[t].refs, r)
  BY <1>7, <1>11 DEF RefsFrom
<1>15. Len(r) >= Len(tables[t].refs) /\ WithinMax(Len(r), tables[t].max)
  BY <1>3, <1>6, <1>12 DEF IsTable, Below, WithinMax, NoMax
<1>16. /\ TablesKept(Store, Store', Wasms)
       /\ IsList(tables') /\ \A a \in DOMAIN tables' : IsTable(tables'[a])
  BY <1>1, <1>4, <1>5, <1>12, <1>13, <1>14, <1>15, TableWritten
<1>17. Effects(Store, Store', Wasms)
  BY <1>1, <1>3, <1>16, SameKept DEF Effects
<1>18. StoreOK(Store')
  BY <1>1, <1>3, <1>16, StoreFields, StoreFieldsNext DEF StoreOK
<1> QED
  BY <1>3, <1>17, <1>18, StoreStep

LEMMA MemoryGrowStep ==
  ASSUME LInv, NEW h, NEW x \in DOMAIN map[h].mems, MemoryGrow(h, x)
  PROVE  LInv'
<1> DEFINE a == map[h].mems[x]
           y == [mems[a] EXCEPT !.size = @ + 1]
<1>1. IsWasm(h) /\ StoreOK(Store) /\ Below(mems[a].size, mems[a].max, MaxPages)
  BY DEF MemoryGrow, Executing, LInv
<1>2. mems' = [mems EXCEPT ![a] = y]
  BY DEF MemoryGrow
<1>3. /\ UNCHANGED <<names, map, nextHandle, handles, load, inst>>
      /\ UNCHANGED <<funcs, tables, globals, elems, datas>>
  BY DEF MemoryGrow, registry
<1>4. a \in DOMAIN mems
  BY <1>1, WasmEntry, StoreFields DEF InstGood, MemGood
<1>5. IsMem(mems[a]) /\ IsList(mems) /\ \A b \in DOMAIN mems : IsMem(mems[b])
  BY <1>1, <1>4, StoreFields DEF StoreOK
<1> HIDE DEF a
<1>6. y.size = mems[a].size + 1 /\ y.max = mems[a].max
      /\ y = [size |-> y.size, max |-> y.max]
  <2>1. mems[a] = [size |-> mems[a].size, max |-> mems[a].max]
    BY <1>5 DEF IsMem
  <2> QED
    BY <2>1
<1> HIDE DEF y
<1>7. /\ DOMAIN mems' = DOMAIN mems /\ mems'[a] = y
      /\ \A b \in DOMAIN mems : b # a => mems'[b] = mems[b]
  BY <1>2, <1>4
<1>8. IsList(mems')
  <2>1. IsList([mems EXCEPT ![a] = y])
    BY <1>5, ExceptIsList
  <2> QED
    BY <1>2, <2>1, Zenon
<1>9. IsMem(y)
  BY <1>1, <1>5, <1>6 DEF IsMem, Below, WithinMax, NoMax
<1>10. \A b \in DOMAIN mems' : IsMem(mems'[b])
  BY <1>5, <1>7, <1>9
<1>11. MemsKept(Store, Store')
  <2> SUFFICES ASSUME NEW b \in DOMAIN mems
               PROVE  mems'[b].max = mems[b].max /\ mems'[b].size >= mems[b].size
    BY <1>7, StoreFields, StoreFieldsNext DEF MemsKept
  <2>1. mems[b].size \in Nat /\ mems[a].size \in Nat
    BY <1>5 DEF IsMem
  <2> QED
    BY <1>6, <1>7, <2>1
<1>12. Effects(Store, Store', Wasms)
  BY <1>1, <1>3, <1>11, SameKept DEF Effects
<1>13. StoreOK(Store')
  BY <1>1, <1>3, <1>8, <1>10, StoreFields, StoreFieldsNext DEF StoreOK
<1> QED
  BY <1>3, <1>12, <1>13, StoreStep

LEMMA GlobalSetStep ==
  ASSUME LInv, NEW h, NEW x \in DOMAIN map[h].globals, GlobalSet(h, x)
  PROVE  LInv'
<1> DEFINE g == map[h].globals[x]
<1>1. IsWasm(h) /\ StoreOK(Store)
  BY DEF GlobalSet, Executing, LInv
<1>2. PICK v \in ValuesOf(globals[g].type) : globals' = [globals EXCEPT ![g].value = v]
  BY DEF GlobalSet
<1>3. /\ UNCHANGED <<names, map, nextHandle, handles, load, inst>>
      /\ UNCHANGED <<funcs, tables, mems, elems, datas>>
  BY DEF GlobalSet, registry
<1>4. g \in DOMAIN globals
  BY <1>1, WasmEntry, StoreFields DEF InstGood, GlobalGood
<1>5. /\ IsGlobal(globals[g]) /\ IsList(globals)
      /\ \A b \in DOMAIN globals : IsGlobal(globals[b])
  BY <1>1, <1>4, StoreFields DEF StoreOK
<1> HIDE DEF g
<1> DEFINE y == [globals[g] EXCEPT !.value = v]
<1>6. globals' = [globals EXCEPT ![g] = y]
  BY <1>2
<1>7. /\ y.type = globals[g].type /\ y.value = v
      /\ y = [type |-> y.type, mut |-> y.mut, value |-> y.value]
  <2>1. globals[g] = [type |-> globals[g].type, mut |-> globals[g].mut,
                      value |-> globals[g].value]
    BY <1>5 DEF IsGlobal
  <2> QED
    BY <2>1
<1> HIDE DEF y
<1>8. v.t = globals[g].type /\ RefGood(Store, Wasms, v)
  BY <1>2, ValuesGood
<1>9. /\ DOMAIN globals' = DOMAIN globals /\ globals'[g] = y
      /\ \A b \in DOMAIN globals : b # g => globals'[b] = globals[b]
  BY <1>4, <1>6
<1>10. IsList(globals')
  <2>1. IsList([globals EXCEPT ![g] = y])
    BY <1>5, ExceptIsList
  <2> QED
    BY <1>6, <2>1, Zenon
<1>11. IsGlobal(y)
  BY <1>7, <1>8 DEF IsGlobal
<1>12. \A b \in DOMAIN globals' : IsGlobal(globals'[b])
  BY <1>5, <1>9, <1>11
<1>13. GlobalsKept(Store, Store', Wasms)
  <2> SUFFICES ASSUME NEW b \in DOMAIN globals
               PROVE  /\ globals'[b].type = globals[b].type
                      /\ \/ globals'[b].value = globals[b].value
                         \/ RefGood(Store, Wasms, globals'[b].value)
    BY <1>9, StoreFields, StoreFieldsNext DEF GlobalsKept
  <2> QED
    BY <1>7, <1>8, <1>9
<1>14. Effects(Store, Store', Wasms)
  BY <1>1, <1>3, <1>13, SameKept DEF Effects
<1>15. StoreOK(Store')
  BY <1>1, <1>3, <1>10, <1>12, StoreFields, StoreFieldsNext DEF StoreOK
<1> QED
  BY <1>3, <1>14, <1>15, StoreStep

LEMMA DropStep ==
  ASSUME LInv, NEW h, SegmentDrop(h)
  PROVE  LInv'
<1>1. IsWasm(h) /\ StoreOK(Store) /\ InstGood(Store, Wasms, map[h])
  BY WasmEntry DEF SegmentDrop, Executing, LInv
<1>2. /\ UNCHANGED <<names, map, nextHandle, handles, load, inst>>
      /\ UNCHANGED <<funcs, tables, mems, globals>>
  BY DEF SegmentDrop, registry
<1>3. CASE /\ \E e \in Entries(map[h].elems) : elems' = [elems EXCEPT ![e].refs = <<>>]
           /\ UNCHANGED datas
  <2>1. PICK e \in Entries(map[h].elems) : elems' = [elems EXCEPT ![e].refs = <<>>]
    BY <1>3
  <2>2. e \in DOMAIN elems
    BY <1>1, StoreFields DEF Entries, InstGood, ElemGood
  <2>3. /\ ElemsKept(Store, Store')
        /\ IsList(elems') /\ \A a \in DOMAIN elems' : IsElem(elems'[a])
    BY <1>1, <2>1, <2>2, ElemDropped
  <2>4. Effects(Store, Store', Wasms)
    BY <1>1, <1>2, <1>3, <2>3, SameKept DEF Effects
  <2>5. StoreOK(Store')
    BY <1>1, <1>2, <1>3, <2>3, StoreFields, StoreFieldsNext DEF StoreOK
  <2> QED
    BY <1>2, <2>4, <2>5, StoreStep
<1>4. CASE /\ \E d \in Entries(map[h].datas) : datas' = [datas EXCEPT ![d].len = 0]
           /\ UNCHANGED elems
  <2>1. PICK d \in Entries(map[h].datas) : datas' = [datas EXCEPT ![d].len = 0]
    BY <1>4
  <2>2. d \in DOMAIN datas
    BY <1>1, StoreFields DEF Entries, InstGood, DataGood
  <2>3. /\ DatasKept(Store, Store')
        /\ IsList(datas') /\ \A a \in DOMAIN datas' : IsData(datas'[a])
    BY <1>1, <2>1, <2>2, DataDropped
  <2>4. Effects(Store, Store', Wasms)
    BY <1>1, <1>2, <1>4, <2>3, SameKept DEF Effects
  <2>5. StoreOK(Store')
    BY <1>1, <1>2, <1>4, <2>3, StoreFields, StoreFieldsNext DEF StoreOK
  <2> QED
    BY <1>2, <2>4, <2>5, StoreStep
<1> QED
  BY <1>3, <1>4 DEF SegmentDrop

-----------------------------------------------------------------------------
(* What the embedder registers.                                            *)

LEMMA AllocFacts ==
  ASSUME NEW s, NEW kind, NEW ty, NEW x, IsList(s)
  PROVE  /\ IsList(Alloc(s, kind, ty, x)) /\ Extends(s, Alloc(s, kind, ty, x))
         /\ \A a \in DOMAIN Alloc(s, kind, ty, x) :
              \/ a \in DOMAIN s /\ Alloc(s, kind, ty, x)[a] = s[a]
              \/ ty.kind = kind /\ Alloc(s, kind, ty, x)[a] = x
         /\ ty.kind = kind => /\ Len(s) + 1 \in DOMAIN Alloc(s, kind, ty, x)
                              /\ Alloc(s, kind, ty, x)[Len(s) + 1] = x
<1> DEFINE u == Alloc(s, kind, ty, x)
<1>1. CASE ty.kind # kind
  <2>1. u = s
    BY <1>1 DEF Alloc
  <2> HIDE DEF u
  <2> QED
    BY <1>1, <2>1, ExtendsFacts DEF u
<1>2. CASE ty.kind = kind
  <2>1. u = Append(s, x)
    BY <1>2 DEF Alloc
  <2>2. Joined(s, <<x>>, u)
    BY <2>1, AppendJoins
  <2> HIDE DEF u
  <2>3. DOMAIN <<x>> = {1} /\ <<x>>[1] = x
    OBVIOUS
  <2>4. IsList(u) /\ Len(s) + 1 \in DOMAIN u /\ u[Len(s) + 1] = x
    BY <2>2, <2>3 DEF Joined
  <2>5. Len(s) \in Nat /\ Len(u) \in Nat /\ DOMAIN u = 1 .. Len(u)
    BY <2>4, ListFacts
  <2>6. \A a \in DOMAIN u : a \in DOMAIN s \/ a = Len(s) + 1
    <3> SUFFICES ASSUME NEW a \in DOMAIN u, a \notin DOMAIN s
                 PROVE  a = Len(s) + 1
      OBVIOUS
    <3>1. a - Len(s) = 1
      BY <2>2, <2>3 DEF Joined
    <3>2. a \in Nat
      BY <2>5
    <3> QED
      BY <2>5, <3>1, <3>2
  <2>7. \A a \in DOMAIN s : a \in DOMAIN u /\ u[a] = s[a]
    BY <2>2 DEF Joined
  <2>8. Extends(s, u)
    BY <2>7 DEF Extends
  <2>9. \A a \in DOMAIN u : (a \in DOMAIN s /\ u[a] = s[a]) \/ (ty.kind = kind /\ u[a] = x)
    BY <1>2, <2>4, <2>6, <2>7
  <2> QED
    BY <2>4, <2>8, <2>9 DEF u
<1> QED
  BY <1>1, <1>2

LEMMA FilledFacts ==
  ASSUME NEW n \in Nat, NEW v
  PROVE  /\ IsList(Filled(n, v)) /\ Len(Filled(n, v)) = n
         /\ \A j \in DOMAIN Filled(n, v) : Filled(n, v)[j] = v
<1> DEFINE f == Filled(n, v)
<1>1. DOMAIN f = 1 .. n /\ \A j \in 1 .. n : f[j] = v
  BY DEF Filled
<1>2. f = [j \in 1 .. n |-> f[j]]
  BY DEF Filled
<1> HIDE DEF f
<1>3. IsList(f) /\ Len(f) = n
  BY <1>2, FunctionIsList
<1> QED
  BY <1>1, <1>3 DEF f

(* The item the host passes.                                               *)
HostTable(ty, v)  == [elem |-> ty.elem, max |-> ty.max, refs |-> Filled(ty.min, v)]
HostMem(ty)       == [size |-> ty.min, max |-> ty.max]
HostGlobal(ty, v) == [type |-> ty.type, mut |-> ty.mut, value |-> v]

LEMMA HostItemsOK ==
  ASSUME LInv, NEW i \in HostItems, NEW v \in HostValues(i.type)
  PROVE  /\ i.type.kind = "table" => /\ IsTable(HostTable(i.type, v))
                                     /\ RefsGood(Store, Wasms, HostTable(i.type, v).refs)
         /\ i.type.kind = "mem" => IsMem(HostMem(i.type))
         /\ i.type.kind = "global" => /\ IsGlobal(HostGlobal(i.type, v))
                                      /\ RefGood(Store, Wasms, HostGlobal(i.type, v).value)
<1> DEFINE ty == i.type
<1>1. ty.kind \in {"table", "mem"} => IsLimits(ty) /\ WithinMax(ty.min, ty.max)
  BY HostAssumption
<1>2. CASE ty.kind = "table"
  <2> DEFINE x == HostTable(ty, v)
  <2>1. v \in ValuesOf(ty.elem)
    BY <1>2 DEF HostValues
  <2>2. v.t = ty.elem /\ RefGood(Store, Wasms, v)
    BY <2>1, ValuesGood
  <2>3. ty.min \in Nat /\ ty.max \in Nat \cup {NoMax} /\ WithinMax(ty.min, ty.max)
    BY <1>1, <1>2 DEF IsLimits
  <2>4. /\ IsList(Filled(ty.min, v)) /\ Len(Filled(ty.min, v)) = ty.min
        /\ \A j \in DOMAIN Filled(ty.min, v) : Filled(ty.min, v)[j] = v
    BY <2>3, FilledFacts
  <2>5. x.elem = ty.elem /\ x.max = ty.max /\ x.refs = Filled(ty.min, v)
    BY DEF HostTable
  <2>6. x = [elem |-> x.elem, max |-> x.max, refs |-> x.refs]
    BY DEF HostTable
  <2> HIDE DEF x
  <2>7. IsTable(x)
    BY <2>2, <2>3, <2>4, <2>5, <2>6, Zenon DEF IsTable
  <2>8. RefsGood(Store, Wasms, x.refs)
    BY <2>2, <2>4, <2>5, Zenon DEF RefsGood
  <2> QED
    BY <1>2, <2>7, <2>8 DEF x
<1>3. CASE ty.kind = "mem"
  <2>1. ty.min \in Nat /\ ty.max \in Nat \cup {NoMax} /\ WithinMax(ty.min, ty.max)
    BY <1>1, <1>3 DEF IsLimits
  <2>2. IsMem(HostMem(ty))
    BY <2>1 DEF IsMem, HostMem
  <2> QED
    BY <1>3, <2>2
<1>4. CASE ty.kind = "global"
  <2>1. v \in ValuesOf(ty.type)
    BY <1>4 DEF HostValues
  <2>2. v.t = ty.type /\ RefGood(Store, Wasms, v)
    BY <2>1, ValuesGood
  <2>3. IsGlobal(HostGlobal(ty, v)) /\ HostGlobal(ty, v).value = v
    BY <2>2 DEF IsGlobal, HostGlobal
  <2> QED
    BY <1>4, <2>2, <2>3
<1> QED
  BY <1>2, <1>3, <1>4

LEMMA EarlierHandles ==
  ASSUME NEW m \in Nat, NEW n \in Nat, n >= m
  PROVE  0 .. m - 1 \subseteq 0 .. n - 1
OBVIOUS

(* The host module at h gets the item, as an export.                       *)
LEMMA HostItemStep ==
  ASSUME LInv, In("idle"), NEW i \in HostItems, NEW v \in HostValues(i.type),
         NEW h, NEW entry, HostItem(i, h, entry, v),
         IsHostEntry(entry), ExportsGood(Store, Wasms, entry.exports),
         h \in DOMAIN map => entry = map[h],
         nextHandle' \in Nat, nextHandle' >= nextHandle, h \in 0 .. nextHandle' - 1,
         \A n \in DOMAIN names' : names'[n] \in DOMAIN map \cup {h}
  PROVE  LInv'
<1> DEFINE ty == i.type
           s  == CASE ty.kind = "func" -> funcs   [] ty.kind = "table" -> tables
                   [] ty.kind = "mem"  -> mems    [] ty.kind = "global" -> globals
           item == [kind |-> ty.kind, addr |-> Len(s) + 1]
           xf   == [type |-> ty.type, module |-> h, host |-> TRUE]
<1>1. /\ funcs' = Alloc(funcs, "func", ty, xf)
      /\ tables' = Alloc(tables, "table", ty, HostTable(ty, v))
      /\ mems' = Alloc(mems, "mem", ty, HostMem(ty))
      /\ globals' = Alloc(globals, "global", ty, HostGlobal(ty, v))
  BY DEF HostItem, HostTable, HostMem, HostGlobal
<1>2. map' = Put(map, h, [entry EXCEPT !.exports = Put(@, i.name, item)])
  BY DEF HostItem
<1>3. handles' = handles \cup {h} /\ UNCHANGED <<elems, datas, load, inst>>
  BY DEF HostItem, Give
<1>4. ty.kind \in Kinds
  BY HostAssumption
<1>5. StoreOK(Store)
  BY DEF LInv
<1>6. IsList(funcs) /\ IsList(tables) /\ IsList(mems) /\ IsList(globals)
  BY <1>5, StoreFields DEF StoreOK
<1>7. xf.host = TRUE
  OBVIOUS
<1>8. /\ ty.kind = "table" => /\ IsTable(HostTable(ty, v))
                              /\ RefsGood(Store, Wasms, HostTable(ty, v).refs)
      /\ ty.kind = "mem" => IsMem(HostMem(ty))
      /\ ty.kind = "global" => /\ IsGlobal(HostGlobal(ty, v))
                               /\ RefGood(Store, Wasms, HostGlobal(ty, v).value)
  BY HostItemsOK
<1>9. item.kind = ty.kind /\ item.addr = Len(s) + 1
  OBVIOUS
<1>10. /\ ty.kind = "func" => s = funcs
       /\ ty.kind = "table" => s = tables
       /\ ty.kind = "mem" => s = mems
       /\ ty.kind = "global" => s = globals
  OBVIOUS
<1> HIDE DEF ty, s, item, xf
<1>11. /\ IsList(funcs') /\ Extends(funcs, funcs')
       /\ ty.kind = "func" => Len(funcs) + 1 \in DOMAIN funcs' /\ funcs'[Len(funcs) + 1] = xf
  BY <1>1, <1>6, AllocFacts
<1>12. /\ IsList(tables') /\ Extends(tables, tables')
       /\ \A a \in DOMAIN tables' :
            \/ a \in DOMAIN tables /\ tables'[a] = tables[a]
            \/ ty.kind = "table" /\ tables'[a] = HostTable(ty, v)
       /\ ty.kind = "table" => /\ Len(tables) + 1 \in DOMAIN tables'
                               /\ tables'[Len(tables) + 1] = HostTable(ty, v)
  BY <1>1, <1>6, AllocFacts
<1>13. /\ IsList(mems') /\ Extends(mems, mems')
       /\ \A a \in DOMAIN mems' : \/ a \in DOMAIN mems /\ mems'[a] = mems[a]
                                  \/ ty.kind = "mem" /\ mems'[a] = HostMem(ty)
       /\ ty.kind = "mem" => Len(mems) + 1 \in DOMAIN mems'
  BY <1>1, <1>6, AllocFacts
<1>14. /\ IsList(globals') /\ Extends(globals, globals')
       /\ \A a \in DOMAIN globals' :
            \/ a \in DOMAIN globals /\ globals'[a] = globals[a]
            \/ ty.kind = "global" /\ globals'[a] = HostGlobal(ty, v)
       /\ ty.kind = "global" => /\ Len(globals) + 1 \in DOMAIN globals'
                                /\ globals'[Len(globals) + 1] = HostGlobal(ty, v)
  BY <1>1, <1>6, AllocFacts
<1>15. Extends(elems, elems') /\ Extends(datas, datas')
  BY <1>3, ExtendsFacts
<1>16. Ordinary(Store)
  BY <1>5, OKIsOrdinary
<1>17. Effects(Store, Store', Wasms)
  BY <1>11, <1>12, <1>13, <1>14, <1>15, <1>16, StoreFields, StoreFieldsNext, GrownEffects
<1>18. StoreOK(Store')
  <2>1. \A a \in DOMAIN tables' : IsTable(tables'[a])
    BY <1>5, <1>8, <1>12, StoreFields DEF StoreOK
  <2>2. \A a \in DOMAIN mems' : IsMem(mems'[a])
    BY <1>5, <1>8, <1>13, StoreFields DEF StoreOK
  <2>3. \A a \in DOMAIN globals' : IsGlobal(globals'[a])
    BY <1>5, <1>8, <1>14, StoreFields DEF StoreOK
  <2> QED
    BY <1>3, <1>5, <1>11, <1>12, <1>13, <1>14, <2>1, <2>2, <2>3,
       StoreFields, StoreFieldsNext DEF StoreOK
<1>19. ItemGood(Store', Wasms, item.kind, item.addr)
  <2>1. CASE ty.kind = "func"
    BY <1>7, <1>9, <1>10, <1>11, <2>1, StoreFieldsNext DEF ItemGood, FuncGood
  <2>2. CASE ty.kind = "table"
    <3>1. RefsGood(Store', Wasms, HostTable(ty, v).refs)
      BY <1>8, <1>17, <2>2, RefStays DEF RefsGood
    <3>2. TableGood(Store', Wasms, item.addr)
      BY <1>9, <1>10, <1>12, <2>2, <3>1, StoreFieldsNext DEF TableGood
    <3> QED
      BY <1>9, <2>2, <3>2 DEF ItemGood
  <2>3. CASE ty.kind = "mem"
    BY <1>9, <1>10, <1>13, <2>3, StoreFieldsNext DEF ItemGood, MemGood
  <2>4. CASE ty.kind = "global"
    <3>1. RefGood(Store', Wasms, HostGlobal(ty, v).value)
      BY <1>8, <1>17, <2>4, RefStays
    <3>2. GlobalGood(Store', Wasms, item.addr)
      BY <1>9, <1>10, <1>14, <2>4, <3>1, StoreFieldsNext DEF GlobalGood
    <3> QED
      BY <1>9, <2>4, <3>2 DEF ItemGood
  <2> QED
    BY <1>4, <2>1, <2>2, <2>3, <2>4 DEF Kinds
<1> DEFINE x == Put(entry.exports, i.name, item)
           e == [entry EXCEPT !.exports = x]
<1>20. ExportsGood(Store', Wasms, x)
  <2>1. ExportsGood(Store', Wasms, entry.exports)
    BY <1>17, InstStays
  <2>2. \A n \in DOMAIN x : \/ n \in DOMAIN entry.exports /\ x[n] = entry.exports[n]
                            \/ x[n] = item
    BY DEF Put
  <2> HIDE DEF x
  <2> QED
    BY <1>4, <1>9, <1>19, <2>1, <2>2 DEF ExportsGood
<1>21. map' = Put(map, h, e)
  BY <1>2
<1> HIDE DEF x
<1>22. e = [kind |-> "host", exports |-> x]
  <2>1. entry = [kind |-> "host", exports |-> entry.exports]
    BY DEF IsHostEntry
  <2> QED
    BY <2>1
<1> HIDE DEF e
<1>23. e.kind = "host" /\ e.exports = x
  BY <1>22
<1>24. IsHostEntry(e)
  BY <1>22, <1>23 DEF IsHostEntry
<1>25. EntryGood(Store', Wasms, e)
  BY <1>20, <1>23, <1>24 DEF EntryGood
<1>26. /\ DOMAIN map' = DOMAIN map \cup {h} /\ map'[h] = e
       /\ \A g \in DOMAIN map' : g # h => map'[g] = map[g]
  BY <1>21 DEF Put
<1>27. h \in DOMAIN map => map[h].kind = "host"
  BY DEF IsHostEntry
<1>28. Wasms' = Wasms
  BY <1>23, <1>26, <1>27 DEF Wasms
<1>29. \A g \in DOMAIN map : g \in DOMAIN map' /\ map'[g].kind = map[g].kind
  BY <1>23, <1>26, <1>27
<1>30. EntriesOK'
  <2>1. \A g \in DOMAIN map' : \/ g \in DOMAIN map /\ map'[g] = map[g]
                               \/ EntryGood(Store', Wasms', map'[g])
    BY <1>25, <1>26, <1>28
  <2> QED
    BY <1>17, <1>18, <1>29, <2>1, EntriesStay
<1>31. HandlesOK'
  <2> SUFFICES ASSUME NEW g \in handles' PROVE Given(Store', map'[g])
    BY DEF HandlesOK
  <2>1. CASE g = h
    BY <1>23, <1>26, <2>1 DEF Given
  <2>2. CASE g # h
    <3>1. g \in handles /\ g \in DOMAIN map
      BY <1>3, <2>2 DEF LInv, RegistryOK
    <3>2. map'[g] = map[g]
      BY <1>26, <2>2, <3>1
    <3> QED
      BY <1>17, <1>18, <3>1, <3>2, HandlesStay
  <2> QED
    BY <2>1, <2>2
<1>32. RegistryOK'
  <2>1. nextHandle \in Nat /\ DOMAIN map \subseteq 0 .. nextHandle - 1
    BY DEF LInv, RegistryOK
  <2>2. DOMAIN map' \subseteq 0 .. nextHandle' - 1
    <3>1. 0 .. nextHandle - 1 \subseteq 0 .. nextHandle' - 1
      BY <2>1, EarlierHandles
    <3> QED
      BY <1>26, <2>1, <3>1, Zenon
  <2>3. handles' \subseteq DOMAIN map'
    BY <1>3, <1>26 DEF LInv, RegistryOK
  <2> QED
    BY <1>26, <2>2, <2>3 DEF RegistryOK
<1>33. LoadOK' /\ InstOK'
  <2>1. load'.phase = "idle"
    BY <1>3 DEF In
  <2>2. load = Idle
    BY DEF In, LInv, LoadOK, IsLoad, Unregistered, Registering
  <2> QED
    BY <1>3, <2>1, <2>2 DEF LoadOK, InstOK, Building
<1> QED
  BY <1>18, <1>30, <1>31, <1>32, <1>33 DEF LInv

LEMMA RegisterHostStep ==
  ASSUME LInv, NEW i \in HostItems, NEW v \in HostValues(i.type), RegisterHost(i, v)
  PROVE  LInv'
<1>1. /\ In("idle") /\ nextHandle \in Nat /\ DOMAIN map \subseteq 0 .. nextHandle - 1
      /\ \A n \in DOMAIN names : names[n] \in DOMAIN map
  BY DEF RegisterHost, LInv, RegistryOK
<1>2. CASE /\ i.mod \in DOMAIN names /\ IsHost(names[i.mod])
           /\ HostItem(i, names[i.mod], map[names[i.mod]], v)
           /\ UNCHANGED <<names, nextHandle>>
  <2> DEFINE h == names[i.mod]
  <2>1. h \in DOMAIN map /\ map[h].kind = "host"
    BY <1>2 DEF IsHost
  <2>2. EntryGood(Store, Wasms, map[h])
    BY <2>1 DEF LInv, EntriesOK
  <2>3. ~IsInst(map[h])
    <3>1. ASSUME IsInst(map[h]) PROVE map[h].kind = "wasm"
      BY <3>1, SMTT(60) DEF IsInst
    <3> QED
      BY <2>1, <3>1
  <2>4. IsHostEntry(map[h]) /\ ExportsGood(Store, Wasms, map[h].exports)
    BY <2>2, <2>3 DEF EntryGood
  <2>5. HostItem(i, h, map[h], v)
    BY <1>2
  <2>6. nextHandle' = nextHandle /\ names' = names
    BY <1>2
  <2> HIDE DEF h
  <2>7. /\ h \in 0 .. nextHandle' - 1 /\ nextHandle' \in Nat /\ nextHandle' >= nextHandle
        /\ \A n \in DOMAIN names' : names'[n] \in DOMAIN map \cup {h}
    BY <1>1, <2>1, <2>6
  <2> QED
    BY <1>1, <2>4, <2>5, <2>7, HostItemStep
<1>3. CASE /\ i.mod \notin DOMAIN names /\ nextHandle < MaxHandles
           /\ HostItem(i, nextHandle, NewHost, v)
           /\ names' = Put(names, i.mod, nextHandle)
           /\ nextHandle' = nextHandle + 1
  <2>1. IsHostEntry(NewHost) /\ NewHost.exports = NoExports
    BY DEF IsHostEntry, NewHost
  <2>2. ExportsGood(Store, Wasms, NewHost.exports)
    <3>1. DOMAIN NoExports = {}
      BY DEF NoExports
    <3> QED
      BY <2>1, <3>1 DEF ExportsGood
  <2>3. nextHandle \notin DOMAIN map
    BY <1>1
  <2>4. \A n \in DOMAIN names' : names'[n] \in DOMAIN map \cup {nextHandle}
    BY <1>1, <1>3 DEF Put
  <2>5. nextHandle \in 0 .. nextHandle' - 1 /\ nextHandle' \in Nat /\ nextHandle' >= nextHandle
    BY <1>1, <1>3
  <2>6. HostItem(i, nextHandle, NewHost, v)
    BY <1>3
  <2> QED
    BY <1>1, <2>1, <2>2, <2>3, <2>4, <2>5, <2>6, HostItemStep
<1> QED
  BY <1>2, <1>3 DEF RegisterHost

-----------------------------------------------------------------------------
(* The invariant holds, whatever happens.                                  *)

LEMMA NextInv ==
  ASSUME LInv, [Next]_vars
  PROVE  LInv'
<1>1. CASE UNCHANGED vars
  <2>1. /\ UNCHANGED <<funcs, tables, mems, globals, elems, datas>>
        /\ UNCHANGED <<names, map, nextHandle, handles, load, inst>>
    BY <1>1 DEF vars
  <2>2. StoreOK(Store') /\ EntriesOK' /\ HandlesOK' /\ Wasms' = Wasms /\ Store' = Store
    BY <2>1, QuietStep DEF store
  <2>3. RegistryOK' /\ LoadOK'
    BY <2>1 DEF LInv, RegistryOK, LoadOK
  <2>4. InstOK'
    BY <2>1, <2>2 DEF LInv, InstOK, Building
  <2> QED
    BY <2>2, <2>3, <2>4 DEF LInv
<1>2. CASE Instantiate
  <2>1. CASE LinkImports
    BY <2>1, LinkStep
  <2>2. CASE AllocFuncs
    BY <2>2, FuncsStep
  <2>3. CASE AllocGlobals
    BY <2>3, GlobalsStep
  <2>4. CASE AllocTables
    BY <2>4, TablesStep
  <2>5. CASE AllocElems
    BY <2>5, ElemsStep
  <2>6. CASE AllocMems
    BY <2>6, MemsStep
  <2>7. CASE AllocExports
    BY <2>7, ExportsStep
  <2>8. CASE AllocDatas
    BY <2>8, DatasStep
  <2>9. CASE AddInstance
    BY <2>9, RegisterStep
  <2>10. CASE InitElem
    BY <2>10, ElemStep
  <2>11. CASE InitData
    BY <2>11, DataStep
  <2>12. CASE SkipSegment
    BY <2>12, SkipStep
  <2>13. CASE SegmentsDone
    BY <2>13, DoneStep
  <2>14. CASE Instantiated
    BY <2>14, DoneLoadStep
  <2>15. CASE Unlinkable \/ SegmentTrap \/ StartTrap
    <3>1. /\ load' = Idle /\ UNCHANGED <<names, map, nextHandle, handles>>
          /\ UNCHANGED store
      BY <2>15 DEF Unlinkable, SegmentTrap, StartTrap, registry
    <3> QED
      BY <3>1, AbortStep
  <2> QED
    BY <1>2, <2>1, <2>2, <2>3, <2>4, <2>5, <2>6, <2>7, <2>8, <2>9, <2>10, <2>11,
       <2>12, <2>13, <2>14, <2>15 DEF Instantiate
<1>3. CASE Embed
  <2>1. ASSUME NEW m \in Modules, Reserve(m) PROVE LInv'
    BY <2>1, ReserveStep
  <2>2. ASSUME NEW m \in Modules, Refuse(m) PROVE LInv'
    BY <1>1, <2>2 DEF Refuse
  <2>3. ASSUME NEW i \in HostItems, NEW v \in HostValues(i.type), RegisterHost(i, v)
        PROVE  LInv'
    BY <2>3, RegisterHostStep
  <2>4. ASSUME NEW n \in Names, NEW h \in handles, RegisterName(n, h) PROVE LInv'
    BY <2>4, NameStep
  <2> QED
    BY <1>3, <2>1, <2>2, <2>3, <2>4 DEF Embed
<1>4. CASE Run
  <2>1. PICK h \in DOMAIN map :
          \/ SegmentDrop(h)
          \/ IsWasm(h) /\ \/ \E x \in DOMAIN map[h].tables : TableSet(h, x) \/ TableGrow(h, x)
                          \/ \E x \in DOMAIN map[h].mems : MemoryGrow(h, x)
                          \/ \E x \in DOMAIN map[h].globals : GlobalSet(h, x)
    BY <1>4 DEF Run
  <2>2. CASE SegmentDrop(h)
    BY <2>2, DropStep
  <2>3. ASSUME NEW x \in DOMAIN map[h].tables, TableSet(h, x) PROVE LInv'
    BY <2>3, TableSetStep
  <2>4. ASSUME NEW x \in DOMAIN map[h].tables, TableGrow(h, x) PROVE LInv'
    BY <2>4, TableGrowStep
  <2>5. ASSUME NEW x \in DOMAIN map[h].mems, MemoryGrow(h, x) PROVE LInv'
    BY <2>5, MemoryGrowStep
  <2>6. ASSUME NEW x \in DOMAIN map[h].globals, GlobalSet(h, x) PROVE LInv'
    BY <2>6, GlobalSetStep
  <2> QED
    BY <2>1, <2>2, <2>3, <2>4, <2>5, <2>6
<1> QED
  BY <1>1, <1>2, <1>3, <1>4 DEF Next

(* In every state, everything that can be reached through the registry,    *)
(* and everything the load under way has built, is in the store and of the *)
(* type it was linked or allocated with, its references lead to functions  *)
(* whose module is registered, and its segments are aligned with those of  *)
(* its module.                                                             *)
THEOREM LinkingSound == Spec => []LInv
<1>1. Init => LInv
  BY InitInv
<1>2. LInv /\ [Next]_vars => LInv'
  BY NextInv
<1> QED
  BY <1>1, <1>2, PTL DEF Spec

-----------------------------------------------------------------------------
(* What the invariant says of the properties of Linker.                    *)

LEMMA TypeOKHolds ==
  ASSUME LInv
  PROVE  TypeOK
<1>1. StoreOK(Store)
  BY DEF LInv
<1>2. ASSUME NEW t \in DOMAIN tables
      PROVE  /\ \A r \in Entries(tables[t].refs) : r.t = tables[t].elem
             /\ WithinMax(Len(tables[t].refs), tables[t].max)
  <2>1. IsTable(tables[t])
    BY <1>1, StoreFields DEF StoreOK
  <2> QED
    BY <2>1 DEF IsTable, Entries
<1>3. \A a \in DOMAIN mems : WithinMax(mems[a].size, mems[a].max)
  BY <1>1, StoreFields DEF StoreOK, IsMem
<1>4. \A g \in DOMAIN globals : globals[g].value.t = globals[g].type
  BY <1>1, StoreFields DEF StoreOK, IsGlobal
<1>5. ASSUME NEW e \in DOMAIN elems, NEW r \in Entries(elems[e].refs)
      PROVE  r.t = elems[e].elem
  <2>1. IsElem(elems[e])
    BY <1>1, StoreFields DEF StoreOK
  <2> QED
    BY <1>5, <2>1 DEF IsElem, Entries
<1>6. DOMAIN map \subseteq 0 .. nextHandle - 1
  BY DEF LInv, RegistryOK
<1>7. load.phase \in {"idle"} \cup Entries(Phases)
  <2>1. CASE load = Idle
    BY <2>1 DEF Idle
  <2>2. CASE IsLoad(load)
    <3>1. DOMAIN Phases = 1 .. 12
      BY DEF Phases
    <3>2. /\ Phases[1] = "imports" /\ Phases[2] = "funcs" /\ Phases[3] = "globals"
          /\ Phases[4] = "tables" /\ Phases[5] = "elems" /\ Phases[6] = "mems"
          /\ Phases[7] = "exports" /\ Phases[8] = "datas" /\ Phases[9] = "register"
          /\ Phases[10] = "init_elems" /\ Phases[11] = "init_datas" /\ Phases[12] = "start"
      BY DEF Phases
    <3>3. \A p \in 1 .. 12 : Phases[p] \in Entries(Phases)
      BY <3>1 DEF Entries
    <3>4. Unregistered \cup Registering \subseteq Entries(Phases)
      BY <3>2, <3>3 DEF Unregistered, Registering
    <3> QED
      BY <2>2, <3>4 DEF IsLoad
  <2> QED
    BY <2>1, <2>2 DEF LInv, LoadOK
<1> QED
  BY <1>2, <1>3, <1>4, <1>5, <1>6, <1>7 DEF TypeOK

LEMMA ReachHolds ==
  ASSUME LInv
  PROVE  FuncsHaveInstances
<1> SUFFICES ASSUME NEW a \in InReach
             PROVE  funcs[a].host \/ IsWasm(funcs[a].module)
  BY DEF FuncsHaveInstances
<1>1. FuncGood(Store, Wasms, a)
  BY ReachGood
<1> QED
  BY <1>1, StoreFields DEF FuncGood, Wasms, IsWasm

LEMMA LimitsHold ==
  ASSUME LInv
  PROVE  ImportsStayWithinLimits
<1> SUFFICES ASSUME NEW h, IsWasm(h), NEW k \in DOMAIN map[h].linked
             PROVE  LET want == map[h].mod.imports[k].desc
                        a    == map[h].linked[k].addr
                    IN  /\ want.kind = "table" => /\ tables[a].elem = want.elem
                                                  /\ Len(tables[a].refs) >= want.min
                                                  /\ WithinMax(Len(tables[a].refs), want.max)
                        /\ want.kind = "mem" => /\ mems[a].size >= want.min
                                                /\ WithinMax(mems[a].size, want.max)
  BY DEF ImportsStayWithinLimits
<1> DEFINE want == map[h].mod.imports[k].desc
           a    == map[h].linked[k].addr
<1>1. /\ LimitsKept(Store, want, a) /\ map[h].mod \in Modules
      /\ k \in DOMAIN map[h].mod.imports
  BY WasmEntry DEF LinkedGood, IsInst
<1>2. want.kind \in {"table", "mem"} => IsLimits(want)
  BY <1>1, ModulesAssumption DEF IsModule
<1> HIDE DEF want, a
<1>3. ASSUME want.kind = "table"
      PROVE  /\ tables[a].elem = want.elem
             /\ Len(tables[a].refs) >= want.min
             /\ WithinMax(Len(tables[a].refs), want.max)
  <2>1. /\ a \in DOMAIN tables /\ tables[a].elem = want.elem
        /\ Len(tables[a].refs) >= want.min /\ MaxKept(tables[a].max, want.max)
    BY <1>1, <1>3, StoreFields DEF LimitsKept
  <2>2. IsTable(tables[a])
    BY <2>1, StoreFields DEF LInv, StoreOK
  <2>3. /\ Len(tables[a].refs) \in Nat /\ tables[a].max \in Nat \cup {NoMax}
        /\ WithinMax(Len(tables[a].refs), tables[a].max)
    BY <2>2, ListFacts DEF IsTable
  <2>4. want.max \in Nat \cup {NoMax}
    BY <1>2, <1>3 DEF IsLimits
  <2> QED
    BY <2>1, <2>3, <2>4 DEF MaxKept, WithinMax, NoMax
<1>4. ASSUME want.kind = "mem"
      PROVE  mems[a].size >= want.min /\ WithinMax(mems[a].size, want.max)
  <2>1. a \in DOMAIN mems /\ mems[a].size >= want.min /\ MaxKept(mems[a].max, want.max)
    BY <1>1, <1>4, StoreFields DEF LimitsKept
  <2>2. IsMem(mems[a])
    BY <2>1, StoreFields DEF LInv, StoreOK
  <2>3. want.max \in Nat \cup {NoMax}
    BY <1>2, <1>4 DEF IsLimits
  <2> QED
    BY <2>1, <2>2, <2>3 DEF IsMem, MaxKept, WithinMax, NoMax
<1> QED
  BY <1>3, <1>4 DEF want, a

LEMMA NamesHold ==
  ASSUME LInv
  PROVE  NamesResolve
<1>1. (\A n \in DOMAIN names : names[n] \in DOMAIN map) /\ handles \subseteq DOMAIN map
  BY DEF LInv, RegistryOK
<1>2. load.phase \in Unregistered => load.h \notin DOMAIN map
  BY LoadFacts
<1> QED
  BY <1>1, <1>2 DEF NamesResolve, Unregistered

LEMMA AlignedHolds ==
  ASSUME LInv
  PROVE  SegmentsAligned
<1> SUFFICES ASSUME NEW h, IsWasm(h)
             PROVE  /\ Len(map[h].elems) = Len(map[h].mod.elems)
                    /\ \A k \in DOMAIN map[h].mod.elems :
                         elems[map[h].elems[k]].elem = map[h].mod.elems[k].elem
                    /\ Len(map[h].datas) = Len(map[h].mod.datas)
  BY DEF SegmentsAligned
<1>1. ElemsAligned(Store, map[h]) /\ DatasAligned(map[h])
  BY WasmEntry
<1> QED
  BY <1>1, StoreFields DEF ElemsAligned, DatasAligned

LEMMA DroppedHolds ==
  ASSUME LInv
  PROVE  ActiveSegmentsDropped
<1> SUFFICES ASSUME NEW h \in handles, IsWasm(h)
             PROVE  /\ \A k \in DOMAIN map[h].mod.elems :
                         map[h].mod.elems[k].mode # "passive" =>
                           elems[map[h].elems[k]].refs = <<>>
                    /\ \A k \in DOMAIN map[h].mod.datas :
                         map[h].mod.datas[k].mode # "passive" =>
                           datas[map[h].datas[k]].len = 0
  BY DEF ActiveSegmentsDropped
<1> DEFINE m == map[h].mod
<1>1. /\ ElemsDropped(Store, map[h], Len(m.elems) + 1)
      /\ DatasDropped(Store, map[h], Len(m.datas) + 1)
  BY DEF LInv, HandlesOK, Given, IsWasm
<1>2. m \in Modules
  BY WasmEntry DEF IsInst
<1> HIDE DEF m
<1>3. /\ Len(m.elems) \in Nat /\ DOMAIN m.elems = 1 .. Len(m.elems)
      /\ Len(m.datas) \in Nat /\ DOMAIN m.datas = 1 .. Len(m.datas)
  BY <1>2, ModuleLists
<1>4. /\ \A k \in DOMAIN m.elems : k < Len(m.elems) + 1
      /\ \A k \in DOMAIN m.datas : k < Len(m.datas) + 1
  BY <1>3
<1> QED
  BY <1>1, <1>4, StoreFields DEF m, ElemsDropped, DatasDropped, Past

(* The offset of an active segment, while segments are written.            *)
LEMMA OffsetsEvaluate ==
  ASSUME LInv, Writing, NEW e, IsExpr(e), ExprValid(M, e, "i32")
  PROVE  Evaluates(e, "i32")
<1>1. Building /\ load.phase # "funcs"
  BY DEF Writing, Registering, Building
<1> QED
  BY <1>1, ConstantFacts

LEMMA ConstantsHold ==
  ASSUME LInv
  PROVE  ConstantsEvaluate
<1>1. In("globals") => \A k \in DOMAIN M.globals :
                         Evaluates(M.globals[k].init, M.globals[k].type)
  BY GlobalInits
<1>2. In("tables") => \A k \in DOMAIN M.tables :
                        Evaluates(M.tables[k].init, M.tables[k].elem)
  BY TableInits
<1>3. In("elems") => \A k \in DOMAIN M.elems : \A j \in DOMAIN M.elems[k].items :
                       Evaluates(M.elems[k].items[j], M.elems[k].elem)
  BY ElemInits
<1>4. ASSUME Writing PROVE ModuleValid(M) /\ IsModule(M)
  BY <1>4, WritingFacts, ModulesAssumption
<1>5. ASSUME In("init_elems"), NEW k \in DOMAIN M.elems, M.elems[k].mode = "active"
      PROVE  Evaluates(M.elems[k].offset, "i32")
  <2>1. Writing
    BY <1>5 DEF In, Writing, Registering
  <2>2. IsExpr(M.elems[k].offset)
    BY <1>4, <1>5, <2>1 DEF IsModule
  <2>3. ExprValid(M, M.elems[k].offset, "i32")
    BY <1>4, <1>5, <2>1 DEF ModuleValid, ElementsValid
  <2> QED
    BY <2>1, <2>2, <2>3, OffsetsEvaluate
<1>6. ASSUME In("init_datas"), NEW k \in DOMAIN M.datas, M.datas[k].mode = "active"
      PROVE  Evaluates(M.datas[k].offset, "i32")
  <2>1. Writing
    BY <1>6 DEF In, Writing, Registering
  <2>2. IsExpr(M.datas[k].offset)
    BY <1>4, <1>6, <2>1 DEF IsModule
  <2>3. ExprValid(M, M.datas[k].offset, "i32")
    BY <1>4, <1>6, <2>1 DEF ModuleValid, DatasValid
  <2> QED
    BY <2>1, <2>2, <2>3, OffsetsEvaluate
<1> QED
  BY <1>1, <1>2, <1>3, <1>5, <1>6 DEF ConstantsEvaluate

(* Everything in the store has the type it was allocated with, nothing     *)
(* outgrows its maximum, and no registered handle is still to be issued,   *)
(* for any modules and host items (GlobalInstance::set, table and memory   *)
(* grow, ModuleRegistry::add).                                             *)
THEOREM StoreStaysTyped == Spec => []TypeOK
BY LinkingSound, TypeOKHolds, PTL

(* A function that can be called belongs to a host or to a module in the   *)
(* registry, also when its load has failed after its references were       *)
(* written to a shared table: execute finds its instance.                  *)
THEOREM CalleesRegistered == Spec => []FuncsHaveInstances
BY LinkingSound, ReachHolds, PTL

(* The limits instantiate_module checks once at the import hold for good,  *)
(* whoever grows the shared table or memory.                               *)
THEOREM LimitsKeepHolding == Spec => []ImportsStayWithinLimits
BY LinkingSound, LimitsHold, PTL

(* Names and handles lead to registered modules and a handle is issued     *)
(* once, whatever loads have failed: resolve and add do not panic.         *)
THEOREM RegistryConsistent == Spec => []NamesResolve
BY LinkingSound, NamesHold, PTL

(* An index of table.init, elem.drop, memory.init or data.drop finds the   *)
(* segment that validation has typed it with.                              *)
THEOREM SegmentsStayAligned == Spec => []SegmentsAligned
BY LinkingSound, AlignedHolds, PTL

(* Once load_module returns a handle, the active and the declarative       *)
(* segments of its module are empty, for good.                             *)
THEOREM SegmentsStayDropped == Spec => []ActiveSegmentsDropped
BY LinkingSound, DroppedHolds, PTL

(* The constant expressions of a valid module find what they name, of the  *)
(* type that is expected, in the phase that evaluates them.                *)
THEOREM ConstantsNeverFail == Spec => []ConstantsEvaluate
BY LinkingSound, ConstantsHold, PTL

=============================================================================
