------------------------------- MODULE Linker -------------------------------
(***************************************************************************)
(* Instantiation and linking: the store (functions, tables, memories,      *)
(* globals, segments), the module registry (names, handles, instances) and *)
(* the phases of Runtime::instantiate_module, with the host modules the    *)
(* embedder registers and the effects running code has on the store.       *)
(*                                                                         *)
(* A Runtime is used by one thread through &mut, so a load is interrupted  *)
(* by nothing but the code it runs itself (the start function).  What      *)
(* makes it hard is that every phase may be the last one: an unlinkable    *)
(* import, an out-of-bounds segment or a trap in the start function leaves *)
(* behind what the phases before it have done to a store that other        *)
(* modules share.                                                          *)
(*                                                                         *)
(* Addresses are 1-based positions in the store; address 0 is null.  A     *)
(* memory is its size: its contents matter to no property.  Modules are    *)
(* decoded ones, with the bodies of their functions left out.              *)
(***************************************************************************)
EXTENDS Integers, Sequences, FiniteSets

CONSTANTS
  Modules,     \* the modules a load may be given
  HostItems,   \* the register_host_* calls: [mod, name, type]
  Names,       \* the names register_module may be given
  MaxHandles,  \* bound: handles reserved
  MaxItems,    \* bound: items of the store, by kind
  MaxTableLen, \* MAX_WASM_TABLE_LEN
  MaxPages     \* MAX_WASM_32BIT_MEMORY_PAGES

NoMax   == -1
NoStart == -1

VARIABLES
  names,                          \* ModuleRegistry.names
  map,                            \* ModuleRegistry.map
  nextHandle,                     \* ModuleRegistry.next_handle
  funcs, tables, mems, globals,   \* Store
  elems, datas,                   \* Store: segments
  handles,                        \* handles the embedder has been given
  load,                           \* the load under way
  inst                            \* its module instance, being built

registry == <<names, map, nextHandle>>
store == <<funcs, tables, mems, globals, elems, datas>>
vars == <<names, map, nextHandle, funcs, tables, mems, globals, elems, datas,
          handles, load, inst>>

Null(t)   == [t |-> t, v |-> 0]
FuncRef(a) == [t |-> "funcref", v |-> a]

NoExports == [n \in {} |-> 0]
Idle      == [phase |-> "idle"]
NoInst    == [exports |-> NoExports]

Kinds == {"func", "table", "mem", "global"}
Entries(s) == {s[k] : k \in DOMAIN s}
IsList(s)  == s \in Seq(Entries(s))

Put(f, k, x) == [d \in DOMAIN f \cup {k} |-> IF d = k THEN x ELSE f[d]]
Fresh(s, n)  == [k \in 1 .. n |-> Len(s) + k]
At(s, x)     == s[x + 1]

(***************************************************************************)
(* Validation of a module's sections: indices refer to what there is,      *)
(* counting imports first, and constant expressions have the type that is  *)
(* expected of them and read imported, immutable globals.  The bodies of   *)
(* functions are Validator's.                                              *)
(***************************************************************************)
(* The members of a set of positions, in order.                            *)
Ordered(P) ==
  [k \in 1 .. Cardinality(P) |->
     CHOOSE p \in P : Cardinality({q \in P : q < p}) = k - 1]

Picks(m, kind) ==
  Ordered({k \in DOMAIN m.imports : m.imports[k].desc.kind = kind})
OfKind(m, kind) == [k \in DOMAIN Picks(m, kind) |-> m.imports[Picks(m, kind)[k]]]

Count(m, kind) ==
  Len(OfKind(m, kind))
    + (CASE kind = "func" -> Len(m.funcs) [] kind = "table" -> Len(m.tables)
         [] kind = "mem" -> Len(m.mems)   [] kind = "global" -> Len(m.globals))

(* Fault: a mutable global may be read.                                    *)
ExprValidReadsAnyGlobal(m, e, t) ==
  CASE e.op = "const"      -> e.val.t = t
    [] e.op = "ref.func"   -> t = "funcref" /\ e.x < Count(m, "func")
    [] e.op = "global.get" -> e.x < Len(OfKind(m, "global"))

ExprValid(m, e, t) ==
  CASE e.op = "const"      -> e.val.t = t
    [] e.op = "ref.func"   -> t = "funcref" /\ e.x < Count(m, "func")
    [] e.op = "global.get" -> /\ e.x < Len(OfKind(m, "global"))
                              /\ LET d == At(OfKind(m, "global"), e.x).desc
                                 IN  d.type = t /\ ~d.mut

WithinMax(n, max) == max # NoMax => n <= max

TablesValid(m) ==
  \A k \in DOMAIN m.tables : /\ WithinMax(m.tables[k].min, m.tables[k].max)
                             /\ ExprValid(m, m.tables[k].init, m.tables[k].elem)

MemValid(l) == l.min <= MaxPages /\ l.max <= MaxPages /\ WithinMax(l.min, l.max)
MemoriesValid(m) ==
  /\ Count(m, "mem") <= 1
  /\ \A k \in DOMAIN m.mems : MemValid(m.mems[k])
  /\ \A k \in DOMAIN OfKind(m, "mem") : MemValid(OfKind(m, "mem")[k].desc)

(* table_type_at, of a table that exists.                                  *)
TableTypeAt(m, x) ==
  At([k \in DOMAIN OfKind(m, "table") |-> OfKind(m, "table")[k].desc.elem]
       \o [k \in DOMAIN m.tables |-> m.tables[k].elem], x)

ElementsValid(m) ==
  \A k \in DOMAIN m.elems :
    LET e == m.elems[k]
    IN  /\ \A j \in DOMAIN e.items : ExprValid(m, e.items[j], e.elem)
        /\ e.mode = "active" => /\ e.table < Count(m, "table")
                                /\ TableTypeAt(m, e.table) = e.elem
                                /\ ExprValid(m, e.offset, "i32")

DatasValid(m) ==
  \A k \in DOMAIN m.datas :
    m.datas[k].mode = "active" => /\ Count(m, "mem") > 0
                                  /\ ExprValid(m, m.datas[k].offset, "i32")

GlobalsValid(m) ==
  \A k \in DOMAIN m.globals : ExprValid(m, m.globals[k].init, m.globals[k].type)

ExportsValid(m) ==
  \A k \in DOMAIN m.exports :
    /\ m.exports[k].x < Count(m, m.exports[k].kind)
    /\ \A j \in DOMAIN m.exports : m.exports[j].name = m.exports[k].name => j = k

FuncTypeAt(m, x) ==
  At([k \in DOMAIN OfKind(m, "func") |-> OfKind(m, "func")[k].desc.type] \o m.funcs, x)

StartValid(m) ==
  m.start # NoStart => /\ m.start < Count(m, "func")
                       /\ FuncTypeAt(m, m.start) = "[] -> []"

ModuleValid(m) ==
  /\ TablesValid(m) /\ MemoriesValid(m) /\ ElementsValid(m) /\ DatasValid(m)
  /\ GlobalsValid(m) /\ ExportsValid(m) /\ StartValid(m)

(* What decoding produces: the constants of type funcref are null.         *)
IsLimits(l) == l.min \in Nat /\ l.max \in Nat \cup {NoMax}
IsExpr(e) == \/ e.op = "const" /\ (e.val.t = "funcref" => e.val.v = 0)
             \/ e.op \in {"ref.func", "global.get"} /\ e.x \in Nat

IsModule(m) ==
  /\ IsList(m.imports) /\ IsList(m.funcs) /\ IsList(m.tables) /\ IsList(m.mems)
  /\ IsList(m.globals) /\ IsList(m.elems) /\ IsList(m.datas) /\ IsList(m.exports)
  /\ \A k \in DOMAIN m.imports :
       /\ m.imports[k].desc.kind \in Kinds
       /\ m.imports[k].desc.kind \in {"table", "mem"} => IsLimits(m.imports[k].desc)
  /\ \A k \in DOMAIN m.tables : IsLimits(m.tables[k]) /\ IsExpr(m.tables[k].init)
  /\ \A k \in DOMAIN m.mems : IsLimits(m.mems[k])
  /\ \A k \in DOMAIN m.globals : IsExpr(m.globals[k].init)
  /\ \A k \in DOMAIN m.elems :
       /\ m.elems[k].mode \in {"active", "passive", "declarative"}
       /\ IsList(m.elems[k].items)
       /\ \A j \in DOMAIN m.elems[k].items : IsExpr(m.elems[k].items[j])
       /\ m.elems[k].mode = "active" =>
            m.elems[k].table \in Nat /\ IsExpr(m.elems[k].offset)
  /\ \A k \in DOMAIN m.datas :
       /\ m.datas[k].mode \in {"active", "passive"}
       /\ m.datas[k].mode = "active" => IsExpr(m.datas[k].offset)
  /\ \A k \in DOMAIN m.exports : m.exports[k].kind \in Kinds /\ m.exports[k].x \in Nat

ASSUME ModulesAssumption == \A m \in Modules : IsModule(m)

(* The types the host declares are ones the standard calls valid.          *)
ASSUME HostAssumption ==
  \A i \in HostItems :
    /\ i.type.kind \in Kinds
    /\ i.type.kind \in {"table", "mem"} =>
         IsLimits(i.type) /\ WithinMax(i.type.min, i.type.max)

-----------------------------------------------------------------------------
(* Linking.                                                                *)

(* The type of an external value as it is now: a table or a memory that    *)
(* has grown counts with its current size.                                 *)
TypeOf(e) ==
  CASE e.kind = "func" -> [kind |-> "func", type |-> funcs[e.addr].type]
    [] e.kind = "table" -> [kind |-> "table", elem |-> tables[e.addr].elem,
                            min |-> Len(tables[e.addr].refs),
                            max |-> tables[e.addr].max]
    [] e.kind = "mem" -> [kind |-> "mem", min |-> mems[e.addr].size,
                          max |-> mems[e.addr].max]
    [] e.kind = "global" -> [kind |-> "global", type |-> globals[e.addr].type,
                             mut |-> globals[e.addr].mut]

(* Fault: the maximum is not compared.                                     *)
LimitMatchesMinOnly(have, want) == have.min >= want.min

LimitMatches(have, want) ==
  /\ have.min >= want.min
  /\ want.max # NoMax => have.max # NoMax /\ have.max <= want.max

TypeMatches(have, want) ==
  /\ have.kind = want.kind
  /\ have.kind \in {"func", "global"} => have = want
  /\ have.kind = "table" => have.elem = want.elem
  /\ have.kind \in {"table", "mem"} => LimitMatches(have, want)

(* resolve: the export of that name of the module registered as mod.       *)
Resolves(mod, name) ==
  mod \in DOMAIN names /\ name \in DOMAIN map[names[mod]].exports
Resolve(mod, name) == map[names[mod]].exports[name]

Linkable(i) ==
  Resolves(i.mod, i.name) /\ TypeMatches(TypeOf(Resolve(i.mod, i.name)), i.desc)

Addrs(evs, kind) ==
  LET s == Ordered({k \in DOMAIN evs : evs[k].kind = kind})
  IN  [k \in DOMAIN s |-> evs[s[k]].addr]

-----------------------------------------------------------------------------
(* Constant expressions.                                                   *)

Evaluates(e, t) ==
  CASE e.op = "const"      -> e.val.t = t
    [] e.op = "ref.func"   -> e.x + 1 \in DOMAIN inst.funcs
    [] e.op = "global.get" -> /\ e.x + 1 \in DOMAIN inst.globals
                              /\ globals[At(inst.globals, e.x)].value.t = t

Eval(e) ==
  CASE e.op = "const"      -> e.val
    [] e.op = "ref.func"   -> FuncRef(At(inst.funcs, e.x))
    [] e.op = "global.get" -> globals[At(inst.globals, e.x)].value

-----------------------------------------------------------------------------
(* The phases of instantiate_module.                                       *)

(* Fault: the instance is registered when its segments are written.        *)
PhasesRegisterLate ==
  <<"imports", "funcs", "globals", "tables", "elems", "mems", "exports",
    "datas", "init_elems", "init_datas", "register", "start">>

Phases ==
  <<"imports", "funcs", "globals", "tables", "elems", "mems", "exports",
    "datas", "register", "init_elems", "init_datas", "start">>

In(phase) == load.phase = phase
M == load.mod
After == LET p == CHOOSE p \in DOMAIN Phases : Phases[p] = load.phase
         IN  [load EXCEPT !.phase = Phases[p + 1], !.k = 1]

Give(h) == handles' = handles \cup {h}

(* Bound: the store has room for what is to be allocated.                  *)
Room(s, kind, n) == Len(s) + n <= MaxItems[kind]
Fits(m) == /\ Room(funcs, "func", Len(m.funcs))
           /\ Room(tables, "table", Len(m.tables))
           /\ Room(mems, "mem", Len(m.mems))
           /\ Room(globals, "global", Len(m.globals))

(* load_module, of a module that is not valid.                             *)
Refuse(m) ==
  /\ In("idle") /\ ~ModuleValid(m)
  /\ UNCHANGED vars

Reserve(m) ==
  /\ In("idle") /\ ModuleValid(m)
  /\ nextHandle < MaxHandles /\ Fits(m)
  /\ load' = [phase |-> "imports", mod |-> m, h |-> nextHandle, k |-> 1]
  /\ inst' = NoInst
  /\ nextHandle' = nextHandle + 1
  /\ UNCHANGED <<names, map, handles, store>>

LinkImports ==
  /\ In("imports")
  /\ \A k \in DOMAIN M.imports : Linkable(M.imports[k])
  /\ LET evs == [k \in DOMAIN M.imports |->
                   Resolve(M.imports[k].mod, M.imports[k].name)]
     IN  inst' = [kind |-> "wasm", mod |-> M, linked |-> evs, exports |-> NoExports,
                  funcs   |-> Addrs(evs, "func"),
                  tables  |-> Addrs(evs, "table"),
                  mems    |-> Addrs(evs, "mem"),
                  globals |-> Addrs(evs, "global"),
                  elems   |-> <<>>, datas |-> <<>>]
  /\ load' = After
  /\ UNCHANGED <<registry, store, handles>>

(* UnknownImport or IncompatibleImportType: load_module returns an error.  *)
Unlinkable ==
  /\ In("imports")
  /\ \E k \in DOMAIN M.imports : ~Linkable(M.imports[k])
  /\ load' = Idle
  /\ inst' = NoInst
  /\ UNCHANGED <<registry, store, handles>>

AllocFuncs ==
  /\ In("funcs")
  /\ funcs' = funcs \o [k \in DOMAIN M.funcs |->
                          [type |-> M.funcs[k], module |-> load.h, host |-> FALSE]]
  /\ inst' = [inst EXCEPT !.funcs = @ \o Fresh(funcs, Len(M.funcs))]
  /\ load' = After
  /\ UNCHANGED <<registry, tables, mems, globals, elems, datas, handles>>

AllocGlobals ==
  /\ In("globals")
  /\ \A k \in DOMAIN M.globals : Evaluates(M.globals[k].init, M.globals[k].type)
  /\ globals' = globals \o [k \in DOMAIN M.globals |->
                   [type |-> M.globals[k].type, mut |-> M.globals[k].mut,
                    value |-> Eval(M.globals[k].init)]]
  /\ inst' = [inst EXCEPT !.globals = @ \o Fresh(globals, Len(M.globals))]
  /\ load' = After
  /\ UNCHANGED <<registry, funcs, tables, mems, elems, datas, handles>>

AllocTables ==
  /\ In("tables")
  /\ \A k \in DOMAIN M.tables : Evaluates(M.tables[k].init, M.tables[k].elem)
  /\ tables' = tables \o [k \in DOMAIN M.tables |->
                  [elem |-> M.tables[k].elem, max |-> M.tables[k].max,
                   refs |-> [j \in 1 .. M.tables[k].min |-> Eval(M.tables[k].init)]]]
  /\ inst' = [inst EXCEPT !.tables = @ \o Fresh(tables, Len(M.tables))]
  /\ load' = After
  /\ UNCHANGED <<registry, funcs, mems, globals, elems, datas, handles>>

(* The references of a segment; a declarative one is dropped at once.      *)
Items(e) == IF e.mode = "declarative" THEN <<>>
            ELSE [j \in DOMAIN e.items |-> Eval(e.items[j])]

(* Fault: a declarative segment gets no address of its own.                *)
AllocElemsSkipsDeclarative ==
  /\ In("elems")
  /\ LET live == SelectSeq(M.elems, LAMBDA e : e.mode # "declarative")
     IN  /\ elems' = elems \o [k \in DOMAIN live |->
                        [elem |-> live[k].elem, refs |-> Items(live[k])]]
         /\ inst' = [inst EXCEPT !.elems = Fresh(elems, Len(live))]
  /\ load' = After
  /\ UNCHANGED <<registry, funcs, tables, mems, globals, datas, handles>>

AllocElems ==
  /\ In("elems")
  /\ \A k \in DOMAIN M.elems : M.elems[k].mode # "declarative" =>
       \A j \in DOMAIN M.elems[k].items :
         Evaluates(M.elems[k].items[j], M.elems[k].elem)
  /\ elems' = elems \o [k \in DOMAIN M.elems |->
                 [elem |-> M.elems[k].elem, refs |-> Items(M.elems[k])]]
  /\ inst' = [inst EXCEPT !.elems = Fresh(elems, Len(M.elems))]
  /\ load' = After
  /\ UNCHANGED <<registry, funcs, tables, mems, globals, datas, handles>>

AllocMems ==
  /\ In("mems")
  /\ mems' = mems \o [k \in DOMAIN M.mems |->
                        [size |-> M.mems[k].min, max |-> M.mems[k].max]]
  /\ inst' = [inst EXCEPT !.mems = @ \o Fresh(mems, Len(M.mems))]
  /\ load' = After
  /\ UNCHANGED <<registry, funcs, tables, globals, elems, datas, handles>>

AddrsOf(i, kind) ==
  CASE kind = "func" -> i.funcs [] kind = "table"  -> i.tables
    [] kind = "mem"  -> i.mems  [] kind = "global" -> i.globals

AllocExports ==
  /\ In("exports")
  /\ inst' = [inst EXCEPT !.exports =
       [n \in {M.exports[k].name : k \in DOMAIN M.exports} |->
          LET e == M.exports[CHOOSE k \in DOMAIN M.exports : M.exports[k].name = n]
          IN  [kind |-> e.kind, addr |-> At(AddrsOf(inst, e.kind), e.x)]]]
  /\ load' = After
  /\ UNCHANGED <<registry, store, handles>>

AllocDatas ==
  /\ In("datas")
  /\ datas' = datas \o [k \in DOMAIN M.datas |-> [len |-> M.datas[k].len]]
  /\ inst' = [inst EXCEPT !.datas = Fresh(datas, Len(M.datas))]
  /\ load' = After
  /\ UNCHANGED <<registry, funcs, tables, mems, globals, elems, handles>>

(* add: panics when the handle is taken.                                   *)
AddInstance ==
  /\ In("register")
  /\ load.h \notin DOMAIN map
  /\ map' = Put(map, load.h, inst)
  /\ load' = After
  /\ UNCHANGED <<names, nextHandle, store, handles, inst>>

(* The k-th segment, when it is an active one: init, then drop.            *)
Seg == M.elems[load.k]
Offset(e) == Eval(e).v

(* The offset as usize: a negative one is past any end.                    *)
Within(offset, n, size) == offset >= 0 /\ offset + n <= size

Overwrite(s, from, new) ==
  [j \in DOMAIN s |-> IF j - from \in DOMAIN new THEN new[j - from] ELSE s[j]]

(* Fault: the segment is still there after it has been written.            *)
InitElemKeepsSegment ==
  /\ In("init_elems") /\ load.k <= Len(M.elems)
  /\ Seg.mode = "active" /\ Evaluates(Seg.offset, "i32")
  /\ LET t   == At(inst.tables, Seg.table)
         new == elems[inst.elems[load.k]].refs
     IN  /\ Within(Offset(Seg.offset), Len(new), Len(tables[t].refs))
         /\ tables' = [tables EXCEPT ![t].refs =
                         Overwrite(@, Offset(Seg.offset), new)]
  /\ load' = [load EXCEPT !.k = @ + 1]
  /\ UNCHANGED <<registry, funcs, mems, globals, elems, datas, handles, inst>>

InitElem ==
  /\ In("init_elems") /\ load.k <= Len(M.elems)
  /\ Seg.mode = "active" /\ Evaluates(Seg.offset, "i32")
  /\ LET t   == At(inst.tables, Seg.table)
         new == elems[inst.elems[load.k]].refs
     IN  /\ Within(Offset(Seg.offset), Len(Seg.items), Len(tables[t].refs))
         /\ tables' = [tables EXCEPT ![t].refs =
                         Overwrite(@, Offset(Seg.offset), new)]
         /\ elems' = [elems EXCEPT ![inst.elems[load.k]].refs = <<>>]
  /\ load' = [load EXCEPT !.k = @ + 1]
  /\ UNCHANGED <<registry, funcs, mems, globals, datas, handles, inst>>

InitData ==
  /\ In("init_datas") /\ load.k <= Len(M.datas)
  /\ LET d == M.datas[load.k]
     IN  /\ d.mode = "active" /\ Evaluates(d.offset, "i32")
         /\ Within(Offset(d.offset), d.len, mems[At(inst.mems, 0)].size)
  /\ datas' = [datas EXCEPT ![inst.datas[load.k]].len = 0]
  /\ load' = [load EXCEPT !.k = @ + 1]
  /\ UNCHANGED <<registry, funcs, tables, mems, globals, elems, handles, inst>>

(* A segment that is not active is not written.                            *)
SkipSegment ==
  /\ \/ In("init_elems") /\ load.k <= Len(M.elems) /\ Seg.mode # "active"
     \/ In("init_datas") /\ load.k <= Len(M.datas)
          /\ M.datas[load.k].mode # "active"
  /\ load' = [load EXCEPT !.k = @ + 1]
  /\ UNCHANGED <<registry, store, handles, inst>>

SegmentsDone ==
  /\ \/ In("init_elems") /\ load.k > Len(M.elems)
     \/ In("init_datas") /\ load.k > Len(M.datas)
  /\ load' = After
  /\ UNCHANGED <<registry, store, handles, inst>>

(* A segment does not fit: a trap, with the segments before it written and *)
(* the instance registered.                                                *)
SegmentTrap ==
  /\ \/ /\ In("init_elems") /\ load.k <= Len(M.elems)
        /\ Seg.mode = "active" /\ Evaluates(Seg.offset, "i32")
        /\ ~Within(Offset(Seg.offset), Len(Seg.items),
                   Len(tables[At(inst.tables, Seg.table)].refs))
     \/ /\ In("init_datas") /\ load.k <= Len(M.datas)
        /\ M.datas[load.k].mode = "active"
        /\ Evaluates(M.datas[load.k].offset, "i32")
        /\ ~Within(Offset(M.datas[load.k].offset), M.datas[load.k].len,
                   mems[At(inst.mems, 0)].size)
  /\ load' = Idle
  /\ inst' = NoInst
  /\ UNCHANGED <<registry, store, handles>>

(* The start function, if there is one, has returned.                      *)
Instantiated ==
  /\ In("start")
  /\ Give(load.h)
  /\ load' = Idle
  /\ inst' = NoInst
  /\ UNCHANGED <<registry, store>>

StartTrap ==
  /\ In("start")
  /\ M.start # NoStart
  /\ load' = Idle
  /\ inst' = NoInst
  /\ UNCHANGED <<registry, store, handles>>

-----------------------------------------------------------------------------
(* What registered modules hold, and the values there are in it.           *)

IsWasm(h) == h \in DOMAIN map /\ map[h].kind = "wasm"

(* The addresses a registered module holds.                                *)
HeldBy(h, kind) ==
  IF IsWasm(h) THEN Entries(AddrsOf(map[h], kind))
  ELSE {e.addr : e \in {x \in Entries(map[h].exports) : x.kind = kind}}
Held(kind) == UNION {HeldBy(h, kind) : h \in DOMAIN map}
HeldElems  == UNION {Entries(map[h].elems) : h \in {g \in DOMAIN map : IsWasm(g)}}

HeldRefs == (UNION {Entries(tables[t].refs) : t \in Held("table")})
              \cup {globals[g].value : g \in Held("global")}
              \cup (UNION {Entries(elems[e].refs) : e \in HeldElems})

(* The functions that can be called.                                       *)
InReach == Held("func")
             \cup {r.v : r \in {x \in HeldRefs : x.t = "funcref" /\ x.v # 0}}

ValuesOf(t) ==
  CASE t = "funcref"   -> {Null(t)} \cup {FuncRef(a) : a \in InReach}
    [] t = "externref" -> {Null(t), [t |-> t, v |-> 1]}
    [] OTHER           -> {[t |-> t, v |-> 1]}

-----------------------------------------------------------------------------
(* What the embedder registers.                                            *)

Alloc(s, kind, type, x) == IF type.kind = kind THEN Append(s, x) ELSE s

Filled(n, v) == [j \in 1 .. n |-> v]

(* What the host may pass with an item: a value of the type it declares, a *)
(* reference being one that a call has given it.                           *)
HostValues(ty) ==
  CASE ty.kind = "table"  -> ValuesOf(ty.elem)
    [] ty.kind = "global" -> ValuesOf(ty.type)
    [] OTHER              -> {Null("externref")}

(* register_host_fn, _table, _memory, _global, with the handle and the     *)
(* entry that get_or_create_host returns.                                  *)
HostItem(i, h, entry, v) ==
  LET ty == i.type
      s  == CASE ty.kind = "func" -> funcs   [] ty.kind = "table" -> tables
              [] ty.kind = "mem"  -> mems    [] ty.kind = "global" -> globals
  IN  /\ Room(s, ty.kind, 1)
      /\ funcs' = Alloc(funcs, "func", ty, [type |-> ty.type, module |-> h, host |-> TRUE])
      /\ tables' = Alloc(tables, "table", ty,
                     [elem |-> ty.elem, max |-> ty.max, refs |-> Filled(ty.min, v)])
      /\ mems' = Alloc(mems, "mem", ty, [size |-> ty.min, max |-> ty.max])
      /\ globals' = Alloc(globals, "global", ty,
                      [type |-> ty.type, mut |-> ty.mut, value |-> v])
      /\ map' = Put(map, h, [entry EXCEPT !.exports =
                     Put(@, i.name, [kind |-> ty.kind, addr |-> Len(s) + 1])])
      /\ Give(h)
      /\ UNCHANGED <<elems, datas, load, inst>>

NewHost == [kind |-> "host", exports |-> NoExports]
IsHost(h) == h \in DOMAIN map /\ map[h].kind = "host"

(* Fault: the handle of the new host module is not counted.                *)
RegisterHostKeepsHandle(i, v) ==
  /\ In("idle") /\ nextHandle < MaxHandles
  /\ \/ /\ i.mod \in DOMAIN names /\ IsHost(names[i.mod])
        /\ HostItem(i, names[i.mod], map[names[i.mod]], v)
        /\ UNCHANGED <<names, nextHandle>>
     \/ /\ i.mod \notin DOMAIN names
        /\ HostItem(i, nextHandle, NewHost, v)
        /\ names' = Put(names, i.mod, nextHandle)
        /\ UNCHANGED nextHandle

RegisterHost(i, v) ==
  /\ In("idle")
  /\ \/ /\ i.mod \in DOMAIN names /\ IsHost(names[i.mod])
        /\ HostItem(i, names[i.mod], map[names[i.mod]], v)
        /\ UNCHANGED <<names, nextHandle>>
     \/ /\ i.mod \notin DOMAIN names /\ nextHandle < MaxHandles
        /\ HostItem(i, nextHandle, NewHost, v)
        /\ names' = Put(names, i.mod, nextHandle)
        /\ nextHandle' = nextHandle + 1

(* register_host_* panics in get_or_create_host.                           *)
HostPanics(i) == i.mod \in DOMAIN names /\ ~IsHost(names[i.mod])

(* register_module, with a handle the embedder holds; the name may be      *)
(* taken from another module.                                              *)
RegisterName(n, h) ==
  /\ In("idle")
  /\ names' = Put(names, n, h)
  /\ UNCHANGED <<map, nextHandle, store, handles, load, inst>>

-----------------------------------------------------------------------------
(* What running code does to the store: any function of a registered       *)
(* instance may run, in an invocation or under a start function, also one  *)
(* whose instantiation trapped, since tables may hold its references.      *)

Executing(h) == (In("idle") \/ In("start")) /\ IsWasm(h)

(* table.set; table.init, table.copy and table.fill write such references  *)
(* one after another.                                                      *)
TableSet(h, x) ==
  /\ Executing(h)
  /\ LET t == map[h].tables[x]
     IN  \E j \in DOMAIN tables[t].refs : \E r \in ValuesOf(tables[t].elem) :
           tables' = [tables EXCEPT ![t].refs[j] = r]
  /\ UNCHANGED <<registry, funcs, mems, globals, elems, datas, handles, load, inst>>

(* Fault: the maximum of the table is not looked at.                       *)
TableGrowUnlimited(h, x) ==
  /\ Executing(h)
  /\ LET t == map[h].tables[x]
     IN  /\ Len(tables[t].refs) < MaxTableLen
         /\ \E r \in ValuesOf(tables[t].elem) :
              tables' = [tables EXCEPT ![t].refs = Append(@, r)]
  /\ UNCHANGED <<registry, funcs, mems, globals, elems, datas, handles, load, inst>>

Below(n, max, limit) == n < limit /\ (max # NoMax => n < max)

TableGrow(h, x) ==
  /\ Executing(h)
  /\ LET t == map[h].tables[x]
     IN  /\ Below(Len(tables[t].refs), tables[t].max, MaxTableLen)
         /\ \E r \in ValuesOf(tables[t].elem) :
              tables' = [tables EXCEPT ![t].refs = Append(@, r)]
  /\ UNCHANGED <<registry, funcs, mems, globals, elems, datas, handles, load, inst>>

MemoryGrow(h, x) ==
  /\ Executing(h)
  /\ LET a == map[h].mems[x]
     IN  /\ Below(mems[a].size, mems[a].max, MaxPages)
         /\ mems' = [mems EXCEPT ![a].size = @ + 1]
  /\ UNCHANGED <<registry, funcs, tables, globals, elems, datas, handles, load, inst>>

(* Validation admits global.set on mutable globals only.                   *)
GlobalSet(h, x) ==
  /\ Executing(h)
  /\ LET g == map[h].globals[x]
     IN  /\ globals[g].mut
         /\ \E v \in ValuesOf(globals[g].type) :
              globals' = [globals EXCEPT ![g].value = v]
  /\ UNCHANGED <<registry, funcs, tables, mems, elems, datas, handles, load, inst>>

SegmentDrop(h) ==
  /\ Executing(h)
  /\ \/ /\ \E e \in Entries(map[h].elems) : elems' = [elems EXCEPT ![e].refs = <<>>]
        /\ UNCHANGED datas
     \/ /\ \E d \in Entries(map[h].datas) : datas' = [datas EXCEPT ![d].len = 0]
        /\ UNCHANGED elems
  /\ UNCHANGED <<registry, funcs, tables, mems, globals, handles, load, inst>>

-----------------------------------------------------------------------------
Init ==
  /\ names = NoExports /\ map = NoExports /\ nextHandle = 0
  /\ funcs = <<>> /\ tables = <<>> /\ mems = <<>> /\ globals = <<>>
  /\ elems = <<>> /\ datas = <<>>
  /\ handles = {} /\ load = Idle /\ inst = NoInst

Instantiate ==
  \/ LinkImports \/ Unlinkable
  \/ AllocFuncs \/ AllocGlobals \/ AllocTables \/ AllocElems \/ AllocMems
  \/ AllocExports \/ AllocDatas \/ AddInstance
  \/ InitElem \/ InitData \/ SkipSegment \/ SegmentsDone \/ SegmentTrap
  \/ Instantiated \/ StartTrap

Embed ==
  \/ \E m \in Modules : Reserve(m) \/ Refuse(m)
  \/ \E i \in HostItems : \E v \in HostValues(i.type) : RegisterHost(i, v)
  \/ \E n \in Names, h \in handles : RegisterName(n, h)

Run ==
  \E h \in DOMAIN map :
    \/ SegmentDrop(h)
    \/ IsWasm(h) /\ \/ \E x \in DOMAIN map[h].tables : TableSet(h, x) \/ TableGrow(h, x)
                    \/ \E x \in DOMAIN map[h].mems : MemoryGrow(h, x)
                    \/ \E x \in DOMAIN map[h].globals : GlobalSet(h, x)

Next == Instantiate \/ Embed \/ Run

Spec == Init /\ [][Next]_vars

-----------------------------------------------------------------------------
(* Properties.                                                             *)

(* Everything in the store has the type it was allocated with: tables hold *)
(* references of their element type, globals values of their value type    *)
(* (the assertion of GlobalInstance::set), and nothing outgrows its        *)
(* maximum.  The registry never maps a handle that is still to be issued.  *)
TypeOK ==
  /\ \A t \in DOMAIN tables :
       /\ \A r \in Entries(tables[t].refs) : r.t = tables[t].elem
       /\ WithinMax(Len(tables[t].refs), tables[t].max)
  /\ \A a \in DOMAIN mems : WithinMax(mems[a].size, mems[a].max)
  /\ \A g \in DOMAIN globals : globals[g].value.t = globals[g].type
  /\ \A e \in DOMAIN elems : \A r \in Entries(elems[e].refs) : r.t = elems[e].elem
  /\ DOMAIN map \subseteq 0 .. nextHandle - 1
  /\ load.phase \in {"idle"} \cup Entries(Phases)

(* No function that can be called belongs to a module the registry does    *)
(* not know, in particular not while or after an instantiation fails with  *)
(* its references in a table of another module: execute never answers      *)
(* "unknown module".                                                       *)
FuncsHaveInstances ==
  \A a \in InReach : funcs[a].host \/ IsWasm(funcs[a].module)

(* However far code has grown an imported table or memory, it stays within *)
(* what its importer declared: the limits checked once by instantiation    *)
(* keep holding while exporter and importers grow the shared object.       *)
ImportsStayWithinLimits ==
  \A h \in {g \in DOMAIN map : IsWasm(g)} :
    \A k \in DOMAIN map[h].linked :
      LET want == map[h].mod.imports[k].desc
          a    == map[h].linked[k].addr
      IN  /\ want.kind = "table" => /\ tables[a].elem = want.elem
                                    /\ Len(tables[a].refs) >= want.min
                                    /\ WithinMax(Len(tables[a].refs), want.max)
          /\ want.kind = "mem" => /\ mems[a].size >= want.min
                                  /\ WithinMax(mems[a].size, want.max)

(* A name always leads to a registered module and a handle is never issued *)
(* twice: resolve and add do not panic with "name exist but doesn't map to *)
(* a module" and "Handle taken", whatever loads have failed in between.    *)
NamesResolve ==
  /\ \A n \in DOMAIN names : names[n] \in DOMAIN map
  /\ handles \subseteq DOMAIN map
  /\ load.phase \in {"imports", "funcs", "globals", "tables", "elems", "mems",
                     "exports", "datas", "register"} => load.h \notin DOMAIN map

(* The segment addresses of an instance follow the segments of its module  *)
(* one for one, declarative ones included: the index of a table.init or an *)
(* elem.drop finds the segment validation has typed it with.               *)
SegmentsAligned ==
  \A h \in {g \in DOMAIN map : IsWasm(g)} :
    LET es == map[h].mod.elems
    IN  /\ Len(map[h].elems) = Len(es)
        /\ \A k \in DOMAIN es : elems[map[h].elems[k]].elem = es[k].elem
        /\ Len(map[h].datas) = Len(map[h].mod.datas)

(* Once a module is instantiated its active and its declarative segments   *)
(* are dropped: no table.init or memory.init finds anything in them.       *)
ActiveSegmentsDropped ==
  \A h \in {g \in handles : IsWasm(g)} :
    /\ \A k \in DOMAIN map[h].mod.elems :
         map[h].mod.elems[k].mode # "passive" => elems[map[h].elems[k]].refs = <<>>
    /\ \A k \in DOMAIN map[h].mod.datas :
         map[h].mod.datas[k].mode # "passive" => datas[map[h].datas[k]].len = 0

(* The constant expressions of a validated module find what they name at   *)
(* the phase that evaluates them: no load fails with an internal error.    *)
ConstantsEvaluate ==
  /\ In("globals") => \A k \in DOMAIN M.globals :
                        Evaluates(M.globals[k].init, M.globals[k].type)
  /\ In("tables") => \A k \in DOMAIN M.tables :
                       Evaluates(M.tables[k].init, M.tables[k].elem)
  /\ In("elems") => \A k \in DOMAIN M.elems : \A j \in DOMAIN M.elems[k].items :
                      Evaluates(M.elems[k].items[j], M.elems[k].elem)
  /\ In("init_elems") => \A k \in DOMAIN M.elems :
       M.elems[k].mode = "active" => Evaluates(M.elems[k].offset, "i32")
  /\ In("init_datas") => \A k \in DOMAIN M.datas :
       M.datas[k].mode = "active" => Evaluates(M.datas[k].offset, "i32")

(* get_or_create_host panics with "name exist but doesn't map to a module" *)
(* (instance.rs:117) only when the name leads to no module.                *)
PanicMeansNoModule ==
  In("idle") => \A i \in HostItems : HostPanics(i) => names[i.mod] \notin DOMAIN map

=============================================================================
