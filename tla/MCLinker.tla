------------------------------ MODULE MCLinker ------------------------------
(***************************************************************************)
(* Two sets of modules around an exporter registered as "E".               *)
(*   Segments: an importer with a segment of every mode, writing to the    *)
(*     exported table; its second active segment fits only once the table  *)
(*     has grown.                                                          *)
(*   Limits: an importer that declares a smaller table than the exporter   *)
(*     may grow to, and one that links only once the memory has grown.     *)
(***************************************************************************)
EXTENDS Linker

Empty == [imports |-> <<>>, funcs |-> <<>>, tables |-> <<>>, mems |-> <<>>,
          globals |-> <<>>, elems |-> <<>>, datas |-> <<>>, exports |-> <<>>,
          start |-> NoStart]

I32(v)     == [op |-> "const", val |-> [t |-> "i32", v |-> v]]
RefNull    == [op |-> "const", val |-> Null("funcref")]
ExternNull == [op |-> "const", val |-> Null("externref")]
RefFunc(x) == [op |-> "ref.func", x |-> x]
GlobalGet(x) == [op |-> "global.get", x |-> x]

Tab(min, max) == [kind |-> "table", elem |-> "funcref", min |-> min, max |-> max]
Mem(min, max) == [kind |-> "mem", min |-> min, max |-> max]
Import(name, desc) == [mod |-> "E", name |-> name, desc |-> desc]
Export(name, kind, x) == [name |-> name, kind |-> kind, x |-> x]

Exporter ==
  [Empty EXCEPT
     !.funcs   = <<"[] -> []">>,
     !.tables  = <<[elem |-> "funcref", min |-> 1, max |-> 2, init |-> RefNull]>>,
     !.globals = <<[type |-> "funcref", mut |-> TRUE, init |-> RefFunc(0)]>>,
     !.exports = <<Export("t", "table", 0), Export("g", "global", 0),
                   Export("f", "func", 0)>>]

Segment(mode, offset, items) ==
  [mode |-> mode, table |-> 0, offset |-> offset, elem |-> "funcref", items |-> items]

Importer ==
  [Empty EXCEPT
     !.imports = <<Import("t", Tab(1, 2)), Import("f", [kind |-> "func", type |-> "[] -> []"])>>,
     !.funcs   = <<"[i32] -> []">>,
     !.elems   = <<Segment("active", I32(0), <<RefFunc(1)>>),
                   Segment("declarative", I32(0), <<RefFunc(1)>>),
                   Segment("active", I32(1), <<RefFunc(0)>>),
                   Segment("passive", I32(0), <<RefFunc(1)>>)>>,
     !.exports = <<Export("t", "table", 0)>>,
     !.start   = 0]

ItemsOf(f, t, m, g) == [func |-> f, table |-> t, mem |-> m, global |-> g]

SegmentItems == ItemsOf(3, 1, 0, 1)
(* Not valid: a segment of the wrong type, an offset code could change.    *)
WrongType ==
  [Empty EXCEPT
     !.imports = <<Import("t", Tab(1, 2))>>,
     !.elems   = <<[Segment("active", I32(0), <<>>) EXCEPT
                      !.elem = "externref", !.items = <<ExternNull>>]>>]
WrongOffset ==
  [Empty EXCEPT
     !.imports = <<Import("t", Tab(1, 2)),
                   Import("g", [kind |-> "global", type |-> "funcref", mut |-> TRUE])>>,
     !.elems   = <<Segment("active", GlobalGet(0), <<>>)>>]

(* Its elements would be within the table if the offset were not widened.  *)
NegativeElem ==
  [Empty EXCEPT !.imports = <<Import("t", Tab(1, 2))>>,
                !.elems = <<Segment("active", I32(-1), <<RefNull, RefNull>>)>>]

SegmentModules == {Exporter, Importer, NegativeElem, WrongType, WrongOffset}
HostFunction ==
  {[mod |-> "E", name |-> "f", type |-> [kind |-> "func", type |-> "[] -> []"]]}

Growing ==
  [Exporter EXCEPT
     !.globals = <<>>,
     !.mems    = <<[min |-> 1, max |-> 2]>>,
     !.exports = <<Export("t", "table", 0), Export("m", "mem", 0)>>]

(* Its table import asks for less than the exporter may grow to.           *)
Tight == [Empty EXCEPT !.imports = <<Import("t", Tab(1, 1))>>]

(* Its memory must have grown, and its offset comes from the host.         *)
Grown ==
  [Empty EXCEPT
     !.imports = <<Import("m", Mem(2, NoMax)),
                   [mod |-> "env", name |-> "o",
                    desc |-> [kind |-> "global", type |-> "i32", mut |-> FALSE]]>>,
     !.datas   = <<[mode |-> "passive", len |-> 1],
                   [mode |-> "active", offset |-> GlobalGet(0), len |-> 1]>>]

TooLong ==
  [Empty EXCEPT
     !.mems  = <<[min |-> 1, max |-> 1]>>,
     !.datas = <<[mode |-> "active", offset |-> I32(1), len |-> 1]>>]

(* Its bytes would be within the memory if the offset were not widened.    *)
Negative == [TooLong EXCEPT !.datas[1].offset = I32(-1)]

LimitItems == ItemsOf(1, 2, 2, 1)
(* Not valid: a second memory.                                             *)
TwoMemories ==
  [TooLong EXCEPT !.imports = <<Import("m", Mem(1, 2))>>]

LimitModules == {Growing, Tight, Grown, TooLong, Negative, TwoMemories}
HostLimits ==
  {[mod |-> "env", name |-> "o",
    type |-> [kind |-> "global", type |-> "i32", mut |-> FALSE]],
   [mod |-> "E", name |-> "t", type |-> Tab(1, 1)],
   [mod |-> "E", name |-> "m", type |-> Mem(1, 2)]}

=============================================================================
