------------------------------ MODULE Entries -------------------------------
(***************************************************************************)
(* What follows what in the binary format, as the from_reader functions of *)
(* binary/ and decode_instruction read it: a grammar whose symbols are the *)
(* things one read call asks for.                                          *)
(*                                                                         *)
(* A symbol is a tuple: <<name>>; <<"vec", x>>, a count and then as many   *)
(* x; or <<"elems", x, n>>, the n elements of x that are left of one.      *)
(***************************************************************************)
EXTENDS Leb128

S(x)        == <<x>>
Vec(x)      == <<"vec", x>>
Elems(x, n) == <<"elems", x, n>>

RefTypes == {\h70, \h6f}
ValTypes == {\h7f, \h7e, \h7d, \h7c, \h7b} \cup RefTypes

TablePrefix == \h40

EmptyBlock == \h40
Block == \h02
Loop  == \h03
If    == \h04
Else  == \h05
End   == \h0b
Bulk  == \hfc

-----------------------------------------------------------------------------
(* The entries of the sections, and the parts entries have in common.      *)

EntryKinds ==
  {"type", "import", "function", "table", "memory", "global", "export",
   "element", "code", "data"}

FuncType    == <<S("functype"), Vec("valtype"), Vec("valtype")>>
ImportEntry == <<S("name"), S("name"), S("importkind")>>
TypeIdx     == <<S("u32")>>
TableType   == <<S("reftype"), S("limit")>>
MemType     == <<S("limit")>>
GlobalType  == <<S("valtype"), S("mutability")>>
GlobalEntry == <<S("globaltype"), S("expr")>>
ExportEntry == <<S("name"), S("exportkind"), S("u32")>>
FuncLocal   == <<S("localcount"), S("valtype")>>

Parts ==
  [type       |-> FuncType,
   import     |-> ImportEntry,
   function   |-> TypeIdx,
   table      |-> <<S("tableprefix")>>,
   memory     |-> MemType,
   global     |-> GlobalEntry,
   export     |-> ExportEntry,
   element    |-> <<S("elementflag")>>,
   code       |-> <<S("codesize")>>,
   data       |-> <<S("dataflag")>>,
   tabletype  |-> TableType,
   globaltype |-> GlobalType,
   local      |-> FuncLocal]

(* What decode_bytes reads of a section: a vector of entries, which must   *)
(* fill it, or the one value the three other sections hold.                *)
SectionBody(kind) ==
  CASE kind \in EntryKinds             -> <<Vec(kind), S("close")>>
    [] kind \in {"start", "datacount"} -> <<S("u32")>>
    [] kind = "custom"                 -> <<S("name")>>
    [] OTHER                           -> <<S(kind)>>

(* A type prefix 0x40 00 announces a table with an initialiser; any other  *)
(* byte is peeked at and is the reference type itself.                     *)
AfterTablePrefix(b) ==
  IF b = TablePrefix THEN <<S("zero"), S("tabletype"), S("expr")>> ELSE <<S("limit")>>

AfterImportKind(b) ==
  CASE b = 0 -> <<S("u32")>>
    [] b = 1 -> <<S("tabletype")>>
    [] b = 2 -> <<S("limit")>>
    [] b = 3 -> <<S("globaltype")>>

AfterLimitFlag(b) == IF b = 0 THEN <<S("u32")>> ELSE <<S("u32"), S("u32")>>

Bit(flag, k) == (flag \div 2^k) % 2 = 1

(* Fault: flag 4 names a reference type, like the other flags with bit 2.  *)
NamesTypeUnlessZero(flag) == flag # 0

(* The two flags of the original format leave the type of the elements out. *)
NamesType(flag) == flag \notin {0, 4}

ElementType(flag) ==
  IF Bit(flag, 2) THEN S("reftype") ELSE S("elementkind")

(* Bit 0: not active; bit 1: for an active segment, an explicit table      *)
(* index; bit 2: expressions, not function indices.                        *)
AfterElementFlag(flag) ==
  (IF Bit(flag, 0) THEN <<>>
   ELSE (IF Bit(flag, 1) THEN <<S("u32")>> ELSE <<>>) \o <<S("expr")>>)
  \o (IF NamesType(flag) THEN <<ElementType(flag)>> ELSE <<>>)
  \o <<IF Bit(flag, 2) THEN Vec("expr") ELSE Vec("u32")>>

AfterDataFlag(flag) ==
  (CASE flag = 0 -> <<S("expr")>>
     [] flag = 1 -> <<>>
     [] flag = 2 -> <<S("u32"), S("expr")>>)
  \o <<Vec("byte")>>

-----------------------------------------------------------------------------
(* The arguments of the instructions.                                      *)

MemArg == <<S("align"), S("u32")>>

BulkArguments(code) ==
  CASE code = 8                     -> <<S("u32"), S("memidx")>>
    [] code = 10                    -> <<S("memidx"), S("memidx")>>
    [] code = 11                    -> <<S("memidx")>>
    [] code \in {12, 14}            -> <<S("u32"), S("u32")>>
    [] code \in {9, 13, 15, 16, 17} -> <<S("u32")>>
    [] OTHER                        -> <<>>

BulkCodes == 0 .. 17

ArgumentsOf(opcode) ==
  CASE opcode \in {Block, Loop, If}          -> <<S("blocktype")>>
    [] opcode \in {\h0c, \h0d, \h10, \hd2} \cup \h20 .. \h26
                                             -> <<S("u32")>>
    [] opcode = \h0e                         -> <<Vec("u32"), S("u32")>>
    [] opcode = \h11                         -> <<S("u32"), S("u32")>>
    [] opcode = \h1c                         -> <<Vec("valtype")>>
    [] opcode \in \h28 .. \h3e               -> MemArg
    [] opcode \in {\h3f, \h40}               -> <<S("memidx")>>
    [] opcode = \h41                         -> <<S("i32")>>
    [] opcode = \h42                         -> <<S("i64")>>
    [] opcode = \h43                         -> <<Elems("byte", 4)>>
    [] opcode = \h44                         -> <<Elems("byte", 8)>>
    [] opcode = \hd0                         -> <<S("reftype")>>
    [] opcode = Bulk                         -> <<S("bulkcode")>>
    [] OTHER                                 -> <<>>

Opcodes ==
  {\h00, \h01, Block, Loop, If, Else, End, \h0c, \h0d, \h0e, \h0f, \h10, \h11,
   \h1a, \h1b, \h1c, \hd0, \hd1, \hd2, Bulk}
  \cup \h20 .. \h26 \cup \h28 .. \hc4

(* A constant expression ends at its first end.                            *)
AfterConstant(opcode) ==
  ArgumentsOf(opcode) \o (IF opcode = End THEN <<>> ELSE <<S("expr")>>)

CodeBody == <<Vec("local"), S("localslimit"), S("body"), S("close")>>

-----------------------------------------------------------------------------
(* The symbols that are one byte and the symbols that are one number, with *)
(* the values from_reader accepts for them and what it reads next.         *)

NumberType(x) ==
  CASE x \in {"u32", "vec", "name", "elementflag", "dataflag", "codesize",
              "localcount", "align", "bulkcode"} -> "u32"
    [] x \in {"i64", "blocktype"}                -> "i64"
    [] x = "i32"                                 -> "i32"
    [] x = "u64"                                 -> "u64"

NumberSymbols ==
  {"u32", "vec", "name", "elementflag", "dataflag", "codesize", "localcount",
   "align", "bulkcode", "i64", "blocktype", "i32", "u64"}

ByteSymbols ==
  {"functype", "valtype", "reftype", "tableprefix", "zero", "limit",
   "importkind", "exportkind", "mutability", "elementkind", "memidx", "byte",
   "char", "expr", "body"}

FuncTypeMarker    == \h60
ElementKindMarker == 0
MemIndex          == 0     \* the one memory
MutabilityFlag    == {0, 1}
LimitFlag         == {0, 1}
ImportDescType    == 0 .. 3
ExportKind        == 0 .. 3
ElementFlags      == 0 .. 7
DataFlags         == 0 .. 2
Aligns            == 0 .. 31

(* Names are UTF-8; of that, only the characters of one byte.              *)
Ascii == 0 .. \h7f

(* An index into the types, written as a signed number.                    *)
TypeIndices == 0 .. 2^Bits32 - 1

Valid(x, v) ==
  CASE x = "functype"          -> v = FuncTypeMarker
    [] x = "valtype"           -> v \in ValTypes
    [] x = "reftype"           -> v \in RefTypes
    [] x = "tableprefix"       -> v \in {TablePrefix} \cup RefTypes
    [] x = "zero"              -> v = 0
    [] x = "elementkind"       -> v = ElementKindMarker
    [] x = "memidx"            -> v = MemIndex
    [] x = "limit"             -> v \in LimitFlag
    [] x = "mutability"        -> v \in MutabilityFlag
    [] x = "importkind"        -> v \in ImportDescType
    [] x = "exportkind"        -> v \in ExportKind
    [] x = "char"              -> v \in Ascii
    [] x \in {"expr", "body"}  -> v \in Opcodes
    [] x = "blocktype"         -> v \in TypeIndices
    [] x = "elementflag"       -> v \in ElementFlags
    [] x = "dataflag"          -> v \in DataFlags
    [] x = "align"             -> v \in Aligns
    [] x = "bulkcode"          -> v \in BulkCodes
    [] OTHER                   -> TRUE

(* What is read after value v of symbol x.                                 *)
After(x, v) ==
  CASE x[1] = "vec"         -> <<Elems(x[2], v)>>
    [] x[1] = "name"        -> <<Elems("char", v)>>
    [] x[1] = "codesize"    -> CodeBody
    [] x[1] = "tableprefix" -> AfterTablePrefix(v)
    [] x[1] = "importkind"  -> AfterImportKind(v)
    [] x[1] = "limit"       -> AfterLimitFlag(v)
    [] x[1] = "elementflag" -> AfterElementFlag(v)
    [] x[1] = "dataflag"    -> AfterDataFlag(v)
    [] x[1] = "bulkcode"    -> BulkArguments(v)
    [] x[1] = "expr"        -> AfterConstant(v)
    [] OTHER                -> <<>>

=============================================================================
