------------------------------ MODULE Decoder -------------------------------
(***************************************************************************)
(* Decoding one section of a binary: decode_section, the from_reader       *)
(* functions it calls and the Reader they share.  A byte is chosen when it *)
(* is read.                                                                *)
(*                                                                         *)
(* The calls that are under way are the symbols still to be read: a call   *)
(* replaces its symbol by the symbols of what it reads in turn.            *)
(***************************************************************************)
EXTENDS Entries, SequencesExt, FiniteSets

CONSTANTS
  Inputs,      \* bound: what is decoded, see Input
  MaxLocals    \* MAX_WASM_FUNCTION_LOCALS

VARIABLES
  section,   \* the section
  data,      \* the bytes read so far
  readers,   \* the Readers in use, the innermost last: position and end
  todo,      \* the symbols still to be read
  number,    \* the LEB128 number under way: x and i of its loop
  frames,    \* the control frames open in a function body
  entry,     \* what has been read of the entry under way
  outcome    \* "reading", or what decoding has come to

vars == <<section, data, readers, todo, number, frames, entry, outcome>>

Bytes == 0 .. 255

Kinds == EntryKinds \cup {"start", "datacount", "custom", "u64", "i32", "i64", "expr"}

(* The kind of a section, or a value that Reader::read reads alone, and    *)
(* for each of its bytes the values the byte may have.                     *)
Input == [kind : Kinds, bytes : Seq(SUBSET Bytes)]

ASSUME InputAssumption == \A i \in Inputs : i \in Input
ASSUME LimitAssumption == MaxLocals \in 0 .. 2^Bits32 - 1

Outcomes ==
  {"reading", "decoded", "OutOfRange", "MissingEnd", "TooManyBytes",
   "ValueOverflow", "Invalid", "TooManyLocals", "SizeMismatch"}

Top  == readers[Len(readers)]
Room == Top.end - Top.pos

Symbol == todo[1][1]
Rest   == Tail(todo)

NoNumber == [x |-> 0, i |-> 0]

Reading(symbols) == outcome = "reading" /\ todo # <<>> /\ Symbol \in symbols

Refuse(e) ==
  outcome' = e /\ UNCHANGED <<section, todo, number, frames, entry>>

-----------------------------------------------------------------------------
(* The Reader.                                                             *)

Advanced == [readers EXCEPT ![Len(readers)].pos = @ + 1]

(* A reader for the next size bytes, past which the outer one is moved.    *)
Scoped(rs, size) ==
  LET pos == rs[Len(rs)].pos
  IN  Append([rs EXCEPT ![Len(rs)].pos = pos + size],
             [pos |-> pos, end |-> pos + size])

(* Fault: decode_section does not look whether anything is left.           *)
ExhaustedAlways == TRUE

(* is_exhausted.                                                           *)
Exhausted == Room = 0

(* Fault: the size may reach past the end of the range.                    *)
EnsuredNever(x, v, room) == TRUE

(* A name and a function's code must lie within what is left to read.      *)
Ensured(x, v, room) == x \in {"name", "codesize"} => v \in 0 .. room

-----------------------------------------------------------------------------
(* A value has been read: what from_reader makes of it.                    *)

FramesAfter(opcode) ==
  CASE opcode = Block -> Append(frames, "block")
    [] opcode = Loop  -> Append(frames, "loop")
    [] opcode = If    -> Append(frames, "if")
    [] opcode = Else  -> [frames EXCEPT ![Len(frames)] = "else"]
    [] opcode = End   -> Front(frames)
    [] OTHER          -> frames

MisplacedElse(opcode) ==
  Symbol = "body" /\ opcode = Else /\ frames[Len(frames)] # "if"

AfterBody(opcode) ==
  ArgumentsOf(opcode)
  \o (IF FramesAfter(opcode) = <<>> THEN <<>> ELSE <<S("body")>>)

(* The empty block and the value types are peeked at before a number is    *)
(* read; their bytes are those of the negative numbers -64 .. -1.          *)
ShortBlockType(b) ==
  Symbol = "blocktype" /\ number.i = 0 /\ b \in {EmptyBlock} \cup ValTypes

Accepted(v) == Valid(Symbol, v) \/ ShortBlockType(v + \h80)

(* v is the value of Symbol, b its last byte.                              *)
Receive(v, b) ==
  LET field == [symbol |-> Symbol, value |-> v,
                from |-> Len(data) - number.i, to |-> Len(data) + 1]
  IN  /\ data' = Append(data, b)
      /\ \/ /\ ~Accepted(v) \/ MisplacedElse(v)
            /\ readers' = Advanced
            /\ Refuse("Invalid")
         \/ /\ Accepted(v) /\ ~Ensured(Symbol, v, Room - 1)
            /\ readers' = Advanced
            /\ Refuse("OutOfRange")
         \/ /\ Accepted(v) /\ ~MisplacedElse(v) /\ Ensured(Symbol, v, Room - 1)
            /\ entry' = Append(entry, field)
            /\ number' = NoNumber
            /\ readers' = IF Symbol = "codesize" THEN Scoped(Advanced, v) ELSE Advanced
            /\ frames' = CASE Symbol = "codesize" -> <<"function">>
                           [] Symbol = "body"     -> FramesAfter(v)
                           [] OTHER               -> frames
            /\ todo' = (IF Symbol = "body" THEN AfterBody(v) ELSE After(todo[1], v)) \o Rest
            /\ UNCHANGED <<section, outcome>>

ReadByte(b) == Reading(ByteSymbols) /\ Room > 0 /\ Receive(b, b)

ReadShortBlockType(b) ==
  /\ Reading({"blocktype"}) /\ Room > 0
  /\ ShortBlockType(b)
  /\ Receive(b - \h80, b)

ReadDigit(b) ==
  /\ Reading(NumberSymbols) /\ Room > 0 /\ ~ShortBlockType(b)
  /\ number.i < MaxBytes(NumberType(Symbol))
  /\ Continues(b)
  /\ number' = [x |-> Accumulate(NumberType(Symbol), number.x, number.i, b),
                i |-> number.i + 1]
  /\ data' = Append(data, b)
  /\ readers' = Advanced
  /\ UNCHANGED <<section, todo, frames, entry, outcome>>

ReadLastDigit(b) ==
  LET t == NumberType(Symbol)
  IN  /\ Reading(NumberSymbols) /\ Room > 0 /\ ~ShortBlockType(b)
      /\ number.i < MaxBytes(t)
      /\ ~Continues(b)
      /\ \/ /\ Overflows(t, number.i, b)
            /\ data' = Append(data, b)
            /\ readers' = Advanced
            /\ Refuse("ValueOverflow")
         \/ /\ ~Overflows(t, number.i, b)
            /\ Receive(Finished(t, number.x, number.i, b), b)

TooManyBytes(b) ==
  /\ Reading(NumberSymbols) /\ Room > 0
  /\ number.i = MaxBytes(NumberType(Symbol))
  /\ data' = Append(data, b)
  /\ readers' = Advanced
  /\ Refuse("TooManyBytes")

(* An expression asks whether there is more before every instruction; all  *)
(* others find out when the byte is not there.                             *)
ReadPastEnd ==
  /\ Reading(ByteSymbols \cup NumberSymbols) /\ Room = 0
  /\ Refuse(IF Symbol \in {"expr", "body"} THEN "MissingEnd" ELSE "OutOfRange")
  /\ UNCHANGED <<data, readers>>

-----------------------------------------------------------------------------
(* The calls that read no byte themselves.                                 *)

Descend ==
  /\ Reading(DOMAIN Parts)
  /\ todo' = Parts[Symbol] \o Rest
  /\ UNCHANGED <<section, data, readers, number, frames, entry, outcome>>

NextElement ==
  /\ Reading({"elems"})
  /\ LET x == todo[1][2]
         n == todo[1][3]
     IN  /\ todo' = IF n = 0 THEN Rest ELSE <<S(x), Elems(x, n - 1)>> \o Rest
         /\ entry' = IF x \in EntryKinds THEN <<>> ELSE entry
  /\ UNCHANGED <<section, data, readers, number, frames, outcome>>

LocalsDeclared ==
  SumOf([k \in DOMAIN entry |->
           IF entry[k].symbol = "localcount" THEN entry[k].value ELSE 0])

(* Fault: the sum of the counts wraps around.                              *)
TooManyLocalsWrapped == LocalsDeclared % 2^Bits32 > MaxLocals

(* checked_add: a sum past u32 is too many as well.                        *)
TooManyLocals == LocalsDeclared > MaxLocals

CheckLocals ==
  /\ Reading({"localslimit"})
  /\ \/ TooManyLocals /\ Refuse("TooManyLocals")
     \/ /\ ~TooManyLocals
        /\ todo' = Rest
        /\ UNCHANGED <<section, number, frames, entry, outcome>>
  /\ UNCHANGED <<data, readers>>

Close ==
  /\ Reading({"close"})
  /\ \/ ~Exhausted /\ UNCHANGED readers /\ Refuse("SizeMismatch")
     \/ /\ Exhausted
        /\ readers' = Front(readers)
        /\ todo' = Rest
        /\ UNCHANGED <<section, number, frames, entry, outcome>>
  /\ UNCHANGED data

Finish ==
  /\ outcome = "reading" /\ todo = <<>>
  /\ outcome' = "decoded"
  /\ UNCHANGED <<section, data, readers, todo, number, frames, entry>>

-----------------------------------------------------------------------------

(* decode_bytes makes a reader for the section, from which decode_section  *)
(* takes one of the section's whole size.                                  *)
Init ==
  /\ section \in Inputs
  /\ data = <<>>
  /\ readers = LET size  == Len(section.bytes)
                   whole == <<[pos |-> 0, end |-> size]>>
               IN  IF section.kind \in EntryKinds THEN Scoped(whole, size) ELSE whole
  /\ todo = SectionBody(section.kind)
  /\ number = NoNumber
  /\ frames = <<>>
  /\ entry = <<>>
  /\ outcome = "reading"

Read(b) ==
  ReadByte(b) \/ ReadShortBlockType(b) \/ ReadDigit(b) \/ ReadLastDigit(b) \/ TooManyBytes(b)

Next ==
  \/ Len(data) < Len(section.bytes) /\ \E b \in section.bytes[Len(data) + 1] : Read(b)
  \/ ReadPastEnd \/ Descend \/ NextElement \/ CheckLocals \/ Close \/ Finish

Spec == Init /\ [][Next]_vars

-----------------------------------------------------------------------------
(* Properties.                                                             *)

Symbols == ByteSymbols \cup NumberSymbols

Fields == [symbol : Symbols, value : Int, from : Nat, to : Nat]

(* Type invariant: the readers' positions, the symbols to come, the number *)
(* under way, the open frames and what has been read of the entry.         *)
TypeOK ==
  /\ section \in Inputs
  /\ data \in Seq(Bytes)
  /\ readers \in Seq([pos : Nat, end : Nat])
  /\ \A k \in DOMAIN todo :
       \/ todo[k] \in {<<x>> : x \in Symbols \cup DOMAIN Parts
                                     \cup {"close", "localslimit"}}
       \/ todo[k][1] = "vec" /\ Len(todo[k]) = 2
       \/ todo[k][1] = "elems" /\ todo[k][3] \in Nat
  /\ number \in [x : Nat, i : Nat]
  /\ frames \in Seq({"function", "block", "loop", "if", "else"})
  /\ entry \in Seq(Fields)
  /\ outcome \in Outcomes

(* Reader::read and Reader::peek subtract the position from the end of the *)
(* range, in u64: whatever sizes a section declares, the position of every *)
(* reader stays within its range, and a scoped reader covers exactly what  *)
(* the one outside of it has skipped, so no byte is read twice or by none. *)
ReadersNested ==
  /\ \A k \in DOMAIN readers : readers[k].pos \in 0 .. readers[k].end
  /\ \A k \in DOMAIN readers \ {1} : readers[k].end = readers[k - 1].pos
  /\ readers # <<>> /\ Len(data) = Top.pos

(* leb128.rs: a number that is read is the one its bytes encode, and the   *)
(* bytes encode it within the width of its type, sign and last byte        *)
(* included; what is refused, as too long or too large, encodes no number  *)
(* of the type.                                                            *)
NumbersExact ==
  /\ \A k \in DOMAIN entry :
       LET f     == entry[k]
           bytes == SubSeq(data, f.from + 1, f.to)
           t     == NumberType(f.symbol)
       IN  f.symbol \in NumberSymbols => Encodes(t, bytes) /\ f.value = Value(t, bytes)
  /\ outcome \in {"TooManyBytes", "ValueOverflow"} =>
       ~Encodes(NumberType(Symbol), SubSeq(data, Len(data) - number.i, Len(data)))

(* The forms of an element and of a data segment, flag by flag, as the     *)
(* standard lists them.                                                    *)
ElementForm ==
  [flag \in 0 .. 7 |->
     CASE flag = 0 -> <<S("expr"), Vec("u32")>>
       [] flag = 1 -> <<S("elementkind"), Vec("u32")>>
       [] flag = 2 -> <<S("u32"), S("expr"), S("elementkind"), Vec("u32")>>
       [] flag = 3 -> <<S("elementkind"), Vec("u32")>>
       [] flag = 4 -> <<S("expr"), Vec("expr")>>
       [] flag = 5 -> <<S("reftype"), Vec("expr")>>
       [] flag = 6 -> <<S("u32"), S("expr"), S("reftype"), Vec("expr")>>
       [] flag = 7 -> <<S("reftype"), Vec("expr")>>]

DataForm ==
  [flag \in 0 .. 2 |->
     CASE flag = 0 -> <<S("expr"), Vec("byte")>>
       [] flag = 1 -> <<Vec("byte")>>
       [] flag = 2 -> <<S("u32"), S("expr"), Vec("byte")>>]

(* element.rs, data.rs: the bits of a segment's flag select the parts of   *)
(* the form that has the flag, in its order, and of no other.              *)
SegmentForms ==
  Len(entry) = 1 =>
    LET form == SubSeq(todo, 1, Len(todo) - 2)
        flag == entry[1].value
    IN  /\ entry[1].symbol = "elementflag" => form = ElementForm[flag]
        /\ entry[1].symbol = "dataflag" => form = DataForm[flag]

IsOpcode(ops, f) == f.symbol = "body" /\ f.value \in ops

Count(ops) == Cardinality({k \in DOMAIN entry : IsOpcode(ops, entry[k])})

(* code.rs: a function whose decoding is over took exactly the size it     *)
(* declares, its last instruction closes its outermost block and no        *)
(* earlier one does, and its locals, all groups together, are within the   *)
(* limit.                                                                  *)
CodeEntriesExact ==
  (entry # <<>> /\ entry[1].symbol = "codesize" /\ Len(todo) = 2) =>
    /\ entry[1].value = Len(data) - entry[1].to
    /\ IsOpcode({End}, entry[Len(entry)])
    /\ Count({End}) = Count({Block, Loop, If}) + 1
    /\ LocalsDeclared <= MaxLocals

=============================================================================
