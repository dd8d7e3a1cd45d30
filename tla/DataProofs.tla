----------------------------- MODULE DataProofs -----------------------------
(***************************************************************************)
(* Memories and tables, the data that instructions index.                  *)
(*                                                                         *)
(* For all integer widths, page sizes, limits and segments that satisfy    *)
(* IntAssumption and WidthAssumption, the real ones among them: a memory   *)
(* keeps its type, an instruction that completes touches nothing outside   *)
(* it, one that traps has named a byte outside it unless an operand was    *)
(* widened with its sign, and bulk instructions act on all their bytes at  *)
(* once.                                                                   *)
(*                                                                         *)
(* For all integer widths, table limits, tables and segments that satisfy  *)
(* IntAssumption and TableAssumption: tables keep their type and their     *)
(* limits, an instruction names only elements that are there if and, while *)
(* no table is declared with 2^31 elements, only if it does not trap, and  *)
(* bulk instructions act at once.                                          *)
(*                                                                         *)
(* TypeOK and TablesTypeOK are inductive.  What the others rest on is what *)
(* they say of lengths: that no memory is longer than what a u32 addresses *)
(* and no table than a u32, so that a sum either wraps in neither width or *)
(* is out of bounds however it is computed, and that no table has grown    *)
(* past an i32.                                                            *)
(***************************************************************************)
EXTENDS LinearMemory, Tables, TLAPS

USE DEF Word

-----------------------------------------------------------------------------
(* Integers.                                                               *)

(* A number of pages that is allowed is a number of bytes a u32 addresses. *)
LEMMA PagesFit ==
  ASSUME NEW p \in 0 .. MaxPages
  PROVE  p * PageSize \in 0 .. Word
<1> USE IntAssumption, WidthAssumption
<1>1. p * PageSize <= MaxPages * PageSize
  <2> DEFINE q == MaxPages - p
  <2>1. q \in Nat /\ MaxPages = p + q
    OBVIOUS
  <2>2. MaxPages * PageSize = p * PageSize + q * PageSize
    BY <2>1
  <2>3. q * PageSize \in Nat /\ p * PageSize \in Nat
    BY <2>1
  <2> QED
    BY <2>2, <2>3
<1>2. MaxPages * PageSize = Word
  OBVIOUS
<1>3. p * PageSize \in Nat
  OBVIOUS
<1> QED
  BY <1>1, <1>2, <1>3

(* The length of a memory, and of its data segment.                        *)
LEMMA LengthTyped ==
  ASSUME TypeOK
  PROVE  len \in 0 .. Word
<1>1. PICK p \in 0 .. MaxPages : len = p * PageSize
  BY DEF TypeOK
<1> QED
  BY <1>1, PagesFit

LEMMA SegmentTyped ==
  ASSUME TypeOK
  PROVE  /\ SegLen \in 0 .. SegmentLen
         /\ \A k \in 0 .. SegLen - 1 : k \in DOMAIN Segment /\ Segment[k] \in Bytes
<1> DEFINE n == CHOOSE m \in 0 .. SegmentLen : DOMAIN Segment = 0 .. m - 1
<1>1. PICK m \in 0 .. SegmentLen : Segment \in [0 .. m - 1 -> Bytes]
  BY BytesAssumption
<1>2. n \in 0 .. SegmentLen /\ DOMAIN Segment = 0 .. n - 1
  BY <1>1
<1>3. \A k \in DOMAIN Segment : Segment[k] \in Bytes
  BY <1>1
<1>4. 0 \in 0 .. SegmentLen
  BY IntAssumption, WidthAssumption DEF SegmentLen
<1>5. dropped \in BOOLEAN
  BY DEF TypeOK
<1>6. SegLen = IF dropped THEN 0 ELSE n
  BY DEF SegLen
<1> HIDE DEF n
<1>7. CASE dropped
  BY <1>4, <1>6, <1>7
<1>8. CASE ~dropped
  BY <1>2, <1>3, <1>6, <1>8
<1> QED
  BY <1>5, <1>7, <1>8

(* as u32, as usize: what they do to the numbers an i32 can be.            *)
LEMMA Casts ==
  ASSUME NEW x \in I32
  PROVE  /\ AsU32(x) \in U32
         /\ AsUsize(x) \in Nat
         /\ x >= 0 => AsU32(x) = x /\ AsUsize(x) = x
         /\ x < 0 => AsU32(x) >= Half /\ AsUsize(x) > 3 * Word
  BY IntAssumption, WidthAssumption DEF I32, U32, AsU32, AsUsize

(* A range that passes the test of slice is inside the memory.             *)
LEMMA SliceInside ==
  ASSUME TypeOK, NEW base \in I32, NEW offset \in U32, NEW n \in Nat,
         SliceFits(base, offset, n)
  PROVE  /\ AsU32(base) + offset \in Nat
         /\ AsU32(base) + offset + n <= len
  BY Casts DEF SliceFits, U32

(* The converse: the test fails for no other reason than the bounds.  An   *)
(* empty range may not start past what a u32 addresses.                    *)
LEMMA InsideSlice ==
  ASSUME TypeOK, NEW base \in I32, NEW offset \in U32, NEW n \in 0 .. Word,
         AsU32(base) + offset + n <= len,
         AsU32(base) + offset < Word
  PROVE  SliceFits(base, offset, n)
  BY Casts, LengthTyped, IntAssumption, WidthAssumption DEF SliceFits, U32

LEMMA InitInside ==
  ASSUME TypeOK, NEW dst \in Nat, NEW src \in Nat, NEW n \in Nat
  PROVE  InitFits(dst, src, n) <=> (dst + n <= len /\ src + n <= SegLen)
  BY LengthTyped, SegmentTyped, IntAssumption, WidthAssumption DEF InitFits, SegmentLen

-----------------------------------------------------------------------------
(* Operands.                                                               *)

LEMMA AccessOperands ==
  ASSUME TypeOK, req.op \in {"load", "store"}
  PROVE  /\ req.base \in I32 /\ req.offset \in U32 /\ req.n \in 1 .. Half
         /\ req.op = "store" => req.byte \in Bytes
<1>1. /\ req.base \in I32 /\ req.offset \in U32 /\ req.n \in Widths
      /\ req.op = "store" => req.byte \in Bytes
  BY DEF TypeOK, Requests, None
<1>2. Widths \subseteq 1 .. Half
  BY IntAssumption, WidthAssumption
<1> QED
  BY <1>1, <1>2

LEMMA FillOperands ==
  ASSUME TypeOK, req.op = "fill"
  PROVE  req.dst \in I32 /\ req.n \in I32 /\ req.byte \in Bytes
  BY DEF TypeOK, Requests, None

LEMMA CopyOperands ==
  ASSUME TypeOK, req.op \in {"copy", "init"}
  PROVE  req.dst \in I32 /\ req.src \in I32 /\ req.n \in I32
  BY DEF TypeOK, Requests, None

(* The number of pages, as it is pushed, and -1.                           *)
LEMMA SizeTyped ==
  ASSUME TypeOK
  PROVE  Size \in 0 .. MaxPages /\ AsI32(Size) = Size /\ Size \in I32 /\ -1 \in I32
<1>1. PICK p \in 0 .. MaxPages : len = p * PageSize
  BY DEF TypeOK
<1>2. Size = p
  BY <1>1, WidthAssumption DEF Size
<1> QED
  BY <1>2, IntAssumption, WidthAssumption DEF AsI32, I32

LEMMA GrowOperand ==
  ASSUME TypeOK, req.op = "grow"
  PROVE  req.n \in I32
  BY DEF TypeOK, Requests, None

-----------------------------------------------------------------------------
(* The type invariant.                                                     *)

(* Writing bytes keeps a memory a function from its addresses to bytes.    *)
LEMMA WrittenTyped ==
  ASSUME TypeOK, NEW dst \in Nat, NEW new, \A k \in DOMAIN new : new[k] \in Bytes
  PROVE  Written(dst, new) \in [0 .. len - 1 -> Bytes]
  BY DEF TypeOK, Written

(* An instruction that ends, and changes no more than the bytes.           *)
LEMMA EndKeeps ==
  ASSUME TypeOK, data' \in [0 .. len - 1 -> Bytes],
         UNCHANGED <<max, len, dropped>>,
         req' = None, outcome' \in {"done", "trap"},
         pushed' \in {<<>>} \cup {<<v>> : v \in I32}
  PROVE  TypeOK'
  BY DEF TypeOK

LEMMA PopStep ==
  ASSUME TypeOK, Pop
  PROVE  TypeOK'
  BY DEF Pop, TypeOK

LEMMA LoadStep ==
  ASSUME TypeOK, Load
  PROVE  TypeOK'
  BY DEF Load, Done, TypeOK

LEMMA TrapStep ==
  ASSUME TypeOK, Trap
  PROVE  TypeOK'
  BY DEF Trap, TypeOK

LEMMA DropStep ==
  ASSUME TypeOK, DataDrop
  PROVE  TypeOK'
  BY DEF DataDrop, Done, TypeOK

LEMMA StoreStep ==
  ASSUME TypeOK, Store
  PROVE  TypeOK'
<1>1. /\ req.base \in I32 /\ req.offset \in U32 /\ req.n \in Nat
      /\ req.byte \in Bytes
  BY AccessOperands DEF Store
<1>2. AsU32(req.base) + req.offset \in Nat
  BY <1>1, SliceInside DEF Store
<1>3. \A k \in DOMAIN Repeat(req.byte, req.n) : Repeat(req.byte, req.n)[k] \in Bytes
  BY <1>1 DEF Repeat
<1>4. data' \in [0 .. len - 1 -> Bytes]
  BY <1>2, <1>3, WrittenTyped DEF Store
<1> QED
  BY <1>4, EndKeeps DEF Store, Done

LEMMA FillStep ==
  ASSUME TypeOK, Fill
  PROVE  TypeOK'
<1> DEFINE n == AsUsize(req.n)
<1>1. req.dst \in I32 /\ req.n \in I32 /\ req.byte \in Bytes
  BY FillOperands DEF Fill
<1>2. AsU32(req.dst) \in Nat
  BY <1>1, Casts DEF U32
<1>3. \A k \in DOMAIN Repeat(req.byte, n) : Repeat(req.byte, n)[k] \in Bytes
  BY <1>1 DEF Repeat
<1>4. data' \in [0 .. len - 1 -> Bytes]
  BY <1>2, <1>3, WrittenTyped DEF Fill
<1> QED
  BY <1>4, EndKeeps DEF Fill, Done

(* What a copy reads is inside the memory.                                 *)
LEMMA CopyReads ==
  ASSUME TypeOK, Copy
  PROVE  LET s == AsU32(req.src)
             n == AsUsize(req.n)
         IN  /\ s \in Nat /\ n \in Nat /\ s + n <= len
             /\ AsU32(req.dst) \in Nat /\ AsU32(req.dst) + n <= len
             /\ req.n >= 0
<1>1. req.dst \in I32 /\ req.src \in I32 /\ req.n \in I32
  BY CopyOperands DEF Copy
<1>2. AsUsize(req.n) \in Nat /\ 0 \in U32
  BY <1>1, Casts, IntAssumption, WidthAssumption DEF U32
<1>3. AsU32(req.src) \in Nat /\ AsU32(req.dst) \in Nat
  BY <1>1, Casts DEF U32
<1>4. AsU32(req.src) + AsUsize(req.n) <= len
  BY <1>1, <1>2, <1>3, SliceInside DEF Copy
<1>5. AsU32(req.dst) + AsUsize(req.n) <= len
  BY <1>1, <1>2, <1>3, SliceInside DEF Copy
<1>6. req.n >= 0
  BY <1>1, <1>3, <1>4, Casts, LengthTyped, IntAssumption, WidthAssumption DEF I32
<1> QED
  BY <1>2, <1>3, <1>4, <1>5, <1>6

LEMMA CopyStep ==
  ASSUME TypeOK, Copy
  PROVE  TypeOK'
<1> DEFINE new == Cut(data, AsU32(req.src), AsUsize(req.n))
<1>1. \A k \in DOMAIN new : new[k] \in Bytes
  BY CopyReads, LengthTyped DEF Cut, TypeOK
<1>2. data' \in [0 .. len - 1 -> Bytes]
  BY <1>1, CopyReads, WrittenTyped DEF Copy
<1> QED
  BY <1>2, EndKeeps DEF Copy, Done

(* What memory.init reads is inside the segment.                           *)
LEMMA InitReads ==
  ASSUME TypeOK, InitMemory
  PROVE  LET s == AsUsize(req.src)
             d == AsUsize(req.dst)
             n == AsUsize(req.n)
         IN  /\ s \in Nat /\ n \in Nat /\ d \in Nat
             /\ s + n <= SegLen /\ d + n <= len
             /\ req.n >= 0 /\ req.src >= 0 /\ req.dst >= 0
<1>1. req.dst \in I32 /\ req.src \in I32 /\ req.n \in I32
  BY CopyOperands DEF InitMemory
<1>2. AsUsize(req.src) \in Nat /\ AsUsize(req.n) \in Nat /\ AsUsize(req.dst) \in Nat
  BY <1>1, Casts
<1>3. /\ AsUsize(req.src) + AsUsize(req.n) <= SegLen
      /\ AsUsize(req.dst) + AsUsize(req.n) <= len
  BY <1>2, InitInside DEF InitMemory
<1>4. req.n >= 0 /\ req.src >= 0 /\ req.dst >= 0
  <2>1. SegLen <= Word /\ len <= Word /\ SegLen \in Nat /\ len \in Nat
    BY SegmentTyped, LengthTyped, IntAssumption, WidthAssumption DEF SegmentLen
  <2>2. \A x \in I32 : x < 0 => AsUsize(x) > Word
    BY Casts, IntAssumption, WidthAssumption
  <2> QED
    BY <1>1, <1>2, <1>3, <2>1, <2>2, IntAssumption, WidthAssumption DEF I32
<1> QED
  BY <1>2, <1>3, <1>4

LEMMA InitStep ==
  ASSUME TypeOK, InitMemory
  PROVE  TypeOK'
<1> DEFINE new == Cut(Segment, AsUsize(req.src), AsUsize(req.n))
<1>1. \A k \in DOMAIN new : new[k] \in Bytes
  BY InitReads, SegmentTyped DEF Cut
<1>2. data' \in [0 .. len - 1 -> Bytes]
  BY <1>1, InitReads, WrittenTyped DEF InitMemory
<1> QED
  BY <1>2, EndKeeps DEF InitMemory, Done

LEMMA MemorySizeStep ==
  ASSUME TypeOK, MemorySize
  PROVE  TypeOK'
  BY EndKeeps, SizeTyped DEF MemorySize, PushPages, TypeOK

(* A memory grows by whole pages, to a size that its maximum allows.       *)
LEMMA GrowStep ==
  ASSUME TypeOK, Grow
  PROVE  TypeOK'
<1> DEFINE inc == AsU32(req.n)
           p   == Size + inc
<1>1. inc \in Nat
  BY GrowOperand, Casts DEF Grow, U32
<1>2. CASE ~Grows(inc)
  BY <1>2, EndKeeps, SizeTyped DEF Grow, PushPages, TypeOK
<1>3. CASE Grows(inc)
  <2>1. Size \in Nat
    BY SizeTyped
  <2>2. p \in 0 .. MaxPages /\ (max # NoMax => p <= max)
    BY <1>1, <1>3, <2>1 DEF Grows
  <2>3. len' = p * PageSize /\ len' \in Nat
    BY <1>3, <2>2, PagesFit DEF Grow
  <2>4. \E q \in 0 .. MaxPages : len' = q * PageSize /\ (max # NoMax => q <= max)
    BY <2>2, <2>3
  <2>5. data' = [a \in 0 .. len' - 1 |-> IF a < len THEN data[a] ELSE Zero]
    BY <1>3, <2>3 DEF Grow
  <2>6. data' \in [0 .. len' - 1 -> Bytes]
    BY <2>3, <2>5, LengthTyped, BytesAssumption DEF TypeOK
  <2>7. /\ UNCHANGED <<max, dropped>> /\ req' = None /\ outcome' = "done"
        /\ pushed' = <<Size>> /\ Size \in I32
    BY <1>3, SizeTyped DEF Grow, PushPages
  <2> QED
    BY <2>4, <2>6, <2>7 DEF TypeOK
<1> QED
  BY <1>2, <1>3

LEMMA TypeStep ==
  ASSUME TypeOK, [Next]_vars
  PROVE  TypeOK'
<1>1. CASE Pop
  BY <1>1, PopStep
<1>2. CASE Execute
  BY <1>2, LoadStep, StoreStep, FillStep, CopyStep, InitStep, DropStep,
     MemorySizeStep, GrowStep, TrapStep DEF Execute
<1>3. CASE UNCHANGED vars
  BY <1>3 DEF vars, TypeOK
<1> QED
  BY <1>1, <1>2, <1>3 DEF Next

LEMMA TypeStart ==
  ASSUME Init
  PROVE  TypeOK
<1>1. max \in 0 .. NoMax
  BY MaximaAssumption DEF Init
<1>2. PICK p \in 0 .. MaxPages :
        /\ max # NoMax => p <= max
        /\ len = p * PageSize
        /\ data = [a \in 0 .. p * PageSize - 1 |-> Zero]
  BY DEF Init
<1>3. data \in [0 .. len - 1 -> Bytes]
  BY <1>2, BytesAssumption
<1> QED
  BY <1>1, <1>2, <1>3 DEF Init, TypeOK

(* A memory is whole pages of bytes, within its maximum.                   *)
THEOREM MemoryAlwaysTyped == Spec => []TypeOK
  BY TypeStart, TypeStep, PTL DEF Spec

-----------------------------------------------------------------------------
(* Bounds.                                                                 *)

(* A length that fits was not negative: widened, it would be longer than   *)
(* any memory.                                                             *)
LEMMA FillInside ==
  ASSUME TypeOK, Fill
  PROVE  /\ AsU32(req.dst) \in Nat
         /\ req.n \in Nat /\ AsU32(req.n) = req.n /\ AsUsize(req.n) = req.n
         /\ AsU32(req.dst) + req.n <= len
<1>1. req.dst \in I32 /\ req.n \in I32
  BY FillOperands DEF Fill
<1>2. AsU32(req.dst) \in Nat /\ AsUsize(req.n) \in Nat /\ 0 \in U32
  BY <1>1, Casts, IntAssumption, WidthAssumption DEF U32
<1>3. AsU32(req.dst) + AsUsize(req.n) <= len
  BY <1>1, <1>2, SliceInside DEF Fill
<1>4. req.n >= 0
  BY <1>1, <1>2, <1>3, Casts, LengthTyped, IntAssumption, WidthAssumption DEF I32
<1> QED
  BY <1>1, <1>2, <1>3, <1>4, Casts, IntAssumption, WidthAssumption DEF I32

LEMMA DoneStep ==
  ASSUME TypeOK, Execute, outcome' = "done"
  PROVE  InBounds(req)
<1>1. CASE Load \/ Store
  <2>1. req.op \in {"load", "store"} /\ SliceFits(req.base, req.offset, req.n)
    BY <1>1 DEF Load, Store
  <2>2. req.base \in I32 /\ req.offset \in U32 /\ req.n \in Nat
    BY <2>1, AccessOperands
  <2> QED
    BY <2>1, <2>2, SliceInside DEF InBounds, Inside
<1>2. CASE Fill
  BY <1>2, FillInside DEF Fill, InBounds, Inside
<1>3. CASE Copy
  <2>1. req.n \in I32 /\ req.n >= 0
    BY <1>3, CopyReads, CopyOperands DEF Copy
  <2>2. AsU32(req.n) = AsUsize(req.n)
    BY <2>1, Casts
  <2> QED
    BY <1>3, <2>2, CopyReads DEF Copy, InBounds, Inside
<1>4. CASE InitMemory
  <2>1. req.dst \in I32 /\ req.src \in I32 /\ req.n \in I32
    BY <1>4, CopyOperands DEF InitMemory
  <2>2. /\ AsU32(req.n) = AsUsize(req.n) /\ AsU32(req.src) = AsUsize(req.src)
        /\ AsU32(req.dst) = AsUsize(req.dst)
    BY <1>4, <2>1, InitReads, Casts
  <2> QED
    BY <1>4, <2>2, InitReads DEF InitMemory, InBounds, Inside
<1>5. CASE DataDrop \/ MemorySize \/ Grow
  BY <1>5 DEF DataDrop, MemorySize, Grow, InBounds
<1>6. CASE Trap
  BY <1>6 DEF Trap
<1> QED
  BY <1>1, <1>2, <1>3, <1>4, <1>5, <1>6 DEF Execute

(* A step that ends an instruction is one that executes it.                *)
LEMMA EndingStep ==
  ASSUME [Next]_vars, Ends
  PROVE  Execute
  BY DEF Next, Pop, Ends, vars

(* Whatever the widths: an instruction that completes has named no byte    *)
(* outside the memory, or outside the data segment it reads.               *)
THEOREM DoneAlwaysInBounds == Spec => DoneMeansInBounds
<1>1. TypeOK /\ [Next]_vars => [Ends /\ outcome' = "done" => InBounds(req)]_vars
  BY EndingStep, DoneStep
<1> QED
  BY <1>1, MemoryAlwaysTyped, PTL DEF Spec, DoneMeansInBounds

(* The converse, where nothing is widened with its sign.                   *)
LEMMA TrapStepExact ==
  ASSUME TypeOK, Trap, \A x \in Widened(req) : x >= 0
  PROVE  ~InBounds(req)
<1>1. CASE req.op \in {"load", "store"}
  <2>1. req.base \in I32 /\ req.offset \in U32 /\ req.n \in 1 .. Half
    BY <1>1, AccessOperands
  <2>2. ~SliceFits(req.base, req.offset, req.n)
    BY <1>1 DEF Trap, Traps
  <2>3. req.n \in 0 .. Word /\ AsU32(req.base) + req.offset \in Nat
    BY <2>1, Casts, IntAssumption, WidthAssumption DEF U32
  <2>4. ASSUME AsU32(req.base) + req.offset + req.n <= len PROVE FALSE
    <3>1. AsU32(req.base) + req.offset < Word
      BY <2>1, <2>3, <2>4, LengthTyped, IntAssumption, WidthAssumption
    <3> QED
      BY <2>1, <2>2, <2>3, <2>4, <3>1, InsideSlice
  <2> QED
    BY <1>1, <2>4 DEF InBounds, Inside
<1>2. CASE req.op = "fill"
  <2>1. req.dst \in I32 /\ req.n \in I32 /\ req.n >= 0
    BY <1>2, FillOperands DEF Widened
  <2>2. /\ AsUsize(req.n) = req.n /\ AsU32(req.n) = req.n /\ req.n \in 0 .. Word
        /\ AsU32(req.dst) \in U32 /\ 0 \in U32
    BY <2>1, Casts, IntAssumption, WidthAssumption DEF I32, U32
  <2>3. ~SliceFits(req.dst, 0, req.n)
    BY <1>2, <2>2 DEF Trap, Traps
  <2>4. ~(AsU32(req.dst) + req.n <= len)
    BY <2>1, <2>2, <2>3, InsideSlice, IntAssumption, WidthAssumption DEF U32
  <2> QED
    BY <1>2, <2>2, <2>4 DEF InBounds, Inside
<1>3. CASE req.op = "copy"
  <2>1. req.dst \in I32 /\ req.src \in I32 /\ req.n \in I32 /\ req.n >= 0
    BY <1>3, CopyOperands DEF Widened
  <2>2. /\ AsUsize(req.n) = req.n /\ AsU32(req.n) = req.n /\ req.n \in 0 .. Word
        /\ AsU32(req.dst) \in U32 /\ AsU32(req.src) \in U32 /\ 0 \in U32
    BY <2>1, Casts, IntAssumption, WidthAssumption DEF I32, U32
  <2>3. ~SliceFits(req.src, 0, req.n) \/ ~SliceFits(req.dst, 0, req.n)
    BY <1>3, <2>2 DEF Trap, Traps
  <2>4. ASSUME NEW x \in I32, AsU32(x) \in U32, AsU32(x) + req.n <= len
        PROVE  SliceFits(x, 0, req.n)
    BY <2>2, <2>4, InsideSlice, IntAssumption, WidthAssumption DEF U32
  <2> QED
    BY <1>3, <2>1, <2>2, <2>3, <2>4 DEF InBounds, Inside
<1>4. CASE req.op = "init"
  <2>1. /\ req.dst \in I32 /\ req.src \in I32 /\ req.n \in I32
        /\ req.n >= 0 /\ req.src >= 0 /\ req.dst >= 0
    BY <1>4, CopyOperands DEF Widened
  <2>2. /\ AsUsize(req.n) = AsU32(req.n) /\ AsUsize(req.n) \in Nat
        /\ AsUsize(req.src) = AsU32(req.src) /\ AsUsize(req.src) \in Nat
        /\ AsUsize(req.dst) = AsU32(req.dst) /\ AsUsize(req.dst) \in Nat
    BY <2>1, Casts
  <2>3. ~InitFits(AsUsize(req.dst), AsUsize(req.src), AsUsize(req.n))
    BY <1>4 DEF Trap, Traps
  <2> QED
    BY <1>4, <2>2, <2>3, InitInside DEF InBounds, Inside
<1> QED
  BY <1>1, <1>2, <1>3, <1>4 DEF Trap, Traps

(* Bounds are exact, to the last byte of a memory of 4 GiB, wherever no    *)
(* operand of 2^31 or more is widened with its sign.                       *)
THEOREM TrapsExactBelowHalf == Spec => TrapMeansOutOfBoundsBelowHalf
<1>1. TypeOK /\ [Next]_vars =>
        [Ends /\ outcome' = "trap" /\ (\A x \in Widened(req) : x >= 0)
           => ~InBounds(req)]_vars
  <2>1. ASSUME Execute, outcome' = "trap" PROVE Trap
    BY <2>1 DEF Execute, Load, Store, Fill, Copy, InitMemory, DataDrop, MemorySize,
       Grow, Done, PushPages
  <2> QED
    BY <2>1, EndingStep, TrapStepExact
<1> QED
  BY <1>1, MemoryAlwaysTyped, PTL DEF Spec, TrapMeansOutOfBoundsBelowHalf

-----------------------------------------------------------------------------
(* Effects.                                                                *)

(* What an instruction that completes leaves at address a.                 *)
After(a) == IF a - AsU32(req.dst) \in 0 .. AsU32(req.n) - 1
            THEN From(req, a - AsU32(req.dst)) ELSE data[a]

LEMMA FillEffect ==
  ASSUME TypeOK, Fill, NEW a \in 0 .. len - 1
  PROVE  data'[a] = After(a)
<1>1. data' = Written(AsU32(req.dst), Repeat(req.byte, AsU32(req.n)))
  BY FillInside DEF Fill
<1> QED
  BY <1>1 DEF Written, Repeat, After, From, Fill

LEMMA CopyEffect ==
  ASSUME TypeOK, Copy, NEW a \in 0 .. len - 1
  PROVE  data'[a] = After(a)
<1>1. req.n \in I32 /\ req.n >= 0
  BY CopyReads, CopyOperands DEF Copy
<1>2. AsUsize(req.n) = AsU32(req.n)
  BY <1>1, Casts
<1>3. data' = Written(AsU32(req.dst), Cut(data, AsU32(req.src), AsU32(req.n)))
  BY <1>2 DEF Copy
<1> QED
  BY <1>3 DEF Written, Cut, After, From, Copy

LEMMA InitEffect ==
  ASSUME TypeOK, InitMemory, NEW a \in 0 .. len - 1
  PROVE  data'[a] = After(a)
<1>1. /\ req.dst \in I32 /\ req.src \in I32 /\ req.n \in I32
      /\ req.n >= 0 /\ req.src >= 0 /\ req.dst >= 0
  BY InitReads, CopyOperands DEF InitMemory
<1>2. /\ AsUsize(req.n) = AsU32(req.n) /\ AsUsize(req.src) = AsU32(req.src)
      /\ AsUsize(req.dst) = AsU32(req.dst)
  BY <1>1, Casts
<1>3. data' = Written(AsU32(req.dst), Cut(Segment, AsU32(req.src), AsU32(req.n)))
  BY <1>2 DEF InitMemory
<1> QED
  BY <1>3 DEF Written, Cut, After, From, InitMemory

(* The size that memory.grow pushes is never -1.                           *)
LEMMA MemoryGrowEffect ==
  ASSUME TypeOK, Grow
  PROVE  IF pushed' = <<-1>> THEN data' = data /\ len' = len
         ELSE /\ pushed' = <<Size>>
              /\ len' = (Size + AsU32(req.n)) * PageSize
              /\ \A a \in 0 .. len' - 1 : data'[a] = IF a < len THEN data[a] ELSE Zero
<1>1. CASE ~Grows(AsU32(req.n))
  BY <1>1 DEF Grow, PushPages
<1>2. CASE Grows(AsU32(req.n))
  <2>1. /\ pushed' = <<Size>> /\ len' = (Size + AsU32(req.n)) * PageSize
        /\ data' = [a \in 0 .. len' - 1 |-> IF a < len THEN data[a] ELSE Zero]
    BY <1>2, SizeTyped DEF Grow, PushPages
  <2>2. pushed' # <<-1>>
    <3>1. Size # -1
      BY SizeTyped, WidthAssumption
    <3>2. <<Size>>[1] = Size /\ <<-1>>[1] = -1
      OBVIOUS
    <3> QED
      BY <2>1, <3>1, <3>2
  <2> QED
    BY <2>1, <2>2
<1> QED
  BY <1>1, <1>2

(* Bulk instructions act on all their bytes at once or, when they trap, on *)
(* none of them; what memory.size and memory.grow push is the size before, *)
(* or -1 when growing has changed nothing.                                 *)
THEOREM EffectAlwaysAllAtOnce == Spec => EffectAllAtOnce
<1> DEFINE
  Bulk == IF outcome' = "trap" THEN data' = data
          ELSE \A a \in 0 .. len - 1 :
                 data'[a] = IF a - AsU32(req.dst) \in 0 .. AsU32(req.n) - 1
                            THEN From(req, a - AsU32(req.dst)) ELSE data[a]
  Grown == IF pushed' = <<-1>> THEN data' = data /\ len' = len
           ELSE /\ pushed' = <<Size>>
                /\ len' = (Size + AsU32(req.n)) * PageSize
                /\ \A a \in 0 .. len' - 1 : data'[a] = IF a < len THEN data[a] ELSE Zero
<1>1. TypeOK /\ [Next]_vars =>
        [Ends => /\ req.op \in {"fill", "copy", "init"} => Bulk
                 /\ req.op = "size" => pushed' = <<Size>>
                 /\ req.op = "grow" => Grown]_vars
  <2> SUFFICES ASSUME TypeOK, [Next]_vars, Ends
               PROVE  /\ req.op \in {"fill", "copy", "init"} => Bulk
                      /\ req.op = "size" => pushed' = <<Size>>
                      /\ req.op = "grow" => Grown
    OBVIOUS
  <2>1. Execute
    BY EndingStep
  <2>2. ASSUME req.op \in {"fill", "copy", "init"} PROVE Bulk
    <3>1. Fill \/ Copy \/ InitMemory \/ Trap
      BY <2>1, <2>2 DEF Execute, Load, Store, DataDrop, MemorySize, Grow
    <3>2. CASE Trap
      BY <3>2 DEF Trap
    <3>3. CASE Fill \/ Copy \/ InitMemory
      <4>1. outcome' = "done"
        BY <3>3 DEF Fill, Copy, InitMemory, Done
      <4>2. \A a \in 0 .. len - 1 : data'[a] = After(a)
        BY <3>3, FillEffect, CopyEffect, InitEffect
      <4> QED
        BY <4>1, <4>2 DEF After
    <3> QED
      BY <3>1, <3>2, <3>3
  <2>3. ASSUME req.op \in {"size", "grow"} PROVE MemorySize \/ Grow
    <3>1. ~Trap
      BY <2>3 DEF Trap, Traps
    <3> QED
      BY <2>1, <2>3, <3>1 DEF Execute, Load, Store, Fill, Copy, InitMemory, DataDrop
  <2>4. ASSUME req.op = "size" PROVE pushed' = <<Size>>
    <3>1. MemorySize
      BY <2>3, <2>4 DEF Grow
    <3> QED
      BY <3>1, SizeTyped DEF MemorySize, PushPages
  <2>5. ASSUME req.op = "grow" PROVE Grown
    <3>1. Grow
      BY <2>3, <2>5 DEF MemorySize
    <3> QED
      BY <3>1, MemoryGrowEffect
  <2> QED
    BY <2>2, <2>4, <2>5
<1> QED
  BY <1>1, MemoryAlwaysTyped, PTL DEF Spec, EffectAllAtOnce

-----------------------------------------------------------------------------
(* Tables: what is about them is named so where memories have the same.    *)

USE DEF Lens, Unlimited

-----------------------------------------------------------------------------
(* Integers.                                                               *)

(* as u32, as usize: what they do to the numbers an i32 can be.            *)
LEMMA IntegerCasts ==
  ASSUME NEW x \in I32
  PROVE  /\ AsU32(x) \in U32 /\ AsU32(x) \in Nat
         /\ AsUsize(x) \in Nat
         /\ x >= 0 => AsU32(x) = x /\ AsUsize(x) = x
         /\ x < 0 => AsU32(x) >= Half /\ AsUsize(x) > 3 * Word
  BY IntAssumption DEF I32, U32, AsU32, AsUsize

LEMMA ZeroIsI32 == 0 \in I32 /\ -1 \in I32
  BY IntAssumption DEF I32

(* The test of slice fails for no other reason than the bounds: no sum     *)
(* that is within a table is too large for a usize.                        *)
LEMMA FitsExact ==
  ASSUME NEW base \in Nat, NEW n \in Nat, NEW length \in 0 .. Word
  PROVE  Fits(base, n, length) <=> base + n <= length
  BY IntAssumption DEF Fits

(* What fits was not negative: widened, it would be past any table.        *)
LEMMA FitsNotNegative ==
  ASSUME NEW dst \in I32, NEW n \in I32, NEW length \in 0 .. Word,
         Fits(AsUsize(dst), AsUsize(n), length)
  PROVE  /\ AsUsize(dst) = dst /\ AsU32(dst) = dst /\ dst \in Nat
         /\ AsUsize(n) = n /\ AsU32(n) = n /\ n \in Nat
         /\ dst + n <= length
<1>1. AsUsize(dst) \in Nat /\ AsUsize(n) \in Nat
  BY IntegerCasts
<1>2. AsUsize(dst) + AsUsize(n) <= length
  BY <1>1, FitsExact
<1>3. ~(dst < 0) /\ ~(n < 0)
  BY <1>1, <1>2, IntegerCasts, IntAssumption
<1> QED
  BY <1>2, <1>3, IntegerCasts, IntAssumption DEF I32

(* The converse, in a table shorter than half a word.                      *)
LEMMA ShortFits ==
  ASSUME NEW dst \in I32, NEW n \in I32, NEW length \in 0 .. Half - 1,
         AsU32(dst) + AsU32(n) <= length
  PROVE  Fits(AsUsize(dst), AsUsize(n), length)
<1>1. AsU32(dst) \in Nat /\ AsU32(n) \in Nat
  BY IntegerCasts
<1>2. ~(dst < 0) /\ ~(n < 0)
  BY <1>1, IntegerCasts, IntAssumption
<1>3. AsUsize(dst) = AsU32(dst) /\ AsUsize(n) = AsU32(n)
  BY <1>2, IntegerCasts, IntAssumption DEF I32
<1>4. length \in 0 .. Word
  BY IntAssumption
<1> QED
  BY <1>1, <1>3, <1>4, FitsExact

-----------------------------------------------------------------------------
(* Lengths and operands.                                                   *)

LEMMA ElementsLengthTyped ==
  ASSUME TablesTypeOK, NEW t \in Tables
  PROVE  lens[t] \in 0 .. Word /\ lens[t] \in Lens
  BY IntAssumption DEF TablesTypeOK

(* Only what was declared with half a word of elements ever has so many.   *)
LEMMA LengthBelowHalf ==
  ASSUME TablesTypeOK, NEW t \in Tables, types[t].min < Half
  PROVE  lens[t] \in 0 .. Half - 1
<1>1. lens[t] \in Nat /\ types[t].min \in Nat
  BY IntAssumption DEF TablesTypeOK
<1>2. lens[t] <= MaxTableLen \/ lens[t] = types[t].min
  BY DEF TablesTypeOK
<1>3. MaxTableLen \in 0 .. Half - 1
  BY TableAssumption
<1> QED
  BY <1>1, <1>2, <1>3, IntAssumption

LEMMA ElementsSegmentTyped ==
  ASSUME TablesTypeOK
  PROVE  /\ SegmentLength \in 0 .. Half - 1 /\ SegmentLength \in 0 .. Word
         /\ SegmentLength <= ElemLen
  BY IntAssumption, TableAssumption DEF TablesTypeOK, SegmentLength

LEMMA TableAccessOperands ==
  ASSUME TablesTypeOK, instr.op \in {"get", "set"}
  PROVE  /\ instr.t \in Tables /\ instr.i \in I32
         /\ instr.op = "set" => instr.ref \in Refs
  BY TableAssumption DEF TablesTypeOK, TableRequests, NoInstr

LEMMA TableFillOperands ==
  ASSUME TablesTypeOK, instr.op = "fill"
  PROVE  instr.t \in Tables /\ instr.dst \in I32 /\ instr.n \in I32 /\ instr.ref \in Refs
  BY TableAssumption DEF TablesTypeOK, TableRequests, NoInstr

LEMMA TableCopyOperands ==
  ASSUME TablesTypeOK, instr.op = "copy"
  PROVE  /\ instr.t \in Tables /\ instr.from \in Tables
         /\ instr.dst \in I32 /\ instr.src \in I32 /\ instr.n \in I32
  BY TableAssumption DEF TablesTypeOK, TableRequests, NoInstr

LEMMA InitOperands ==
  ASSUME TablesTypeOK, instr.op = "init"
  PROVE  /\ instr.t \in Tables
         /\ instr.dst \in I32 /\ instr.src \in I32 /\ instr.n \in I32
  BY TableAssumption DEF TablesTypeOK, TableRequests, NoInstr

LEMMA GrowOperands ==
  ASSUME TablesTypeOK, instr.op = "grow"
  PROVE  instr.t \in Tables /\ instr.n \in I32 /\ instr.ref \in Refs
  BY TableAssumption DEF TablesTypeOK, TableRequests, NoInstr

LEMMA SizeOperand ==
  ASSUME TablesTypeOK, instr.op = "size"
  PROVE  instr.t \in Tables
  BY DEF TablesTypeOK, TableRequests, NoInstr

-----------------------------------------------------------------------------
(* The type invariant.                                                     *)

Results == [how : {"done", "trap", "pending", "pushed"}, value : I32 \cup Refs]

LEMMA ResultsTyped ==
  /\ \A h \in {"done", "trap", "pending"} : Ended(h) \in Results
  /\ \A v \in I32 \cup Refs : Pushed(v) \in Results
  BY ZeroIsI32 DEF Results, Ended, Pushed

(* An instruction that ends and changes no more than elements.             *)
LEMMA TableEndKeeps ==
  ASSUME TablesTypeOK, UNCHANGED <<types, lens>>, elemDropped' \in BOOLEAN,
         DOMAIN refs' = Tables,
         \A t \in Tables : refs'[t] \in [0 .. lens[t] - 1 -> Refs],
         instr' = NoInstr, result' \in Results
  PROVE  TablesTypeOK'
  BY DEF TablesTypeOK, Results

(* Elements that are replaced are replaced by references.                  *)
LEMMA OverwrittenTyped ==
  ASSUME TablesTypeOK, NEW t \in Tables, NEW dst \in Nat, NEW new,
         \A k \in DOMAIN new : new[k] \in Refs
  PROVE  Overwritten(t, dst, new) \in [0 .. lens[t] - 1 -> Refs]
  BY DEF TablesTypeOK, Overwritten

(* An instruction that overwrites a part of one table.                     *)
LEMMA BulkKeeps ==
  ASSUME TablesTypeOK, NEW t \in Tables, NEW dst \in Nat, NEW new,
         \A k \in DOMAIN new : new[k] \in Refs,
         refs' = [refs EXCEPT ![t] = Overwritten(t, dst, new)],
         UNCHANGED <<types, lens, elemDropped>>, EndWith(Ended("done"))
  PROVE  TablesTypeOK'
<1>1. Overwritten(t, dst, new) \in [0 .. lens[t] - 1 -> Refs]
  BY OverwrittenTyped
<1>2. DOMAIN refs' = Tables /\ \A u \in Tables : refs'[u] \in [0 .. lens[u] - 1 -> Refs]
  BY <1>1 DEF TablesTypeOK
<1>3. instr' = NoInstr /\ result' \in Results /\ elemDropped' \in BOOLEAN
  BY ResultsTyped DEF EndWith, TablesTypeOK
<1> QED
  BY <1>2, <1>3, TableEndKeeps

LEMMA TablePopStep ==
  ASSUME TablesTypeOK, PopOperands
  PROVE  TablesTypeOK'
<1>1. result' \in Results
  BY ResultsTyped DEF PopOperands
<1> QED
  BY <1>1 DEF PopOperands, TablesTypeOK, Results

LEMMA GetStep ==
  ASSUME TablesTypeOK, TableGet
  PROVE  TablesTypeOK'
<1>1. instr.t \in Tables /\ AsUsize(instr.i) \in 0 .. lens[instr.t] - 1
  BY TableAccessOperands, IntegerCasts, ElementsLengthTyped DEF TableGet
<1>2. refs[instr.t][AsUsize(instr.i)] \in Refs
  BY <1>1 DEF TablesTypeOK
<1>3. result' \in Results /\ instr' = NoInstr
  BY <1>2, ResultsTyped DEF TableGet, EndWith
<1> QED
  BY <1>3, TableEndKeeps DEF TableGet, TablesTypeOK

LEMMA SetStep ==
  ASSUME TablesTypeOK, TableSet
  PROVE  TablesTypeOK'
<1> DEFINE t == instr.t
           i == AsUsize(instr.i)
<1>1. t \in Tables /\ i \in 0 .. lens[t] - 1 /\ instr.ref \in Refs
  BY TableAccessOperands, IntegerCasts, ElementsLengthTyped DEF TableSet
<1>2. refs' = [refs EXCEPT ![t] = [refs[t] EXCEPT ![i] = instr.ref]]
  BY DEF TableSet
<1>3. [refs[t] EXCEPT ![i] = instr.ref] \in [0 .. lens[t] - 1 -> Refs]
  BY <1>1 DEF TablesTypeOK
<1>4. DOMAIN refs' = Tables /\ \A u \in Tables : refs'[u] \in [0 .. lens[u] - 1 -> Refs]
  BY <1>1, <1>2, <1>3 DEF TablesTypeOK
<1>5. instr' = NoInstr /\ result' \in Results /\ elemDropped' \in BOOLEAN
  BY ResultsTyped DEF TableSet, EndWith, TablesTypeOK
<1> QED
  BY <1>4, <1>5, TableEndKeeps DEF TableSet

(* What each bulk instruction reads and writes is there.                   *)
LEMMA TableFillInside ==
  ASSUME TablesTypeOK, TableFill
  PROVE  /\ instr.t \in Tables /\ instr.ref \in Refs
         /\ AsUsize(instr.dst) = AsU32(instr.dst) /\ AsU32(instr.dst) \in Nat
         /\ AsUsize(instr.n) = AsU32(instr.n) /\ AsU32(instr.n) \in Nat
         /\ AsU32(instr.dst) + AsU32(instr.n) <= lens[instr.t]
<1>1. /\ instr.t \in Tables /\ instr.dst \in I32 /\ instr.n \in I32 /\ instr.ref \in Refs
      /\ lens[instr.t] \in 0 .. Word
  BY TableFillOperands, ElementsLengthTyped DEF TableFill
<1> QED
  BY <1>1, FitsNotNegative DEF TableFill

LEMMA CopyInside ==
  ASSUME TablesTypeOK, TableCopy
  PROVE  /\ instr.t \in Tables /\ instr.from \in Tables
         /\ AsUsize(instr.dst) = AsU32(instr.dst) /\ AsU32(instr.dst) \in Nat
         /\ AsUsize(instr.src) = AsU32(instr.src) /\ AsU32(instr.src) \in Nat
         /\ AsUsize(instr.n) = AsU32(instr.n) /\ AsU32(instr.n) \in Nat
         /\ AsU32(instr.src) + AsU32(instr.n) <= lens[instr.from]
         /\ AsU32(instr.dst) + AsU32(instr.n) <= lens[instr.t]
<1>1. /\ instr.t \in Tables /\ instr.from \in Tables
      /\ instr.dst \in I32 /\ instr.src \in I32 /\ instr.n \in I32
      /\ lens[instr.t] \in 0 .. Word /\ lens[instr.from] \in 0 .. Word
  BY TableCopyOperands, ElementsLengthTyped DEF TableCopy
<1> QED
  BY <1>1, FitsNotNegative DEF TableCopy

LEMMA TableInitInside ==
  ASSUME TablesTypeOK, TableInit
  PROVE  /\ instr.t \in Tables
         /\ AsUsize(instr.dst) = AsU32(instr.dst) /\ AsU32(instr.dst) \in Nat
         /\ AsUsize(instr.src) = AsU32(instr.src) /\ AsU32(instr.src) \in Nat
         /\ AsUsize(instr.n) = AsU32(instr.n) /\ AsU32(instr.n) \in Nat
         /\ AsU32(instr.src) + AsU32(instr.n) <= SegmentLength
         /\ AsU32(instr.dst) + AsU32(instr.n) <= lens[instr.t]
<1>1. /\ instr.t \in Tables
      /\ instr.dst \in I32 /\ instr.src \in I32 /\ instr.n \in I32
      /\ lens[instr.t] \in 0 .. Word /\ SegmentLength \in 0 .. Word
  BY InitOperands, ElementsLengthTyped, ElementsSegmentTyped DEF TableInit
<1> QED
  BY <1>1, FitsNotNegative DEF TableInit

LEMMA TableFillStep ==
  ASSUME TablesTypeOK, TableFill
  PROVE  TablesTypeOK'
<1> DEFINE new == [k \in 0 .. AsU32(instr.n) - 1 |-> instr.ref]
<1>1. \A k \in DOMAIN new : new[k] \in Refs
  BY TableFillInside
<1>2. refs' = [refs EXCEPT ![instr.t] = Overwritten(instr.t, AsU32(instr.dst), new)]
  BY TableFillInside DEF TableFill
<1> QED
  BY <1>1, <1>2, TableFillInside, BulkKeeps DEF TableFill

LEMMA TableCopyStep ==
  ASSUME TablesTypeOK, TableCopy
  PROVE  TablesTypeOK'
<1> DEFINE new == Part(refs[instr.from], AsU32(instr.src), AsU32(instr.n))
<1>1. \A k \in DOMAIN new : new[k] \in Refs
  <2>1. /\ instr.from \in Tables /\ lens[instr.from] \in Nat
        /\ AsU32(instr.src) \in Nat /\ AsU32(instr.n) \in Nat
        /\ AsU32(instr.src) + AsU32(instr.n) <= lens[instr.from]
    BY CopyInside, ElementsLengthTyped
  <2>2. refs[instr.from] \in [0 .. lens[instr.from] - 1 -> Refs]
    BY <2>1 DEF TablesTypeOK
  <2>3. \A k \in 0 .. AsU32(instr.n) - 1 :
          AsU32(instr.src) + k \in 0 .. lens[instr.from] - 1
    BY <2>1
  <2> QED
    BY <2>2, <2>3 DEF Part
<1>2. refs' = [refs EXCEPT ![instr.t] = Overwritten(instr.t, AsU32(instr.dst), new)]
  BY CopyInside DEF TableCopy
<1> QED
  BY <1>1, <1>2, CopyInside, BulkKeeps DEF TableCopy

LEMMA TableInitStep ==
  ASSUME TablesTypeOK, TableInit
  PROVE  TablesTypeOK'
<1> DEFINE new == Part(ElemRefs, AsU32(instr.src), AsU32(instr.n))
<1>1. \A k \in DOMAIN new : new[k] \in Refs
  BY TableInitInside, ElementsSegmentTyped, TableAssumption, IntAssumption DEF Part
<1>2. refs' = [refs EXCEPT ![instr.t] = Overwritten(instr.t, AsU32(instr.dst), new)]
  BY TableInitInside DEF TableInit
<1> QED
  BY <1>1, <1>2, TableInitInside, BulkKeeps DEF TableInit

LEMMA TableDropStep ==
  ASSUME TablesTypeOK, ElemDrop
  PROVE  TablesTypeOK'
<1>1. result' \in Results /\ instr' = NoInstr /\ elemDropped' \in BOOLEAN
  BY ResultsTyped DEF ElemDrop, EndWith
<1> QED
  BY <1>1, TableEndKeeps DEF ElemDrop, TablesTypeOK

LEMMA TableTrapStep ==
  ASSUME TablesTypeOK, TableTrap
  PROVE  TablesTypeOK'
<1>1. result' \in Results /\ instr' = NoInstr
  BY ResultsTyped DEF TableTrap, EndWith
<1> QED
  BY <1>1, TableEndKeeps DEF TableTrap, TablesTypeOK

LEMMA SizeStep ==
  ASSUME TablesTypeOK, TableSize
  PROVE  TablesTypeOK'
<1>1. instr.t \in Tables /\ lens[instr.t] \in Lens
  BY SizeOperand, ElementsLengthTyped DEF TableSize
<1>2. AsI32(lens[instr.t]) \in I32
  BY <1>1, IntAssumption DEF I32, AsI32
<1>3. result' \in Results /\ instr' = NoInstr
  BY <1>2, ResultsTyped DEF TableSize, EndWith
<1> QED
  BY <1>3, TableEndKeeps DEF TableSize, TablesTypeOK

(* What a table that grows is afterwards.                                  *)
LEMMA GrowsTo ==
  ASSUME TablesTypeOK, TableGrow, TableGrows(instr.t, AsU32(instr.n))
  PROVE  LET t   == instr.t
             new == lens[t] + AsU32(instr.n)
         IN  /\ t \in Tables /\ AsU32(instr.n) \in Nat /\ instr.ref \in Refs
             /\ lens[t] \in Nat /\ new \in Lens /\ lens[t] \in I32
             /\ new <= MaxTableLen
             /\ types[t].max # Unlimited => new <= types[t].max
             /\ lens' = [lens EXCEPT ![t] = new]
             /\ refs' = [refs EXCEPT ![t] =
                           [i \in 0 .. new - 1 |->
                              IF i < lens[t] THEN refs[t][i] ELSE instr.ref]]
             /\ EndWith(Pushed(lens[t]))
<1>1. instr.t \in Tables /\ instr.n \in I32 /\ instr.ref \in Refs
  BY GrowOperands DEF TableGrow
<1>2. AsU32(instr.n) \in Nat /\ lens[instr.t] \in Lens
  BY <1>1, IntegerCasts, ElementsLengthTyped
<1>3. lens[instr.t] + AsU32(instr.n) <= MaxTableLen /\ MaxTableLen \in 0 .. Half - 1
  BY TableAssumption DEF TableGrows
<1>4. /\ lens[instr.t] \in Nat /\ lens[instr.t] + AsU32(instr.n) \in Lens
      /\ lens[instr.t] \in I32 /\ AsI32(lens[instr.t]) = lens[instr.t]
  BY <1>2, <1>3, IntAssumption DEF I32, AsI32
<1> QED
  BY <1>1, <1>2, <1>3, <1>4 DEF TableGrow, TableGrows

LEMMA TableGrowStep ==
  ASSUME TablesTypeOK, TableGrow
  PROVE  TablesTypeOK'
<1> DEFINE t   == instr.t
           new == lens[t] + AsU32(instr.n)
<1>1. CASE ~TableGrows(t, AsU32(instr.n))
  <2>1. result' \in Results /\ instr' = NoInstr /\ UNCHANGED <<types, refs, lens, elemDropped>>
    BY <1>1, ZeroIsI32, ResultsTyped DEF TableGrow, EndWith
  <2> QED
    BY <2>1, TableEndKeeps DEF TablesTypeOK
<1>2. CASE TableGrows(t, AsU32(instr.n))
  <2> DEFINE grown == [i \in 0 .. new - 1 |-> IF i < lens[t] THEN refs[t][i] ELSE instr.ref]
  <2>1. /\ t \in Tables /\ instr.ref \in Refs /\ lens[t] \in Nat /\ new \in Lens
        /\ new <= MaxTableLen /\ (types[t].max # Unlimited => new <= types[t].max)
        /\ lens' = [lens EXCEPT ![t] = new] /\ refs' = [refs EXCEPT ![t] = grown]
    BY <1>2, GrowsTo
  <2>2. grown \in [0 .. new - 1 -> Refs]
    BY <2>1 DEF TablesTypeOK
  <2> HIDE DEF grown
  <2>3. lens' \in [Tables -> Lens] /\ DOMAIN refs' = Tables
    BY <2>1 DEF TablesTypeOK
  <2>4. ASSUME NEW u \in Tables
        PROVE  /\ refs'[u] \in [0 .. lens'[u] - 1 -> Refs]
               /\ types[u].max # Unlimited => lens'[u] <= types[u].max
               /\ lens'[u] <= MaxTableLen \/ lens'[u] = types[u].min
    <3>1. CASE u = t
      <4>1. lens'[u] = new /\ refs'[u] = grown
        BY <2>1, <3>1 DEF TablesTypeOK
      <4> QED
        BY <2>1, <2>2, <3>1, <4>1
    <3>2. CASE u # t
      <4>1. lens'[u] = lens[u] /\ refs'[u] = refs[u]
        BY <2>1, <3>2 DEF TablesTypeOK
      <4> QED
        BY <4>1 DEF TablesTypeOK
    <3> QED
      BY <3>1, <3>2
  <2>5. result' \in Results /\ instr' = NoInstr
    BY <1>2, GrowsTo, ResultsTyped DEF EndWith
  <2>6. UNCHANGED <<types, elemDropped>>
    BY DEF TableGrow
  <2> QED
    BY <2>3, <2>4, <2>5, <2>6 DEF TablesTypeOK, Results
<1> QED
  BY <1>1, <1>2

LEMMA TableTypeStep ==
  ASSUME TablesTypeOK, [TablesNext]_tableVars
  PROVE  TablesTypeOK'
<1>1. CASE PopOperands
  BY <1>1, TablePopStep
<1>2. CASE TablesExecute
  BY <1>2, GetStep, SetStep, TableFillStep, TableCopyStep, TableInitStep, TableDropStep,
     TableGrowStep, SizeStep, TableTrapStep DEF TablesExecute
<1>3. CASE UNCHANGED tableVars
  BY <1>3 DEF tableVars, TablesTypeOK
<1> QED
  BY <1>1, <1>2, <1>3 DEF TablesNext

LEMMA TableTypeStart ==
  ASSUME TablesInit
  PROVE  TablesTypeOK
<1>1. types \in [Tables -> [min : Lens, max : 0 .. Unlimited]]
  BY TableAssumption DEF TablesInit
<1>2. result \in Results
  BY ResultsTyped DEF TablesInit
<1> QED
  BY <1>1, <1>2, TableAssumption DEF TablesInit, TablesTypeOK, Results

(* A table keeps to its type and to every limit on its length.             *)
THEOREM TablesAlwaysTyped == TablesSpec => []TablesTypeOK
  BY TableTypeStart, TableTypeStep, PTL DEF TablesSpec

-----------------------------------------------------------------------------
(* Bounds.                                                                 *)

(* A step that ends an instruction is one that executes it.                *)
LEMMA TableEndingStep ==
  ASSUME [TablesNext]_tableVars, Ending
  PROVE  TablesExecute
<1>1. ~PopOperands
  BY DEF PopOperands, Ending
<1>2. ~UNCHANGED tableVars
  BY DEF tableVars, Ending
<1> QED
  BY <1>1, <1>2 DEF TablesNext

(* An instruction that does not trap names elements that are there.        *)
LEMMA CompletesInside ==
  ASSUME TablesTypeOK, TablesExecute, result'.how # "trap"
  PROVE  InTable(instr)
<1>1. CASE TableGet \/ TableSet
  <2>1. /\ instr.op \in {"get", "set"}
        /\ instr.i \in I32 /\ instr.t \in Tables
        /\ AsUsize(instr.i) < lens[instr.t]
    BY <1>1, TableAccessOperands DEF TableGet, TableSet
  <2>2. lens[instr.t] \in 0 .. Word
    BY <2>1, ElementsLengthTyped
  <2>3. AsU32(instr.i) = AsUsize(instr.i)
    BY <2>1, <2>2, IntegerCasts, IntAssumption DEF I32
  <2> QED
    BY <2>1, <2>3 DEF InTable
<1>2. CASE TableFill
  BY <1>2, TableFillInside DEF TableFill, InTable
<1>3. CASE TableCopy
  BY <1>3, CopyInside DEF TableCopy, InTable
<1>4. CASE TableInit
  BY <1>4, TableInitInside DEF TableInit, InTable
<1>5. CASE ElemDrop \/ TableGrow \/ TableSize
  BY <1>5 DEF ElemDrop, TableGrow, TableSize, InTable
<1>6. CASE TableTrap
  BY <1>6 DEF TableTrap, EndWith, Ended
<1> QED
  BY <1>1, <1>2, <1>3, <1>4, <1>5, <1>6 DEF TablesExecute

(* Only TableTrap traps.                                                   *)
LEMMA TrapsOnly ==
  ASSUME TablesExecute, result'.how = "trap"
  PROVE  TableTrap
<1>1. \A v : Pushed(v).how # "trap"
  BY DEF Pushed
<1>2. Ended("done").how # "trap"
  BY DEF Ended
<1> QED
  BY <1>1, <1>2 DEF TablesExecute, TableGet, TableSet, TableFill, TableCopy,
     TableInit, ElemDrop, TableGrow, TableSize, EndWith

(* The converse, while operands widened with their sign are past the end   *)
(* of every table whichever way they are read.                             *)
LEMMA TrapsOutside ==
  ASSUME TablesTypeOK, TableTrap, \A t \in Tables : types[t].min < Half
  PROVE  ~InTable(instr)
<1>1. \A t \in Tables : lens[t] \in 0 .. Half - 1
  BY LengthBelowHalf
<1>2. CASE instr.op \in {"get", "set"}
  <2>1. instr.i \in I32 /\ instr.t \in Tables /\ ~(AsUsize(instr.i) < lens[instr.t])
    BY <1>2, TableAccessOperands DEF TableTrap, OutOfTable
  <2>2. ~(AsU32(instr.i) < lens[instr.t])
    BY <1>1, <2>1, IntegerCasts, IntAssumption DEF I32
  <2> QED
    BY <1>2, <2>2 DEF InTable
<1>3. CASE instr.op = "fill"
  <2>1. /\ instr.t \in Tables /\ instr.dst \in I32 /\ instr.n \in I32
        /\ ~Fits(AsUsize(instr.dst), AsUsize(instr.n), lens[instr.t])
    BY <1>3, TableFillOperands DEF TableTrap, OutOfTable
  <2> QED
    BY <1>1, <1>3, <2>1, ShortFits DEF InTable
<1>4. CASE instr.op = "copy"
  <2>1. /\ instr.t \in Tables /\ instr.from \in Tables
        /\ instr.dst \in I32 /\ instr.src \in I32 /\ instr.n \in I32
        /\ \/ ~Fits(AsUsize(instr.src), AsUsize(instr.n), lens[instr.from])
           \/ ~Fits(AsUsize(instr.dst), AsUsize(instr.n), lens[instr.t])
    BY <1>4, TableCopyOperands DEF TableTrap, OutOfTable
  <2> QED
    BY <1>1, <1>4, <2>1, ShortFits DEF InTable
<1>5. CASE instr.op = "init"
  <2>1. /\ instr.t \in Tables
        /\ instr.dst \in I32 /\ instr.src \in I32 /\ instr.n \in I32
        /\ \/ ~Fits(AsUsize(instr.dst), AsUsize(instr.n), lens[instr.t])
           \/ ~Fits(AsUsize(instr.src), AsUsize(instr.n), SegmentLength)
    BY <1>5, InitOperands DEF TableTrap, OutOfTable
  <2> QED
    BY <1>1, <1>5, <2>1, ShortFits, ElementsSegmentTyped DEF InTable
<1> QED
  BY <1>2, <1>3, <1>4, <1>5 DEF TableTrap, OutOfTable

(* Bounds are exact in every table an i32 can index.                       *)
THEOREM TableBoundsAlwaysExact == TablesSpec => TableBoundsExact
<1>1. TablesTypeOK /\ [TablesNext]_tableVars =>
        [Ending =>
           /\ result'.how # "trap" => InTable(instr)
           /\ result'.how = "trap" /\ (\A t \in Tables : types[t].min < Half)
                => ~InTable(instr)]_tableVars
  BY TableEndingStep, CompletesInside, TrapsOnly, TrapsOutside
<1> QED
  BY <1>1, TablesAlwaysTyped, PTL DEF TablesSpec, TableBoundsExact

-----------------------------------------------------------------------------
(* Effects.                                                                *)

(* What a bulk instruction that completes leaves at place i of table t.    *)
Left(t, i) ==
  IF t = instr.t /\ i - AsU32(instr.dst) \in 0 .. AsU32(instr.n) - 1
  THEN WrittenBy(instr, i - AsU32(instr.dst)) ELSE refs[t][i]

LEMMA TableFillEffect ==
  ASSUME TablesTypeOK, TableFill, NEW t \in Tables, NEW i \in 0 .. lens[t] - 1
  PROVE  refs'[t][i] = Left(t, i)
<1>1. refs' = [refs EXCEPT ![instr.t] =
                 Overwritten(instr.t, AsU32(instr.dst),
                             [k \in 0 .. AsU32(instr.n) - 1 |-> instr.ref])]
  BY TableFillInside DEF TableFill
<1>2. instr.op = "fill" /\ instr.t \in Tables /\ DOMAIN refs = Tables
  BY TableFillInside DEF TableFill, TablesTypeOK
<1> QED
  BY <1>1, <1>2 DEF Overwritten, Left, WrittenBy

LEMMA TableCopyEffect ==
  ASSUME TablesTypeOK, TableCopy, NEW t \in Tables, NEW i \in 0 .. lens[t] - 1
  PROVE  refs'[t][i] = Left(t, i)
<1>1. refs' = [refs EXCEPT ![instr.t] =
                 Overwritten(instr.t, AsU32(instr.dst),
                             Part(refs[instr.from], AsU32(instr.src), AsU32(instr.n)))]
  BY CopyInside DEF TableCopy
<1>2. instr.op = "copy" /\ instr.t \in Tables /\ DOMAIN refs = Tables
  BY CopyInside DEF TableCopy, TablesTypeOK
<1> QED
  BY <1>1, <1>2 DEF Overwritten, Part, Left, WrittenBy

LEMMA TableInitEffect ==
  ASSUME TablesTypeOK, TableInit, NEW t \in Tables, NEW i \in 0 .. lens[t] - 1
  PROVE  refs'[t][i] = Left(t, i)
<1>1. refs' = [refs EXCEPT ![instr.t] =
                 Overwritten(instr.t, AsU32(instr.dst),
                             Part(ElemRefs, AsU32(instr.src), AsU32(instr.n)))]
  BY TableInitInside DEF TableInit
<1>2. instr.op = "init" /\ instr.t \in Tables /\ DOMAIN refs = Tables
  BY TableInitInside DEF TableInit, TablesTypeOK
<1> QED
  BY <1>1, <1>2 DEF Overwritten, Part, Left, WrittenBy

(* The length that table.grow pushes is never -1.                          *)
LEMMA GrowEffect ==
  ASSUME TablesTypeOK, TableGrow
  PROVE  IF result'.value = -1 THEN refs' = refs /\ lens' = lens
         ELSE /\ result'.value = lens[instr.t]
              /\ lens' = [lens EXCEPT ![instr.t] = @ + AsU32(instr.n)]
<1>1. CASE ~TableGrows(instr.t, AsU32(instr.n))
  <2>1. result'.value = -1 /\ refs' = refs /\ lens' = lens
    BY <1>1 DEF TableGrow, EndWith, Pushed
  <2> QED
    BY <2>1
<1>2. CASE TableGrows(instr.t, AsU32(instr.n))
  <2>1. /\ lens[instr.t] \in Nat /\ result'.value = lens[instr.t]
        /\ lens' = [lens EXCEPT ![instr.t] = @ + AsU32(instr.n)]
    BY <1>2, GrowsTo DEF EndWith, Pushed
  <2> QED
    BY <2>1
<1> QED
  BY <1>1, <1>2

(* Bulk instructions act on all their elements at once, or on none when    *)
(* they trap; what table.grow pushes is what it did.                       *)
THEOREM TableEffectAlwaysAllAtOnce == TablesSpec => TableEffectAllAtOnce
<1> DEFINE
  Effect == /\ result'.how = "trap" => refs' = refs
            /\ result'.how = "done" /\ instr.op \in {"fill", "copy", "init"} =>
                 \A t \in Tables : \A i \in 0 .. lens[t] - 1 :
                   refs'[t][i] =
                     IF t = instr.t /\ i - AsU32(instr.dst) \in 0 .. AsU32(instr.n) - 1
                     THEN WrittenBy(instr, i - AsU32(instr.dst)) ELSE refs[t][i]
            /\ instr.op = "grow" =>
                 IF result'.value = -1 THEN refs' = refs /\ lens' = lens
                 ELSE /\ result'.value = lens[instr.t]
                      /\ lens' = [lens EXCEPT ![instr.t] = @ + AsU32(instr.n)]
<1>1. TablesTypeOK /\ [TablesNext]_tableVars => [Ending => Effect]_tableVars
  <2> SUFFICES ASSUME TablesTypeOK, [TablesNext]_tableVars, Ending
               PROVE  Effect
    OBVIOUS
  <2>1. TablesExecute
    BY TableEndingStep
  <2>2. result'.how = "trap" => refs' = refs
    BY <2>1, TrapsOnly DEF TableTrap
  <2>3. ASSUME result'.how = "done", instr.op \in {"fill", "copy", "init"}
        PROVE  \A t \in Tables : \A i \in 0 .. lens[t] - 1 : refs'[t][i] = Left(t, i)
    <3>1. ~TableTrap
      BY <2>3 DEF TableTrap, EndWith, Ended
    <3>2. TableFill \/ TableCopy \/ TableInit
      BY <2>1, <2>3, <3>1 DEF TablesExecute, TableGet, TableSet, ElemDrop,
         TableGrow, TableSize
    <3> QED
      BY <3>2, TableFillEffect, TableCopyEffect, TableInitEffect
  <2>4. ASSUME instr.op = "grow"
        PROVE  IF result'.value = -1 THEN refs' = refs /\ lens' = lens
               ELSE /\ result'.value = lens[instr.t]
                    /\ lens' = [lens EXCEPT ![instr.t] = @ + AsU32(instr.n)]
    <3>1. ~TableTrap
      BY <2>4 DEF TableTrap, OutOfTable
    <3>2. TableGrow
      BY <2>1, <2>4, <3>1 DEF TablesExecute, TableGet, TableSet, TableFill,
         TableCopy, TableInit, ElemDrop, TableSize
    <3> QED
      BY <3>2, GrowEffect
  <2> QED
    BY <2>2, <2>3, <2>4 DEF Left
<1> QED
  BY <1>1, TablesAlwaysTyped, PTL DEF TablesSpec, TableEffectAllAtOnce

=============================================================================
