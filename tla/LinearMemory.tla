---------------------------- MODULE LinearMemory ----------------------------
(***************************************************************************)
(* A linear memory and the instructions that read, write and grow it.  An  *)
(* instruction pops its operands (req), then executes and is done or traps *)
(* (outcome).  What it pushes is kept when it is a number of pages; the    *)
(* value of a load is not modelled.                                        *)
(***************************************************************************)
EXTENDS MachineInts, Sequences

CONSTANTS
  PageSize,   \* WASM_MEM_PAGE_BYTE_SIZE
  MaxPages,   \* MAX_WASM_32BIT_MEMORY_PAGES
  Bytes,      \* the bytes a memory holds
  Zero,       \* the byte it is filled with
  Widths,     \* the widths of loads and stores, in bytes
  Segment,    \* the bytes of the module's data segment, from 0
  Maxima      \* the maxima a memory may be declared with

ASSUME WidthAssumption ==
  /\ PageSize \in Nat \ {0} /\ MaxPages \in Nat
  /\ PageSize * MaxPages = Word /\ MaxPages < Half
  /\ Widths \subseteq 1 .. Half

SegmentLen == Half - 1   \* at most

ASSUME BytesAssumption ==
  /\ Zero \in Bytes
  /\ \E n \in 0 .. SegmentLen : Segment \in [0 .. n - 1 -> Bytes]

NoMax == MaxPages + 1

ASSUME MaximaAssumption == Maxima \subseteq 0 .. NoMax

VARIABLES
  max,       \* memtype.limit.max
  data,      \* MemoryInstance.data, from 0
  len,       \* its length
  dropped,   \* whether the data segment has been dropped
  req,       \* the instruction under way, with its operands
  outcome,   \* how the last one ended
  pushed     \* the number of pages it has pushed, if it does

vars == <<max, data, len, dropped, req, outcome, pushed>>

None == [op |-> "none"]

Requests ==
  [op : {"load"}, base : I32, offset : U32, n : Widths]
    \cup [op : {"store"}, base : I32, offset : U32, n : Widths, byte : Bytes]
    \cup [op : {"fill"}, dst : I32, n : I32, byte : Bytes]
    \cup [op : {"copy"}, dst : I32, src : I32, n : I32]
    \cup [op : {"init"}, dst : I32, src : I32, n : I32]
    \cup [op : {"grow"}, n : I32]
    \cup [op : {"size", "drop"}]

-----------------------------------------------------------------------------
(* MemoryInstance::slice and slice_mut: n bytes at base + offset.          *)
(* Fault: the sum wraps around.                                            *)
SliceFitsWrapping(base, offset, n) ==
  ((AsU32(base) + offset) % Word) + n <= len

(* Fault: the last byte of the memory is out of reach.                     *)
SliceFitsShort(base, offset, n) == AsU32(base) + offset + n < len

SliceFits(base, offset, n) ==
  LET ea == AsU32(base) + offset
  IN  /\ ea < Word
      /\ ea + n < Usize
      /\ ea + n <= len

(* MemoryInstance::init, with operands that are usizes already.            *)
SegLen == IF dropped THEN 0
          ELSE CHOOSE n \in 0 .. SegmentLen : DOMAIN Segment = 0 .. n - 1

InitFits(dst, src, n) ==
  /\ dst + n < Usize /\ dst + n <= len
  /\ src + n < Usize /\ src + n <= SegLen

(* The bytes of new from dst on.                                           *)
Written(dst, new) ==
  [a \in 0 .. len - 1 |-> IF a - dst \in DOMAIN new THEN new[a - dst] ELSE data[a]]

(* One byte repeated: what fill writes, and for want of a byte order that  *)
(* any property tells apart also the bytes of a stored value.              *)
Repeat(b, n)    == [k \in 0 .. n - 1 |-> b]
Cut(s, from, n) == [k \in 0 .. n - 1 |-> s[from + k]]

-----------------------------------------------------------------------------
Pop ==
  /\ req = None
  /\ req' \in Requests /\ outcome' = "pending" /\ pushed' = <<>>
  /\ UNCHANGED <<max, data, len, dropped>>

Done == req' = None /\ outcome' = "done" /\ pushed' = <<>>
PushPages(v) == req' = None /\ outcome' = "done" /\ pushed' = <<v>>

Load ==
  /\ req.op = "load"
  /\ SliceFits(req.base, req.offset, req.n)
  /\ Done
  /\ UNCHANGED <<max, data, len, dropped>>

Store ==
  /\ req.op = "store"
  /\ SliceFits(req.base, req.offset, req.n)
  /\ data' = Written(AsU32(req.base) + req.offset, Repeat(req.byte, req.n))
  /\ Done
  /\ UNCHANGED <<max, len, dropped>>

Fill ==
  /\ req.op = "fill"
  /\ SliceFits(req.dst, 0, AsUsize(req.n))
  /\ data' = Written(AsU32(req.dst), Repeat(req.byte, AsUsize(req.n)))
  /\ Done
  /\ UNCHANGED <<max, len, dropped>>

(* Fault: bytes are copied one by one, from the first to the last, and may *)
(* have been overwritten when their turn comes.                            *)
CopyForward ==
  /\ req.op = "copy"
  /\ SliceFits(req.src, 0, AsUsize(req.n)) /\ SliceFits(req.dst, 0, AsUsize(req.n))
  /\ LET s == AsU32(req.src)
         d == AsU32(req.dst) - s
     IN  data' = Written(AsU32(req.dst), [k \in 0 .. AsUsize(req.n) - 1 |->
                                            data[s + (IF d > 0 THEN k % d ELSE k)]])
  /\ Done
  /\ UNCHANGED <<max, len, dropped>>

(* The source is copied out before the destination is written.             *)
Copy ==
  /\ req.op = "copy"
  /\ SliceFits(req.src, 0, AsUsize(req.n)) /\ SliceFits(req.dst, 0, AsUsize(req.n))
  /\ data' = Written(AsU32(req.dst), Cut(data, AsU32(req.src), AsUsize(req.n)))
  /\ Done
  /\ UNCHANGED <<max, len, dropped>>

(* memory.init, and the active segments of an instantiation.               *)
InitMemory ==
  /\ req.op = "init"
  /\ InitFits(AsUsize(req.dst), AsUsize(req.src), AsUsize(req.n))
  /\ data' = Written(AsUsize(req.dst),
                     Cut(Segment, AsUsize(req.src), AsUsize(req.n)))
  /\ Done
  /\ UNCHANGED <<max, len, dropped>>

DataDrop ==
  /\ req.op = "drop"
  /\ dropped' = TRUE
  /\ Done
  /\ UNCHANGED <<max, data, len>>

Size == len \div PageSize

MemorySize ==
  /\ req.op = "size"
  /\ PushPages(AsI32(Size))
  /\ UNCHANGED <<max, data, len, dropped>>

(* Fault: the size in the memory's type is not looked at.                  *)
GrowsUnlimited(inc) == Size + inc <= MaxPages

(* grow: refused when the new size overflows or is past a maximum.         *)
Grows(inc) ==
  /\ Size + inc < Word
  /\ Size + inc <= MaxPages
  /\ max # NoMax => Size + inc <= max

(* The size before, or -1.                                                 *)
Grow ==
  /\ req.op = "grow"
  /\ LET inc == AsU32(req.n)
     IN  IF Grows(inc)
         THEN /\ len' = (Size + inc) * PageSize
              /\ data' = [a \in 0 .. (Size + inc) * PageSize - 1 |->
                            IF a < len THEN data[a] ELSE Zero]
              /\ PushPages(AsI32(Size))
         ELSE UNCHANGED <<data, len>> /\ PushPages(-1)
  /\ UNCHANGED <<max, dropped>>

Traps ==
  CASE req.op \in {"load", "store"} -> ~SliceFits(req.base, req.offset, req.n)
    [] req.op = "fill" -> ~SliceFits(req.dst, 0, AsUsize(req.n))
    [] req.op = "copy" -> \/ ~SliceFits(req.src, 0, AsUsize(req.n))
                          \/ ~SliceFits(req.dst, 0, AsUsize(req.n))
    [] req.op = "init" -> ~InitFits(AsUsize(req.dst), AsUsize(req.src), AsUsize(req.n))
    [] OTHER -> FALSE

(* OutOfBoundsMemoryAccess.                                                *)
Trap ==
  /\ Traps
  /\ req' = None
  /\ outcome' = "trap" /\ pushed' = <<>>
  /\ UNCHANGED <<max, data, len, dropped>>

-----------------------------------------------------------------------------
Init ==
  /\ max \in Maxima
  /\ \E min \in 0 .. MaxPages :
       /\ max # NoMax => min <= max
       /\ len = min * PageSize
       /\ data = [a \in 0 .. min * PageSize - 1 |-> Zero]
  /\ dropped = FALSE
  /\ req = None
  /\ outcome = "done" /\ pushed = <<>>

Execute ==
  \/ Load \/ Store \/ Fill \/ Copy \/ InitMemory \/ DataDrop
  \/ MemorySize \/ Grow \/ Trap

Next == Pop \/ Execute

Spec == Init /\ [][Next]_vars

-----------------------------------------------------------------------------
(* Properties.                                                             *)

TypeOK ==
  /\ max \in 0 .. NoMax
  /\ \E p \in 0 .. MaxPages : len = p * PageSize /\ (max # NoMax => p <= max)
  /\ data \in [0 .. len - 1 -> Bytes]
  /\ dropped \in BOOLEAN
  /\ req \in Requests \cup {None}
  /\ outcome \in {"done", "trap", "pending"}
  /\ pushed \in {<<>>} \cup {<<v>> : v \in I32}

(* The bytes an instruction names, operands read as unsigned.              *)
Inside(from, n, limit) == from + n <= limit

InBounds(r) ==
  CASE r.op \in {"load", "store"} -> Inside(AsU32(r.base) + r.offset, r.n, len)
    [] r.op = "fill" -> Inside(AsU32(r.dst), AsU32(r.n), len)
    [] r.op = "copy" -> /\ Inside(AsU32(r.src), AsU32(r.n), len)
                        /\ Inside(AsU32(r.dst), AsU32(r.n), len)
    [] r.op = "init" -> /\ Inside(AsU32(r.src), AsU32(r.n), SegLen)
                        /\ Inside(AsU32(r.dst), AsU32(r.n), len)
    [] OTHER -> TRUE

Ends == req # None /\ req' = None

(* Nothing outside the memory is touched, whatever wraps around: an        *)
(* instruction completes only when every byte it names is there.           *)
DoneMeansInBounds == [][Ends /\ outcome' = "done" => InBounds(req)]_vars

(* The operands the code widens with their sign.                           *)
Widened(r) ==
  CASE r.op \in {"fill", "copy"} -> {r.n}
    [] r.op = "init" -> {r.n, r.src, r.dst}
    [] OTHER -> {}

(* Where no operand is 2^31 or more that the code widens with its sign, a  *)
(* trap means that some byte is not there: bounds are exact, to the last   *)
(* byte of a memory of 4 GiB.                                              *)
TrapMeansOutOfBoundsBelowHalf ==
  [][Ends /\ outcome' = "trap" /\ (\A x \in Widened(req) : x >= 0)
       => ~InBounds(req)]_vars

(* "out of bounds memory access" (runtime.rs:697): a trap means that some  *)
(* byte is not there.                                                      *)
TrapMeansOutOfBounds == [][Ends /\ outcome' = "trap" => ~InBounds(req)]_vars

(* Bulk instructions act on all bytes at once, also when source and        *)
(* destination overlap; a trap leaves no byte changed.  What memory.grow   *)
(* pushes tells what it did: the size before, when there are as many more  *)
(* pages of zeros behind the bytes as before, or -1 when nothing changed.  *)
From(r, k) ==
  CASE r.op = "copy" -> data[AsU32(r.src) + k]
    [] r.op = "init" -> Segment[AsU32(r.src) + k]
    [] OTHER -> r.byte

EffectAllAtOnce ==
  [][Ends =>
       /\ req.op \in {"fill", "copy", "init"} =>
            IF outcome' = "trap" THEN data' = data
            ELSE \A a \in 0 .. len - 1 :
                   data'[a] = IF a - AsU32(req.dst) \in 0 .. AsU32(req.n) - 1
                              THEN From(req, a - AsU32(req.dst)) ELSE data[a]
       /\ req.op = "size" => pushed' = <<Size>>
       /\ req.op = "grow" =>
            IF pushed' = <<-1>> THEN data' = data /\ len' = len
            ELSE /\ pushed' = <<Size>>
                 /\ len' = (Size + AsU32(req.n)) * PageSize
                 /\ \A a \in 0 .. len' - 1 :
                      data'[a] = IF a < len THEN data[a] ELSE Zero]_vars

=============================================================================
