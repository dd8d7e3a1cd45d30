# wasmrs in TLA+

wasmrs decodes, validates, links and interprets WebAssembly modules. These
modules specify the parts of it that carry state or have to agree with one
another; TLC checks them on small instances and TLAPS proves what is said
below for every instance. Paths are relative to the repository (`src/validation.rs`
is `src/src/validation.rs` in `PROJECT.json`, which names the lines of every
definition).

The program is single-threaded: a `Runtime` is used through `&mut`. There is no
concurrency to interleave. What is hard is of another kind:

* several passes compute the same facts independently and trust each other
  with `expect("guaranteed by validation")`: the decoder nests blocks, the
  validator nests them again, the interpreter finds their ends by scanning;
* all calls share one value stack, and heights recorded in labels and frames
  are the only thing that keeps the operands of one call apart from another's;
* an instantiation may fail in every phase, after it has changed a store that
  other modules use;
* addresses, lengths and numbers are computed in 32 and 64 bits, signed and
  unsigned, next to the limits of those widths;
* a binary says most things twice (counts and sizes, nesting and ends), and
  readers for its parts move the readers they are made from.

## Inventory

| Component | State | Operations | Correct when |
|---|---|---|---|
| **Function-body decoder** `binary/sections/code.rs`, `instructions.rs` | stack of open blocks | `CodeEntry::decode`, one instruction after another | every `else` and `end` has its opening; bodies end exactly once |
| **Body validator** `validation.rs` (`Validator`, `validate_code`) | operand types `vals`, control frames `ctrls` | one rule per instruction; `push/pop_val`, `push/pop_ctrl`, `unreachable` | it never trips over its own stacks, and what it accepts cannot make the interpreter panic |
| **Interpreter** `runtime/executor.rs`, `runtime/stack.rs` | `value_stack`, `call_stack` of frames with labels, `pc` | `execute`: block, loop, if, else, end, br*, return, call, call_indirect, locals, numeric, memory, table; `invoke` | operands and labels are those validation computed; calls do not see each other's operands; results have the declared types; recursion ends |
| **Linear memory** `runtime/store.rs` (`MemoryInstance`), memory instructions | `data`, limits | `slice`, `slice_mut`, `init`, `grow`, `size`; loads, stores, bulk instructions | bounds are exact, nothing is written by a trap, overlapping copies act at once |
| **Store and linker** `runtime.rs`, `runtime/store.rs`, `runtime/instance.rs`, import matching in `binary/types.rs` | functions, tables, memories, globals, segments; `ModuleRegistry`: names, handles, instances | `load_module`, `instantiate_module` (twelve phases), `register_module`, `register_host_*` | a failed load leaves no dangling reference; limits hold for every importer; names resolve; segments keep their indices |
| **Section validator** `validation.rs` (`validate_module` up to the bodies) | none | one check per section, `validate_const_expr` | constant expressions evaluate at the phase that needs them |
| **Module decoder** `binary/module.rs`, `binary/sections.rs` | `sections`, the decoded `Module` | `read_toc`, `decode_bytes`, the decoders of the sections | what is accepted is consistent across sections; every well-formed module is accepted |
| **LEB128 and reader** `binary/reader.rs`, `binary/reader/leb128.rs` | position in a range | `read`, `peek`, `read_u32` and its siblings, `scoped`, `ensure` | numbers of each width are decoded exactly or refused; scopes stay within scopes |
| **Entry decoders, types, instruction decoder** `binary/sections/*.rs`, `binary/types.rs`, `instructions.rs` | readers, open blocks of a body | one `from_reader` or `decode` per part of an entry | a section is accepted with exactly the entries it declares and no byte left; the flags of a segment select the standard's forms |
| **Tables** `runtime/store.rs` (`TableInstance`, `ElemInstance`), table instructions | `refs`, limits, dropped segments | `get`, `set`, `fill`, `copy`, `init`, `drop`, `grow`, `size` | bounds are exact, copies within and between tables act at once, growth keeps every limit |
| **Numeric instructions** `runtime/executor.rs` | none | arithmetic, shifts, comparison, conversion | exact at the edges of every type, an error where there is no result |
| **Errors, command line, tests, fuzzing, tools** | none | | |

How they interact: `load_module` runs the decoder, then the validator, then the
linker, in one thread and without interleaving. The linker runs the interpreter
for a start function, and the interpreter changes the store the linker reads
on the next load. `invoke` runs the interpreter. Host functions are called by
the interpreter and return values it does not check.

`PROJECT.json` lists under `hazards` each place where this can go wrong, the
properties that would notice, and for the uncovered ones the reason.

## Modules

```
Wasm ── Validator ── Executor ── CallRefinement ── (INSTANCE) CallMachine
            │            │                 │
            └────── ExecutorProofs ─ TypingProofs ─ SoundnessProofs
Linker ── LinkerProofs
Sections ── SectionsProofs        Numerics ── NumericsProofs
MachineInts ── LinearMemory ─┬ DataProofs
            └─ Tables ───────┘
Leb128 ── Entries ── Decoder ── DecoderRefinement ── (INSTANCE) SectionReader
                                       └─ DecoderProofs
```

**Wasm** — types, index spaces and instructions of one module. One `op` stands
for all the opcodes that validation and execution treat alike: `binop` at type
`t` is every `t.add`, `t.sub`, ... .

**Validator** — loading of the bodies. `nest` is the decoder's stack of open
blocks (`CodeEntry::decode`), `vals` and `ctrls` are the validator's stacks.
The program runs the two passes one after the other; they share only the
instructions, so one action here does one instruction of both. There is one
action per rule that changes the stacks in its own way, and `Operator` for the
rules that pop and push fixed types (`Ins`, `Outs`). `CanPop`/`AfterPop` are
`pop_val` and `pop_val_expect` including the polymorphic stack after an
unconditional branch. `Reject` is every error of either pass. `trace` and
`typing` are history variables: the stacks before each instruction, which the
interpreter's properties compare with.

**Executor** — `ExecutionContext::execute`, one action per kind of iteration
of its loop. `frames` is `call_stack`, `vstack` is `value_stack`. A value is
its type, and all that depends on a number (the condition of an `if`, the operand of
`br_table`, the element of `call_indirect`, whether a division traps) is a
nondeterministic choice; so the runs cover every outcome of every condition.
`Safe` collects every `expect`, `assert`, `unwrap` and out-of-range index the
code would panic on; an action takes place only when it holds, and `NoPanic` says
that it always does. `pc` here is the program's plus one. A host function may fail at any call
(`HostFails`, `InvokedHostFails`): the interpreter unwraps its error, which ends
the run as `panicked`. `NoPanic` is about the other panics, which no input may
cause.

**CallMachine** — the promise of calls: each activation has operands of its
own, a call takes arguments from its caller and hands it the results.
**CallRefinement** maps the interpreter to it: the operands of a frame are the part of the
value stack between its arguments and the next frame's `sp`.

**Linker** — a store, a registry, and a load under way. The action of each
phase is named after it (`LinkImports`, `AllocFuncs`, ..., `AddInstance`,
`InitElem`, `InitData`, `Instantiated`) with one action per way to fail
(`Unlinkable`, `SegmentTrap`, `StartTrap`, `Refuse`). `ModuleValid` is
`validate_module` without bodies. `RegisterHost` and `RegisterName` are the
embedder's calls; `TableSet`, `TableGrow`, `MemoryGrow`, `GlobalSet`,
`SegmentDrop` are what code may do to the store, between two loads or inside a
start function. Any function of a registered instance may run, also of one
whose instantiation trapped, as its functions may be in a shared table.
Memories are sizes in pages and a data segment's length is in pages too. The
offset of an active segment is cast to `usize`, so that a negative one is past any
end (`Within`); modules with negative offsets are in both runs. The items of a
declarative segment are never evaluated.

**Sections** — `read_toc` and `decode_bytes`. A section is its id, whether its
size fits in the file, the count it declares and the entries that are there.

**LinearMemory** — one memory and its instructions, with the width of the
integers as constants: an `i32` is in `-Half .. Half-1`, a `usize` below
`Usize`. `AsU32` and `AsUsize` are the casts `as u32` (reinterprets) and `as
usize` of a signed number (extends the sign), which the code uses side by side.
The bytes of a stored value are one byte repeated; byte order and the value that a
load pushes are not modelled. What `memory.size` and `memory.grow` push is kept in
`pushed`.
**MachineInts** has the widths and casts that it shares with Tables; `AsI32` is the
cast `as i32` of a size that is pushed.

**Tables** — the tables of an instance and one element segment. `Fits` is the
test of `TableInstance::slice`, `slice_mut` and `init`, on operands that have been
widened with their sign. Two tables, as `table.copy` looks at one and writes the
other.

**Numerics** — what an instruction pushes or raises, with the operations of
Rust's integers written as arithmetic on integers: `DivS` is the `checked_div`
with its test for zero, `Shift` the cast of a count to `u32` and its reduction, `Trunc` the
macro `trunc!` with its limits computed in floats (`Rounded` is the cast of an
integer to a float, to nearest and to even).

**Leb128, Entries, Decoder** — one section, read byte by byte. *Leb128* is one
step of the loops of `leb128.rs`. *Entries* is the binary format as a grammar:
what each `from_reader` and `decode` reads, in order, and which values it
refuses. *Decoder* is the state of decoding: the stack of readers, the symbols
still to be read (the calls under way), the number under way, the open blocks
of a body. A byte is chosen when it is read. **SectionReader** is what
`decode_section` promises, a count and then as many entries that fill the section;
**DecoderRefinement** maps the decoder to it.

**MCData** puts memory, tables and numbers side by side: one behaviour is
about one of them.

Definitions marked *Fault* in a comment are plausible mistakes. Nothing uses
them: a property is worth its run when it fails once such a definition takes
the place of the one after it, and `PROJECT.json` lists which under `mutants`.

## Runs

| Run | Module | Bounds | Shows |
|---|---|---|---|
| `control` | MCControl | bodies of up to 7 instructions, call depth 2 | The decoder and the validator nest alike, heights are nested, and every accepted body runs without a panic, with operands and labels as validated, through blocks, loops, ifs, branches and dead code |
| `calls` | MCCalls | bodies of up to 5, two functions and a host function, depth 2 | The shared value stack implements separate operand stacks (`ImplementsCallMachine`), also when a host function fails in the middle |
| `operators` | MCOperators | bodies of up to 5 over one instruction of each family, and calls | The typing rule of each family agrees with what the interpreter pops, pushes and indexes; without a loop an invocation ends (`LoopFreeCallsEnd`) |
| `segments` | MCLinker | 4 handles, 3 functions, one table | Partial instantiation leaves nothing dangling; active and declarative segments end dropped and keep their indices; constant expressions evaluate |
| `limits` | MCLinker | 4 handles, 2 tables, 2 memories, lengths up to 3 | Limits hold for every importer while exporters grow; names resolve through failed loads and host registrations |
| `host_name` | MCLinker | 3 handles | *violation*, finding 4 |
| `sections` | MCSections | files of up to 4 sections from 14 | Accepted files are consistent, well-formed ones accepted, nothing is replaced |
| `section_order` | MCSections | same | *violation*, finding 1 |
| `section_size` | MCSections | same | *violation*, finding 2 |
| `decoder` | MCDecoder | sections of up to 9 bytes of every kind, numbers of 11 and 15 bits | Numbers are exact at the edges of their width, readers stay within each other, segment flags select the standard's forms, functions take their declared size, and the decoder implements SectionReader |
| `data` | MCData | 3-bit addresses, memory of 0 to 8 bytes, all operands; tables of up to 5; numbers of 4 and 8 bits | Exact bounds, instructions that act all at once, limits on growth and what `memory.grow` and `table.grow` push; integer instructions, casts and truncations are exact |
| `large_memory` | MCLinearMemory | the memory of `data` | *violation*, finding 3 |

### Bounds

* `MaxBody` bounds the instructions of a body, and every body over the run's
  `Instrs` up to it is explored. Seven instructions are enough for an `if` with
  both arms inside a loop, or for two nested blocks with a branch across both and
  operands below; five for a call with arguments and results above an operand
  of the caller. The instruction sets are split by question because their
  product is what grows.
* `MaxDepth` stands for `MAX_STACK_DEPTH`. Two or three frames are enough for a
  callee under a caller and for the trap at the limit.
* `MaxHandles` and `MaxItems` bound the loads: with four handles an exporter,
  an importer, a failed load and a further module coexist. `MaxTableLen`
  and `MaxPages` are the code's limits scaled to 3, with room to grow past what an import
  asks for. They bound a guard in `Reserve` and `RegisterHost` and nothing else.
* `Half = 4`, `Usize = 64`, a page of 4 bytes: small enough to enumerate
  *every* operand, and with the same order of magnitudes as the real ones (an
  address plus an offset exceeds 32 bits and not 64; the largest memory is
  exactly what 32 bits address; from `Half` on an `i32` is negative). These
  ratios are the assumption `WidthAssumption`, under which the theorems hold
  for the real numbers too.
* Tables have the same integers, `MaxTableLen = 3` below `Half` as 10,000,000 is
  below 2^31, and one that is declared with five elements, past `Half`, because
  a minimum is not compared with that limit. `Operands` has the numbers around
  zero and the smallest one.
* `BitsI32 = 4` and `BitsI64 = 8` with significands of 3 and 6 bits: as with 24, 32,
  53 and 64, the smaller float type holds neither all `i32` nor all `i64`, the
  larger all `i32` and not all `i64`. Every `i32` is tried, the `i64` around the limits
  of types and counts, and every float from a quarter to past the largest
  integer of 64 bits.
* Numbers of 11 and 15 bits in the decoder leave four bits and one bit to the last byte, as
  32 and 64 do, and take up to two and three bytes. A section's bytes are
  given place by place, as the values that the code which may read them tells apart; counts
  and sizes are right, too small and too large.
* `MaxSections = 4`: the order check looks at two neighbours, the consistency
  checks at pairs (function/code, data count/data, data count/code), each with a custom
  section in between.

### Fairness and deadlock

`execute` is a loop that runs until it returns, so `operators` assumes weak fairness of the
interpreter's steps while it is running, and nothing of the embedder: nobody has to invoke. `decode_bytes`
runs to its return likewise: weak fairness of `Next` in Sections. The
other runs check safety and assume none. All runs check deadlock except those
of Sections, where decoding ends with an accepted or a rejected file; the
decoder's run lets a section that has been decoded or refused stay as it is
(`Left`), so that a deadlock anywhere else would be reported.

## Findings

1. **Section order** (`binary/module.rs:251`). A section is compared with the
   one just before it only, and not when that one is custom: `Import, Custom,
   Type` is accepted although the error says "section out of order".
2. **Section size** (`binary/sections/data_count.rs:15`, `start.rs`). The
   decoders of the start and the data count section read one number and ignore
   what follows in the section.
3. **Sign extension** (`runtime/executor.rs:1097` and its siblings,
   `runtime.rs:313`). Lengths and addresses of bulk instructions and the offsets
   of active data segments are cast from `i32` to `usize` with their sign: from
   2^31 on they trap although a memory of 4 GiB has the bytes. Loads and stores cast
   through `u32` and are exact.
4. **Host module names** (`runtime/instance.rs:117`). `register_host_*` returns
   a `Result` but panics when the name is one of a loaded module; the message
   says that the name maps to no module.

Noted while modelling, without a run: the comment on `validate_const_expr` (`validation.rs:961`)
lets a global initialiser read globals defined before it, the code accepts
imported ones only (as the test at line 2874 expects); a table's minimum is not
compared with `MAX_WASM_TABLE_LEN`, which `table.grow` respects, so a table may be
declared with elements past 2^31 that every instruction traps on, and
`table.grow` by 0 fails on any longer than that limit; an error of a
host function is unwrapped (`executor.rs:416`, marked as a TODO at line 397); a `v128` local passes
validation and panics when its function is called; the type index of a block is
read as a number of 64 bits (`binary/types.rs:216`), so encodings longer than a
33-bit number may have are accepted; the limit on locals does not count
parameters (a TODO at `binary/sections/code.rs:44`).

## Proofs

TLAPS checks these for every value of the constants that satisfies the named
assumptions. The properties they state were model-checked first.

| Theorem | Module | Says |
|---|---|---|
| `LoadInvariant` | ExecutorProofs | loading keeps `IInv` |
| `SpecLoads` | ExecutorProofs | the machine's loading phase is a behaviour of the validator |
| `HeightsAlwaysNested`, `DecoderAlwaysAgrees` | ExecutorProofs | `HeightsNested`, `DecoderAgrees` |
| `StateAlwaysTyped` | ExecutorProofs | `TypeOK` of validator and interpreter |
| `AcceptedBodiesTyped` | TypingProofs | what validation leaves of an accepted body is a typing of it |
| `CallsAlwaysSound` | SoundnessProofs | execution keeps `RInv` |
| `NeverPanics` | SoundnessProofs | `NoPanic` |
| `OperandsAlwaysMatch` | SoundnessProofs | `OperandsMatchValidation` |
| `LabelsAlwaysMirror` | SoundnessProofs | `LabelsMirrorCtrls` |
| `ResultsAlwaysMatch` | SoundnessProofs | `ResultsMatchType` |
| `CallsImplemented` | SoundnessProofs | `ImplementsCallMachine` |
| `LinkingSound` | LinkerProofs | loading, linking and running keep `LInv` |
| `StoreStaysTyped` | LinkerProofs | `TypeOK` of the store and the registry |
| `CalleesRegistered` | LinkerProofs | `FuncsHaveInstances` |
| `LimitsKeepHolding` | LinkerProofs | `ImportsStayWithinLimits` |
| `RegistryConsistent` | LinkerProofs | `NamesResolve` |
| `SegmentsStayAligned` | LinkerProofs | `SegmentsAligned` |
| `SegmentsStayDropped` | LinkerProofs | `ActiveSegmentsDropped` |
| `ConstantsNeverFail` | LinkerProofs | `ConstantsEvaluate` |
| `SectionInvariant`, `DecodingAlwaysTyped` | SectionsProofs | decoding keeps `SInv`, and its types |
| `NothingEverReplaced` | SectionsProofs | `NothingReplaced` |
| `AcceptedAlwaysConsistent` | SectionsProofs | `AcceptedIsConsistent` |
| `MemoryAlwaysTyped` | DataProofs | `TypeOK` of a memory |
| `DoneAlwaysInBounds` | DataProofs | `DoneMeansInBounds` |
| `TrapsExactBelowHalf` | DataProofs | `TrapMeansOutOfBoundsBelowHalf` |
| `EffectAlwaysAllAtOnce` | DataProofs | `EffectAllAtOnce` |
| `TablesAlwaysTyped` | DataProofs | `TablesTypeOK` |
| `TableBoundsAlwaysExact` | DataProofs | `TableBoundsExact` |
| `TableEffectAlwaysAllAtOnce` | DataProofs | `TableEffectAllAtOnce` |
| `IntegersAreExact` | NumericsProofs | `IntegerOpsExact` |
| `CastsAreExact` | NumericsProofs | `CastsExact` |
| `TruncationsAreExact` | NumericsProofs | `TruncationsExact` |
| `DecoderInvariant`, `TypesKept` | DecoderProofs | decoding a section keeps `DInv`, and its types |
| `NoByteReadTwice` | DecoderProofs | `ReadersNested` |
| `FlagsSelectForms` | DecoderProofs | `SegmentForms` |
| `NumbersAreExact` | DecoderProofs | `NumbersExact` |
| `FunctionsAreExact` | DecoderProofs | `CodeEntriesExact` |
| `DecoderImplements` | DecoderProofs | `ImplementsSectionReader` |

*Validator.* `IInv` is `LoadTypeOK /\ HeightsNested /\ DecoderAgrees`, and the three
need each other: a pop stays above the innermost height only because
heights are nested, `ctrls` has a frame to pop only because the decoder's stack has one
(`DecoderAgrees`), and the typing of what is pushed needs typed frames.
One lemma per action (`BeginFunctionStep`, `ElseStep`, ...), resting on
what each does to the stacks (`OpenBlock`, `PopThenPush`, `SameBlocks`, ...).

*Interpreter.* A step of the whole machine is one of the validator or leaves
its variables alone (`LoadOrStutter`), so what is proved of loading carries
over. `StateAlwaysTyped` goes by `XInv`: the guard `Safe` is what bounds every
`SubSeq` of the stack, and an address found by scanning (`EndOfTyped`) is one
of the body. The assumptions are `ModuleAssumption` (indices that decoding has
checked), `MaxBodyAssumption` and `MaxDepthAssumption`.

*Soundness.* That an accepted body cannot make the interpreter panic is proved
in two modules. TypingProofs is about histories. `typing` holds the validator's stacks before every
instruction of a body; `Hist` says that each of them follows from the one before it by
its instruction's rule, `HInv` that all bodies have such histories, and the loading
steps keep it. What the validator never looks at has to be got out of that history by
induction along it: what a block finds below its height is what it leaves there,
and the end the interpreter finds by counting openings (`EndOf`) is the one
the validator closed that frame at. `Arrived` says of an execution that it is at
a point with that point's operands and labels, and there is one lemma for each rule
that an execution which has arrived arrives at the next point too, also when it branches,
skips an arm or leaves a block.
SoundnessProofs is about calls. `RInv` is `HInv /\ XInv /\ CInv`: every call, the one
that runs and those that wait (`Waits`), has arrived at a point of its body, with
what is on the stack between its base and the next call's; a waiting one will have
arrived when the results of its callee replace the arguments. It has to be about all calls at once,
because a return is safe only when the caller was left in order. Then
every iteration of `execute` is one of three moves (`IterationMoves`): within the call
(`LocalStep`), into a call (`CallStep`), out of one (`LeaveMove`). The moves preserve `RInv`, `Safe`
follows at each point, and under the mapping of CallRefinement (`ActsOf`) the same
three are a step of the call machine's three actions, so the refinement comes
from the same case analysis. Before `Hist` was written down TLC checked its
parts as invariants of the runs.

*Linking.* A predicate about items has the store as a parameter, so what any step may do is
one relation between two stores (`Effects`): items stay, keep their types and maxima, do
not shrink, and get only references that were there or are good. A reference is good when
the function's module is registered, or is the load under way once its instance is about to
be. That everything good stays good under `Effects` is proved once
(`EntryStays`, `BuiltStays`); each phase and each instruction is shown to have such effects.
`LInv` has six parts: the store's items have their types (`StoreOK`); names and
handles lead into the registry, which is below `nextHandle` (`RegistryOK`); what a
registered module holds and exports is good, imports are within their
declared limits and segments aligned (`EntriesOK`); a module whose handle was given out
has its segments dropped (`HandlesOK`); the load has a module that validation has
accepted, and a handle that is registered exactly in its last phases (`LoadOK`); and the instance being
built is good and has as many items as the phases so far give it
(`InstOK`). None of them can be left out: that constant expressions evaluate needs the sizes of
the instance in each phase; that no reference dangles after a trap needs that
segments are written only once the instance is registered; and that a linked item is good needs the
exports of every module, host modules included. The assumptions are `ModulesAssumption` (the shape that decoding
gives a module: lists, limits that are numbers, no constant that is a function) and
`HostAssumption`. `LInv` was checked by TLC on `segments` and `limits` before it was proved.

*Sections.* `SInv` adds to the types what `decode_bytes` relies on when its last checks
run: what has been read is the file as it is, known sections come once, and
`module` holds the place of exactly the sections decoded. Then a section of an accepted file is
the one the checks have looked at (`AllDecoded`), and the other way round
(`DecodedIsThere`). The assumptions are `FileAssumption` and `BoundAssumption`.

*Memory.* `TypeOK` is inductive. It bounds the length by what a `u32`
addresses (`PagesFit`), and with that the casts decide: a sum computed in either
width is out of bounds if it wraps, a negative operand widened to a `usize` is
longer than any memory, and one that is not negative is the same number in
every width (`Casts`, and `IntegerCasts` for tables). The assumptions are `IntAssumption` and `WidthAssumption`,
which the real widths satisfy, with `BytesAssumption` (a data segment is shorter
than 2^31 bytes) and `MaximaAssumption` (a maximum is within the limit, as
validation ensures).

*Tables.* `TablesTypeOK` is inductive; it says of a length that it is within
the limit of the implementation or what was declared. So a table that was not declared with
2^31 elements never has as many (`LengthBelowHalf`), and a negative operand is
out of bounds read either way. The assumptions are `IntAssumption` and `TableAssumption`.

*Numbers.* An answer is the value of the instruction under way (`AnswersBelong`), so the
theorems are about operators, and what they need is arithmetic on powers of two
whose exponent is any width. The prover does not compute with those, but a power is the number of
subsets of a set (`PowerPositive`, `PowerDoubles`), and induction over a set of numbers
(`AllNumbers`) gives sums of exponents and growth. A bit of a number is then
the parity of its quotient by a power of two, for negative numbers too: casts, shifts and rotations are
lemmas on where quotients have their bits (`BitOfLeftShift`, `BitOfRightShift`,
`BitOfRotation`, `BitAbove`), and numbers that differ by a multiple of 2^w have the same ones (`SameBits`).
Division without a sign is division of larger numbers that fit again
(`UnsignedDivision`). The limits of a float conversion are the hard part: in a float that holds
the type's largest integer they are that integer and one more, and in one that does not, both
are rounded to the power of two above (`RoundedLimit`); either way what is let
through is exactly what has an integer of the type (`LimitsExact`, `TruncExact`). The assumptions are
`NumericAssumption` (how the widths of i32, i64, f32 and f64 compare, and that both integer widths divide 2^32,
which a cast of a shift count to `u32` relies on) and `OperandAssumption` (operands are numbers of their type).

*Decoder.* That the readers stay within each other depends on which calls are under
way: a scope is left where its `close` is next, and nothing else says that a scope
is open at all. So the heart of `DInv` is `Shaped`, which says what `todo` can be: the count of the
section, the rest of it (`Remaining`), or in front of that an opening that still selects the form of an
entry, or items of the entry that name nothing outside of it (`InnerItems`);
and for a function those items, `body` and the `close` of its own reader, in which case
there are three readers and otherwise two. `Shaped` is proved a property of the
grammar alone: replacing one inner item by what it reads (`InnerReplaced`), or an opening by the
form its flag selects (`EntryOpened`, `FunctionOpened`), gives
a sequence of the same shape, which needs that the parts of an entry, the arguments of an instruction and
the forms of a segment are inner items, one lemma each. With `ReadersFit` it makes every `Front` and `Scoped`
of the readers safe (`AdvancedNested`, `ScopedNested`, `FrontNested`), and
`Ensured`, the check of a function's size against what is left, is what `ScopedNested` needs.
`NumberUnderWay` and `EntryStarted` tie the positions to the bytes read, `FormPending` is `SegmentForms`
with the flag known to be valid.

The refinement reads the number of entries left and the bytes taken off the shape
(`MeasureCases`): they are those of `Remaining`, and `Within` an entry those of the entry's start.
`Progress` says what a step may do to the two; there is one lemma per action that it does no
more (`DescendProgress`, ..., `ValueProgress`), and `StepRefines` turns each of its cases into a step of
SectionReader. That an entry takes at least a byte is the part that is not local: an entry opens with
a symbol that is read (`ReadItems`), and ends only after (`FirstOfEntry`). The assumptions are
`InputAssumption` and the widths of Leb128.

That numbers are exact needs `NumbersInv` besides: while a number is under way, what `number` holds is the
value of the bytes read for it, below the power of two they can make; the fields of the entry
are as exact as when they were read (`FieldsKept`); and the bytes of a refused number encode none
(`RefusedExact`). What each byte does to the value is arithmetic on powers of two
(`EarlyEnd`, `FullEnd`, `LastByteExact`, `TooLong`): a power is the number of subsets of a
set, which gives doubling and growth, and a sum along a sequence is what one more term makes it
(`SumLonger`), by the smallest length at which two sums would differ (`AllNumbers`). The assumption on
the widths, `WidthAssumption`, is that neither is a multiple of 7 and the greater is above 7, as 32 and 64 are.

That a function is exact when its decoding is over (`CodeEntriesExact`) says nothing of how it got there, so
`FunctionsInv` follows it through its own reader (`FunctionOpen`): the reader ends where the size says; there are
as many frames as the fields read so far leave blocks open; as long as there is one, `body` is among the
calls under way, and when there is none its last field is an `end` and its reader is closed next; and
either the locals are within the limit and nothing that is still to be read declares any, or
the check comes after all that does (`LimitAhead`). The counts over the fields change by
at most one with each (`OpcodewiseLonger`, `LocalsLonger`), which the frames match
(`FramesCounted`). At the reader's close neither `body` nor the check can still be under way (`EndWithout`).

Every invariant and every action property that a passing run checks is proved, and both
refinements. Only model-checked is liveness, as TLAPS does not reason about `ENABLED` and
fairness: every well-formed file is accepted (`WellFormedAccepted`), an invocation without
loops ends (`LoopFreeCallsEnd`).

## Not modelled

* Floating-point arithmetic: TLC has no floats. Floats occur as what is
  converted to integers. The bitwise and bit-counting instructions are one
  operation of Rust each.
* The opcode table: the decoder has one opcode for each form of immediates. Names
  are letters; UTF-8 is one test of the standard library.
* The contents of custom sections.
* `v128` values: the decoder has no instruction that makes one.
* What a host function does: it is taken to return values of its declared type.
  A global or table the host registers is taken to have a value of its type, and a
  reference among them to be one that the host can have been given (`HostValues`); its limits are taken to be ones the
  standard calls valid (`HostAssumption`). The program checks none of these, and no
  property says what it does with others. That an error of a host function makes the interpreter panic is
  modelled (`HostFails`), but no property forbids it.
* `invoke` with arguments that are not of the parameters' types.
* Memory consumption: the depth limit counts frames, not bytes.
* Error types, the command line, tests and tools.

## Plan

Done, in this order: the core (validator and interpreter, what one promises and the
other needs), the abstract call machine, the linker, sections, memory, and their
theorems; then host functions that fail, the decoder of sections with numbers
and entries and its abstract reader, tables with their theorems, and numeric instructions;
then type soundness of the interpreter, the refinement of the call machine, and
the linker's theorems; then the decoder's invariant, its refinement of SectionReader, its numbers
and its functions; and the numeric instructions for all widths.

What could follow: the parts above that are not modelled. In `PROJECT.json` these are hazards
without a property: arguments that `invoke` does not check, the default value of a
`v128` local, the memory that deep recursion takes, results of a host function and values of
a host global of another type than declared, and the panic when a host function fails.
