CONSTANTS
  Bits32 = 11
  Bits64 = 15
  Inputs <- MCInputs
  MaxLocals = 3
SPECIFICATION MCSpec
INVARIANTS
  TypeOK
  ReadersNested
  NumbersExact
  SegmentForms
  CodeEntriesExact
PROPERTY ImplementsSectionReader
