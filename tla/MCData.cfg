CONSTANTS
  Half = 4
  Usize = 64
  PageSize = 4
  MaxPages = 2
  Bytes = {0, 1}
  Zero = 0
  Widths = {2}
  Segment <- MCSegment
  Maxima = {1, 3}
  Tables = {1, 2}
  Func = Func
  Null = Null
  Refs = {Func, Null}
  TableTypes <- MCTableTypes
  MaxTableLen = 3
  ElemRefs <- MCElemRefs
  ElemLen = 2
  Operands <- MCOperands
  BitsI32 = 4
  BitsI64 = 8
  BitsF32 = 3
  BitsF64 = 6
  NaN = NaN
  NumOperands <- MCNumOperands
  Floats <- MCFloats
SPECIFICATION MCSpec
INVARIANTS
  TypeOK
  TablesTypeOK
  IntegerOpsExact
  CastsExact
  TruncationsExact
PROPERTIES
  DoneMeansInBounds
  TrapMeansOutOfBoundsBelowHalf
  EffectAllAtOnce
  TableBoundsExact
  TableEffectAllAtOnce
