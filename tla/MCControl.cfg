SPECIFICATION Spec
CONSTANTS
  Types <- MCTypes
  Imports <- MCEmpty
  Funcs <- MCFuncs
  Globals <- MCEmpty
  Tables <- MCEmpty
  Elems <- MCEmpty
  Memories = 0
  Datas = 0
  Declared <- MCNone
  Instrs <- MCInstrs
  MaxBody = 7
  MaxDepth = 2
INVARIANTS
  TypeOK
  HeightsNested
  DecoderAgrees
  NoPanic
  OperandsMatchValidation
  LabelsMirrorCtrls
  ResultsMatchType
