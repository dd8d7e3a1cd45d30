SPECIFICATION FairSpec
CONSTANTS
  Types <- MCTypes
  Imports <- MCEmpty
  Funcs <- MCFuncs
  Globals <- MCGlobals
  Tables <- MCTables
  Elems <- MCElems
  Memories = 1
  Datas = 1
  Declared <- MCDeclared
  Instrs <- MCInstrs
  MaxBody = 5
  MaxDepth = 2
INVARIANTS
  NoPanic
  OperandsMatchValidation
PROPERTY LoopFreeCallsEnd
