SPECIFICATION Spec
CONSTANTS
  Types <- MCTypes
  Imports <- MCImports
  Funcs <- MCFuncs
  Globals <- MCEmpty
  Tables <- MCTables
  Elems <- MCEmpty
  Memories = 0
  Datas = 0
  Declared <- MCNone
  Instrs <- MCInstrs
  MaxBody = 5
  MaxDepth = 2
INVARIANTS
  NoPanic
  OperandsMatchValidation
PROPERTY ImplementsCallMachine
