CONSTANTS
  Modules <- SegmentModules
  HostItems <- HostFunction
  Names = {"E"}
  MaxHandles = 4
  MaxItems <- SegmentItems
  MaxTableLen = 3
  MaxPages = 3
SPECIFICATION Spec
INVARIANTS
  TypeOK
  FuncsHaveInstances
  SegmentsAligned
  ActiveSegmentsDropped
  ConstantsEvaluate
