CONSTANTS
  Modules <- SegmentModules
  HostItems <- HostFunction
  Names = {"E"}
  MaxHandles = 3
  MaxItems <- SegmentItems
  MaxTableLen = 3
  MaxPages = 3
SPECIFICATION Spec
INVARIANT PanicMeansNoModule
