CONSTANTS
  Modules <- LimitModules
  HostItems <- HostLimits
  Names = {"E"}
  MaxHandles = 4
  MaxItems <- LimitItems
  MaxTableLen = 3
  MaxPages = 3
SPECIFICATION Spec
INVARIANTS
  ImportsStayWithinLimits
  NamesResolve
