CONSTANTS
  FileSections <- MCFileSections
  MaxSections = 4
SPECIFICATION Spec
CHECK_DEADLOCK FALSE
INVARIANT AcceptedInOrder
