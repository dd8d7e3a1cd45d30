CONSTANTS
  Half = 4
  Usize = 64
  PageSize = 4
  MaxPages = 2
  Bytes = {0, 1}
  Zero = 0
  Widths = {2}
  Segment <- MCSegment
  Maxima = {1, 3}
SPECIFICATION Spec
PROPERTY TrapMeansOutOfBounds
