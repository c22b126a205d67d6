SPECIFICATION FairSpec
CONSTANTS
  Table = {identifiers, srn}
  Locked = identifiers
  identifiers = identifiers
  srn = srn
  MaxWrite = 2
  Overlap = {TRUE}
CHECK_DEADLOCK FALSE
PROPERTIES CloseEnds
