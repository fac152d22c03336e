SPECIFICATION Spec
CONSTANTS
  h1 = h1
  h2 = h2
  Handles = {h1, h2}
  FlagSets <- FlagsOfBoth
  Line = 2
  MaxRead = 2
  MaxWrite = 4
  W = 5
  MaxSize = 4
  Transfers <- TransfersOfBoth
  Seeks <- SeeksOfBoth
  Lengths <- LengthsOfBoth
INVARIANTS
  TypeOK
  RequestsFit
  OffsetInSync
  AppendOffsetCurrent
PROPERTIES
  RefinesCursor
  CallsReturn
