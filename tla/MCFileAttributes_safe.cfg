SPECIFICATION Spec
CONSTANTS
  Threads = {t1, t2}
  Names = {n1, n2}
  NameCut <- NamesKept
  Modes <- TwoModes
  Times = {0, 1999999}
  Sizes = {0, 1}
  Typeless = {n2}
  NoNode = NoNode
  NoThread = NoThread
  NoEntry = NoEntry
SYMMETRY Symmetric
INVARIANTS
  TypeOK
  StatReportsWhatWasMade
  EntryWhole
