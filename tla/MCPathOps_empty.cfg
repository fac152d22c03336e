SPECIFICATION Spec
CONSTANTS
  Names = {"vol", "a"}
  Paths <- ShortPaths
  MountPath <- MountVol
  CompMax = 5
  MaxPath = 5
  IsSDCard = TRUE
INVARIANTS
  NoEmptyPathSent
