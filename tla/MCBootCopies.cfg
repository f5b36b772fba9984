CONSTANTS
  Version = {"half", "one", "two"}
  NoVersion = "none"
  Len <- MixedLen
  BlkCnt = 4
  PageCnt = 2
  MaxWorn = 1
  LostMarks = FALSE
  TornBad = TRUE
  MaxCuts = 2
CONSTRAINT SmallIfHurt
SPECIFICATION Spec
INVARIANTS TypeOK DamageBounded
PROPERTIES ImplementsUpdate
