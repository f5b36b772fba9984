CONSTANTS
  Version = {"half", "two"}
  NoVersion = "none"
  Len <- MixedLen
  BlkCnt = 5
  PageCnt = 2
  MaxWorn = 1
  LostMarks = FALSE
  TornBad = FALSE
  MaxCuts = 0
SPECIFICATION Spec
INVARIANTS WrittenCopyLoads
