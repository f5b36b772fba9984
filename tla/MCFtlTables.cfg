CONSTANTS
  BlkCnt = 5
  PageCnt = 3
  LogicCnt = 2
  AgeCnt = 6
  SlotCnt = 2
  CacheCnt = 1
  Banks = 1
  Align = TRUE
  Written <- TwoAndOne
  OldAges <- FirstAges
  StackBlk <- NoStackBlk
SPECIFICATION Spec
INVARIANTS MapsTrue CleanTablesCurrent ReadsLatest OneRole CallsSucceed ControlFresh
