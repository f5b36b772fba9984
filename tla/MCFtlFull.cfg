CONSTANTS
  BlkCnt = 3
  PageCnt = 3
  LogicCnt = 2
  AgeCnt = 6
  SlotCnt = 1
  CacheCnt = 1
  Banks = 1
  Align = TRUE
  Written <- AnyPage
  OldAges <- FirstAges
  StackBlk <- NoStackBlk
SPECIFICATION FairSpec
PROPERTIES CallsEnd
