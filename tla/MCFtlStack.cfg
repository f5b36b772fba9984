CONSTANTS
  BlkCnt = 3
  PageCnt = 3
  LogicCnt = 1
  AgeCnt = 6
  SlotCnt = 1
  CacheCnt = 1
  Banks = 1
  Align = TRUE
  Written <- AnyPage
  OldAges <- AnyAge
  StackBlk <- SomeStackBlk
SPECIFICATION Spec
PROPERTIES ScanSparesTables
