CONSTANTS
  HeadLen = 3
  ChunkLen = 2
  Sector = 2
  Join = 4
  Keep = 8
  Half = 1000
  Image <- MCImage
  Layout <- MCLayout
  Size = 64
  NoData = NoData
  Lists <- MCLists
  Mbr = "mbr"
  Pieces = {8, 12, 14, 20, 30}
  MaxFaults = 1
SPECIFICATION CardSpec
CHECK_DEADLOCK FALSE
INVARIANT OkMeansBurned
