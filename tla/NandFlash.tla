------------------------------ MODULE NandFlash ------------------------------
(***************************************************************************)
(* The super blocks of one zone of the NAND flash as the logic layer sees  *)
(* them through LML_VirtualPageRead, LML_VirtualPageWrite,                 *)
(* PHY_PageCopyback and LML_VirtualBlkErase: pages with a main area and    *)
(* the user data of their spare area (struct __NandUserData_t).            *)
(*                                                                         *)
(* The main area is told apart only by what its reader can do with it: the *)
(* last data written to the logical page, older data of it, a page map     *)
(* table, or nothing a reader wants.                                       *)
(***************************************************************************)
EXTENDS Integers, FiniteSets

CONSTANTS BlkCnt,   \* super blocks of the zone, without its table block
          PageCnt,  \* PAGE_CNT_OF_SUPER_BLK
          LogicCnt, \* DATA_BLK_CNT_OF_ZONE
          AgeCnt    \* 256 in the code: the log age is the byte PageStatus

ASSUME GeometryAssumption ==
  /\ PageCnt \in Nat \ {0, 1} /\ LogicCnt \in Nat \ {0}
  /\ BlkCnt \in Nat /\ BlkCnt >= LogicCnt
ASSUME AgeAssumption == AgeCnt \in Nat /\ AgeCnt % 2 = 0 /\ AgeCnt >= 6

Blk == 0 .. BlkCnt - 1
Page == 0 .. PageCnt - 1
LogicBlk == 0 .. LogicCnt - 1
None == -1                 \* 0xffff

\* PageStatus.  In page 0 it is the age of the block; in other pages it tells
\* free, data and table pages apart.  Only the free mark is also an age.
FreeMark == AgeCnt - 1     \* FREE_PAGE_MARK, 0xff
DataMark == AgeCnt         \* DATA_PAGE_MARK, 0x55
TableMark == AgeCnt + 1    \* 0xaa
\* Mutant: the age does not wrap.
OlderNoWrap(age, n) == age + n
Older(age, n) == (age + n) % AgeCnt

Map == [Page -> Page \cup {None}]
EmptyMap == [p \in Page |-> None]

Nothing == [kind |-> "nothing"]
Latest == [kind |-> "latest"]
Stale == [kind |-> "stale"]
Table(m) == [kind |-> "table", map |-> m]
Main == {Nothing, Latest, Stale} \cup [kind : {"table"}, map : Map]

\* LogicInfo, LogicPageNum, PageStatus and the main area.
PageRecord(info, lpn, status, main) ==
  [info |-> info, lpn |-> lpn, status |-> status, main |-> main]
Erased == PageRecord(None, None, FreeMark, Nothing)
ErasedBlk == [p \in Page |-> Erased]

VARIABLE flash

Program(b, p, rec) == flash' = [flash EXCEPT ![b][p] = rec]
Erase(b) == flash' = [flash EXCEPT ![b] = ErasedBlk]

\* LML_PageWrite of new data: whatever other pages hold of the logical page
\* is older data from now on.
ProgramData(b, p, status, lb, lp) ==
  flash' = [c \in Blk |-> [q \in Page |->
    IF c = b /\ q = p THEN PageRecord(lb, lp, status, Latest)
    ELSE IF flash[c][q].info = lb /\ flash[c][q].lpn = lp
         THEN [flash[c][q] EXCEPT !.main = Stale]
         ELSE flash[c][q]]]

FlashType ==
  /\ flash \in [Blk -> [Page ->
       [info : LogicBlk \cup {None}, lpn : Page \cup {None},
        status : 0 .. TableMark, main : Main]]]
  /\ \A b \in Blk : flash[b][0].status \in 0 .. AgeCnt - 1
=============================================================================
