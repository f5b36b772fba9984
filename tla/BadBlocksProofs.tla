--------------------------- MODULE BadBlocksProofs ---------------------------
(***************************************************************************)
(* For any number of blocks, pages, banks and failures: what was written   *)
(* survives the replacement of its block, no more blocks are given up than *)
(* operations failed, and every call goes on to its end.                   *)
(***************************************************************************)
EXTENDS BadBlocks, FiniteSetTheorems, TLAPS

\* What a call is at, and the page it is for.
JobShape ==
  /\ job.kind = "idle" => job = Idle
  /\ job.kind = "write" =>
       /\ job.lb \in LogicBlk /\ job.page \in Page
       /\ job.step \in {"close", "closed", "log", "page", "try"}
  /\ job.kind = "read" => job.lb \in LogicBlk /\ job.step \in {"close", "closed", "read"}
  /\ job.kind = "flush" => job.step \in {"close", "closed"}
  /\ job.step \in {"log", "page", "try"} => ctl.lb = job.lb
  /\ job.step # "try" /\ job.kind = "write" => last[job.lb] < job.page
  /\ job.step = "page" => logs[job.lb] # None /\ last[job.lb] = -1 /\ job.page # 0
  /\ job.step = "try" => /\ logs[job.lb] # None /\ ctl.log = logs[job.lb]
                         /\ ctl.page = job.page /\ last[job.lb] = job.page

\* A block has one owner.
OneOwner ==
  /\ \A lb \in LogicBlk : logs[lb] \notin free
  /\ \A x, y \in LogicBlk : logs[x] = logs[y] /\ logs[x] # None => x = y

\* After a write LogicalCtl names the log block written, and its last page.
ControlTrue ==
  ctl.mode = "w" =>
    /\ ctl.lb \in LogicBlk /\ ctl.log = logs[ctl.lb] /\ ctl.log # None
    /\ ctl.page = last[ctl.lb] /\ ctl.page \in Page

\* What is held is in pages up to the last used one; the info of page 0 comes
\* before the page it makes way for.
HeldBelow ==
  \A h \in held :
    \/ h[2] <= last[h[1]] /\ (job.step = "try" /\ h[1] = job.lb => h[2] < job.page)
    \/ job.step = "page" /\ h = <<job.lb, 0>>

\* The logical block whose log block is replaced.
Owner == IF job.step = "log" THEN job.lb ELSE ctl.lb
\* A replacement copies all that is held, to a block nobody has.
ManageShape ==
  /\ manage.step = "none" => manage = NoManage
  /\ Managing =>
       /\ job.step \in {"close", "log", "try"}
       /\ job.step = "log" => job.kind = "write" /\ last[job.lb] = -1
       /\ job.step # "log" => ctl.mode = "w"
       /\ Owner \in LogicBlk /\ manage.bad = logs[Owner] /\ manage.bad # None
       /\ \A h \in held : h[1] = Owner => h[2] < manage.upto
  /\ manage.step \in {"copy", "unusable", "mark"} =>
       /\ manage.dst \in Blk \ free
       /\ \A lb \in LogicBlk : logs[lb] # manage.dst
  /\ manage.step \in {"copy", "unusable"} => manage.at < manage.upto
  /\ manage.step = "mark" => manage.at = manage.upto
  /\ manage.step \in {"copy", "mark"} =>
       \A p \in Page : p < manage.at => pages[manage.dst][p] = pages[manage.bad][p]

\* Every block given up, and every failure still to be found, is paid for by
\* an operation that failed.
Paid ==
  /\ manage.step = "none" => Cardinality(given) + Cardinality(failing) <= fails
  /\ manage.step = "free" => \E k \in Bank :
       Cardinality(given) + 1 + Cardinality(failing \ {k}) <= fails
  /\ manage.step \in {"copy", "mark"} => Cardinality(given) + 1 <= fails
  /\ manage.step = "unusable" => Cardinality(given) + 2 <= fails

KeepInv == /\ TypeOK /\ JobShape /\ OneOwner /\ ControlTrue
           /\ HeldBelow /\ ManageShape /\ KeepsWritten
PaidInv == KeepInv /\ Paid

----------------------------------------------------------------------------
(* Types.                                                                  *)
\* Page 0, and 0 and -1 where the counters of pages start.
LEMMA Ranges ==
  0 \in Page /\ 0 \in 0 .. PageCnt /\ -1 \in -1 .. PageCnt - 1
BY PageAssumption DEF Page

\* Every page is in a bank (page % INTERLEAVE_BANK_CNT).
LEMMA BankRange ==
  ASSUME NEW p \in Int
  PROVE  BankOf(p) \in Bank
BY PageAssumption DEF BankOf, Bank

\* The fields of LogicalCtl and of the call, one by one.
LEMMA Fields ==
  ASSUME TypeOK
  PROVE  /\ ctl.mode \in {"n", "w", "r"} /\ ctl.lb \in LogicBlk \cup {None}
         /\ ctl.log \in Blk \cup {None} /\ ctl.page \in -1 .. PageCnt - 1
         /\ job.kind \in {"idle", "write", "read", "flush"}
         /\ job.lb \in LogicBlk \cup {None} /\ job.page \in -1 .. PageCnt - 1
         /\ job.step \in {"none", "close", "closed", "read", "log", "page", "try"}
         /\ manage.step \in {"none", "free", "copy", "unusable", "mark"}
         /\ manage.bad \in Blk \cup {None} /\ manage.upto \in 0 .. PageCnt
         /\ manage.dst \in Blk \cup {None} /\ manage.at \in 0 .. PageCnt
BY DEF TypeOK, CtlType, JobType, ManageType

\* A call that returns leaves the fields of the next one in their types.
LEMMA Returns ==
  ASSUME Return
  PROVE  JobType'
BY PageAssumption DEF Return, Idle, JobType

\* LML_BadBlkManage begins and ends in the types of its fields.
LEMMA ManageMoves ==
  ASSUME TypeOK
  PROVE  /\ manage' = NoManage => ManageType'
         /\ \A bad \in Blk \cup {None}, upto \in 0 .. PageCnt :
              Manage(bad, upto) => ManageType'
<1>1. manage' = NoManage => ManageType'
  BY PageAssumption DEF NoManage, ManageType
<1>2. ASSUME NEW bad \in Blk \cup {None}, NEW upto \in 0 .. PageCnt, Manage(bad, upto)
      PROVE  ManageType'
  BY <1>2, PageAssumption DEF Manage, ManageType
<1> QED
  BY <1>1, <1>2

\* What a program does to the flash: one page changes.
LEMMA Programs ==
  ASSUME TypeOK, NEW b \in Blk, NEW p \in Page, NEW x \in LogicBlk \cup {NoData},
         ProgramGood(b, p, x) \/ ProgramFails(b, p)
  PROVE  /\ FlashType'
         /\ ProgramGood(b, p, x) => pages'[b][p] = x
         /\ \A c \in Blk, q \in Page : c # b \/ q # p => pages'[c][q] = pages[c][q]
<1>1. BankOf(p) \in Bank
  BY BankRange DEF Page
<1>2. failing' \in SUBSET Bank /\ fails' \in 0 .. MaxFails
  BY <1>1, FailsAssumption DEF TypeOK, FlashType, ProgramGood, ProgramFails, CanFail
<1>3. PICK y \in LogicBlk \cup {NoData} :
         pages' = [pages EXCEPT ![b][p] = y] /\ (ProgramGood(b, p, x) => y = x)
  BY DEF ProgramGood, ProgramFails
<1>4. pages \in [Blk -> [Page -> LogicBlk \cup {NoData}]]
  BY DEF TypeOK, FlashType
<1>5. /\ pages' \in [Blk -> [Page -> LogicBlk \cup {NoData}]]
      /\ pages'[b][p] = y
      /\ \A c \in Blk, q \in Page : c # b \/ q # p => pages'[c][q] = pages[c][q]
  BY <1>3, <1>4
<1>6. FlashType'
  BY <1>2, <1>5 DEF FlashType
<1> QED
  BY <1>3, <1>5, <1>6

\* A marked block is lost, no other one changes.
LEMMA Marks ==
  ASSUME TypeOK, NEW b \in Blk, MarkBad(b)
  PROVE  /\ FlashType' /\ given' \in SUBSET Blk
         /\ \A c \in Blk : c # b => pages'[c] = pages[c]
<1>1. PICK F \in SUBSET Bank :
         CanFail(Cardinality(F)) /\ failing' = F /\ fails' = fails + Cardinality(F)
  BY DEF MarkBad
<1>2. Cardinality(F) \in Nat
  <2>1. IsFiniteSet(Bank)
    BY PageAssumption, FS_Interval DEF Bank
  <2>2. IsFiniteSet(F)
    BY <2>1, FS_Subset
  <2> QED
    BY <2>2, FS_CardinalityType
<1>3. fails' \in 0 .. MaxFails
  BY <1>1, <1>2, FailsAssumption DEF TypeOK, FlashType, CanFail
<1>4. pages' \in [Blk -> [Page -> LogicBlk \cup {NoData}]]
      /\ \A c \in Blk : c # b => pages'[c] = pages[c]
  BY DEF MarkBad, TypeOK, FlashType
<1> QED
  BY <1>1, <1>3, <1>4 DEF MarkBad, FlashType, TypeOK, HistoryType

----------------------------------------------------------------------------
(* What is written is kept: one lemma for each action.                     *)
\* LML_PageWrite begins.
LEMMA StartWriteKeeps ==
  ASSUME KeepInv, NEW lb \in LogicBlk, NEW p \in Page, StartWrite(lb, p)
  PROVE  KeepInv'
<1>1. TypeOK'
  BY DEF KeepInv, TypeOK, FlashType, TableType, CtlType, JobType, ManageType,
     HistoryType, Page, StartWrite, Call, Idle, flashVars, tables
<1>2. JobShape'
  BY DEF JobShape, StartWrite, Call, tables
<1>3. OneOwner'
  BY DEF KeepInv, OneOwner, StartWrite, Call, tables
<1>4. ControlTrue'
  BY DEF KeepInv, ControlTrue, StartWrite, Call, tables
<1>5. HeldBelow'
  BY DEF KeepInv, HeldBelow, StartWrite, Call, Idle, tables
<1>6. ManageShape'
  BY DEF KeepInv, ManageShape, StartWrite, Call, Managing
<1>7. KeepsWritten'
  BY DEF KeepInv, KeepsWritten, StartWrite, Call, flashVars, tables
<1> QED
  BY <1>1, <1>2, <1>3, <1>4, <1>5, <1>6, <1>7 DEF KeepInv

\* LML_PageRead begins.
LEMMA StartReadKeeps ==
  ASSUME KeepInv, NEW lb \in LogicBlk, StartRead(lb)
  PROVE  KeepInv'
<1>1. TypeOK'
  BY DEF KeepInv, TypeOK, FlashType, TableType, CtlType, JobType, ManageType,
     HistoryType, StartRead, Call, Idle, flashVars, tables
<1>2. JobShape'
  BY DEF JobShape, StartRead, Call
<1>3. OneOwner'
  BY DEF KeepInv, OneOwner, StartRead, Call, tables
<1>4. ControlTrue'
  BY DEF KeepInv, ControlTrue, StartRead, Call, tables
<1>5. HeldBelow'
  BY DEF KeepInv, HeldBelow, StartRead, Call, Idle, tables
<1>6. ManageShape'
  BY DEF KeepInv, ManageShape, StartRead, Call, Managing
<1>7. KeepsWritten'
  BY DEF KeepInv, KeepsWritten, StartRead, Call, flashVars, tables
<1> QED
  BY <1>1, <1>2, <1>3, <1>4, <1>5, <1>6, <1>7 DEF KeepInv

\* LML_FlushPageCache begins.
LEMMA StartFlushKeeps ==
  ASSUME KeepInv, StartFlush
  PROVE  KeepInv'
<1>1. TypeOK'
  BY DEF KeepInv, TypeOK, FlashType, TableType, CtlType, JobType, ManageType,
     HistoryType, StartFlush, Call, Idle, flashVars, tables
<1>2. JobShape'
  BY DEF JobShape, StartFlush, Call
<1>3. OneOwner'
  BY DEF KeepInv, OneOwner, StartFlush, Call, tables
<1>4. ControlTrue'
  BY DEF KeepInv, ControlTrue, StartFlush, Call, tables
<1>5. HeldBelow'
  BY DEF KeepInv, HeldBelow, StartFlush, Call, Idle, tables
<1>6. ManageShape'
  BY DEF KeepInv, ManageShape, StartFlush, Call, Managing
<1>7. KeepsWritten'
  BY DEF KeepInv, KeepsWritten, StartFlush, Call, flashVars, tables
<1> QED
  BY <1>1, <1>2, <1>3, <1>4, <1>5, <1>6, <1>7 DEF KeepInv

\* The block taken belongs to nobody: the free blocks are not log blocks.
LEMMA GetFreeBlkKeeps ==
  ASSUME KeepInv, GetFreeBlk
  PROVE  KeepInv'
<1>1. TypeOK'
  <2>1. ManageType'
    BY Ranges DEF KeepInv, TypeOK, TableType, ManageType, GetFreeBlk
  <2>2. FlashType' /\ TableType' /\ CtlType' /\ JobType' /\ HistoryType'
    BY DEF KeepInv, TypeOK, FlashType, TableType, CtlType, JobType,
       HistoryType, GetFreeBlk, flashVars
  <2> QED
    BY <2>1, <2>2 DEF TypeOK
<1>2. JobShape'
  BY DEF KeepInv, JobShape, GetFreeBlk
<1>3. OneOwner'
  BY DEF KeepInv, OneOwner, GetFreeBlk
<1>4. ControlTrue'
  BY DEF KeepInv, ControlTrue, GetFreeBlk
<1>5. HeldBelow'
  BY DEF KeepInv, HeldBelow, GetFreeBlk
<1>6. ManageShape'
  BY DEF KeepInv, TypeOK, TableType, ManageType, ManageShape, OneOwner,
     GetFreeBlk, Managing, Owner, Page
<1>7. KeepsWritten'
  BY DEF KeepInv, KeepsWritten, GetFreeBlk, flashVars
<1> QED
  BY <1>1, <1>2, <1>3, <1>4, <1>5, <1>6, <1>7 DEF KeepInv

\* The call ends; in PMM_GetLogPage LogPageNum becomes 0xffff.
LEMMA NoFreeBlkKeeps ==
  ASSUME KeepInv, NoFreeBlk
  PROVE  KeepInv'
<1>1. TypeOK'
  <2>1. CtlType'
    BY Ranges DEF KeepInv, TypeOK, CtlType, NoFreeBlk, NoLogPage
  <2>2. ManageType'
    BY ManageMoves DEF KeepInv, NoFreeBlk
  <2>3. JobType'
    BY Returns DEF NoFreeBlk
  <2>4. FlashType' /\ TableType' /\ HistoryType'
    BY DEF KeepInv, TypeOK, FlashType, TableType, HistoryType, NoFreeBlk,
       flashVars, tables
  <2> QED
    BY <2>1, <2>2, <2>3, <2>4 DEF TypeOK
<1>2. JobShape'
  BY DEF NoFreeBlk, Return, Idle, JobShape
<1>3. OneOwner'
  BY DEF KeepInv, OneOwner, NoFreeBlk, tables
<1>4. ControlTrue'
  BY DEF KeepInv, TypeOK, CtlType, JobShape, ControlTrue, ManageShape,
     NoFreeBlk, NoLogPage, Managing, tables
<1>5. HeldBelow'
  BY DEF KeepInv, HeldBelow, ManageShape, NoFreeBlk, Return, Managing, Idle,
     tables
<1>6. ManageShape'
  BY DEF ManageShape, NoFreeBlk, NoManage, Managing
<1>7. KeepsWritten'
  BY DEF KeepInv, KeepsWritten, NoFreeBlk, flashVars, tables
<1> QED
  BY <1>1, <1>2, <1>3, <1>4, <1>5, <1>6, <1>7 DEF KeepInv

\* The page copied is the bad block's; no log block changes.
LEMMA CopyPageKeeps ==
  ASSUME KeepInv, CopyPage
  PROVE  KeepInv'
<1>8. /\ manage.dst \in Blk /\ manage.bad \in Blk /\ manage.dst # manage.bad
      /\ manage.at \in Page /\ pages[manage.bad][manage.at] \in LogicBlk \cup {NoData}
  BY PageAssumption DEF KeepInv, TypeOK, FlashType, ManageType, ManageShape,
     Page, CopyPage, Managing
<1>1. TypeOK'
  <2>1. FlashType'
    BY <1>8, Programs DEF KeepInv, CopyPage
  <2>2. ManageType'
    <3>1. manage.at < manage.upto
      BY DEF KeepInv, CopyPage, ManageShape
    <3>2. manage.at + 1 \in 0 .. PageCnt
      BY <3>1, Fields, PageAssumption DEF KeepInv
    <3> QED
      BY <3>2 DEF KeepInv, TypeOK, ManageType, CopyPage, Copied
  <2>3. TableType' /\ CtlType' /\ JobType' /\ HistoryType'
    BY DEF KeepInv, TypeOK, TableType, CtlType, JobType, HistoryType, CopyPage,
       tables
  <2> QED
    BY <2>1, <2>2, <2>3 DEF TypeOK
<1>2. JobShape'
  BY DEF KeepInv, JobShape, CopyPage, tables
<1>3. OneOwner'
  BY DEF KeepInv, OneOwner, CopyPage, tables
<1>4. ControlTrue'
  BY DEF KeepInv, ControlTrue, CopyPage, tables
<1>5. HeldBelow'
  BY DEF KeepInv, HeldBelow, CopyPage, tables
<1>6. ManageShape'
  <2>1. ProgramGood(manage.dst, manage.at, pages[manage.bad][manage.at]) /\ Copied
        => ManageShape'
    <3> SUFFICES ASSUME ProgramGood(manage.dst, manage.at, pages[manage.bad][manage.at]), Copied
        PROVE  ManageShape'
      OBVIOUS
    <3>1. \A p \in Page : p < manage.at + 1 => pages'[manage.dst][p] = pages'[manage.bad][p]
      BY <1>8, Programs DEF KeepInv, ManageShape, CopyPage, Page
    <3>2. /\ manage'.at = manage.at + 1 /\ manage'.upto = manage.upto
          /\ manage'.dst = manage.dst /\ manage'.bad = manage.bad
          /\ manage'.step = IF manage.at + 1 = manage.upto THEN "mark" ELSE "copy"
      BY DEF Copied
    <3> QED
      BY <3>1, <3>2, Fields DEF KeepInv, ManageShape, Managing, CopyPage,
         Owner, tables
  <2>2. ProgramFails(manage.dst, manage.at) /\ manage' = [manage EXCEPT !.step = "unusable"]
        => ManageShape'
    BY DEF KeepInv, ManageShape, Owner, CopyPage, Managing, tables
  <2> QED
    BY <2>1, <2>2 DEF CopyPage
<1>7. KeepsWritten'
  <2>1. \A lb \in LogicBlk : logs[lb] \in Blk \cup {None} /\ logs[lb] # manage.dst
    BY DEF KeepInv, TypeOK, TableType, ManageShape, CopyPage
  <2>2. \A c \in Blk, q \in Page : c # manage.dst => pages'[c][q] = pages[c][q]
    BY <1>8, Programs DEF KeepInv, CopyPage
  <2> QED
    BY <2>1, <2>2 DEF KeepInv, TypeOK, HistoryType, KeepsWritten, CopyPage,
       tables
<1> QED
  BY <1>1, <1>2, <1>3, <1>4, <1>5, <1>6, <1>7 DEF KeepInv

\* The block marked holds nothing that is needed.
LEMMA MarkNewKeeps ==
  ASSUME KeepInv, MarkNew
  PROVE  KeepInv'
<1>8. /\ manage.dst \in Blk /\ FlashType' /\ given' \in SUBSET Blk
      /\ \A c \in Blk : c # manage.dst => pages'[c] = pages[c]
  BY Marks DEF KeepInv, ManageShape, MarkNew
<1>1. TypeOK'
  <2>1. FlashType'
    BY <1>8
  <2>2. ManageType'
    BY Ranges DEF KeepInv, TypeOK, ManageType, MarkNew
  <2>3. TableType' /\ CtlType' /\ JobType' /\ HistoryType'
    BY <1>8 DEF KeepInv, TypeOK, TableType, CtlType, JobType, HistoryType,
       MarkNew, tables
  <2> QED
    BY <2>1, <2>2, <2>3 DEF TypeOK
<1>2. JobShape'
  BY DEF KeepInv, JobShape, MarkNew, tables
<1>3. OneOwner'
  BY DEF KeepInv, OneOwner, MarkNew, tables
<1>4. ControlTrue'
  BY DEF KeepInv, ControlTrue, MarkNew, tables
<1>5. HeldBelow'
  BY DEF KeepInv, HeldBelow, MarkNew, tables
<1>6. ManageShape'
  BY DEF KeepInv, ManageShape, Owner, MarkNew, Managing, tables
<1>7. KeepsWritten'
  BY DEF KeepInv, TypeOK, HistoryType, ManageShape, KeepsWritten, MarkNew,
     MarkBad, tables
<1> QED
  BY <1>1, <1>2, <1>3, <1>4, <1>5, <1>6, <1>7 DEF KeepInv

\* The table names the new block, which has all that is held.
LEMMA MarkOldKeeps ==
  ASSUME KeepInv, MarkOld
  PROVE  KeepInv'
<1>8. /\ manage.bad \in Blk /\ FlashType' /\ given' \in SUBSET Blk
      /\ \A c \in Blk : c # manage.bad => pages'[c] = pages[c]
  BY Marks, Fields DEF KeepInv, ManageShape, MarkOld, Managing
<1>9. /\ Owner \in LogicBlk /\ manage.dst \in Blk \ free
      /\ logs' = [logs EXCEPT ![Owner] = manage.dst]
      /\ ctl' = IF job.step = "log" THEN ctl ELSE [ctl EXCEPT !.log = manage.dst]
  BY DEF KeepInv, ManageShape, Owner, MarkOld, Replace, Managing
<1>1. TypeOK'
  <2>1. FlashType'
    BY <1>8
  <2>2. TableType'
    BY <1>9 DEF KeepInv, TypeOK, TableType, MarkOld
  <2>3. CtlType'
    BY <1>9 DEF KeepInv, TypeOK, CtlType
  <2>4. ManageType'
    BY ManageMoves DEF KeepInv, MarkOld
  <2>5. JobType' /\ HistoryType'
    BY <1>8 DEF KeepInv, TypeOK, JobType, HistoryType, MarkOld, GoTo
  <2> QED
    BY <2>1, <2>2, <2>3, <2>4, <2>5 DEF TypeOK
<1>2. JobShape'
  BY BlockAssumption DEF KeepInv, TypeOK, TableType, CtlType, JobShape,
     ManageShape, Owner, MarkOld, Replace, GoTo, Managing, Idle
<1>3. OneOwner'
  BY <1>9 DEF KeepInv, OneOwner, ManageShape, MarkOld
<1>4. ControlTrue'
  <2>1. CASE job.step = "log"
    BY <2>1 DEF KeepInv, TypeOK, TableType, ControlTrue, ManageShape, Page,
       MarkOld, Replace, Managing
  <2>2. CASE job.step # "log"
    BY <1>9, <2>2, BlockAssumption DEF KeepInv, TypeOK, TableType, ControlTrue,
       Owner, MarkOld
  <2> QED
    BY <2>1, <2>2
<1>5. HeldBelow'
  BY DEF KeepInv, HeldBelow, MarkOld, GoTo
<1>6. ManageShape'
  BY DEF ManageShape, MarkOld, NoManage, Managing
<1>7. KeepsWritten'
  BY <1>9, BlockAssumption DEF KeepInv, TypeOK, TableType, HistoryType,
     OneOwner, ManageShape, KeepsWritten, MarkOld, MarkBad, Managing
<1> QED
  BY <1>1, <1>2, <1>3, <1>4, <1>5, <1>6, <1>7 DEF KeepInv

\* All that is held is in pages up to the one closed.
LEMMA CloseFailsKeeps ==
  ASSUME KeepInv, CloseFails
  PROVE  KeepInv'
<1>1. TypeOK'
  BY PageAssumption DEF KeepInv, TypeOK, FlashType, TableType, CtlType,
     JobType, ManageType, HistoryType, CloseFails, Manage, flashVars, tables
<1>2. JobShape'
  BY DEF KeepInv, JobShape, CloseFails, tables
<1>3. OneOwner'
  BY DEF KeepInv, OneOwner, CloseFails, tables
<1>4. ControlTrue'
  BY DEF KeepInv, ControlTrue, CloseFails, tables
<1>5. HeldBelow'
  BY DEF KeepInv, HeldBelow, CloseFails, tables
<1>6. ManageShape'
  <2>1. \A h \in held : h[1] = ctl.lb => h[2] < ctl.page + 1
    BY DEF KeepInv, TypeOK, HistoryType, ControlTrue, HeldBelow, Page,
       CloseFails, Failed
  <2> QED
    BY DEF KeepInv, TypeOK, HistoryType, ControlTrue, HeldBelow, ManageShape,
       Owner, Page, CloseFails, Failed, Manage, tables
<1>7. KeepsWritten'
  BY DEF KeepInv, KeepsWritten, CloseFails, flashVars, tables
<1> QED
  BY <1>1, <1>2, <1>3, <1>4, <1>5, <1>6, <1>7 DEF KeepInv

\* The next write begins with another logical block.
LEMMA CloseKeeps ==
  ASSUME KeepInv, Close
  PROVE  KeepInv'
<1>1. TypeOK'
  <2>1. CtlType'
    BY Fields DEF KeepInv, TypeOK, CtlType, Close
  <2>2. JobType'
    <3>1. CASE job.kind = "write"
      BY <3>1 DEF KeepInv, TypeOK, JobType, Close, GoTo
    <3>2. CASE job.kind = "read"
      BY <3>2 DEF KeepInv, TypeOK, JobType, Close, GoTo
    <3>3. CASE job.kind = "flush"
      BY <3>3, Returns DEF Close
    <3>4. job.kind # "idle"
      BY DEF KeepInv, JobShape, Idle, Close
    <3> QED
      BY <3>1, <3>2, <3>3, <3>4, Fields DEF KeepInv
  <2>3. FlashType' /\ TableType' /\ ManageType' /\ HistoryType'
    BY DEF KeepInv, TypeOK, FlashType, TableType, ManageType, HistoryType,
       Close, flashVars, tables
  <2> QED
    BY <2>1, <2>2, <2>3 DEF TypeOK
<1>2. JobShape'
  <2>1. CASE job.kind = "write"
    BY <2>1 DEF KeepInv, TypeOK, JobType, JobShape, Close, GoTo, tables
  <2>2. CASE job.kind = "read"
    BY <2>2 DEF KeepInv, TypeOK, JobType, JobShape, Close, GoTo
  <2>3. CASE job.kind = "flush"
    BY <2>3 DEF JobShape, Close, Return, Idle
  <2> QED
    BY <2>1, <2>2, <2>3, Fields DEF KeepInv, JobShape, Close, Idle
<1>3. OneOwner'
  BY DEF KeepInv, OneOwner, Close, tables
<1>4. ControlTrue'
  BY DEF ControlTrue, Close
<1>5. HeldBelow'
  <2>1. job'.step \notin {"page", "try"}
    <3>1. CASE job.kind = "write"
      BY <3>1 DEF KeepInv, TypeOK, JobType, Close, GoTo
    <3>2. CASE job.kind = "read"
      BY <3>2 DEF KeepInv, TypeOK, JobType, Close, GoTo
    <3>3. CASE job.kind = "flush"
      BY <3>3 DEF Close, Return, Idle
    <3>4. job.kind # "idle"
      BY DEF KeepInv, JobShape, Idle, Close
    <3> QED
      BY <3>1, <3>2, <3>3, <3>4, Fields DEF KeepInv
  <2>2. \A h \in held : h[2] <= last[h[1]]
    BY DEF KeepInv, HeldBelow, Close
  <2> QED
    BY <2>1, <2>2 DEF HeldBelow, Close, tables
<1>6. ManageShape'
  BY DEF KeepInv, ManageShape, Close, Managing
<1>7. KeepsWritten'
  BY DEF KeepInv, KeepsWritten, Close, flashVars, tables
<1> QED
  BY <1>1, <1>2, <1>3, <1>4, <1>5, <1>6, <1>7 DEF KeepInv

\* LogicalCtl names another block, in mode 'r'.
LEMMA ReadKeeps ==
  ASSUME KeepInv, Read
  PROVE  KeepInv'
<1>1. TypeOK'
  <2>1. FlashType'
    BY DEF KeepInv, TypeOK, FlashType, Read
  <2>2. CtlType'
    <3>1. job.lb \in LogicBlk /\ logs[job.lb] \in Blk \cup {None}
      BY DEF KeepInv, TypeOK, TableType, JobShape, Read, At
    <3>2. PICK b \in Blk \cup {None} :
          ctl' = [ctl EXCEPT !.mode = "r", !.lb = job.lb, !.page = -1, !.log = b]
      BY <3>1, Fields DEF KeepInv, Read
    <3> QED
      BY <3>1, <3>2, Ranges DEF KeepInv, TypeOK, CtlType
  <2>3. JobType'
    BY Returns DEF Read
  <2>4. TableType' /\ ManageType' /\ HistoryType'
    BY DEF KeepInv, TypeOK, TableType, ManageType, HistoryType, Read, tables
  <2> QED
    BY <2>1, <2>2, <2>3, <2>4 DEF TypeOK
<1>2. JobShape'
  BY DEF JobShape, Read, Return, Idle
<1>3. OneOwner'
  BY DEF KeepInv, OneOwner, Read, tables
<1>4. ControlTrue'
  BY DEF ControlTrue, Read
<1>5. HeldBelow'
  BY DEF KeepInv, HeldBelow, Read, At, Return, Idle, tables
<1>6. ManageShape'
  BY DEF KeepInv, ManageShape, Read, At, Managing
<1>7. KeepsWritten'
  BY DEF KeepInv, KeepsWritten, Read, tables
<1> QED
  BY <1>1, <1>2, <1>3, <1>4, <1>5, <1>6, <1>7 DEF KeepInv

\* The block taken is no log block yet.
LEMMA NewLogKeeps ==
  ASSUME KeepInv, NewLog
  PROVE  KeepInv'
<1>1. TypeOK'
  BY DEF KeepInv, TypeOK, FlashType, TableType, CtlType, JobType, ManageType,
     HistoryType, NewLog, At, flashVars
<1>2. JobShape'
  BY DEF KeepInv, JobShape, NewLog
<1>3. OneOwner'
  BY DEF KeepInv, OneOwner, NewLog
<1>4. ControlTrue'
  BY DEF KeepInv, ControlTrue, NewLog
<1>5. HeldBelow'
  BY DEF KeepInv, HeldBelow, NewLog
<1>6. ManageShape'
  BY DEF KeepInv, ManageShape, NewLog, At, Managing
<1>7. KeepsWritten'
  BY DEF KeepInv, KeepsWritten, NewLog, flashVars
<1> QED
  BY <1>1, <1>2, <1>3, <1>4, <1>5, <1>6, <1>7 DEF KeepInv

\* The write ends without a log block.
LEMMA NoNewLogKeeps ==
  ASSUME KeepInv, NoNewLog
  PROVE  KeepInv'
<1>1. TypeOK'
  <2>1. CtlType'
    BY Ranges DEF KeepInv, TypeOK, CtlType, NoNewLog, NoLogPage
  <2>2. JobType'
    BY Returns DEF NoNewLog
  <2>3. FlashType' /\ TableType' /\ ManageType' /\ HistoryType'
    BY DEF KeepInv, TypeOK, FlashType, TableType, ManageType, HistoryType,
       NoNewLog, flashVars, tables
  <2> QED
    BY <2>1, <2>2, <2>3 DEF TypeOK
<1>2. JobShape'
  BY DEF JobShape, NoNewLog, Return, Idle
<1>3. OneOwner'
  BY DEF KeepInv, OneOwner, NoNewLog, tables
<1>4. ControlTrue'
  BY DEF KeepInv, JobShape, ControlTrue, NoNewLog, At, NoLogPage
<1>5. HeldBelow'
  BY DEF KeepInv, HeldBelow, NoNewLog, At, Return, Idle, tables
<1>6. ManageShape'
  BY DEF KeepInv, ManageShape, NoNewLog, At, Managing
<1>7. KeepsWritten'
  BY DEF KeepInv, KeepsWritten, NoNewLog, flashVars, tables
<1> QED
  BY <1>1, <1>2, <1>3, <1>4, <1>5, <1>6, <1>7 DEF KeepInv

\* Page 0 is held, or the new log block is replaced.
LEMMA WriteInfoKeeps ==
  ASSUME KeepInv, WriteInfo
  PROVE  KeepInv'
<1>8. /\ job.lb \in LogicBlk /\ logs[job.lb] \in Blk /\ 0 \in Page
      /\ 0 \in 0 .. PageCnt
  BY PageAssumption DEF KeepInv, TypeOK, TableType, JobShape, Page, WriteInfo,
     At
<1>1. TypeOK'
  <2>1. FlashType'
    BY <1>8, Programs DEF KeepInv, WriteInfo
  <2>2. ManageType'
    BY ManageMoves, <1>8 DEF KeepInv, TypeOK, ManageType, WriteInfo
  <2>3. HistoryType'
    BY <1>8 DEF KeepInv, TypeOK, HistoryType, WriteInfo
  <2>4. TableType' /\ CtlType' /\ JobType'
    BY DEF KeepInv, TypeOK, TableType, CtlType, JobType, WriteInfo, GoTo,
       tables
  <2> QED
    BY <2>1, <2>2, <2>3, <2>4 DEF TypeOK
<1>2. JobShape'
  BY DEF KeepInv, TypeOK, JobType, JobShape, WriteInfo, NeedsInfo, At, GoTo,
     tables
<1>3. OneOwner'
  BY DEF KeepInv, OneOwner, WriteInfo, tables
<1>4. ControlTrue'
  BY DEF KeepInv, ControlTrue, WriteInfo, tables
<1>5. HeldBelow'
  BY DEF KeepInv, TypeOK, JobType, HeldBelow, WriteInfo, GoTo, tables
<1>6. ManageShape'
  BY DEF KeepInv, TypeOK, HistoryType, JobShape, HeldBelow, ManageShape, Owner,
     Page, WriteInfo, NeedsInfo, Manage, At, Managing, tables
<1>7. KeepsWritten'
  BY Ranges, PageAssumption, FailsAssumption DEF KeepInv, TypeOK, FlashType,
     TableType, CtlType, HistoryType, JobShape, OneOwner, ControlTrue,
     HeldBelow, KeepsWritten, WriteInfo, NeedsInfo, ProgramGood, ProgramFails,
     At, tables
<1> QED
  BY <1>1, <1>2, <1>3, <1>4, <1>5, <1>6, <1>7 DEF KeepInv

\* The page taken is behind all that is held.
LEMMA TakePageKeeps ==
  ASSUME KeepInv, TakePage
  PROVE  KeepInv'
<1>1. TypeOK'
  BY DEF KeepInv, TypeOK, FlashType, TableType, CtlType, JobType, ManageType,
     HistoryType, JobShape, TakePage, At, GoTo, flashVars
<1>2. JobShape'
  BY DEF KeepInv, TypeOK, TableType, JobShape, TakePage, At, GoTo
<1>3. OneOwner'
  BY DEF KeepInv, OneOwner, TakePage
<1>4. ControlTrue'
  BY DEF KeepInv, TypeOK, TableType, JobShape, ControlTrue, TakePage, At
<1>5. HeldBelow'
  BY DEF KeepInv, TypeOK, TableType, HistoryType, JobShape, HeldBelow, Page,
     TakePage, At, GoTo
<1>6. ManageShape'
  BY DEF KeepInv, ManageShape, TakePage, At, Managing
<1>7. KeepsWritten'
  BY DEF KeepInv, KeepsWritten, TakePage, flashVars
<1> QED
  BY <1>1, <1>2, <1>3, <1>4, <1>5, <1>6, <1>7 DEF KeepInv

\* All that is held is in pages before the one at hand.
LEMMA FoundKeeps ==
  ASSUME KeepInv, Found
  PROVE  KeepInv'
<1>1. TypeOK'
  BY PageAssumption DEF KeepInv, TypeOK, FlashType, TableType, CtlType,
     JobType, ManageType, HistoryType, ControlTrue, Page, Found, Failed,
     Manage, flashVars, tables
<1>2. JobShape'
  BY DEF KeepInv, JobShape, Found, tables
<1>3. OneOwner'
  BY DEF KeepInv, OneOwner, Found, tables
<1>4. ControlTrue'
  BY DEF KeepInv, ControlTrue, Found, tables
<1>5. HeldBelow'
  BY DEF KeepInv, HeldBelow, Found, tables
<1>6. ManageShape'
  BY DEF KeepInv, JobShape, HeldBelow, ManageShape, Owner, Found, Failed,
     Manage, At, tables
<1>7. KeepsWritten'
  BY DEF KeepInv, KeepsWritten, Found, flashVars, tables
<1> QED
  BY <1>1, <1>2, <1>3, <1>4, <1>5, <1>6, <1>7 DEF KeepInv

\* The page programmed held nothing.
LEMMA ProgramKeeps ==
  ASSUME KeepInv, Program
  PROVE  KeepInv'
<1>8. /\ ctl.lb \in LogicBlk /\ ctl.log \in Blk /\ ctl.page \in Page
  BY Fields DEF KeepInv, JobShape, Program, At
<1>1. TypeOK'
  <2>1. FlashType'
    BY <1>8, Programs DEF KeepInv, Program
  <2>2. CtlType'
    BY DEF KeepInv, TypeOK, CtlType, Program
  <2>3. HistoryType'
    BY <1>8 DEF KeepInv, TypeOK, HistoryType, Program
  <2>4. JobType'
    BY Returns DEF Program
  <2>5. TableType' /\ ManageType'
    BY DEF KeepInv, TypeOK, TableType, ManageType, Program, tables
  <2> QED
    BY <2>1, <2>2, <2>3, <2>4, <2>5 DEF TypeOK
<1>2. JobShape'
  BY DEF JobShape, Program, Return, Idle
<1>3. OneOwner'
  BY DEF KeepInv, OneOwner, Program, tables
<1>4. ControlTrue'
  BY DEF KeepInv, JobShape, ControlTrue, Program, At, tables
<1>5. HeldBelow'
  BY DEF KeepInv, TypeOK, JobType, JobShape, HeldBelow, Program, At, Return,
     Idle, tables
<1>6. ManageShape'
  BY DEF KeepInv, ManageShape, Program, At, Managing
<1>7. KeepsWritten'
  BY <1>8, Ranges, BlockAssumption, PageAssumption, FailsAssumption DEF
     KeepInv, TypeOK, FlashType, TableType, CtlType, JobType, HistoryType,
     JobShape, OneOwner, HeldBelow, ManageShape, KeepsWritten, Program,
     ProgramGood, ProgramFails, At, tables
<1> QED
  BY <1>1, <1>2, <1>3, <1>4, <1>5, <1>6, <1>7 DEF KeepInv

\* At the mount nothing is held in a log block.
LEMMA InitKeeps ==
  ASSUME Init
  PROVE  KeepInv
<1>1. TypeOK
  <2>1. FlashType /\ TableType /\ HistoryType
    BY FailsAssumption, PageAssumption
    DEF Init, FlashType, TableType, HistoryType, Page
  <2>2. CtlType /\ JobType /\ ManageType
    BY Ranges DEF Init, CtlType, JobType, ManageType, Idle, NoManage
  <2> QED
    BY <2>1, <2>2 DEF TypeOK
<1>2. JobShape /\ OneOwner /\ ControlTrue
  BY BlockAssumption DEF Init, JobShape, OneOwner, ControlTrue, Idle
<1>3. HeldBelow /\ ManageShape /\ KeepsWritten
  BY DEF Init, HeldBelow, ManageShape, Managing, KeepsWritten, NoManage
<1> QED
  BY <1>1, <1>2, <1>3 DEF KeepInv

\* KeepInv reads nothing but the variables.
LEMMA StutterKeeps ==
  ASSUME KeepInv, UNCHANGED vars
  PROVE  KeepInv'
BY DEF KeepInv, TypeOK, FlashType, TableType, CtlType, JobType, ManageType,
       HistoryType, JobShape, OneOwner, ControlTrue, HeldBelow, ManageShape,
       Managing, Owner, KeepsWritten, vars, flashVars, tables

----------------------------------------------------------------------------
(* What is given up is paid for.                                           *)
\* An element more or less changes a count by one at most.
LEMMA SetCounts ==
  ASSUME NEW S, IsFiniteSet(S), NEW k
  PROVE  /\ Cardinality(S) \in Nat
         /\ Cardinality(S \ {k}) \in Nat /\ Cardinality(S \cup {k}) \in Nat
         /\ Cardinality(S \ {k}) <= Cardinality(S)
         /\ Cardinality(S) <= Cardinality(S \ {k}) + 1
         /\ k \in S => Cardinality(S \ {k}) = Cardinality(S) - 1
         /\ Cardinality(S \cup {k}) <= Cardinality(S) + 1
<1>1. Cardinality(S) \in Nat
  BY FS_CardinalityType
<1>2. CASE k \in S
  <2>1. S \cup {k} = S /\ Cardinality(S \ {k}) = Cardinality(S) - 1
        /\ IsFiniteSet(S \ {k})
    BY <1>2, FS_RemoveElement
  <2>2. Cardinality(S \ {k}) \in Nat
    BY <2>1, FS_CardinalityType
  <2> QED
    BY <1>1, <2>1, <2>2
<1>3. CASE k \notin S
  <2>1. Cardinality(S \cup {k}) = Cardinality(S) + 1
    BY <1>3, FS_AddElement
  <2>2. S \ {k} = S
    BY <1>3
  <2>3. Cardinality(S \ {k}) = Cardinality(S)
    BY <2>2, Zenon
  <2> QED
    BY <1>1, <1>3, <2>1, <2>3
<1> QED
  BY <1>2, <1>3

\* There are finitely many banks.
LEMMA FiniteBank == IsFiniteSet(Bank)
BY PageAssumption, FS_Interval DEF Bank

\* The counts WasteBounded and ToDo are made of are numbers.
LEMMA Counts ==
  ASSUME TypeOK
  PROVE  /\ IsFiniteSet(failing) /\ IsFiniteSet(given) /\ IsFiniteSet(free)
         /\ Cardinality(failing) \in Nat /\ Cardinality(given) \in Nat
         /\ Cardinality(free) \in Nat /\ fails \in Nat
<1>2. failing \in SUBSET Bank /\ given \in SUBSET Blk /\ free \in SUBSET Blk /\ fails \in Nat
  BY FailsAssumption DEF TypeOK, FlashType, TableType, HistoryType
<1> QED
  BY FiniteBank, <1>2, FS_Subset, FS_CardinalityType, BlockAssumption

\* A mark gives up one block; each of its programs that fails is counted.
LEMMA MarksPaid ==
  ASSUME TypeOK, NEW b \in Blk, MarkBad(b)
  PROVE  /\ IsFiniteSet(failing')
         /\ Cardinality(failing') \in Nat /\ Cardinality(given') \in Nat
         /\ Cardinality(given') <= Cardinality(given) + 1
         /\ fails' = fails + Cardinality(failing')
<1>1. PICK F \in SUBSET Bank : failing' = F /\ fails' = fails + Cardinality(F)
  BY DEF MarkBad
<1>2. IsFiniteSet(F) /\ Cardinality(F) \in Nat
  BY FiniteBank, FS_Subset, FS_CardinalityType
<1>3. given' = given \cup {b} /\ IsFiniteSet(given)
  BY Counts DEF MarkBad
<1>4. /\ Cardinality(given') \in Nat /\ Cardinality(given) \in Nat
      /\ Cardinality(given') <= Cardinality(given) + 1
  BY <1>3, SetCounts
<1> QED
  BY <1>1, <1>2, <1>4

\* At the mount nothing is given up.
LEMMA InitPaid ==
  ASSUME Init
  PROVE  Paid
BY FS_EmptySet DEF Init, Paid, NoManage

\* LML_BadBlkManage gives up a block for a failure of its own.
LEMMA ManagePaid ==
  ASSUME PaidInv, ManageStep
  PROVE  Paid'
<1> USE DEF PaidInv, KeepInv
<1>1. CASE GetFreeBlk
  <2>1. Cardinality(given) + 1 <= fails
    <3>1. PICK k \in Bank :
            Cardinality(given) + 1 + Cardinality(failing \ {k}) <= fails
      BY <1>1 DEF GetFreeBlk, Paid
    <3>2. Cardinality(failing \ {k}) \in Nat
      BY Counts, SetCounts
    <3> QED
      BY <3>1, <3>2, Counts
  <2>2. manage'.step \in {"copy", "mark"} /\ UNCHANGED <<given, fails>>
    BY <1>1 DEF GetFreeBlk, flashVars, TypeOK, ManageType
  <2> QED
    BY <2>1, <2>2 DEF Paid
<1>2. CASE NoFreeBlk
  <2>1. PICK k \in Bank :
          Cardinality(given) + 1 + Cardinality(failing \ {k}) <= fails
    BY <1>2 DEF NoFreeBlk, Paid
  <2>2. /\ Cardinality(failing \ {k}) \in Nat
        /\ Cardinality(failing) <= Cardinality(failing \ {k}) + 1
    <3>1. IsFiniteSet(failing)
      BY Counts
    <3> QED
      BY <3>1, SetCounts
  <2>3. Cardinality(given) + Cardinality(failing) <= fails
    BY <2>1, <2>2, Counts
  <2> QED
    BY <1>2, <2>3 DEF NoFreeBlk, NoManage, flashVars, Paid
<1>3. CASE CopyPage
  <2>1. Cardinality(given) + 1 <= fails
    BY <1>3 DEF CopyPage, Paid
  <2>2. CASE manage' = [manage EXCEPT !.step = "unusable"] /\ fails' = fails + 1
    <3>1. Cardinality(given) + 2 <= fails + 1
      BY <2>1, Counts
    <3> QED
      BY <1>3, <2>2, <3>1 DEF CopyPage, Paid, TypeOK, ManageType
  <2>3. CASE Copied /\ UNCHANGED fails
    BY <1>3, <2>1, <2>3 DEF CopyPage, Copied, Paid, TypeOK, ManageType
  <2> QED
    BY <1>3, <2>2, <2>3 DEF CopyPage, ProgramGood, ProgramFails
<1>4. CASE MarkNew
  <2>1. manage.dst \in Blk /\ MarkBad(manage.dst)
    BY <1>4 DEF MarkNew, ManageShape
  <2>2. Cardinality(given) + 2 <= fails
    BY <1>4 DEF MarkNew, Paid
  <2>3. /\ Cardinality(failing' \ {0}) \in Nat
        /\ Cardinality(failing' \ {0}) <= Cardinality(failing')
    <3>1. IsFiniteSet(failing')
      BY <2>1, MarksPaid
    <3> QED
      BY <3>1, SetCounts
  <2>4. Cardinality(given') + 1 + Cardinality(failing' \ {0}) <= fails'
    BY <2>1, <2>2, <2>3, MarksPaid, Counts
  <2>5. 0 \in Bank
    BY PageAssumption DEF Bank
  <2>6. manage'.step = "free"
    BY <1>4 DEF MarkNew, TypeOK, ManageType
  <2> QED
    BY <2>4, <2>5, <2>6 DEF Paid
<1>5. CASE MarkOld
  <2>1. manage.bad \in Blk /\ MarkBad(manage.bad)
    BY <1>5, Fields DEF MarkOld, ManageShape, Managing
  <2>2. Cardinality(given) + 1 <= fails
    BY <1>5 DEF MarkOld, Paid
  <2>3. Cardinality(given') + Cardinality(failing') <= fails'
    BY <2>1, <2>2, MarksPaid, Counts
  <2> QED
    BY <1>5, <2>3 DEF MarkOld, NoManage, Paid
<1> QED
  BY <1>1, <1>2, <1>3, <1>4, <1>5 DEF ManageStep

\* A failure that is found was paid for when it happened.
LEMMA FoundPaid ==
  ASSUME PaidInv, Failed, manage.step = "none",
         manage'.step = "free", UNCHANGED <<failing, given, fails>>
  PROVE  Paid'
<1>1. BankOf(ctl.page) \in Bank /\ BankOf(ctl.page) \in failing
  BY Fields, BankRange DEF Failed, PaidInv, KeepInv
<1>2. Cardinality(given) + Cardinality(failing) <= fails
  BY DEF PaidInv, Paid
<1>3. Cardinality(failing \ {BankOf(ctl.page)}) = Cardinality(failing) - 1
  <2>1. IsFiniteSet(failing)
    BY Counts DEF PaidInv, KeepInv
  <2> QED
    BY <1>1, <2>1, SetCounts
<1>4. Cardinality(given) + 1 + Cardinality(failing \ {BankOf(ctl.page)}) <= fails
  BY <1>2, <1>3, Counts DEF PaidInv, KeepInv
<1> QED
  BY <1>1, <1>4 DEF Paid

\* A program that succeeds adds no failure, one that fails pays for it.
LEMMA ProgramPaid ==
  ASSUME PaidInv, manage.step = "none", NEW b, NEW p \in Int, NEW x,
         UNCHANGED given
  PROVE  /\ ProgramGood(b, p, x) =>
              Cardinality(given') + Cardinality(failing') <= fails'
         /\ ProgramFails(b, p) =>
              /\ Cardinality(given') + Cardinality(failing') <= fails'
              /\ Cardinality(given') + 1 + Cardinality(failing' \ {BankOf(p)}) <= fails'
<1>1. Cardinality(given) + Cardinality(failing) <= fails
  BY DEF PaidInv, Paid
<1>2. IsFiniteSet(failing) /\ Cardinality(given) \in Nat /\ fails \in Nat
      /\ Cardinality(failing) \in Nat
  BY Counts DEF PaidInv, KeepInv
<1>3. ASSUME ProgramGood(b, p, x)
      PROVE  Cardinality(given') + Cardinality(failing') <= fails'
  <2>1. failing' = failing \ {BankOf(p)} /\ fails' = fails
    BY <1>3 DEF ProgramGood
  <2>2. Cardinality(failing') \in Nat /\ Cardinality(failing') <= Cardinality(failing)
    BY <1>2, <2>1, SetCounts
  <2> QED
    BY <1>1, <1>2, <2>1, <2>2
<1>4. ASSUME ProgramFails(b, p)
      PROVE  /\ Cardinality(given') + Cardinality(failing') <= fails'
             /\ Cardinality(given') + 1 + Cardinality(failing' \ {BankOf(p)}) <= fails'
  <2>1. failing' = failing \cup {BankOf(p)} /\ fails' = fails + 1
    BY <1>4 DEF ProgramFails
  <2>2. /\ Cardinality(failing') \in Nat
        /\ Cardinality(failing') <= Cardinality(failing) + 1
    BY <1>2, <2>1, SetCounts
  <2>3. failing' \ {BankOf(p)} = failing \ {BankOf(p)}
    BY <2>1
  <2>4. Cardinality(failing' \ {BankOf(p)}) = Cardinality(failing \ {BankOf(p)})
    BY <2>3, Zenon
  <2>5. /\ Cardinality(failing \ {BankOf(p)}) \in Nat
        /\ Cardinality(failing \ {BankOf(p)}) <= Cardinality(failing)
    BY <1>2, SetCounts
  <2> QED
    BY <1>1, <1>2, <2>1, <2>2, <2>4, <2>5
<1> QED
  BY <1>3, <1>4

LEMMA StepPaid ==
  ASSUME PaidInv, [Next]_vars
  PROVE  Paid'
<1> USE DEF PaidInv
<1>1. CASE ManageStep
  BY <1>1, ManagePaid
<1>2. CASE CloseFails \/ Found
  <2>1. Failed /\ manage.step = "none" /\ UNCHANGED <<failing, given, fails>>
    BY <1>2 DEF CloseFails, Found, At, Managing, flashVars
  <2>2. manage'.step = "free"
    BY <1>2 DEF CloseFails, Found, Manage
  <2> QED
    BY <2>1, <2>2, FoundPaid
<1>3. CASE Read
  <2>1. PICK k \in Bank : failing' = failing \/ failing' = failing \ {k}
    BY <1>3 DEF Read
  <2>2. IsFiniteSet(failing) /\ Cardinality(given) \in Nat /\ fails \in Nat
    BY Counts DEF KeepInv
  <2>3. /\ Cardinality(failing) \in Nat /\ Cardinality(failing') \in Nat
        /\ Cardinality(failing') <= Cardinality(failing)
    <3>1. /\ Cardinality(failing) \in Nat /\ Cardinality(failing \ {k}) \in Nat
          /\ Cardinality(failing \ {k}) <= Cardinality(failing)
      BY <2>2, SetCounts
    <3>2. CASE failing' = failing
      BY <3>1, <3>2
    <3>3. CASE failing' = failing \ {k}
      BY <3>1, <3>3
    <3> QED
      BY <2>1, <3>2, <3>3
  <2>4. Cardinality(given) + Cardinality(failing) <= fails
    BY <1>3 DEF Read, At, Managing, Paid
  <2> QED
    BY <1>3, <2>2, <2>3, <2>4 DEF Read, At, Managing, Paid
<1>4. CASE WriteInfo
  <2>1. manage.step = "none" /\ UNCHANGED given /\ 0 \in Int /\ BankOf(0) \in Bank
    BY <1>4, BankRange DEF WriteInfo, At, Managing
  <2>2. CASE ProgramGood(logs[job.lb], 0, job.lb) /\ UNCHANGED manage
    <3>1. Cardinality(given') + Cardinality(failing') <= fails'
      BY <2>1, <2>2, ProgramPaid
    <3> QED
      BY <2>1, <2>2, <3>1 DEF Paid
  <2>3. CASE ProgramFails(logs[job.lb], 0) /\ Manage(logs[job.lb], 0)
    <3>1. Cardinality(given') + 1 + Cardinality(failing' \ {BankOf(0)}) <= fails'
      BY <2>1, <2>3, ProgramPaid
    <3>2. manage'.step = "free"
      BY <2>3 DEF Manage
    <3> QED
      BY <2>1, <3>1, <3>2 DEF Paid
  <2> QED
    BY <1>4, <2>2, <2>3 DEF WriteInfo
<1>5. CASE Program
  <2>1. manage.step = "none" /\ UNCHANGED <<given, manage>> /\ ctl.page \in Int
    BY <1>5, Fields, PageAssumption DEF Program, At, Managing, KeepInv
  <2>2. Cardinality(given') + Cardinality(failing') <= fails'
    BY <1>5, <2>1, ProgramPaid DEF Program
  <2> QED
    BY <2>1, <2>2 DEF Paid
<1>6. CASE Start \/ Close \/ NewLog \/ NoNewLog \/ TakePage \/ UNCHANGED vars
  BY <1>6 DEF Start, StartWrite, StartRead, StartFlush, Call, Close, NewLog,
              NoNewLog, TakePage, vars, flashVars, Paid
<1> QED
  BY <1>1, <1>2, <1>3, <1>4, <1>5, <1>6 DEF Next, Work

----------------------------------------------------------------------------
(* Calls go on.                                                            *)
\* A block less outweighs any stage.
LEMMA BlockOutweighs ==
  ASSUME NEW c \in Nat, NEW d \in Nat, d = c - 1,
         NEW s \in Nat, NEW t \in Nat, t < s + PageCnt + 11
  PROVE  d * (PageCnt + 11) + t < c * (PageCnt + 11) + s
<1> DEFINE K == PageCnt + 11
<1>1. K \in Nat
  BY PageAssumption
<1>2. (c - 1) * K = c * K - K
  BY <1>1
<1>3. d * K = c * K - K /\ c * K \in Int
  BY <1>1, <1>2
<1>4. ASSUME NEW x \in Int, NEW y \in Int, x = y - K
      PROVE  x + t < y + s
  BY <1>4, PageAssumption
<1>5. d * K \in Int
  BY <1>1
<1> HIDE DEF K
<1>6. d * K + t < c * K + s
  BY <1>3, <1>4, <1>5
<1> QED
  BY <1>6 DEF K

\* Where no block is taken the stage decides.
LEMMA SameBlocks ==
  ASSUME TypeOK, UNCHANGED free, Stage \in Nat, Stage' \in Nat, Stage' < Stage
  PROVE  ToDo' < ToDo
<1>1. Cardinality(free) * (PageCnt + 11) \in Nat
  BY Counts, PageAssumption
<1> QED
  BY <1>1 DEF ToDo

\* The stage of a call is a number.
LEMMA StageType ==
  KeepInv => Stage \in Nat
<1> SUFFICES ASSUME KeepInv
             PROVE  Stage \in Nat
  OBVIOUS
<1>1. manage.at \in Int /\ 0 <= manage.at /\ manage.at <= PageCnt /\ PageCnt \in Nat
  BY Fields, PageAssumption DEF KeepInv
<1>2. manage.step \in {"none", "free", "copy", "unusable", "mark"}
  BY Fields DEF KeepInv
<1> QED
  BY <1>1, <1>2 DEF Stage, Managing

\* Where a block is taken the stage may start again.
LEMMA OneBlockLess ==
  ASSUME TypeOK, NEW b \in free, free' = free \ {b},
         Stage \in Nat, Stage' \in Nat, Stage' < Stage + PageCnt + 11
  PROVE  ToDo' < ToDo
<1>1. /\ Cardinality(free) \in Nat /\ Cardinality(free') \in Nat
      /\ Cardinality(free') = Cardinality(free) - 1
  BY Counts, SetCounts
<1> QED
  BY <1>1, BlockOutweighs DEF ToDo

\* Every step of a call, its first and its last apart, leaves less to do.
LEMMA StepAdvances ==
  ASSUME KeepInv, KeepInv', [Next]_vars, job # Idle, job' # Idle, vars' # vars
  PROVE  ToDo' < ToDo
<1>1. TypeOK /\ Stage \in Nat /\ (Stage \in Nat)'
  <2>1. Stage \in Nat
    BY StageType
  <2>2. (Stage \in Nat)'
    BY StageType, PTL
  <2> QED
    BY <2>1, <2>2 DEF KeepInv
<1>2. CASE GetFreeBlk
  <2>1. PICK b \in free : free' = free \ {b}
    BY <1>2 DEF GetFreeBlk
  <2>2. Stage' <= 10 + PageCnt
    <3>1. manage'.step \in {"copy", "mark"} /\ manage'.at = 0
      BY <1>1, <1>2 DEF GetFreeBlk, TypeOK, ManageType
    <3> QED
      BY <3>1, PageAssumption DEF Stage, Managing
  <2> QED
    BY <1>1, <2>1, <2>2, PageAssumption, OneBlockLess
<1>3. CASE NewLog
  <2>1. PICK b \in free : free' = free \ {b}
    BY <1>3 DEF NewLog
  <2>2. Stage' = Stage
    BY <1>3 DEF NewLog, Stage, Managing
  <2> QED
    BY <1>1, <2>1, <2>2, PageAssumption, OneBlockLess
<1>4. CASE CopyPage
  <2>1. manage.at \in Int /\ manage.at < PageCnt /\ PageCnt \in Nat
    <3>1. manage.at \in Int /\ manage.upto \in Int /\ manage.upto <= PageCnt
      BY <1>1, Fields, PageAssumption
    <3>2. manage.at < manage.upto
      BY <1>4 DEF KeepInv, ManageShape, CopyPage
    <3> QED
      BY <3>1, <3>2, PageAssumption
  <2>2. Stage = 10 + PageCnt - manage.at
    BY <1>4 DEF CopyPage, Stage, Managing
  <2>3. CASE Copied
    <3>1. manage'.step = (IF manage.at + 1 = manage.upto THEN "mark" ELSE "copy")
          /\ manage'.at = manage.at + 1
      BY <1>1, <2>3 DEF Copied, TypeOK, ManageType
    <3>2. Stage' \in {9, 10 + PageCnt - (manage.at + 1)}
      BY <3>1 DEF Stage, Managing
    <3>3. Stage' < Stage
      <4>1. 9 < 10 + PageCnt - manage.at
        BY <2>1
      <4>2. 10 + PageCnt - (manage.at + 1) < 10 + PageCnt - manage.at
        BY <2>1
      <4> QED
        BY <2>2, <3>2, <4>1, <4>2
    <3> QED
      BY <1>1, <1>4, <3>3, SameBlocks DEF CopyPage, tables
  <2>4. CASE manage' = [manage EXCEPT !.step = "unusable"]
    <3>1. Stage' = 8
      BY <1>1, <2>4 DEF Stage, Managing, TypeOK, ManageType
    <3>2. Stage' < Stage
      BY <2>1, <2>2, <3>1
    <3> QED
      BY <1>1, <1>4, <3>2, SameBlocks DEF CopyPage, tables
  <2> QED
    BY <1>4, <2>3, <2>4 DEF CopyPage
<1>5. CASE MarkNew
  <2>1. Stage = 8 /\ Stage' = 1
    BY <1>1, <1>5 DEF MarkNew, Stage, Managing, TypeOK, ManageType
  <2> QED
    BY <1>1, <1>5, <2>1, SameBlocks DEF MarkNew, tables
<1>6. CASE MarkOld
  <2>1. Stage = 9
    BY <1>6 DEF MarkOld, Stage, Managing
  <2>2. job.step \in {"close", "log", "try"}
        /\ job'.step = (IF job.step = "close" THEN "closed" ELSE job.step)
    BY <1>1, <1>6 DEF MarkOld, GoTo, KeepInv, ManageShape, Managing, TypeOK, JobType
  <2>3. Stage' \in {7, 5, 3}
    BY <1>6, <2>2 DEF MarkOld, NoManage, Stage, Managing
  <2> QED
    BY <1>1, <1>6, <2>1, <2>3, SameBlocks DEF MarkOld
<1>7. CASE CloseFails \/ Found
  <2>1. Stage \in {8, 3}
    BY <1>7 DEF CloseFails, Found, At, Stage, Managing
  <2>2. Stage' = 1
    BY <1>7 DEF CloseFails, Found, Manage, Stage, Managing
  <2> QED
    BY <1>1, <1>7, <2>1, <2>2, SameBlocks DEF CloseFails, Found, tables
<1>8. CASE Close
  <2>1. Stage \in {7, 8} /\ manage'.step = "none"
    BY <1>8 DEF Close, Stage, Managing
  <2>2. job'.step \in {"log", "read"}
    <3>1. CASE job.kind = "write"
      BY <1>1, <1>8, <3>1 DEF Close, GoTo, TypeOK, JobType
    <3>2. CASE job.kind = "read"
      BY <1>1, <1>8, <3>2 DEF Close, GoTo, TypeOK, JobType
    <3>3. job.kind # "idle"
      BY DEF KeepInv, JobShape
    <3>4. job.kind # "flush"
      BY <1>8 DEF Close, Return
    <3> QED
      BY <1>1, <3>1, <3>2, <3>3, <3>4, Fields
  <2>3. Stage' \in {5, 6}
    BY <2>1, <2>2 DEF Stage, Managing
  <2> QED
    BY <1>1, <1>8, <2>1, <2>3, SameBlocks DEF Close, tables
<1>9. CASE WriteInfo
  <2>1. Stage = 5
    BY <1>9 DEF WriteInfo, At, Stage, Managing
  <2>2. Stage' \in {4, 1}
    BY <1>1, <1>9 DEF WriteInfo, At, GoTo, Manage, Stage, Managing, TypeOK, JobType
  <2> QED
    BY <1>1, <1>9, <2>1, <2>2, SameBlocks DEF WriteInfo, tables
<1>10. CASE TakePage
  <2>1. Stage \in {4, 5} /\ Stage' = 3
    BY <1>1, <1>10 DEF TakePage, At, GoTo, Stage, Managing, TypeOK, JobType
  <2> QED
    BY <1>1, <1>10, <2>1, SameBlocks DEF TakePage
<1>11. ~ (NoFreeBlk \/ Read \/ NoNewLog \/ Program)
  BY DEF NoFreeBlk, Read, NoNewLog, Program, Return
<1>12. ~ Start
  BY DEF Start, StartWrite, StartRead, StartFlush, Call
<1> QED
  BY <1>2, <1>3, <1>4, <1>5, <1>6, <1>7, <1>8, <1>9, <1>10, <1>11, <1>12
  DEF Next, Work, ManageStep

----------------------------------------------------------------------------
(* The theorems.                                                           *)
\* Every step keeps what KeepInv says.
LEMMA KeepStep ==
  ASSUME KeepInv, [Next]_vars
  PROVE  KeepInv'
<1>1. CASE Start
  BY <1>1, StartWriteKeeps, StartReadKeeps, StartFlushKeeps DEF Start
<1>2. CASE ManageStep
  BY <1>2, GetFreeBlkKeeps, NoFreeBlkKeeps, CopyPageKeeps, MarkNewKeeps,
     MarkOldKeeps DEF ManageStep
<1>3. CASE Work /\ ~ManageStep
  BY <1>3, CloseFailsKeeps, CloseKeeps, ReadKeeps, NewLogKeeps, NoNewLogKeeps,
     WriteInfoKeeps, TakePageKeeps, FoundKeeps, ProgramKeeps DEF Work
<1>4. CASE UNCHANGED vars
  BY <1>4, StutterKeeps
<1> QED
  BY <1>1, <1>2, <1>3, <1>4 DEF Next

\* In every state that can be reached what is written is kept, for the
\* reasons KeepInv names (logic_ctl.c, mapping_base.c, bad_manage.c).
LEMMA KeepAlways == Spec => []KeepInv
<1>1. Init => KeepInv
  BY InitKeeps
<1>2. KeepInv /\ [Next]_vars => KeepInv'
  BY KeepStep
<1> QED
  BY <1>1, <1>2, PTL DEF Spec

\* Every variable stays in its type.
THEOREM TypesKept == Spec => []TypeOK
<1>1. KeepInv => TypeOK
  BY DEF KeepInv
<1> QED
  BY <1>1, KeepAlways, PTL

\* A page whose program did not fail stays readable through the log block
\* table, whichever log blocks go bad later, and their copies.
THEOREM WrittenKept == Spec => []KeepsWritten
<1>1. KeepInv => KeepsWritten
  BY DEF KeepInv
<1> QED
  BY <1>1, KeepAlways, PTL

\* No more blocks are marked bad than operations of the flash failed.
THEOREM WasteIsPaid == Spec => []WasteBounded
<1>1. Init => PaidInv
  BY InitKeeps, InitPaid DEF PaidInv
<1>2. PaidInv /\ [Next]_vars => PaidInv'
  BY KeepStep, StepPaid DEF PaidInv
<1>3. PaidInv => WasteBounded
  <2> SUFFICES ASSUME PaidInv
               PROVE  WasteBounded
    OBVIOUS
  <2>1. TypeOK /\ Paid
    BY DEF PaidInv, KeepInv
  <2>2. /\ IsFiniteSet(failing) /\ Cardinality(failing) \in Nat
        /\ Cardinality(given) \in Nat /\ fails \in Nat
    BY <2>1, Counts
  <2>3. CASE manage.step = "none"
    BY <2>1, <2>2, <2>3 DEF Paid, WasteBounded
  <2>4. CASE manage.step = "free"
    <3>1. PICK k \in Bank :
            Cardinality(given) + 1 + Cardinality(failing \ {k}) <= fails
      BY <2>1, <2>4 DEF Paid
    <3>2. Cardinality(failing \ {k}) \in Nat
      BY <2>2, SetCounts
    <3> QED
      BY <2>2, <3>1, <3>2 DEF WasteBounded
  <2>5. CASE manage.step \in {"copy", "mark", "unusable"}
    BY <2>1, <2>2, <2>5 DEF Paid, WasteBounded
  <2> QED
    BY <2>1, <2>3, <2>4, <2>5, Fields
<1> QED
  BY <1>1, <1>2, <1>3, PTL DEF Spec

\* Every step of a call leads it to its end (LML_BadBlkManage's retries too).
THEOREM CallsGoOn == Spec => CallsAdvance
<1>1. KeepInv /\ KeepInv' /\ [Next]_vars
      => [job # Idle /\ job' # Idle => ToDo' < ToDo]_vars
  BY StepAdvances
<1>2. KeepInv /\ [Next]_vars => KeepInv'
  BY KeepStep
<1>3. Init => KeepInv
  BY InitKeeps
<1> QED
  BY <1>1, <1>2, <1>3, PTL DEF Spec, CallsAdvance
=============================================================================
