----------------------------- MODULE BootCopies -----------------------------
(***************************************************************************)
(* The copies of boot1 in the first blocks of the NAND flash: the program  *)
(* that burns them (nand_boot1_write.c over nand_write_on_A1.c, part of    *)
(* boot1) and the one that looks for a good one at every start             *)
(* (load_Boot1_from_nand.c over adv_NF_read.c, part of boot0).  Both are   *)
(* sequential, so what can come between their steps is a loss of power;    *)
(* what can go wrong inside them is an erase, a program or a read of a     *)
(* worn block.                                                             *)
(*                                                                         *)
(* An image is its pages, all that its check sum can tell apart: a buffer  *)
(* passes when every page is the right page of one version.                *)
(***************************************************************************)
EXTENDS Integers, FiniteSets, FiniteSetsExt

CONSTANTS Version, NoVersion,
          Len,        \* pages of the image of each version
          BlkCnt,     \* BOOT1_LAST_BLK_NUM - BOOT1_START_BLK_NUM + 1
          PageCnt,    \* pages of a block
          MaxWorn,    \* bound: blocks whose erase or program may fail
          LostMarks,  \* the mark of a worn block may not be written or read
          TornBad,    \* a half programmed page may look like a bad block mark
          MaxCuts     \* bound: burns interrupted since the last whole one

ASSUME VersionAssumption ==
  /\ Version # {} /\ NoVersion \notin Version
  /\ Len \in [Version -> Nat \ {0}]
ASSUME AreaAssumption ==
  /\ BlkCnt \in Nat \ {0} /\ PageCnt \in Nat \ {0}
  /\ MaxWorn \in Nat /\ MaxCuts \in Nat
  /\ LostMarks \in BOOLEAN /\ TornBad \in BOOLEAN

TOLERANCE == 3

Blk == 0 .. BlkCnt - 1
Page == 0 .. PageCnt - 1

Piece(v, k) == [ver |-> v, no |-> k]
Blank == Piece(NoVersion, 0)
Garbage == Piece(NoVersion, 1)
AllPages(x) == [p \in Page |-> x]

VARIABLES blk,      \* pages of the blocks and their bad block marks
          worn,     \* blocks that have begun to fail
          mode,     \* what the machine is doing
          burn,     \* Nand_Burn_Boot1: where it is
          load,     \* load_Boot1_from_nand: block and image buffer
          allowed,  \* history: versions a boot may find
          cuts      \* history: burns interrupted since the last whole one

vars == <<blk, worn, mode, burn, load, allowed, cuts>>

MinOf(a, b) == IF a < b THEN a ELSE b

OneBlk(v) == Len[v] <= PageCnt

\* Pages of the part of the image that goes to one block, and how many of
\* the block's pages its copies fill.
Chunk(v, off) == MinOf(Len[v] - off, PageCnt)
Filled(v, off) == (PageCnt \div Chunk(v, off)) * Chunk(v, off)

\* What write_in_one_blk leaves in a block when nothing goes wrong.
Fill(v, off) ==
  [p \in Page |-> IF p < Filled(v, off) THEN Piece(v, off + (p % Chunk(v, off)))
                  ELSE Blank]

\* The layout Nand_Burn_Boot1 makes of good blocks.
BlksPerCopy(v) == (Len[v] + PageCnt - 1) \div PageCnt
Layout(v) ==
  [b \in Blk |-> [page |-> Fill(v, (b % BlksPerCopy(v)) * PageCnt), bad |-> FALSE]]

----------------------------------------------------------------------------
(* The burner.  start is the first block of the copy being written, off the *)
(* pages of the image that went to the blocks before cur.                   *)

NoBurn == [ver |-> NoVersion, step |-> "none", start |-> 0, cur |-> 0,
           off |-> 0, at |-> 0, try |-> 0]

FirstStep(v) == IF OneBlk(v) THEN "erase" ELSE "status"

MayWear(b) == b \in worn \/ Cardinality(worn) < MaxWorn

BeginBurn(v) ==
  /\ mode \in {"off", "fel"} /\ mode' = "burn"
  /\ burn' = [NoBurn EXCEPT !.ver = v, !.step = FirstStep(v)]
  /\ allowed' = allowed \cup {v}
  /\ UNCHANGED <<blk, worn, load, cuts>>

Burning(step) == mode = "burn" /\ burn.step = step

\* NF_read_status, as the burner and the loader see it: the mark of a worn
\* block may not be read.
SeesBad(b) == IF LostMarks /\ b \in worn THEN BOOLEAN ELSE {blk[b].bad}

\* After the work on block cur, whatever came of it: write_in_many_blks takes
\* any result for a success and adds the chunk to what is written.
AfterBlock(b) == [b EXCEPT !.step = "next", !.off = @ + Chunk(b.ver, b.off)]

\* write_in_many_blks leaves out the blocks that are marked.
ReadStatus ==
  /\ Burning("status")
  /\ \E bad \in SeesBad(burn.cur) :
       burn' = [burn EXCEPT !.step = IF bad THEN "next" ELSE "erase"]
  /\ UNCHANGED <<blk, worn, mode, load, allowed, cuts>>

EraseBlock ==
  /\ Burning("erase")
  /\ blk' = [blk EXCEPT ![burn.cur] = [page |-> AllPages(Blank), bad |-> FALSE]]
  /\ burn' = [burn EXCEPT !.step = "program", !.at = 0]
  /\ UNCHANGED <<worn, mode, load, allowed, cuts>>

EraseFails ==
  /\ Burning("erase") /\ MayWear(burn.cur)
  /\ worn' = worn \cup {burn.cur}
  /\ \/ UNCHANGED blk
     \/ blk' = [blk EXCEPT ![burn.cur].page = AllPages(Garbage)]
  /\ burn' = [burn EXCEPT !.step = "mark"]
  /\ UNCHANGED <<mode, load, allowed, cuts>>

\* Mutant: no second copy.
ThisPageOnce == Piece(burn.ver, burn.off + burn.at)
ThisPage == Piece(burn.ver, burn.off + (burn.at % Chunk(burn.ver, burn.off)))

\* Mutant: one page more than the copies have.
ProgramPageMore ==
  /\ Burning("program")
  /\ blk' = [blk EXCEPT ![burn.cur].page[burn.at] = ThisPage]
  /\ burn' = IF burn.at + 1 <= Filled(burn.ver, burn.off)
             THEN [burn EXCEPT !.at = @ + 1]
             ELSE AfterBlock(burn)
  /\ UNCHANGED <<worn, mode, load, allowed, cuts>>
ProgramPage ==
  /\ Burning("program")
  /\ blk' = [blk EXCEPT ![burn.cur].page[burn.at] = ThisPage]
  /\ burn' = IF burn.at + 1 < Filled(burn.ver, burn.off)
             THEN [burn EXCEPT !.at = @ + 1]
             ELSE AfterBlock(burn)
  /\ UNCHANGED <<worn, mode, load, allowed, cuts>>

ProgramFails ==
  /\ Burning("program") /\ MayWear(burn.cur)
  /\ worn' = worn \cup {burn.cur}
  /\ blk' = [blk EXCEPT ![burn.cur].page[burn.at] = Garbage]
  /\ burn' = [burn EXCEPT !.step = "verify"]
  /\ UNCHANGED <<mode, load, allowed, cuts>>

\* NF_verify_block writes its patterns over the whole block.  A block that
\* passes is tried again, TOLERANCE times in all.
VerifyBlock ==
  /\ Burning("verify")
  /\ blk' = [blk EXCEPT ![burn.cur].page = AllPages(Garbage)]
  /\ \/ burn' = [burn EXCEPT !.step = "scrap"]
     \/ burn' = [burn EXCEPT !.try = @ + 1,
                             !.step = IF burn.try + 1 < TOLERANCE
                                      THEN "erase" ELSE "scrap"]
  /\ UNCHANGED <<worn, mode, load, allowed, cuts>>

\* The end of write_in_one_blk for a bad block: erase it (after a failed
\* program only) and mark it, the results of both ignored.
GiveUpBlock ==
  /\ mode = "burn" /\ burn.step \in {"mark", "scrap"}
  /\ \E marked \in IF LostMarks THEN BOOLEAN ELSE {TRUE} :
       \/ blk' = [blk EXCEPT ![burn.cur].bad = marked]
       \/ /\ burn.step = "scrap"
          /\ blk' = [blk EXCEPT ![burn.cur] =
                       [page |-> AllPages(Blank), bad |-> marked]]
  /\ burn' = AfterBlock(burn)
  /\ UNCHANGED <<worn, mode, load, allowed, cuts>>

\* The loops of write_in_many_blks and of Nand_Burn_Boot1 go to the next
\* block: for the rest of the copy, or for a copy of its own.
NextBlock ==
  /\ Burning("next") /\ burn.cur < BlkCnt - 1
  /\ burn' = [burn EXCEPT
       !.cur = @ + 1, !.try = 0, !.at = 0,
       !.step = FirstStep(burn.ver),
       !.start = IF burn.off >= Len[burn.ver] THEN burn.cur + 1 ELSE @,
       !.off = IF burn.off >= Len[burn.ver] THEN 0 ELSE @]
  /\ UNCHANGED <<blk, worn, mode, load, allowed, cuts>>

\* Nand_Burn_Boot1 returns 0: no result of a block matters to it.
EndBurn ==
  /\ Burning("next") /\ burn.cur = BlkCnt - 1
  /\ mode' = "off" /\ burn' = NoBurn
  /\ allowed' = {burn.ver} /\ cuts' = 0
  /\ UNCHANGED <<blk, worn, load>>

----------------------------------------------------------------------------
(* The loader.                                                              *)

MaxLen == Max({Len[v] : v \in Version})
\* One image is the longest: the length is a word of the header.
ASSUME LongestAssumption == MaxLen \in Nat /\ \A v \in Version : Len[v] <= MaxLen

\* The image buffer at BOOT1_BASE: its first sector, with magic and length,
\* and its pages.
NoImage == [head |-> NoVersion, page |-> [k \in 0 .. MaxLen - 1 |-> Garbage]]
NoLoad == [cur |-> 0, buf |-> NoImage]

HeadOf(piece) == IF piece.no = 0 THEN piece.ver ELSE NoVersion

\* NF_read of n pages, page from of the block and on, to page at of the
\* buffer.  A page in lost cannot be read: with "ecc" the buffer gets wrong
\* data that nobody is told of, with "error" NF_read ends there.
ReadPages(buf, at, b, from, n, lost, how) ==
  LET stops == {p \in lost : from <= p /\ p < from + n /\ how = "error"}
      got == IF stops = {} THEN n ELSE Min(stops) - from
      Seen(p) == IF p \in lost THEN Garbage ELSE blk[b].page[p]
  IN [head |-> IF at = 0 /\ got > 0 THEN HeadOf(Seen(from)) ELSE buf.head,
      page |-> [k \in DOMAIN buf.page |->
        IF at <= k /\ k < at + got THEN Seen(from + k - at) ELSE buf.page[k]]]

\* The first sector of block b; the rest of page 0 stays as it was.
ReadHead(buf, b, lost, how) ==
  LET x == IF 0 \in lost THEN Garbage ELSE blk[b].page[0]
  IN IF 0 \in lost /\ how = "error" THEN buf
     ELSE [head |-> HeadOf(x),
           page |-> [buf.page EXCEPT ![0] = IF @ = x THEN x ELSE Garbage]]

\* Mutant: the magic only.
CheckFileMagic(buf, size) ==
  buf.head \in Version /\ size = Len[buf.head]
\* check_sum and check_magic of the image in the buffer.
CheckFile(buf, size) ==
  \E v \in Version :
    /\ buf.head = v /\ size = Len[v]
    /\ \A k \in 0 .. size - 1 : buf.page[k] = Piece(v, k)

\* load_and_check_in_one_blk: the buffer after the first copy that passes, or
\* after the last one.
OneBlkBuf(buf, b, size, lost, how) ==
  LET copies == PageCnt \div size
      After[k \in 0 .. copies] ==
        IF k = 0 THEN buf
        ELSE IF k > 1 /\ CheckFile(After[k - 1], size) THEN After[k - 1]
        ELSE ReadPages(After[k - 1], 0, b, (k - 1) * size, size, lost, how)
  IN After[copies]

\* load_in_many_blks from block b: the buffer and the pages it has of the
\* image.  Blocks in bad are left out.
ManyBlkBuf(buf, b, size, bad, lost, how) ==
  LET After[c \in b .. BlkCnt] ==
        IF c = b THEN [buf |-> buf, off |-> 0]
        ELSE LET x == After[c - 1] IN
          IF x.off >= size \/ (c - 1) \in bad THEN x
          ELSE LET n == MinOf(size - x.off, PageCnt) IN
            [buf |-> ReadPages(x.buf, x.off, c - 1, 0, n, lost[c - 1], how),
             off |-> x.off + n]
  IN After[BlkCnt]

PowerOn ==
  /\ mode = "off" /\ mode' = "load"
  /\ load' = NoLoad
  /\ UNCHANGED <<blk, worn, burn, allowed, cuts>>

\* The loop of load_Boot1_from_nand, one block: jump to the image if it
\* passes, to FEL if it is the last block or blocks are missing.
TryBlock ==
  /\ mode = "load"
  /\ \E sees \in [Blk -> BOOLEAN], l \in SUBSET Page, how \in {"ecc", "error"} :
       LET b == load.cur
           bad == {c \in Blk : sees[c]}
           lost == [c \in Blk |-> IF c \in worn THEN l ELSE {}]
           head == ReadHead(load.buf, b, lost[b], how)
           size == Len[head.head]
           many == ManyBlkBuf(head, b, size, bad, lost, how)
           found == b \notin bad /\ head.head # NoVersion
           buf == IF b \in bad THEN load.buf
                  ELSE IF ~found THEN head
                  ELSE IF OneBlk(head.head) THEN OneBlkBuf(head, b, size, lost[b], how)
                  ELSE many.buf
           passed == found /\ CheckFile(buf, size)
           lack == found /\ ~OneBlk(head.head) /\ many.off < size
       IN /\ \A c \in Blk : sees[c] \in SeesBad(c)
          /\ worn = {} => l = {} /\ how = "ecc"
          /\ load' = [cur |-> IF b < BlkCnt - 1 THEN b + 1 ELSE b, buf |-> buf]
          /\ mode' = IF passed /\ ~lack THEN "up"
                     ELSE IF lack \/ b = BlkCnt - 1 THEN "fel" ELSE "load"
  /\ UNCHANGED <<blk, worn, burn, allowed, cuts>>

----------------------------------------------------------------------------
(* Power.                                                                   *)

TurnOff ==
  /\ mode \in {"load", "up", "fel"} /\ mode' = "off"
  /\ load' = NoLoad
  /\ UNCHANGED <<blk, worn, burn, allowed, cuts>>

\* The operation the power failed in has happened, has not, or has left its
\* page or block half done.
Torn(b, pages) ==
  \E bad \in IF TornBad THEN BOOLEAN ELSE {FALSE} :
    blk' = [blk EXCEPT ![b] =
      [page |-> [p \in Page |-> IF p \in pages THEN Garbage ELSE @.page[p]],
       bad |-> IF 0 \in pages THEN bad ELSE @.bad]]

PowerFails ==
  /\ mode = "burn" /\ mode' = "off" /\ cuts < MaxCuts
  /\ \/ UNCHANGED blk
     \/ burn.step \in {"erase", "verify", "scrap"} /\ Torn(burn.cur, Page)
     \/ burn.step = "program" /\ Torn(burn.cur, {burn.at})
  /\ burn' = NoBurn
  /\ cuts' = cuts + 1
  /\ UNCHANGED <<worn, load, allowed>>

Init ==
  /\ \E v \in Version : blk = Layout(v) /\ allowed = {v}
  /\ worn = {} /\ cuts = 0
  /\ mode = "off"
  /\ burn = NoBurn /\ load = NoLoad

Next ==
  \/ \E v \in Version : BeginBurn(v)
  \/ ReadStatus \/ EraseBlock \/ EraseFails
  \/ ProgramPage \/ ProgramFails \/ VerifyBlock \/ GiveUpBlock
  \/ NextBlock \/ EndBurn
  \/ PowerOn \/ TryBlock \/ TurnOff \/ PowerFails

Spec == Init /\ [][Next]_vars /\ WF_vars(TryBlock)

----------------------------------------------------------------------------

PieceType == [ver : Version \cup {NoVersion}, no : 0 .. MaxLen]

TypeOK ==
  /\ blk \in [Blk -> [page : [Page -> PieceType], bad : BOOLEAN]]
  /\ worn \in SUBSET Blk /\ Cardinality(worn) <= MaxWorn
  /\ mode \in {"off", "burn", "load", "up", "fel"}
  /\ burn \in [ver : Version \cup {NoVersion},
               step : {"none", "status", "erase", "program", "verify", "mark",
                       "scrap", "next"},
               start : Blk, cur : Blk, off : 0 .. MaxLen,
               at : 0 .. PageCnt - 1, try : 0 .. TOLERANCE]
  /\ load \in [cur : Blk, buf : [head : Version \cup {NoVersion},
                                 page : [0 .. MaxLen - 1 -> PieceType]]]
  /\ allowed \in SUBSET Version
  /\ cuts \in 0 .. MaxCuts

\* A copy that write_in_many_blks has written to its end ("written with
\* success", says its header) can be loaded from the block it starts in.
WrittenCopyLoads ==
  (Burning("next") /\ burn.off = Len[burn.ver] /\ ~OneBlk(burn.ver)) =>
    LET marked == {b \in Blk : blk[b].bad}
        read == ManyBlkBuf(NoImage, burn.start, burn.off, marked,
                           [b \in Blk |-> {}], "ecc")
    IN CheckFile(read.buf, burn.off)

\* Copies of one block: a block is whole when it holds nothing but copies of
\* one version that a boot may find.
Whole(b) ==
  \E v \in allowed : blk[b] = [page |-> Fill(v, 0), bad |-> FALSE]

\* While every image that may be in the area fits in a block, an interrupted
\* burn costs at most one block, however many versions were begun and in
\* whichever blocks they ended, and a worn block costs no other.
DamageBounded ==
  (\A v \in allowed : OneBlk(v)) =>
    Cardinality({b \in Blk \ worn : ~Whole(b) /\ ~(mode = "burn" /\ b = burn.cur)})
      <= cuts


\* The version that is whole in the buffer.
Started ==
  IF \E v \in Version : \A k \in 0 .. Len[v] - 1 : load.buf.page[k] = Piece(v, k)
  THEN load.buf.page[0].ver ELSE NoVersion

\* The blocks, the burner and the loader are a safe update: see BootUpdate.
Update == INSTANCE BootUpdate WITH
  phase <- CASE mode = "burn" -> "burning"
             [] mode = "load" -> "booting"
             [] OTHER -> mode,
  pending <- burn.ver,
  running <- IF mode = "up" THEN Started ELSE NoVersion

\* Every boot starts a whole version, the old or the new one, and always one:
\* whatever burns were interrupted, as long as there were fewer of them since
\* the last whole burn than blocks that are not worn.  (With an image of
\* several blocks: one interrupted burn, no worn and no torn block.)
ImplementsUpdate == Update!UpdateSpec
=============================================================================
