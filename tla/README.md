# TLA+ models of the Allwinner boot software

This directory holds TLA+ modules, TLC configurations and TLAPS proofs for
hno/allwinner-boot, the eGON boot loader of the Allwinner A20 (sun7i): boot0, boot1
and their drivers. Most of the 3155 files of the repository are a cross compiler,
images, tools and headers; its own logic is in `src/boot0` and `src/boot1`, and the
models take the parts of it whose state lives through failures, interrupts or a stream
of calls. Paths below are relative to the repository; `nand/` stands for
`src/boot1/driver/nand-lib/nand_bsp_boot/src/`, `android/` for
`src/boot1/apps/Boot_Android/` and `card/` for `src/boot1/apps/Card_Android/card_sprite/`.

## The system

| part | state | operations | what is hard | what makes it correct |
|---|---|---|---|---|
| sector cache, `nand/logic/logic_cache.c` | write entries (page, bitmap, access count), read page | read, write, flush, flush of a device, open, close | order of write-backs, stale read page, full cache, loss of power | a read gives the last value written, the medium never goes back, flushed data survive |
| page interface, `nand/logic/logic_ctl.c` | `LogicalCtl`: the blocks of the last access | page read, page write, init, exit | block numbers kept from call to call, failed calls | reads find the last data written |
| block map, `nand/logic/mapping_base.c`, `mapping.c` | data, log and free block tables, their copy on flash | find, create and replace log blocks, mark and save tables | tables that are stale after a loss of power, no free block | every block has one role |
| page maps, `nand/logic/mapping.c` | a pool of page maps, dirty flags | switch, write back, read, rebuild | a write back that needs a merge | a map agrees with its log block |
| merges, `nand/logic/merge.c` | none of its own | swap, simple and move merge | loss of power in the middle, pages moved while mapped | no data lost, no page programmed twice |
| mount, `nand/format/nand_format.c` | tables during the scan | take saved tables, scan blocks, repair log blocks | several blocks that claim a logical block, ages that wrap | the data before the loss of power are found |
| bad blocks, `nand/logic/bad_manage.c` | the status of a bank, `LogicalCtl`, tables above | replace a block, copy its pages, mark it | failures found at a later operation, failures inside the handling of failures | nothing lost, no block given up for nothing, an end |
| read reclaim, wear levelling, `nand/logic/` | tables above | move a data block | choices by counters | as above |
| boot1 burner, `src/boot1/driver/drv_nand/nand_boot_operation/` | copies of boot1 in the first blocks, bad block marks | erase, program, verify, retry, give up a block | loss of power, worn blocks, images of several blocks | boot0 finds an intact copy |
| boot0, `src/boot0/` | the image buffer | read the head, read the copies, check, FEL mode | half written copies, pages that cannot be read | only a whole image is started, and always one |
| timers, `src/boot1/core/drivers/timer/sw_timer.c` | two timers, their owners, interrupt enables and status | request, start, stop, release, interrupt | registers that do not keep what is written, status bits that outlive an owner | a call-back only for its owner and after the delay |
| power and plug, `android/Board/power_ctrl/`, `android/usb_device/` | flags, `usb_working`, handle, current limit | detection, its time-out, the reset of a host, power key | interrupts at every step of the main program | limits as the plug asks, nothing left running at the end |
| panel, `src/boot1/driver/drv_de/drv_de.c` | flow counter, handle, finished flag | open flow, close flow, call-back, check | a flow that goes on in an interrupt while the main program waits, gives up or closes | steps once and in order |
| partition images, `card/update_data/`, `card/sparse/sparse.c` | decoder state, rest in front of the buffer | probe, decode, write, close | pieces that end anywhere in a chunk, results nobody looks at | the flash holds the image |
| card production, `card/card_sprite.c` | where it is, private data in memory | save, erase, burn, verify, restore, boot1, boot0 | faults, order, loss of power with a cache | a new loader only with its system |
| other: heap, DMA, clocks, files, display engine, SD card, script parser | registers, tables | | | see "Not modelled" |

How they work together:

* The file code of boot1 and the production call `NAND_LogicRead` and
  `NAND_LogicWrite`, which is the sector cache; it calls `LML_PageRead` and
  `LML_PageWrite`; these use the block map and the page maps, which call the merges.
  This runs in one thread, and only a loss of power comes between its steps; but the
  layers call each other in circles: a page write may create a log block, for which
  a victim has to be merged, for which its page map must be switched in, for which
  another page map must be written back, for which *its* log block must be merged.
* boot1 burns the copies that boot0 looks for at the next start. The two share
  the flash and nothing else.
* The panel and the plug detection both take timers from `sw_timer.c`, and the
  power chip's interrupt starts and ends a detection that the main program may be
  starting or ending itself. All share one word of flags.
* The production feeds the decoder piece by piece, the decoder writes through the
  sector cache, and boot1 and boot0 are burned when the cache has been written back.

## Modules

NAND storage:

* **SectorDisk**, abstract: a disk of sectors with one request at a time. `view` is
  the disk the caller sees, `stable` the one a loss of power leaves.
* **SectorCache** models `logic_cache.c`. `w`, `r` and `cnt` are `nand_w_cache`,
  `nand_r_cache` and `g_w_access_cnt`; `job` and `buf` are the call in progress and its
  buffer; `disk` is what lies behind the page interface. A step is the work on one
  page of the request, or on one entry of a flush. A bitmap is the domain of the
  entry's data. When no entry is free, the store at line 359 goes through the index past
  the array; the model leaves the entry's device number as it was. The refinement
  mapping to SectorDisk takes `disk` with the entries over it for `view`.
* **NandFlash** has the super blocks with their spare areas: `LogicInfo`,
  `LogicPageNum` and `PageStatus`. Page contents are the latest data of a logical
  page, older data, a page map, or nothing of use: writing new data turns other copies
  into older ones.
* **LogBlocks** models `logic_ctl.c`, `mapping_base.c`, `mapping.c` and `merge.c`
  while the disk is mounted. The call stack is explicit, as the depth is fixed: `op`
  is the call of the page interface, `post` the page map switch, `merge` the merge;
  the innermost active one takes the next step, and a step does at most one flash
  operation. `_page_map_tbl_cache_post` is PickEntry, WriteTable (or MergeForTable
  and TableMerged) and ReadTable; `_CreateNewLogBlk` is PickVictim, MergeVictim,
  CreateLog and WriteDataInfo; `PMM_GetLogPage` is UseLog, WriteLogInfo, MergeFullLog
  and WritePage; `LML_Exit` is StartExit, FlushEntry and SaveTables. The number 0xffff is -1.
* **Ftl** adds the mount: LoadTables when the saved tables are clean, otherwise
  StartScan, ScanBlock for every block (with the erase of what `_FillBlkToZoneTbl`
  gave up) and EndScan. PowerLoss is possible at any step, in the scan too.
  `_GetLastUsedPage` is Search: Halve is a turn of its loop, over lines of pages (HalveLines)
  when pages keep their bank, else over pages (HalvePages); the turns are a recursive function.

* **BadBlocks** models programs that fail while log blocks are written, in `logic_ctl.c`,
  `mapping_base.c` and `bad_manage.c`. `LML_PageWrite` returns when a program has
  begun (`CFG_SUPPORT_CHECK_WRITE_SYNCH` is 0); `failing` is what `PHY_SynchBank` will say of each bank, and it
  stays until the next operation of the bank. `ctl` is `LogicalCtl`, `job` the call
  in progress with the label it is at, `manage` is `LML_BadBlkManage` with the page it copies. `_CloseWritePage` is
  CloseFails, the replacement and Close; `_GetLogPageForWrite` is NewLog or NoNewLog, WriteInfo
  and TakePage; `__TRY_WRITE_PHYSIC_PAGE` is Found, the replacement and Program. A step does one
  program, or one marking, in which any of the banks may fail. It is a sibling of LogBlocks and
  shares no state with it: LogBlocks has the tables in full and a flash that does not fail.

Copies of boot1:

* **BootUpdate**, abstract: burning a version is an update that may be cut off at any
  moment; the next boot starts one whole version, the old one or the new one.
* **BootCopies** models `Nand_Burn_Boot1`, `write_in_one_blk` and `write_in_many_blks`
  (`burn`: the block, the page and the try they are at) with the primitives of
  `nand_write_on_A1.c`, and `load_Boot1_from_nand` with `load_and_check_in_one_blk` and
  `load_in_many_blks` (`load`: the block and the image buffer). A step of the burner is
  one operation on the flash; one block is one step of the loader, as nothing can
  happen in between that it could see. Worn blocks fail nondeterministically
  in erase, program and read. The refinement mapping takes the version that is whole in
  the buffer for the one that was started.

Interrupts of boot1:

* **SwTimer** models `sw_timer.c` and the enables of `int_service_entry.c` as operators
  on one record `m` of registers and management structures. Two registers behave as the
  hardware says and not as the code looks: the status register clears the ones written
  to it, so `|=` clears the other timer's bit too, and the set-enable register ignores zeros.
  The functions are there twice: as one step for an interrupt's handler (Request, Start, Stop, Release) and as the
  steps of a call of the main program (CallOf, Entered, Taken, Stored, Freed). The handler of a system call
  runs with its caller's interrupt mask (`arm_swi_o.S`, lines 31 to 43), so such a call is interrupted between the
  test of `used` and its setting, between the load and the store of CFG_SW_TIMER_INT_CTRL, and before `used` is cleared.
* **BootPower** composes it with `drv_de.c`, `power_ops_int.c`, `usb_storage_init.c`,
  `check_power_status` and `BootMain`. An interrupt handler is one step, as interrupts
  do not nest; the main program is cut at every call it makes with interrupts open,
  between the load and the store of `power_ops_int_status &= ~bit`, and inside its calls for a timer (`main.call`,
  CallTake, CallStore and CallFree).
  `usb_detect_enter` is EnterTest to EnterConnect when the main program calls it, and
  EnterUsb and EnterTm when a handler does; `usb_detect_exit` is ExitClear to ExitStore. `SwitchPower` has the power chip that
  does not answer: `boot_power_int_enable` and `boot_power_int_disable` then return before they touch the interrupt,
  which is left on (`pmu.nmi = "left"`). Two history variables say where a change at the plug met the main program: in the code of the
  detection or in a call for a timer (`plug.torn`), or in such a call (`plug.raced`).

Card production:

* **PartImage** models `update_data.c` and `sparse.c`. A byte of an image is its offset,
  and the flash says of every byte which byte of which image it has. One turn of the
  loop of `unsparse_direct_write` is a step. `at` is `tmp_buf`, as the offset of the
  byte it points to, so that the copy of a rest in front of the buffer leaves it alone.
* **CardSprite** EXTENDS it with `card_sprite_main`'s order of work; the actions of
  PartImage are its steps while an image is written.

**MCSectorCache**, **MCFtl**, **MCBadBlocks**, **MCBootCopies**, **MCBootPower** and
**MCCardSprite** instantiate these for TLC. **SectorCacheProofs**, **BadBlocksProofs**,
**FtlProofs**, **FtlDataProofs**, **BootCopiesProofs**, **BootPowerProofs**,
**PartImageProofs** and **CardSpriteProofs** have the theorems.

### What the models leave out

Flash translation layer:

* Choices by erase count and access age: the models take any free block, any victim.
  Everything shown holds for whatever the code picks.
* One zone, and the block with its tables stands outside the pool: `saved` is its
  valid content. Tables on flash are either clean and whole, or not used.
* LogBlocks and Ftl have no failing program or erase operation and no torn pages.
  Read reclaim and wear levelling are not called.
* BadBlocks has one zone, log blocks with a free item in their table that do not fill
  up, so no merges, and no loss of power. Data blocks and page maps are not written and left out. Each
  bank is a chip of its own, whose status a read may or may not clear. A read comes only after a write is closed,
  so what it reads is not followed; KeepsWritten is about the log block table, where it looks.
* The disk starts with every page written. Pages never written make the search for
  the last used page of a data block harder (see the hazards in PROJECT.json).
* The block search of 16 log block items, 3 cached page maps and 256 pages is done
  with 1 or 2 items, 1 map and 3 to 6 pages.
* LML_Read and LML_Write have a one-page buffer of their own; the sector cache calls
  the page functions directly, so it stays empty.
* SectorCache lies on a medium that does not fail: the code looks at no result of
  LML_PageRead and LML_PageWrite there.

Copies of boot1: the burner of boot0 (the same page writes, no result looked at), images
on SD card and SPI, time-outs of the controller. A worn block may also fail to keep its
bad block mark (`LostMarks`); see the bounds.

Boot and power: the transfers to the power chip (they fail or do not), what
happens during standby (any wake-up reason is possible), battery level and pictures,
the table of handlers and interrupt priorities, the auto-restart of timers, which no caller asks for. Of a
display other than the panel it is only known that BoardExit_Display switches the panel off all the same.
Inside a call for a timer, what lies between two of the cuts named above is one step, and two registers are read and written
in one: the status register, since an interrupt between its load and its store clears the same
bits or takes one that the store would have cleared, and the set-enable register, since nothing ever clears a bit of it.

Card production:

* Private partitions and a small UDISK are not burned; they are just not in a list.
* The partition table of PCs that the production adds to its own when it writes to a card (`create_stdmbr`,
  card_sprite.c:625-632): nothing depends on its result, which is only printed.
* The environment keeps some variables of the old one (env.c); its bytes count as the image's.
* A check sum is modelled by what it is to tell: whether all bytes are there.
* Chunks are shorter than 2^31 bytes and whole sectors, and images lie apart
  (WellFormed and PlacesAssumption). The code checks neither; in particular it compares
  the file's length with the partition (card_sprite.c), not the unpacked one.
* What is decoded after an error: data that look like the header of a chunk are taken
  for a bad one. A write that is refused leaves the flash as it was.
* Encryption of images, the key page, the progress bar, and the file system of the card.
* `NAND_EraseChip` starts behind the blocks of boot0 and boot1, so an erase is
  invisible to BootCopies; the two are not composed.

## Runs

| run | shows | bounds |
|---|---|---|
| MCSectorCache | caches never show or save an old value, and implement SectorDisk | 3 pages of 2 sectors, 2 entries (evictions happen), requests up to 2 sectors (aligned and across pages), counter wraps at 3 |
| MCFtlBanks | data found after every loss of power, for every age; last used pages are right; no page is programmed twice or out of its bank | 2 banks, 6 pages, 1 logical block, 2 spare ones, ages modulo 6; stops before a move merge with an empty bank ends |
| MCFtlTables | page maps and saved tables right with evictions; one role per block, reads right, no call fails, `LogicalCtl` right | 2 logical blocks, 2 log items, 1 cached map, 3 spare blocks, 3 pages |
| MCFtlFull | merges without a free block: calls fail but end | 2 logical blocks, 1 spare block |
| MCFtlEmptyBank | finding 1 | as MCFtlBanks |
| MCFtlStack | finding 2 | elements range over the blocks |
| MCBadBlocks | what was written without failure stays readable through failing programs, copies and marks; no more blocks given up than operations failed; calls end | 2 logical blocks, 4 blocks of 4 pages in 2 banks, 3 failures |
| MCBootCopies | every boot starts a whole version, the new one after a whole burn; damage adds up to one block for each cut | 4 blocks of 2 pages; images with two copies to a block, with one, and of two blocks; a worn block and two interrupted burns while the images fit in a block, one interruption and no worn block otherwise (SmallIfHurt) |
| MCBootCopiesHole | finding 3 | 5 blocks, a worn one, no interruption |
| MCBootPower | timers, flows, limits and the end of the detection under every interleaving | opening flow of two steps with one delay, closing flow of one; 2 events (plug, key, failure of the power chip); interrupts between the steps of a call for a timer |
| MCCardSprite | the flash gets the image, nothing else changes, loaders come last, private data survive, the decoder returns | sectors of 2, headers of 3 and 2, join 4 and keep 8 bytes (the order of sizes is the code's), 2 partitions, pieces of 8 to 30 bytes; 1 fault and a loss of power |
| MCCardSpriteLost | finding 4 | the same |

Bounds that the configurations set: `Written` is the set of pages that get writes,
`OldAges` the ages a data block may have when it is written again (a block grows older
with every swap or simple merge; a run that is not about ages stops after one or two),
`MaxRequest` and `Watched` limit requests of the sector cache, `AgeCnt` and `CounterWrap`
stand for 256 and 2^32. Six ages are enough for every difference the scan meets
(up to three) to have its sign and for the ages to wrap several times. Three
lines of pages are the fewest for which an unused page 0 whose age looks like the free mark
is not the middle of the search; powers of two from four up are as good, two are not, and
no chip has two. `MaxCuts`, `MaxWorn`, `MaxFails`, `MaxEvents` and `MaxFaults` bound what goes wrong. With three failures a block fails, its
replacement fails while it gets the copy, and one of the marks leaves a failing status for the next write, or
no block is left. The logical blocks and the blocks are symmetric there, as nothing orders them. Two
events are what the interleavings of the plug need: a removal that meets an insertion,
either of them with a failing power chip.

The constraint `NoEmptyBank` (defined in Ftl) of MCFtlBanks cuts off the behaviour that MCFtlEmptyBank
shows to be wrong: what follows it is no evidence about the rest of the code.
`SmallIfHurt` of MCBootCopies has the same purpose: an image of several blocks survives
one interrupted burn, and no more; a second one, a worn block (finding 3) or a torn page that looks
like a bad block mark can leave an area without a whole image of that size. The other
two switches there: with `LostMarks`, a worn block that cannot be marked and keeps
an intact older version lets that version start after a whole burn, so ImplementsUpdate
is only checked without; torn pages that look like marks (`TornBad`) are checked. What is cut off
may end in FEL, but starts nothing that it should not: OnlyAllowedStarts proves it.
MCFtlBanks sets `Align`: without it the search of the mount is wrong (below).

**Fairness.** Every fairness assumption is that the one processor goes on.
MCFtlFull assumes weak fairness of the steps of a call and of the
scan: there is one thread and nothing it waits for. SectorCache assumes none, as only safety is asked of it. BootUpdate promises that a boot ends
in a start, and BootCopies assumes weak fairness of the loader's step for it. BootPower
assumes it of the main program's steps, of each running timer's expiry and of each timer's
pending interrupt; none of plug, key, USB or power chip. CardSprite assumes it of the
production. No fairness is assumed of callers, users or the loss of power.

`CHECK_DEADLOCK FALSE` stands where the program ends: boot1 jumps to the system, the
production ends with OK, an error or without power.

### Findings

1. `merge.c:238`. After a move merge in which a bank got no page, `DstPage -
   INTERLEAVE_BANK_CNT` is negative, but the count is unsigned (`PageCntPerPhyBlk` is a
   `__u32`), so `LastUsedPage` becomes 0xffff or 0xfffe. The next log page is page 0
   again. Needs two interleaved banks and a log block full of rewrites of few pages.
2. `nand_format.c:1990`. Three of the four elements of `tmpBlkErase` are never set.
3. `nand_boot1_write.c:149`. A block that goes bad in the middle of a copy of several
   blocks counts as written: the copy has a hole.
4. `update_data.c:359`. A refused write of an image is reported to nobody, and for a sparse
   image the verification cannot see it: the card says OK.

Seen while modelling, without a run of their own:

* `usb_storage_init.c:533`. The flag of a host outlives the host, and the time-out of the next
  detection (`timer_test_usbdc`) takes it for an answer: a charger plugged in then keeps the limit of a host.
* `bad_manage.c:54`. The page whose program failed is copied with the others when the last page is closed
  (`logic_ctl.c:703` counts it in), so that its write, which returned 0, leaves wrong data.
* `logic_ctl.c:991`. The status looked at belongs to the bank, not to the block: one left
  over from a mark, or from another block's page, makes the log block at hand go and the worn one stay. A mark that fails
  can so cost a second, good block; WasteBounded says that it does not cost more than one.
* `logic_ctl.c:1002`. When no block is left the write fails, but the page map already
  names a page that was never written.
* `nand_format.c:860`. Without bank alignment the search returns the page it looked at
  last, used or not, although its header (line 788) promises "the last page page in the used group".
  nand_id.c:221 has such a chip (option 0x0408). With `Align = FALSE`, one bank, 3 blocks of 4 pages
  and one logical block, LastUsedFound is violated after a mount; the next log page then leaves a
  hole, a later search stops in front of it, and NoOverprogram is violated.
* `mapping_base.c:678` and `logic_ctl.c:919`. A read whose page map cannot be switched
  gets the older data of the data block and no error; after a failed write `LogicalCtl`
  holds the new logical block with the old block numbers. Both need a call that fails
  for want of a free block (ReadsLatest and ControlFresh are violated with the bounds of MCFtlFull).
* `sw_timer.c:211`. The interrupt of the other timer is cleared with one's own; OpenEnds
  excepts the flows that lose their timer this way (`tm.lost`).
* `drv_de.c:74`, `129`. Switching the panel off while it is going on starts the closing flow
  before the opening one has ended and drops its handle: the timer is never freed, and
  both flows count with one counter (`lcd.mixed`).
* A change at the plug while the main program is inside `usb_detect_enter` or
  `usb_detect_exit` can leave a timer in use that nobody has a handle of, or
  `usb_working` set (`plug.torn`). A removal and an insertion told by one interrupt count
  as a removal.
* `sw_timer.c:62`. Between the test that finds a timer free and the line that takes it, a plug's interrupt can start the detection
  with the same timer, while DRV_lcd_close or `usb_detect_enter` is about to take it: both hold it (DistinctTimers without `plug.raced` is
  violated), each of them stops, starts and frees it for the other, and its call-back is that of the later request.
* `sw_timer.c:165`. A time-out that takes that stale flag for an answer leaves the USB interrupt on. A host's reset can then come
  inside the eGon2_timer_start of the next detection: it releases the timer, and the start goes on with it.
* `power_ops_int.c:193`. When the power chip does not answer, `boot_power_int_disable` returns before it switches the interrupt
  off, and `power_int_rel` does not look. A plug then starts the detection, for which nobody is left, also after boot1's last
  release (QuietAtEnd without `pmu.nmi = "off"` is violated).
* `card_sprite.c:491`. A partition whose check sum cannot be read is taken as verified after a warning; with a write that was
  refused before, the card says OK for a partition that is not there (`card.warned`).
* `power_ops_int_status &= ~bit` loses a flag an interrupt sets in between.
* `sparse_format.h:46` documents a FILL chunk; `sparse.c:245` refuses it, and nobody
  looks at the refusal.

## Proofs

All theorems hold for every value of the constants under the named assumptions.

**SectorCacheProofs**: type correctness (TypeCorrect), at most one
entry per page (UniqueEntries), a read cache that equals the medium (FreshReads), a flush of the
device that leaves nothing behind (FlushDevComplete), that the medium only moves forward (MediumForward) and that SectorCache
implements SectorDisk (CacheImplementsDisk), for every size of the disk, page size,
number of entries, counter width and set of values.
OneEntryPerPage and ReadCacheFresh are not inductive alone. That no page is
in two entries is kept only because a fill looks for the page first, an entry holds
sectors of its own page only and a free entry holds nothing. That a
read gives the medium's value is kept only if the buffer of a read in progress agrees with the medium,
and a flush ends with nothing left only because entries before its index are free.
CallProgress says these things about the call in progress; IInv is the conjunction
of the four invariants. NextInv treats each action in a lemma of its own. MediumForward
and the refinement use IInv before and after a step; each action of SectorCache is a step of
SectorDisk (a write-back is Progress or a part of Store) or leaves its variables alone.

**BadBlocksProofs**: TypesKept, WrittenKept, WasteIsPaid and CallsGoOn, from BlockAssumption,
PageAssumption and FailsAssumption, for any number of blocks, pages, banks and failures. KeepsWritten
holds because a replacement copies all pages up to the one that is to be written next, so all that is held must lie
below it (HeldBelow, ManageShape), because the block named in `LogicalCtl` after a write is
the one in the table (ControlTrue), and because the target of the copy belongs to nobody (OneOwner,
ManageShape). KeepInv is the conjunction; one lemma for each action. WasteBounded needs `Paid`: a block
about to be given up, and every failing status that nobody has looked at, is paid for by a failure. For CallsAdvance, the free blocks
and the stage of the call make a number that every step of a call lowers: a retry takes a free block.

**BootCopiesProofs**: BurnDamageBounded, TypesKept, UpdatesSafe and OnlyAllowedStarts, from VersionAssumption, AreaAssumption and
LongestAssumption (there is a longest image, whose length is a word of its header).

* `IInv`: as long as the images in question fit in a block, all blocks but the worn ones, the one being
  written and one for each interruption since the last whole burn are full of copies of one
  allowed version. The inductive invariant has the shape of the burner's state, the
  progress of a burn (the pages before `at` of the block at hand are written, and blocks
  *behind* it hold the new version or are worn) and the bound itself; the step that needs
  work is the end of a burn, where every block is behind and so the count of cuts may go back to 0.
* `TypeInv` adds to TypeOK where the burner is in its image and how many attempts it has made. The loader is defined by
  recursion over copies (OneBlkBuf) and blocks (ManyBlkBuf). Induction over data is out of the prover's reach in
  general, but not over `0 .. n` when what is to be shown is that a set contains it: `CountUp` gets it from the
  least element outside, which the well-founded order of the numbers provides, and `TableExists` makes the function
  that the recursive definition chooses.
* UpdatesSafe is the refinement of BootUpdate step by step, ImplementsUpdate without its fairness, under `Survivable`:
  every image fits in a block, the mark of a worn block is not lost (`LostMarks`; the bounds say what happens
  otherwise), and MaxWorn + MaxCuts < BlkCnt. `SafeInv` adds that a block that looks good
  holds nothing of a version that is not allowed any more (`OldGone`; `Renewed` says it of the blocks behind the burner, which
  are full of the new version or marked), and that while the loader runs a whole block is still before it (`Boots`). There
  is one when it starts by counting: not all blocks can be worn or lost to interruptions. The first whole block starts, because
  its first copy passes.
* OnlyAllowedStarts (a boot that has ended in a start has started a whole version that was allowed) needs of `Survivable` only that marks are not lost, so it holds for images of any length,
  with any number of worn blocks and interruptions: `Replaced` is `Renewed` for parts of an image (a block behind the
  burner is marked or has pieces of the new version alone), and the loader's buffer has pieces of allowed versions only.
  That a boot then finds an image at all is what long images do not have (finding 3).

**BootPowerProofs**: TypesKept, TimersApart and StepsInOrder, from
NoFuncAssumption, FlowAssumption and FnAssumption, for flows of any length and any number of events.

* `IInv`: DistinctTimers says who owns a timer through the handles that are stored. It
  is not inductive: between a request and the store of its result, and between
  a release and the clearing of the handle, the owner is the main program's register. `Own`
  adds what the main program holds at each of these points. It speaks of the settled state of the timers, `ts`:
  a call of the main program counts as done from its first step on, whatever interrupts come before its last
  (`CallBegins`, `CallGoes`). That is sound unless an interrupt changes what the call has looked at, which is
  what a plug does (`plug.raced`); after that only `Types` is left.
* `Legal` says where each procedure of the main program comes back to, and `Beginning` what has not happened before the
  display is switched on.
* `Order`: what the panel has done is the first `cnt` steps of its flow, and while it is switched on (`Opening`) no timer
  can call the other flow, and none at all when the flow is over, because each call-back starts the timer at
  most once; so nothing is left to call the opening steps again once the closing ones begin (`Closing`). The detection never
  hands the panel a timer that counts, nor enables one of the panel's (`Mild`, `Firm`), through all steps of its calls. A step is either
  the panel's own (`Panel`, a lemma for each) or leaves its fields alone (`Aside`). `Whole`, the conjunction with `IInv`,
  is inductive, and FlowInOrder follows.

**PartImageProofs**: KeptBytesFit, FlashGetsImage and OnlyImageChanges, from
SizeAssumption and LayoutAssumption, for images, pieces, sector sizes and flash of any
size. The decoder has lost nothing when its position in the image (`at`) and its place on the flash (`start`)
belong together: at a header of chunk c, `at` is that header and `start` the place of
c's data; inside data, both are equally far into the chunk. `Place` says this, `Stream`
that the bytes kept, in work and to come make up the image, and `Plain` the same for plain
images. From these follow that what is written is the image (AsImage), that
a rest is shorter than Keep, and that what has come is passed over, in the buffer or kept (KeptFits). OnlyImage also speaks of the time after a failure, when `Place` is
lost and the decoder reads data as headers. `Bounded` is what is left then: a header is accepted only where
the image has one, each only once and in order, and what remains to be written of its chunk ends before
the place of the next. So a decoder out of step stays inside the place of its image.

**CardSpriteProofs**: FeedsPartImage, ProductionIsImage, BootIsLast, VerifiedIsBurned, PrivateSurvives and
TypesKept, from PartsAssumption and PlacesAssumption on top. Every step of the production is a step of PartImage or leaves its
variables alone, so its invariant holds in the composition. `OrderInv` then carries it
from partition to partition: `AtWork` ties the image that is open to the place in the list,
`SoFar` says that the partitions before it are on the flash unless a write failed, which needs that
images lie apart, and `BootOrder` that after NAND_Exit all are and none is only in the cache.
VerifiedBurned holds after failed writes too, so it cannot use `SoFar`: `VerifyInv` says that each plain partition
whose check was made, and not given up with a warning (`card.warned`), is on the flash, and the images written later cannot change it because even a decoder
out of step keeps to its place (`Bounded`). `PrivPlace` follows the private data from the flash to memory and back.

**FtlProofs**: TypesKept, RolesKept and CleanTablesKept, and CallsNeverFail and ControlKept, for any number of
blocks, pages, banks, logical blocks, log block items and cached page maps. Two hypotheses are the negation of
findings 2 and 1: `StackBlk = {None}` (the elements of `tmpBlkErase` that were never set hold no block number) and
`[]NoEmptyBank` (every move merge finds a page of each bank). MCFtlStack and MCFtlEmptyBank show that the
code does not see to either, and what happens then. MCFtlBanks, MCFtlTables and MCFtlFull have states that meet both.

* `IInv` says of the tables in memory, of saved tables that count as clean and of what a scan has found
  so far the same three things: `Roles` (no block has two), `Complete` (every block has one, but the
  target of a merge) and `Marks` (the spare areas of the blocks agree with their role, and free blocks are erased).
  `Marks` is what lets a mount find the roles again after a loss of power; `Complete` is what makes the
  free blocks of a mount be the right ones. The rest of IInv are the layers' promises to each other:
  `OpOk`, `PostOk` and `MergeOk` say for which table and log block each layer works and what it may assume when the
  layer below comes back, which is where the circle write, table switch, merge could go wrong.
  `CleanOk` is CleanTablesCurrent, kept because every change of a table comes after the dirty mark.
* CallsNeverFail and ControlKept need `BlkCnt > LogicCnt + SlotCnt`: a zone has 1024 blocks, at most 974 of
  them logical (nand_id.c) and 16 log blocks (nand_drv_cfg.h:64), so the difference is lost only to more than 33 bad
  blocks. MCFtlFull shows the failures without it. `FreeLeft` counts: the roles are different blocks, so one is left
  for a merge. A write that finds its log block full merges it and tries again, and fails if it is full again.
  `AgainOk` says it is not: after a swap or a simple merge there is no log block, and a move merge
  has only happened because few pages were valid (`MoveFew`, merge.c:497), so that there is `Room` in each bank.
* Page numbers and the mark 0xffff do not meet (PageNumberAssumption).

**FtlDataProofs** EXTENDS FtlProofs and goes on to the contents of the pages: DataFound (LatestFound), ReadsFind (ReadsLatest),
TablesTrue (MapsTrue), LastUsedKnown (LastUsedFound) and PagesProgrammedOnce (NoOverprogram), again for any
number of blocks, pages, banks, logical blocks, log block items and cached page maps. The hypotheses are those of
FtlProofs, with the count of blocks, as data is lost when a call fails, and `Align`: pages keep
their bank when they move (`SUPPORT_ALIGN_NAND_BNK`), without which the search of the mount is
wrong (nand_format.c:860, above).

* `Fam` names the blocks of one logical block: its data block, its log block one age newer, and the target of a merge, two ages newer
  or as old as the log block and with fewer lines used; no other block carries its number. For each page the data last
  written is found through data and log block alone. A mount that meets these blocks, in any order, can
  tell them apart by age and by how far they are used: `ScanFam` and `Pair` say what it has found so far, and `SlotsEnough`
  that there is a place for each log block.
* `Shape` says of each block that a page with data is in the bank of its logical page, that the used lines (super pages)
  come first, and that a page map table at the end of the block is what a rebuild would give. With it,
  `LastOk` (no page after the last used one is used) is what the binary search of a mount
  establishes: every turn keeps a used line below and an unused one above (`TurnSearches`, `EndsHalve`). No page is programmed twice
  because every program is of a page that these parts call erased (`Fresh`, an action property).
* `MapTrue` is what the page maps in the cache are; the map of a merge at work is not, and `MoveData` says how far the target
  has the pages (`Done`), and that the pages not copied yet are in the map where the log block has them. `MergeData` does so for
  the other merges, and says that the family keeps all its data until the old block is erased.
* OneBankNeverEmpty proves `[]NoEmptyBank` itself for one bank: then page 0 of every block in use has data
  (`Page0Data`), so that a move merge always has a page to move. OneBankDataFound therefore has all of these, and the results of
  FtlProofs, without that hypothesis: of every run of the code on a chip whose banks are not interleaved.

What is only model-checked: that ImplementsUpdate holds for images of several blocks too, that is, that a boot finds one, which
needs a copy whose blocks follow each other and are all whole; what starts there is proved. Of BootPower, QuietAtEnd,
NoEarlyCallback and DcOnlyUnanswered: their invariants would say of every step of a call what the status bits, the switches and
the detection's timer are, which is far more than who owns it. Liveness (CallsEnd, the fairness part of ImplementsUpdate, OpenEnds, CallsReturn) is out of
the prover's reach.

## Not modelled

* Failing programs and erases in merges, in the writing of page maps and tables, and in the mount, which call
  `LML_BadBlkManage` too: a failure would enter every step of LogBlocks, whose runs are at
  the limit of what TLC can do without. Read reclaim and wear levelling choose blocks by
  counters the models abstract from.
* Pages never written, first format of a chip, the block that holds the tables.
* The heap (`mem_alloc.c`): one caller at a time, no order of calls that the
  repository fixes. DMA, clocks, files, module loading: registers or tables without state that
  outlives a call.
* Controllers, ECC, chip detection, DRAM, the display engine, USB protocol, SD/MMC: the
  repository does not give the hardware's behaviour.
* Script parser, packaging tools, toolchain.
