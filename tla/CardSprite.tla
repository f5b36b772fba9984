----------------------------- MODULE CardSprite -----------------------------
(***************************************************************************)
(* Card production (card_sprite.c): the private data of the old system are *)
(* saved in memory, the partitions of the image file are burned one after  *)
(* the other and some of them verified, the private data come back, and    *)
(* then the partition table, boot1 and boot0 are written, in this order.   *)
(* NAND flash keeps sectors in its cache until NAND_Exit.                  *)
(***************************************************************************)
EXTENDS PartImage, Sequences, FiniteSets

CONSTANTS
  Lists,       \* the download maps: sequences of partitions with their
               \* image, their place, whether it is the environment, and
               \* whether there is a file to verify it
  Mbr,         \* image of the partition table
  Pieces,      \* possible values of TEST_BLK_BYTES
  MaxFaults    \* bound: writes and reads of the flash that fail

ASSUME PartsAssumption ==
  /\ Mbr \in Image /\ ~Layout[Mbr].sparse
  /\ Lists \subseteq
       Seq([img : Image, at : 0 .. Size, env : BOOLEAN, verify : BOOLEAN])
  /\ \A p \in Pieces : p \in Nat /\ p >= HeadLen /\ p % Sector = 0
  /\ MaxFaults \in Nat
\* The table of partitions comes first, and no image reaches into another's
\* place: the images were packed for partitions that hold them.
Apart(i, s, j, t) == s + Up(Extent(i)) <= t \/ t + Up(Extent(j)) <= s
ASSUME PlacesAssumption ==
  \A l \in Lists : \A p \in 1 .. Len(l) :
    /\ Apart(l[p].img, l[p].at, Mbr, 0)
    /\ \A q \in 1 .. Len(l) :
         p # q => Apart(l[p].img, l[p].at, l[q].img, l[q].at)

VARIABLES
  card,   \* where card_sprite is, the partition it is at, the size of a
          \* piece, whether it burns NAND flash; history: whether all writes
          \* have left the cache, the number of faults, what went wrong
          \* without anybody looking at the result, and the partitions whose
          \* verification ended with a warning
  priv,   \* the private data: on the flash, in memory; history: on the flash
          \* before
  boot    \* what has been burned of boot1 and boot0

all == <<vars, card, priv, boot>>

CardInit ==
  /\ Init /\ img = Mbr
  /\ \E p \in Pieces, n \in BOOLEAN, l \in Lists :
       card = [pc |-> "fetch", list |-> l, part |-> 1, piece |-> p,
               nand |-> n, synced |-> TRUE, faults |-> 0, lost |-> {},
               warned |-> {}]
  /\ \E had \in BOOLEAN : priv = [flash |-> had, ram |-> FALSE, had |-> had]
  /\ boot = {}

Goto(p) == card' = [card EXCEPT !.pc = p]
NextPart == card' = [card EXCEPT !.pc = "part", !.part = @ + 1]
This == card.list[card.part]
Fault == card.faults < MaxFaults
\* On to p after the fault f.
Ignore(f, p) ==
  /\ Fault
  /\ card' = [card EXCEPT !.pc = p, !.faults = @ + 1, !.lost = @ \cup {f}]

\* private_fetch_from_flash, whose result is not looked at, and the hardware
\* scan, which may erase the flash.
Fetch ==
  /\ card.pc = "fetch"
  /\ \/ priv' = [priv EXCEPT !.ram = priv.flash] /\ Goto("scan")
     \/ UNCHANGED priv /\ Ignore("private", "scan")
  /\ UNCHANGED <<vars, boot>>
Scan ==
  /\ card.pc = "scan"
  /\ Goto("part") \/ Goto("error")
  /\ \E erase \in BOOLEAN : priv' = [priv EXCEPT !.flash = @ /\ ~erase]
  /\ UNCHANGED <<vars, boot>>

\* The image file on the card cannot be read.
CardUnreadable ==
  /\ card.pc \in {"part", "data", "boot1", "boot0"} /\ ~busy
  /\ card.pc = "part" => card.part <= Len(card.list)
  /\ Goto("error")
  /\ UNCHANGED <<vars, priv, boot>>

OpenPart ==
  /\ card.pc = "part" /\ card.part <= Len(card.list)
  /\ Open(This.img, This.at, This.env)
  /\ Goto("data")
  /\ UNCHANGED <<priv, boot>>
\* Mutant: the way to the partition table leads past the private data.
PartsDoneSkips ==
  /\ card.pc = "part" /\ card.part > Len(card.list)
  /\ Goto("open_mbr") /\ format' = "unknown" /\ next' = -1
  /\ UNCHANGED <<env, decoder, flash, img, base, hi, failed, priv, boot>>
PartsDone ==
  /\ card.pc = "part" /\ card.part > Len(card.list)
  /\ Goto("private")
  /\ UNCHANGED <<vars, priv, boot>>

\* Mutant: the last piece is rounded up to whole sectors.
NextPieceUp ==
  IF Lay.total - hi > card.piece THEN card.piece ELSE Up(Lay.total - hi)
\* The next piece: a whole one, or what is left.
NextPiece ==
  IF Lay.total - hi > card.piece THEN card.piece ELSE Lay.total - hi
Writing == card.pc \in {"data", "mbr"} /\ hi < Lay.total
\* A step of update_flash_write.  It returns 0 whatever happens.
Noted ==
  IF failed' /\ ~failed
  THEN card' = [card EXCEPT !.faults = @ + 1, !.lost = @ \cup {"write"},
                            !.synced = FALSE]
  ELSE card' = [card EXCEPT !.synced = @ /\ flash' = flash]
FlashWrite ==
  /\ \/ Writing /\ Probe
     \/ Writing /\ NextPiece > 0 /\ WritePlain(NextPiece)
     \/ Writing /\ Fault /\ PlainFails(NextPiece)
     \/ Writing /\ TakeEnv(NextPiece)
     \/ Writing /\ Enter(NextPiece)
     \/ Decode /\ (DataFails => Fault)
     \/ card.pc = "data" /\ hi = Lay.total /\ EnvExit
        /\ (failed' => failed \/ Fault)
  /\ Noted
  /\ UNCHANGED <<priv, boot>>

\* The whole image has been given.
PartDone ==
  /\ card.pc = "data" /\ hi = Lay.total /\ ~busy
  /\ format = "bad" => env # "ram"
  /\ IF This.verify /\ ~This.env THEN Goto("verify") ELSE NextPart
  /\ UNCHANGED <<vars, priv, boot>>
\* The verification ends with a warning, and the partition counts as burned.
Warn(n) ==
  card' = [card EXCEPT !.pc = "part", !.part = @ + 1, !.faults = @ + n,
                       !.warned = @ \cup {card.part}]
\* There is no file to verify with on the card, or it cannot be read.
VerifyUnread ==
  /\ card.pc = "verify"
  /\ Warn(0)
  /\ UNCHANGED <<vars, priv, boot>>
\* The sum over a sparse image is that of the pieces; a plain one is read
\* back from the flash.
VerifySparse ==
  /\ card.pc = "verify" /\ format = "detect"
  /\ NextPart
  /\ UNCHANGED <<vars, priv, boot>>
\* Mutant: a difference is only reported.
VerifyPlainReports ==
  /\ card.pc = "verify" /\ format = "bad"
  /\ Open(This.img, This.at, FALSE) /\ NextPart
  /\ UNCHANGED <<priv, boot>>
VerifyPlain ==
  /\ card.pc = "verify" /\ format = "bad"
  /\ Open(This.img, This.at, FALSE)
  /\ \/ Intact(This.img, This.at) /\ NextPart
     \/ ~Intact(This.img, This.at) /\ Goto("error")
     \/ Fault /\ Warn(1)
  /\ UNCHANGED <<priv, boot>>

\* private_date_restore; what is wrong with it is only reported.
RestorePrivate ==
  /\ card.pc = "private"
  /\ \/ /\ priv' = [priv EXCEPT !.flash = @ \/ priv.ram]
        /\ card' = [card EXCEPT !.pc = "open_mbr",
                                !.synced = @ /\ ~priv.ram]
     \/ priv.ram /\ UNCHANGED priv /\ Ignore("private", "open_mbr")
  /\ flash' = flash /\ Close
  /\ UNCHANGED boot

OpenMbr ==
  /\ card.pc = "open_mbr"
  /\ Open(Mbr, 0, FALSE) /\ Goto("mbr")
  /\ UNCHANGED <<priv, boot>>
\* Mutant: boot1 is burned before the cache is written back.
FlashExitLater ==
  /\ card.pc = "mbr" /\ hi = Lay.total
  /\ flash' = flash /\ Close
  /\ Goto("boot1")
  /\ UNCHANGED <<priv, boot>>
\* update_flash_close and, for NAND flash, update_flash_exit.
FlashExit ==
  /\ card.pc = "mbr" /\ hi = Lay.total
  /\ flash' = flash /\ Close
  /\ \/ card' = [card EXCEPT !.pc = "boot1", !.synced = @ \/ card.nand]
     \/ card.nand /\ Ignore("exit", "boot1")
  /\ UNCHANGED <<priv, boot>>

\* update_boot1 and update_boot0, whose results count.
Burn(b, to) ==
  /\ card.pc = b
  /\ boot' = boot \cup {b} /\ Goto(to)
  /\ UNCHANGED <<vars, priv>>
BurnFails(b) ==
  /\ card.pc = b
  /\ Goto("error")
  /\ UNCHANGED <<vars, priv, boot>>

\* The power fails; what is only in the cache may be lost.
PowerOff ==
  /\ card.pc \notin {"ok", "error", "off"}
  /\ \/ flash' = flash
     \/ card.nand /\ ~card.synced /\ flash' = [b \in 0 .. Size - 1 |-> NoData]
  /\ Close
  /\ Goto("off")
  /\ UNCHANGED <<priv, boot>>

Work ==
  \/ Fetch \/ Scan \/ OpenPart \/ PartsDone \/ FlashWrite \/ PartDone
  \/ VerifyUnread \/ VerifySparse \/ VerifyPlain \/ RestorePrivate \/ OpenMbr
  \/ FlashExit \/ Burn("boot1", "boot0") \/ Burn("boot0", "ok")
  \/ BurnFails("boot1") \/ BurnFails("boot0") \/ CardUnreadable
CardNext == Work \/ PowerOff
CardSpec == CardInit /\ [][CardNext]_all /\ WF_all(Work)

----------------------------------------------------------------------------
(* Properties.                                                             *)
TypeOK ==
  /\ card.part \in 1 .. Len(card.list) + 1 /\ card.faults \in Nat
  /\ boot \subseteq {"boot1", "boot0"}
  /\ format \in {"unknown", "detect", "bad"} /\ left < Half
  /\ busy => at + rest <= Lay.total

Burned ==
  /\ \A p \in 1 .. Len(card.list) : Intact(card.list[p].img, card.list[p].at)
  /\ Intact(Mbr, 0)
\* A device that starts with the new boot1 or boot0 has the rest of the new
\* system, even if the power fails; only a failed write or a chunk nobody
\* can decode, whose results the program does not look at, are excepted.
BootLast ==
  /\ boot # {} /\ card.lost \cap {"write", "exit"} = {} => Burned
  /\ "boot0" \in boot => "boot1" \in boot

\* A plain partition that is to be verified is on the flash when the card
\* says OK, even when a write failed unseen, unless its own verification
\* ended with a warning: the file to verify it with, or the flash, could not
\* be read.  What goes wrong with one partition, and what is burned after it,
\* does not spoil the verification of another.
VerifiedBurned ==
  card.pc = "ok" =>
    \A p \in 1 .. Len(card.list) :
      LET part == card.list[p] IN
      part.verify /\ ~part.env /\ ~Layout[part.img].sparse
        /\ p \notin card.warned => Intact(part.img, part.at)

\* The private data of a device survive a whole production, in memory while
\* the flash is erased.
PrivateKept ==
  card.pc = "ok" /\ priv.had /\ "private" \notin card.lost => priv.flash

\* Every call of the decoder returns.
CallsReturn == busy ~> ~busy

\* The production opens, feeds and closes the images as PartImage, and what
\* is proved of it, expects.
FeedsImages == Init /\ [][Next]_vars

\* "CARD OK" says that the partitions and their table are on the flash.
OkMeansBurned == card.pc = "ok" => Burned
=============================================================================
