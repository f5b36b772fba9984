--------------------------- MODULE CardSpriteProofs ---------------------------
(***************************************************************************)
(* The production feeds every image as PartImage expects, so that what is  *)
(* proved of the decoder holds for the whole production.                   *)
(***************************************************************************)
EXTENDS CardSprite, PartImageProofs

\* Where the production is in its list.
CardType ==
  /\ card \in [pc : {"fetch", "scan", "part", "data", "verify", "private", "open_mbr",
                      "mbr", "boot1", "boot0", "ok", "error", "off"},
                list : Lists, part : Nat \ {0}, piece : Pieces, nand : BOOLEAN,
                synced : BOOLEAN, faults : Nat,
                lost : SUBSET {"private", "write", "exit"}, warned : SUBSET Nat]
  /\ card.pc \in {"data", "verify"} => card.part <= Len(card.list)

LEMMA ListTypes ==
  ASSUME NEW l \in Lists, NEW k \in Nat \ {0}
  PROVE  /\ Len(l) \in Nat
         /\ k <= Len(l) =>
              l[k].img \in Image /\ l[k].at \in 0 .. Size /\ l[k].env \in BOOLEAN
<1> DEFINE R == [img : Image, at : 0 .. Size, env : BOOLEAN, verify : BOOLEAN]
<1>1. l \in Seq(R)
  BY PartsAssumption
<1> HIDE DEF R
<1>2. Len(l) \in Nat /\ (k <= Len(l) => l[k] \in R)
  BY <1>1
<1> QED
  BY <1>2 DEF R

LEMMA Fields ==
  ASSUME CardType
  PROVE  /\ card.part + 1 \in Nat \ {0} /\ card.faults + 1 \in Nat
         /\ \A f \in {"private", "write", "exit"} :
              card.lost \cup {f} \in SUBSET {"private", "write", "exit"}
<1>1. card.part \in Nat \ {0} /\ card.faults \in Nat
      /\ card.lost \in SUBSET {"private", "write", "exit"}
  BY DEF CardType
<1> QED
  BY <1>1

\* A move of the production to p.
LEMMA Moves ==
  ASSUME CardType, NEW p
  PROVE  /\ p \in {"scan", "part", "private", "open_mbr", "mbr", "boot1", "boot0", "ok",
                   "error", "off"} /\ Goto(p) => CardType'
         /\ p \in {"data", "verify"} /\ card.part <= Len(card.list) /\ Goto(p) => CardType'
         /\ NextPart => CardType'
         /\ Warn(0) \/ Warn(1) => CardType'
         /\ p \in {"scan", "open_mbr", "boot1"} /\ (\E f \in {"private", "exit"} : Ignore(f, p))
              => CardType'
         /\ Noted => CardType'
<1> USE DEF CardType
<1>0. /\ card.part + 1 \in Nat \ {0} /\ card.faults + 1 \in Nat
      /\ \A f \in {"private", "write", "exit"} :
           card.lost \cup {f} \in SUBSET {"private", "write", "exit"}
  BY Fields
<1>1. ASSUME p \in {"scan", "part", "private", "open_mbr", "mbr", "boot1", "boot0", "ok",
                    "error", "off"}, Goto(p)
      PROVE  CardType'
  BY <1>1 DEF Goto
<1>2. ASSUME p \in {"data", "verify"}, card.part <= Len(card.list), Goto(p)
      PROVE  CardType'
  BY <1>2 DEF Goto
<1>3. ASSUME NextPart PROVE CardType'
  BY <1>0, <1>3 DEF NextPart
<1>4. ASSUME p \in {"scan", "open_mbr", "boot1"}, NEW f \in {"private", "exit"}, Ignore(f, p)
      PROVE  CardType'
  <2>1. card' = [card EXCEPT !.pc = p, !.faults = card.faults + 1, !.lost = card.lost \cup {f}]
    BY <1>4 DEF Ignore
  <2> QED
    BY <1>0, <1>4, <2>1
<1>5. ASSUME Noted PROVE CardType'
  <2>1. (flash' = flash) \in BOOLEAN
    OBVIOUS
  <2>2. CASE failed' /\ ~failed
    <3>1. card' = [card EXCEPT !.faults = card.faults + 1, !.lost = card.lost \cup {"write"},
                              !.synced = FALSE]
      BY <1>5, <2>2 DEF Noted
    <3> QED
      BY <1>0, <3>1
  <2>3. CASE ~(failed' /\ ~failed)
    BY <1>5, <2>1, <2>3 DEF Noted
  <2> QED
    BY <2>2, <2>3
<1>6. ASSUME Warn(0) \/ Warn(1) PROVE CardType'
  <2>1. PICK n \in {0, 1} : Warn(n)
    BY <1>6
  <2>2. /\ card.part \in Nat /\ card.faults + n \in Nat
        /\ card.warned \cup {card.part} \in SUBSET Nat
    OBVIOUS
  <2> QED
    BY <1>0, <2>1, <2>2 DEF Warn
<1> QED
  BY <1>1, <1>2, <1>3, <1>4, <1>5, <1>6

\* The next piece is one that the decoder can be given.
LEMMA GoodPiece ==
  ASSUME CardType, Types, Writing
  PROVE  NextPiece \in 1 .. Lay.total /\ Piece(NextPiece)
<1>1. card.piece \in Nat \ {0} /\ card.piece >= HeadLen /\ card.piece % Sector = 0
  BY PartsAssumption, SizeAssumption DEF CardType
<1>2. hi \in Nat /\ Lay.total \in Nat /\ hi < Lay.total /\ img \in Image
  BY LayoutAssumption DEF Types, Writing, WellFormed, Lay
<1>3. Lay.sparse => HeadLen <= Lay.total
  <2> SUFFICES ASSUME Lay.sparse PROVE HeadLen <= Lay.total
    OBVIOUS
  <2>1. Lay.n \in Nat /\ Lay.head[1] = HeadLen /\ Layout[img].sparse
    BY <1>2, LayoutOrder DEF Lay
  <2>2. 0 \in 0 .. Lay.n /\ 0 + 1 = 1
    BY <2>1
  <2>3. Lay.head[0 + 1] <= Lay.total
    BY <1>2, <2>1, <2>2, LayoutOrder DEF Lay
  <2> QED
    BY <2>1, <2>2, <2>3
<1>4. CASE Lay.total - hi > card.piece
  <2>1. NextPiece = card.piece
    BY <1>4 DEF NextPiece
  <2> QED
    BY <1>1, <1>2, <1>4, <2>1 DEF Piece
<1>5. CASE ~(Lay.total - hi > card.piece)
  <2>1. NextPiece = Lay.total - hi
    BY <1>5 DEF NextPiece
  <2> QED
    BY <1>2, <1>3, <2>1 DEF Piece
<1> QED
  BY <1>4, <1>5

\* A step of the production is a step of the image, or leaves it alone.
LEMMA CardStep ==
  CardType /\ Types /\ [CardNext]_all => CardType' /\ [Next]_vars
<1> SUFFICES ASSUME CardType, Types, [CardNext]_all
             PROVE  CardType' /\ [Next]_vars
  OBVIOUS
<1>1. /\ Len(card.list) \in Nat /\ card.part \in Nat \ {0}
      /\ card.part <= Len(card.list) =>
           This.img \in Image /\ This.at \in 0 .. Size /\ This.env \in BOOLEAN
      /\ card.pc \in {"data", "verify"} => card.part <= Len(card.list)
  BY ListTypes DEF This, CardType
<1>2. CASE Fetch
  BY <1>2, Moves DEF Fetch
<1>3. CASE Scan
  BY <1>3, Moves DEF Scan
<1>4. CASE CardUnreadable
  BY <1>4, Moves DEF CardUnreadable
<1>5. CASE OpenPart
  BY <1>1, <1>5, Moves DEF OpenPart, Next
<1>6. CASE PartsDone
  BY <1>6, Moves DEF PartsDone
<1>7. CASE FlashWrite
  <2>1. CardType'
    BY <1>7, Moves DEF FlashWrite
  <2>2. Next
    <3>1. ASSUME Writing, \/ WritePlain(NextPiece) \/ PlainFails(NextPiece)
                          \/ TakeEnv(NextPiece) \/ Enter(NextPiece)
          PROVE  Next
      <4>1. NextPiece \in 1 .. Lay.total /\ Piece(NextPiece)
        BY <3>1, GoodPiece
      <4>2. GivePiece(NextPiece)
        BY <3>1, <4>1 DEF GivePiece
      <4> QED
        BY <4>1, <4>2 DEF Next
    <3> QED
      BY <1>7, <3>1 DEF FlashWrite, Next
  <2> QED
    BY <2>1, <2>2
<1>8. CASE PartDone
  BY <1>1, <1>8, Moves DEF PartDone
<1>9. CASE VerifyUnread \/ VerifySparse
  BY <1>9, Moves DEF VerifyUnread, VerifySparse
<1>10. CASE VerifyPlain
  BY <1>1, <1>10, Moves DEF VerifyPlain, Next
<1>11. CASE RestorePrivate
  <2>1. CardType'
    <3>1. ASSUME card' = [card EXCEPT !.pc = "open_mbr", !.synced = @ /\ ~priv.ram]
          PROVE  CardType'
      <4>1. (card.synced /\ ~priv.ram) \in BOOLEAN
        OBVIOUS
      <4> QED
        BY <3>1, <4>1 DEF CardType
    <3> QED
      BY <1>11, <3>1, Moves DEF RestorePrivate
  <2> QED
    BY <1>11, <2>1 DEF RestorePrivate, Next
<1>12. CASE OpenMbr
  <2>1. Mbr \in Image /\ 0 \in 0 .. Size
    BY PartsAssumption, SizeAssumption
  <2> QED
    BY <1>12, <2>1, Moves DEF OpenMbr, Next
<1>13. CASE FlashExit
  <2>1. CardType'
    <3>1. ASSUME card' = [card EXCEPT !.pc = "boot1", !.synced = @ \/ card.nand]
          PROVE  CardType'
      <4>1. (card.synced \/ card.nand) \in BOOLEAN
        OBVIOUS
      <4> QED
        BY <3>1, <4>1 DEF CardType
    <3> QED
      BY <1>13, <3>1, Moves DEF FlashExit
  <2> QED
    BY <1>13, <2>1 DEF FlashExit, Next
<1>14. CASE \/ Burn("boot1", "boot0") \/ Burn("boot0", "ok")
            \/ BurnFails("boot1") \/ BurnFails("boot0")
  BY <1>14, Moves DEF Burn, BurnFails
<1>15. CASE PowerOff
  BY <1>15, Moves DEF PowerOff, Next
<1>16. CASE UNCHANGED all
  BY <1>16 DEF all, CardType
<1> QED
  BY <1>2, <1>3, <1>4, <1>5, <1>6, <1>7, <1>8, <1>9, <1>10, <1>11, <1>12, <1>13, <1>14,
     <1>15, <1>16 DEF CardNext, Work

LEMMA CardInductive == CardSpec => [](CardType /\ IInv) /\ Spec
<1>1. CardInit => CardType /\ Init
  <2> SUFFICES ASSUME CardInit PROVE CardType /\ Init
    OBVIOUS
  <2>1. PICK p \in Pieces, n \in BOOLEAN, l \in Lists :
          card = [pc |-> "fetch", list |-> l, part |-> 1, piece |-> p,
                  nand |-> n, synced |-> TRUE, faults |-> 0, lost |-> {},
                  warned |-> {}]
    BY DEF CardInit
  <2> QED
    BY <2>1 DEF CardInit, CardType
<1>2. Init => IInv
  BY InitInv
<1>3. CardType /\ IInv /\ [CardNext]_all => CardType' /\ IInv' /\ [Next]_vars
  BY CardStep, FrameStep, PlaceStep, StreamStep, PlainStep DEF IInv
<1> QED
  BY <1>1, <1>2, <1>3, PTL DEF CardSpec, Spec

\* The production opens, feeds and closes its images as PartImage allows, for
\* all lists, sizes of pieces and numbers of faults.
THEOREM FeedsPartImage == CardSpec => FeedsImages
  BY CardInductive DEF Spec, FeedsImages

\* Whatever the list and the size of a piece, what the decoder has put on the
\* flash is the image, up to where it has come.
THEOREM ProductionIsImage == CardSpec => []AsImage
  BY CardInductive, FlashGetsImage, PTL

----------------------------------------------------------------------------
(* Boot1 comes last.  What is on the flash of the parts before the current *)
(* one stays there, because a part is written only within its own place,   *)
(* and boot1 is written when nothing is left in the cache.                 *)

\* The images of the first n parts of list l are on flash f.
OnFlash(f, l, n) ==
  \A p \in 1 .. n : Holds(f, l[p].img, l[p].at, Extent(l[p].img))
AllOnFlash(f, l) == OnFlash(f, l, Len(l)) /\ Holds(f, Mbr, 0, Extent(Mbr))
WritesSeen == "write" \notin card.lost

\* What PartImage is doing for the production.
AtWork ==
  /\ WritesSeen => ~failed
  /\ card.pc \notin {"data", "mbr"} => ~busy
  /\ card.pc = "data" => img = This.img /\ base = This.at
  /\ card.pc = "mbr" => img = Mbr /\ base = 0 /\ env = "no"
  /\ card.pc \in {"data", "mbr"} /\ format = "unknown" => next >= 0
\* What has been burned so far.
SoFar ==
  WritesSeen =>
    /\ card.pc \in {"fetch", "scan", "part", "data"} =>
         OnFlash(flash, card.list, card.part - 1)
    /\ card.pc = "verify" => OnFlash(flash, card.list, card.part)
    /\ card.pc \in {"private", "open_mbr", "mbr"} =>
         OnFlash(flash, card.list, Len(card.list))
    /\ card.pc \in {"boot1", "boot0", "ok"} => AllOnFlash(flash, card.list)
\* The order of the two boot files, and the cache before them.
BootOrder ==
  /\ boot # {} => card.pc \in {"boot0", "ok", "error", "off"}
  /\ card.pc = "boot0" => "boot1" \in boot
  /\ "boot0" \in boot => "boot1" \in boot
  /\ card.pc \in {"boot1", "boot0"} /\ card.nand /\ "exit" \notin card.lost => card.synced
  /\ card.pc \in {"error", "off"} /\ boot # {} /\ card.lost \cap {"write", "exit"} = {}
       => AllOnFlash(flash, card.list)
OrderInv == AtWork /\ SoFar /\ BootOrder

LEMMA BurnedMeans == Burned <=> AllOnFlash(flash, card.list)
  BY DEF Burned, Intact, HoldsUpTo, AllOnFlash, OnFlash, Holds

\* A write in the place of one image leaves an image in another place alone.
LEMMA Elsewhere ==
  ASSUME NEW f, NEW g, NEW i \in Image, NEW s \in Nat, NEW j \in Image, NEW t \in Nat,
         Apart(i, s, j, t) \/ Apart(j, t, i, s), SameBut(f, g, s, Up(Extent(i))),
         Holds(f, j, t, Extent(j))
  PROVE  Holds(g, j, t, Extent(j))
<1>1. Extent(i) \in Int /\ Extent(j) \in Int
  BY LayoutOrder, LayoutAssumption DEF Extent, WellFormed
<1>2. Up(Extent(i)) \in Int /\ Up(Extent(j)) \in Int /\ Up(Extent(j)) >= Extent(j)
  BY <1>1, Rounding
<1>3. \A b \in 0 .. Size - 1 :
        b \in t .. t + Extent(j) - 1 => b \notin s .. s + Up(Extent(i)) - 1
  <2> HIDE DEF Up
  <2> QED
    BY <1>1, <1>2, SizeAssumption DEF Apart
<1> HIDE DEF Up, Extent
<1> QED
  BY <1>3 DEF SameBut, Holds

\* The parts of a list, and the places they have.
LEMMA Places ==
  ASSUME NEW l \in Lists, NEW p \in 1 .. Len(l)
  PROVE  /\ l[p].img \in Image /\ l[p].at \in Nat
         /\ Apart(l[p].img, l[p].at, Mbr, 0)
         /\ \A q \in 1 .. Len(l) :
              p # q => Apart(l[p].img, l[p].at, l[q].img, l[q].at)
<1>1. p \in Nat \ {0} /\ p <= Len(l)
  BY ListTypes
<1>2. l[p].img \in Image /\ l[p].at \in 0 .. Size
  BY <1>1, ListTypes
<1> QED
  BY <1>2, PlacesAssumption, SizeAssumption

LEMMA OthersStay ==
  ASSUME NEW f, NEW g, NEW l \in Lists, NEW k \in 1 .. Len(l), NEW n \in Nat, n < k,
         SameBut(f, g, l[k].at, Up(Extent(l[k].img))), OnFlash(f, l, n)
  PROVE  OnFlash(g, l, n)
<1> SUFFICES ASSUME NEW p \in 1 .. n
             PROVE  Holds(g, l[p].img, l[p].at, Extent(l[p].img))
  BY DEF OnFlash
<1>1. p \in 1 .. Len(l) /\ p # k
  BY ListTypes
<1>2. Holds(f, l[p].img, l[p].at, Extent(l[p].img))
  BY DEF OnFlash
<1>3. /\ l[p].img \in Image /\ l[p].at \in Nat /\ l[k].img \in Image /\ l[k].at \in Nat
      /\ Apart(l[p].img, l[p].at, l[k].img, l[k].at)
  BY <1>1, Places
<1> QED
  BY <1>2, <1>3, Elsewhere

LEMMA PartsStay ==
  ASSUME NEW f, NEW g, NEW l \in Lists, SameBut(f, g, 0, Up(Extent(Mbr))),
         OnFlash(f, l, Len(l))
  PROVE  OnFlash(g, l, Len(l))
<1> SUFFICES ASSUME NEW p \in 1 .. Len(l)
             PROVE  Holds(g, l[p].img, l[p].at, Extent(l[p].img))
  BY DEF OnFlash
<1>1. Holds(f, l[p].img, l[p].at, Extent(l[p].img))
  BY DEF OnFlash
<1>2. /\ l[p].img \in Image /\ l[p].at \in Nat /\ Apart(l[p].img, l[p].at, Mbr, 0)
      /\ Mbr \in Image /\ 0 \in Nat
  BY Places, PartsAssumption
<1> QED
  BY <1>1, <1>2, Elsewhere

\* What a step of the writing does to the state the production relies on.
LEMMA WriteFrame ==
  ASSUME CardType, IInv, OrderInv, FlashWrite
  PROVE  /\ card.pc \in {"data", "mbr"} /\ UNCHANGED <<img, base, boot>>
         /\ format' # "unknown" /\ (env = "no" => env' = "no")
         /\ card' = [card EXCEPT !.faults = card'.faults, !.lost = card'.lost,
                                 !.synced = card'.synced]
         /\ ("write" \notin card'.lost => WritesSeen /\ ~failed')
<1>1. busy => card.pc \in {"data", "mbr"} /\ format = "detect"
  BY DEF OrderInv, AtWork, IInv, Calls
<1>2. card.pc \in {"data", "mbr"}
  BY <1>1 DEF FlashWrite, Writing, Decode, Leave, TotalHead, ChunkHeadShort, ChunkHeadBad,
     ChunkHead, DataWhole, DataKeep, DataPart, DataFails, Turn
<1>3. UNCHANGED <<img, base, boot>> /\ format' # "unknown" /\ (env = "no" => env' = "no")
  <2>1. CASE Decode
    BY <1>1, <2>1 DEF FlashWrite, Decode, Leave, TotalHead, ChunkHeadShort, ChunkHeadBad,
       ChunkHead, DataWhole, DataKeep, DataPart, DataFails, Turn
  <2>2. CASE ~Decode
    BY <2>2 DEF FlashWrite, Probe, WritePlain, PlainFails, TakeEnv, Enter, EnvExit
  <2> QED
    BY <2>1, <2>2
<1>4. Noted
  BY DEF FlashWrite
<1>5. /\ card' = [card EXCEPT !.faults = card'.faults, !.lost = card'.lost,
                              !.synced = card'.synced]
      /\ ("write" \notin card'.lost => WritesSeen /\ ~failed')
  <2>1. CASE failed' /\ ~failed
    <3>1. card' = [card EXCEPT !.faults = card.faults + 1, !.lost = card.lost \cup {"write"},
                               !.synced = FALSE]
      BY <1>4, <2>1 DEF Noted
    <3>2. card'.lost = card.lost \cup {"write"} /\ card'.faults = card.faults + 1
          /\ card'.synced = FALSE
      BY <3>1 DEF CardType
    <3> QED
      BY <3>1, <3>2
  <2>2. CASE ~(failed' /\ ~failed)
    <3> DEFINE still == card.synced /\ flash' = flash
    <3>1. card' = [card EXCEPT !.synced = still]
      BY <1>4, <2>2 DEF Noted
    <3> HIDE DEF still
    <3>2. card'.lost = card.lost /\ card'.faults = card.faults /\ card'.synced = still
      BY <3>1 DEF CardType
    <3>3. card' = [card EXCEPT !.faults = card.faults, !.lost = card.lost, !.synced = still]
      BY <3>1 DEF CardType
    <3>4. "write" \notin card'.lost => WritesSeen /\ ~failed'
      BY <2>2, <3>2 DEF WritesSeen, OrderInv, AtWork
    <3> QED
      BY <3>2, <3>3, <3>4
  <2> QED
    BY <2>1, <2>2
<1> QED
  BY <1>2, <1>3, <1>5

LEMMA WriteOrder ==
  ASSUME CardType, IInv, OrderInv, FlashWrite
  PROVE  OrderInv'
<1>1. /\ card.pc \in {"data", "mbr"} /\ UNCHANGED <<img, base, boot>>
      /\ format' # "unknown" /\ (env = "no" => env' = "no")
      /\ card' = [card EXCEPT !.faults = card'.faults, !.lost = card'.lost,
                              !.synced = card'.synced]
      /\ ("write" \notin card'.lost => WritesSeen /\ ~failed')
  BY WriteFrame
<1>2. card'.pc = card.pc /\ card'.part = card.part /\ card'.list = card.list
  BY <1>1 DEF CardType
<1>3. AtWork'
  BY <1>1, <1>2 DEF OrderInv, AtWork, WritesSeen, This
<1>4. BootOrder'
  <2>1. boot = {} /\ boot' = {}
    BY <1>1 DEF OrderInv, BootOrder
  <2> QED
    BY <1>1, <1>2, <2>1 DEF BootOrder
<1>5. SoFar'
  <2> SUFFICES ASSUME "write" \notin card'.lost
               PROVE  /\ card.pc = "data" => OnFlash(flash', card.list, card.part - 1)
                      /\ card.pc = "mbr" => OnFlash(flash', card.list, Len(card.list))
    BY <1>1, <1>2 DEF SoFar, WritesSeen
  <2>1. WritesSeen /\ ~failed
    BY <1>1 DEF OrderInv, AtWork
  <2>2. SameBut(flash, flash', base, Up(Extent(img)))
    <3>2. [CardNext]_all
      BY DEF CardNext, Work
    <3>3. [Next]_vars
      BY <3>2, CardStep DEF IInv
    <3>4. ImageChange
      BY <3>3, ChangeStep
    <3> QED
      BY <1>1, <2>1, <3>4 DEF ImageChange, Within, SameBut
  <2>3. CASE card.pc = "data"
    <3>1. /\ card.list \in Lists /\ card.part \in Nat \ {0} /\ card.part <= Len(card.list)
          /\ Len(card.list) \in Nat
      BY <2>3, ListTypes DEF CardType
    <3>2. card.part \in 1 .. Len(card.list) /\ card.part - 1 \in Nat
          /\ card.part - 1 < card.part
      BY <3>1
    <3>3. img = card.list[card.part].img /\ base = card.list[card.part].at
      BY <2>3 DEF OrderInv, AtWork, This
    <3>4. OnFlash(flash, card.list, card.part - 1)
      BY <2>1, <2>3 DEF OrderInv, SoFar
    <3> QED
      BY <2>2, <2>3, <3>1, <3>2, <3>3, <3>4, OthersStay
  <2>4. CASE card.pc = "mbr"
    <3>1. card.list \in Lists /\ img = Mbr /\ base = 0
      BY <2>4 DEF CardType, OrderInv, AtWork
    <3>2. OnFlash(flash, card.list, Len(card.list))
      BY <2>1, <2>4 DEF OrderInv, SoFar
    <3> QED
      BY <2>2, <2>4, <3>1, <3>2, PartsStay
  <2> QED
    BY <1>1, <2>3, <2>4
<1> QED
  BY <1>3, <1>4, <1>5 DEF OrderInv

\* An image that has all come, without an error, is on the flash.
LEMMA WholeImage ==
  ASSUME IInv, ~failed, ~busy, hi = Lay.total, format = "unknown" => next >= 0,
         format = "bad" => env # "ram"
  PROVE  Holds(flash, img, base, Extent(img))
<1>1. CASE format # "unknown"
  <2>1. AsImage
    BY ImageHeld
  <2>2. env = "ram" => format = "detect"
    BY <1>1 DEF IInv, Types
  <2> QED
    BY <1>1, <2>1, <2>2 DEF AsImage, Intact, HoldsUpTo, Holds
<1>2. CASE format = "unknown"
  <2>1. hi = 0 /\ Lay.total = 0 /\ img \in Image /\ base \in Nat
    BY <1>2 DEF IInv, Calls, Types
  <2>2. ~Layout[img].sparse
    <3> SUFFICES ASSUME Layout[img].sparse PROVE FALSE
      OBVIOUS
    <3>1. Lay.n \in Nat /\ Lay.head[1] = HeadLen
      BY <2>1, LayoutOrder DEF Lay
    <3>2. 0 \in 0 .. Lay.n /\ 0 + 1 = 1
      BY <3>1
    <3>3. Lay.head[0 + 1] <= Lay.total
      BY <2>1, <3>1, <3>2, LayoutOrder DEF Lay
    <3> QED
      BY <2>1, <3>1, <3>2, <3>3, SizeAssumption
  <2>3. Extent(img) = 0
    BY <2>1, <2>2 DEF Extent, Lay
  <2> QED
    BY <2>1, <2>3, HoldsNothing
<1> QED
  BY <1>1, <1>2

\* The fields of the card after each kind of move.
LEMMA AfterMove ==
  ASSUME CardType, NEW p
  PROVE  /\ Goto(p) => /\ card'.pc = p /\ card'.part = card.part
                       /\ card'.lost = card.lost /\ card'.synced = card.synced
                       /\ card'.list = card.list /\ card'.nand = card.nand
                       /\ card'.warned = card.warned
         /\ NextPart => /\ card'.pc = "part" /\ card'.part = card.part + 1
                        /\ card'.lost = card.lost /\ card'.warned = card.warned
                        /\ card'.list = card.list
         /\ Warn(0) \/ Warn(1) => /\ card'.pc = "part" /\ card'.part = card.part + 1
                                 /\ card'.lost = card.lost /\ card'.list = card.list
                                 /\ card'.warned = card.warned \cup {card.part}
         /\ \A f : Ignore(f, p) => /\ card'.pc = p /\ card'.lost = card.lost \cup {f}
                                   /\ card'.part = card.part /\ card'.list = card.list
                                   /\ card'.nand = card.nand /\ card'.synced = card.synced
                                   /\ card'.warned = card.warned
<1>1. Goto(p) => /\ card'.pc = p /\ card'.part = card.part
                 /\ card'.lost = card.lost /\ card'.synced = card.synced
                 /\ card'.list = card.list /\ card'.nand = card.nand
                 /\ card'.warned = card.warned
  BY DEF CardType, Goto
<1>2. NextPart => /\ card'.pc = "part" /\ card'.part = card.part + 1
                  /\ card'.lost = card.lost /\ card'.list = card.list
                  /\ card'.warned = card.warned
  BY DEF CardType, NextPart
<1>3. ASSUME NEW f, Ignore(f, p)
      PROVE  /\ card'.pc = p /\ card'.lost = card.lost \cup {f}
             /\ card'.part = card.part /\ card'.list = card.list
             /\ card'.nand = card.nand /\ card'.synced = card.synced
             /\ card'.warned = card.warned
  <2>1. card' = [card EXCEPT !.pc = p, !.faults = card.faults + 1,
                             !.lost = card.lost \cup {f}]
    BY <1>3 DEF Ignore
  <2> QED
    BY <2>1 DEF CardType
<1>4. ASSUME Warn(0) \/ Warn(1)
      PROVE  /\ card'.pc = "part" /\ card'.part = card.part + 1
             /\ card'.lost = card.lost /\ card'.list = card.list
             /\ card'.warned = card.warned \cup {card.part}
  BY <1>4 DEF CardType, Warn
<1> QED
  BY <1>1, <1>2, <1>3, <1>4

\* Before the parts, after them, and where the production ends early.
LEMMA EdgeOrder ==
  ASSUME CardType, IInv, OrderInv,
         \/ Fetch \/ Scan \/ CardUnreadable \/ PartsDone
         \/ Burn("boot1", "boot0") \/ Burn("boot0", "ok")
         \/ BurnFails("boot1") \/ BurnFails("boot0")
  PROVE  OrderInv'
<1>1. UNCHANGED vars /\ UNCHANGED <<flash, failed, busy, img, base>>
  BY DEF Fetch, Scan, CardUnreadable, PartsDone, Burn, BurnFails, vars
<1>2. /\ card.part \in Nat \ {0} /\ Len(card.list) \in Nat
      /\ WritesSeen => ~failed
  BY ListTypes DEF CardType, OrderInv, AtWork
<1>3. CASE Fetch \/ Scan
  <2>1. /\ card.pc \in {"fetch", "scan"} /\ card'.pc \in {"scan", "part", "error"}
        /\ card'.part = card.part /\ card'.list = card.list
        /\ ("write" \notin card'.lost => WritesSeen) /\ boot' = boot
    BY <1>3, AfterMove DEF Fetch, Scan, WritesSeen
  <2>2. boot = {} /\ ~busy
    BY <2>1 DEF OrderInv, BootOrder, AtWork
  <2>3. AtWork'
    BY <1>1, <1>2, <2>1, <2>2 DEF AtWork, WritesSeen
  <2>4. SoFar'
    BY <1>1, <2>1 DEF OrderInv, SoFar, WritesSeen
  <2> QED
    BY <2>1, <2>2, <2>3, <2>4 DEF OrderInv, BootOrder
<1>4. CASE CardUnreadable \/ BurnFails("boot1") \/ BurnFails("boot0")
  <2>1. /\ Goto("error") /\ boot' = boot
        /\ card.pc \in {"part", "data", "boot1", "boot0"}
    BY <1>4 DEF CardUnreadable, BurnFails
  <2>2. card'.pc = "error" /\ card'.lost = card.lost /\ card'.list = card.list
    BY <2>1, AfterMove
  <2>3. ~busy
    BY <1>4 DEF CardUnreadable, BurnFails, OrderInv, AtWork
  <2>4. AtWork' /\ SoFar'
    BY <1>1, <1>2, <2>2, <2>3 DEF AtWork, SoFar, WritesSeen
  <2>5. boot # {} /\ card.lost \cap {"write", "exit"} = {} => AllOnFlash(flash, card.list)
    <3>1. boot # {} => card.pc = "boot0"
      BY <2>1 DEF OrderInv, BootOrder
    <3> QED
      BY <3>1 DEF OrderInv, SoFar, WritesSeen
  <2>6. BootOrder'
    BY <1>1, <2>1, <2>2, <2>5 DEF OrderInv, BootOrder
  <2> QED
    BY <2>4, <2>6 DEF OrderInv
<1>5. CASE PartsDone
  <2>1. /\ card.pc = "part" /\ card.part > Len(card.list) /\ boot' = boot
        /\ card'.pc = "private" /\ card'.lost = card.lost /\ card'.list = card.list
    BY <1>5, AfterMove DEF PartsDone
  <2>2. boot = {} /\ ~busy
    BY <2>1 DEF OrderInv, BootOrder, AtWork
  <2>3. WritesSeen => OnFlash(flash, card.list, Len(card.list))
    <3>1. 1 .. Len(card.list) \subseteq 1 .. card.part - 1
      BY <1>2, <2>1
    <3> QED
      BY <2>1, <3>1 DEF OrderInv, SoFar, OnFlash
  <2>4. AtWork' /\ SoFar'
    BY <1>1, <1>2, <2>1, <2>2, <2>3 DEF AtWork, SoFar, WritesSeen
  <2> QED
    BY <2>1, <2>2, <2>4 DEF OrderInv, BootOrder
<1>6. CASE Burn("boot1", "boot0") \/ Burn("boot0", "ok")
  <2>1. /\ \/ card.pc = "boot1" /\ boot' = boot \cup {"boot1"} /\ card'.pc = "boot0"
           \/ card.pc = "boot0" /\ boot' = boot \cup {"boot0"} /\ card'.pc = "ok"
        /\ card'.lost = card.lost /\ card'.list = card.list
        /\ card'.nand = card.nand /\ card'.synced = card.synced
    BY <1>6, AfterMove DEF Burn
  <2>2. ~busy
    BY <2>1 DEF OrderInv, AtWork
  <2>3. AtWork' /\ SoFar'
    BY <1>1, <1>2, <2>1, <2>2 DEF OrderInv, AtWork, SoFar, WritesSeen
  <2>4. BootOrder'
    BY <2>1 DEF OrderInv, BootOrder
  <2> QED
    BY <2>3, <2>4 DEF OrderInv
<1> QED
  BY <1>3, <1>4, <1>5, <1>6

\* A part is opened, is complete, and is verified.
LEMMA PartOrder ==
  ASSUME CardType, IInv, OrderInv,
         OpenPart \/ PartDone \/ VerifyUnread \/ VerifySparse \/ VerifyPlain
  PROVE  OrderInv'
<1>1. /\ card.part \in Nat \ {0} /\ card.part - 1 \in Nat /\ (card.part + 1) - 1 = card.part
      /\ Len(card.list) \in Nat /\ (WritesSeen => ~failed) /\ flash' = flash
  BY ListTypes DEF CardType, OrderInv, AtWork, OpenPart, PartDone, VerifyUnread,
     VerifySparse, VerifyPlain, Open, vars
<1>2. card.pc \in {"part", "data", "verify"} /\ boot = {} /\ boot' = {}
  BY DEF OpenPart, PartDone, VerifyUnread, VerifySparse, VerifyPlain, OrderInv, BootOrder
<1>3. CASE OpenPart
  <2>1. /\ card.pc = "part" /\ Open(This.img, This.at, This.env)
        /\ card'.pc = "data" /\ card'.part = card.part
        /\ card'.lost = card.lost /\ card'.list = card.list
    BY <1>3, AfterMove DEF OpenPart
  <2>2. img' = This.img /\ base' = This.at /\ ~failed' /\ next' = This.at /\ next' >= 0
    <3>1. This.at \in 0 .. Size
      BY <1>1, <1>3, ListTypes DEF OpenPart, This, CardType
    <3> QED
      BY <2>1, <3>1, SizeAssumption DEF Open
  <2>3. AtWork' /\ SoFar'
    BY <1>1, <2>1, <2>2 DEF OrderInv, AtWork, SoFar, WritesSeen, This
  <2> QED
    BY <1>2, <2>1, <2>3 DEF OrderInv, BootOrder
<1>4. CASE PartDone
  <2>1. /\ card.pc = "data" /\ hi = Lay.total /\ ~busy /\ (format = "bad" => env # "ram")
        /\ UNCHANGED <<vars, failed, busy>>
        /\ card'.lost = card.lost /\ card'.list = card.list
        /\ \/ card'.pc = "verify" /\ card'.part = card.part
           \/ card'.pc = "part" /\ card'.part = card.part + 1
    BY <1>4, AfterMove DEF PartDone, vars
  <2>2. WritesSeen => OnFlash(flash, card.list, card.part)
    <3> SUFFICES ASSUME WritesSeen, NEW p \in 1 .. card.part
                 PROVE  Holds(flash, card.list[p].img, card.list[p].at,
                              Extent(card.list[p].img))
      BY DEF OnFlash
    <3>1. CASE p = card.part
      <4>1. format = "unknown" => next >= 0
        BY <2>1 DEF OrderInv, AtWork
      <4>2. Holds(flash, img, base, Extent(img))
        BY <1>1, <2>1, <4>1, WholeImage
      <4> QED
        BY <2>1, <3>1, <4>2 DEF OrderInv, AtWork, This
    <3>2. CASE p # card.part
      <4>1. p \in 1 .. card.part - 1
        BY <1>1, <3>2
      <4> QED
        BY <2>1, <4>1 DEF OrderInv, SoFar, OnFlash
    <3> QED
      BY <3>1, <3>2
  <2>3. AtWork' /\ SoFar'
    BY <1>1, <2>1, <2>2 DEF AtWork, SoFar, WritesSeen
  <2> QED
    BY <1>2, <2>1, <2>3 DEF OrderInv, BootOrder
<1>5. CASE VerifyUnread \/ VerifySparse
  <2>1. /\ card.pc = "verify" /\ UNCHANGED <<vars, failed, busy>>
        /\ card'.pc = "part" /\ card'.part = card.part + 1
        /\ card'.lost = card.lost /\ card'.list = card.list
    BY <1>5, AfterMove DEF VerifyUnread, VerifySparse, vars
  <2>2. AtWork' /\ SoFar'
    BY <1>1, <2>1 DEF OrderInv, AtWork, SoFar, WritesSeen
  <2> QED
    BY <1>2, <2>1, <2>2 DEF OrderInv, BootOrder
<1>6. CASE VerifyPlain
  <2>1. /\ card.pc = "verify" /\ ~failed' /\ ~busy'
        /\ card'.list = card.list
        /\ ("write" \notin card'.lost => WritesSeen)
        /\ \/ card'.pc = "part" /\ card'.part = card.part + 1
           \/ card'.pc = "error"
    <3>1. card.pc = "verify" /\ ~failed' /\ ~busy'
      BY <1>6 DEF VerifyPlain, Open, decoder
    <3> QED
      BY <1>6, <3>1, AfterMove DEF VerifyPlain, WritesSeen
  <2>2. AtWork' /\ SoFar'
    BY <1>1, <2>1 DEF OrderInv, AtWork, SoFar, WritesSeen
  <2> QED
    BY <1>2, <2>1, <2>2 DEF OrderInv, BootOrder
<1> QED
  BY <1>3, <1>4, <1>5, <1>6

\* The private data, the table of partitions, the cache, and a loss of power.
LEMMA EndOrder ==
  ASSUME CardType, IInv, OrderInv,
         RestorePrivate \/ OpenMbr \/ FlashExit \/ PowerOff
  PROVE  OrderInv'
<1>1. boot' = boot /\ (WritesSeen => ~failed) /\ card.nand \in BOOLEAN
  BY DEF CardType, RestorePrivate, OpenMbr, FlashExit, PowerOff, OrderInv, AtWork
<1>2. CASE RestorePrivate
  <2>1. /\ card.pc = "private" /\ flash' = flash /\ ~busy' /\ failed' = failed
        /\ card'.pc = "open_mbr" /\ card'.list = card.list
        /\ ("write" \notin card'.lost => WritesSeen)
    <3>1. ASSUME card' = [card EXCEPT !.pc = "open_mbr", !.synced = @ /\ ~priv.ram]
          PROVE  card'.pc = "open_mbr" /\ card'.list = card.list /\ card'.lost = card.lost
      <4> DEFINE still == card.synced /\ ~priv.ram
      <4>1. card' = [card EXCEPT !.pc = "open_mbr", !.synced = still]
        BY <3>1
      <4> HIDE DEF still
      <4> QED
        BY <4>1 DEF CardType
    <3>2. /\ card.pc = "private" /\ flash' = flash /\ ~busy' /\ failed' = failed
      BY <1>2 DEF RestorePrivate, Close
    <3> QED
      BY <1>2, <3>1, <3>2, AfterMove DEF RestorePrivate, WritesSeen
  <2>2. boot = {}
    BY <2>1 DEF OrderInv, BootOrder
  <2>3. AtWork' /\ SoFar'
    BY <1>1, <2>1 DEF OrderInv, AtWork, SoFar, WritesSeen
  <2> QED
    BY <1>1, <2>1, <2>2, <2>3 DEF OrderInv, BootOrder
<1>3. CASE OpenMbr
  <2>1. /\ card.pc = "open_mbr" /\ flash' = flash /\ Open(Mbr, 0, FALSE)
        /\ card'.pc = "mbr" /\ card'.list = card.list /\ card'.lost = card.lost
    BY <1>3, AfterMove DEF OpenMbr, Open
  <2>2. img' = Mbr /\ base' = 0 /\ env' = "no" /\ ~failed' /\ next' = 0 /\ next' >= 0
    BY <2>1 DEF Open
  <2>3. boot = {}
    BY <2>1 DEF OrderInv, BootOrder
  <2>4. AtWork' /\ SoFar'
    BY <1>1, <2>1, <2>2 DEF OrderInv, AtWork, SoFar, WritesSeen
  <2> QED
    BY <1>1, <2>1, <2>3, <2>4 DEF OrderInv, BootOrder
<1>4. CASE FlashExit
  <2>1. /\ card.pc = "mbr" /\ hi = Lay.total /\ flash' = flash /\ ~busy' /\ failed' = failed
    BY <1>4 DEF FlashExit, Close
  <2>2. /\ card'.pc = "boot1" /\ card'.list = card.list
        /\ ("write" \notin card'.lost => WritesSeen)
        /\ card'.nand = card.nand
        /\ card.nand /\ "exit" \notin card'.lost => card'.synced
    <3>1. ASSUME card' = [card EXCEPT !.pc = "boot1", !.synced = @ \/ card.nand]
          PROVE  /\ card'.pc = "boot1" /\ card'.list = card.list /\ card'.lost = card.lost
                 /\ card'.nand = card.nand /\ (card.nand => card'.synced)
      <4> DEFINE out == card.synced \/ card.nand
      <4>1. card' = [card EXCEPT !.pc = "boot1", !.synced = out] /\ (card.nand => out)
        BY <3>1
      <4> HIDE DEF out
      <4> QED
        BY <4>1 DEF CardType
    <3>2. ASSUME Ignore("exit", "boot1")
          PROVE  /\ card'.pc = "boot1" /\ card'.list = card.list
                 /\ card'.lost = card.lost \cup {"exit"} /\ card'.nand = card.nand
      BY <3>2, AfterMove
    <3> QED
      BY <1>4, <3>1, <3>2 DEF FlashExit, WritesSeen
  <2>3. boot = {}
    BY <2>1 DEF OrderInv, BootOrder
  <2>4. WritesSeen => AllOnFlash(flash, card.list)
    <3> SUFFICES ASSUME WritesSeen PROVE AllOnFlash(flash, card.list)
      OBVIOUS
    <3>1. img = Mbr /\ base = 0 /\ env = "no" /\ (format = "unknown" => next >= 0)
      BY <2>1 DEF OrderInv, AtWork
    <3>2. ~busy
      BY <3>1, PartsAssumption DEF IInv, Calls, Lay
    <3>3. Holds(flash, img, base, Extent(img))
      BY <1>1, <2>1, <3>1, <3>2, WholeImage
    <3>4. OnFlash(flash, card.list, Len(card.list))
      BY <2>1 DEF OrderInv, SoFar
    <3> QED
      BY <3>1, <3>3, <3>4 DEF AllOnFlash
  <2>5. AtWork' /\ SoFar'
    BY <1>1, <2>1, <2>2, <2>4 DEF AtWork, SoFar, WritesSeen
  <2> QED
    BY <1>1, <2>2, <2>3, <2>5 DEF OrderInv, BootOrder
<1>5. CASE PowerOff
  <2>1. /\ card'.pc = "off" /\ card'.list = card.list /\ card'.lost = card.lost
        /\ card.pc \notin {"ok", "error", "off"}
        /\ ~busy' /\ failed' = failed
        /\ flash' = flash \/ (card.nand /\ ~card.synced)
    BY <1>5, AfterMove DEF PowerOff, Close
  <2>2. boot # {} /\ card.lost \cap {"write", "exit"} = {} => AllOnFlash(flash', card.list)
    <3> SUFFICES ASSUME boot # {}, card.lost \cap {"write", "exit"} = {}
                 PROVE  AllOnFlash(flash', card.list)
      OBVIOUS
    <3>1. card.pc = "boot0" /\ WritesSeen /\ "exit" \notin card.lost
      BY <2>1 DEF OrderInv, BootOrder, WritesSeen
    <3>2. flash' = flash
      BY <2>1, <3>1 DEF OrderInv, BootOrder
    <3> QED
      BY <3>1, <3>2 DEF OrderInv, SoFar
  <2>3. AtWork' /\ SoFar'
    BY <1>1, <2>1 DEF AtWork, SoFar, WritesSeen
  <2> QED
    BY <1>1, <2>1, <2>2, <2>3 DEF OrderInv, BootOrder
<1> QED
  BY <1>2, <1>3, <1>4, <1>5

LEMMA OrderStep ==
  CardType /\ IInv /\ OrderInv /\ [CardNext]_all => OrderInv'
<1> SUFFICES ASSUME CardType, IInv, OrderInv, [CardNext]_all PROVE OrderInv'
  OBVIOUS
<1>1. CASE CardNext
  BY <1>1, WriteOrder, EdgeOrder, PartOrder, EndOrder DEF CardNext, Work
<1>2. CASE UNCHANGED all
  BY <1>2 DEF all, vars, OrderInv, AtWork, SoFar, BootOrder, WritesSeen, This
<1> QED
  BY <1>1, <1>2

\* Before the first part nothing is burned.
LEMMA OrderInit == CardInit => OrderInv
<1> SUFFICES ASSUME CardInit PROVE OrderInv
  OBVIOUS
<1>1. /\ card.pc = "fetch" /\ card.part = 1 /\ boot = {} /\ ~failed /\ ~busy
  BY DEF CardInit, Init
<1>2. OnFlash(flash, card.list, card.part - 1)
  BY <1>1 DEF OnFlash
<1> QED
  BY <1>1, <1>2 DEF OrderInv, AtWork, SoFar, BootOrder

\* For all lists of images that do not overlap, all sizes of a piece and any
\* number of faults, boot1 and boot0 are written when the system they start is
\* complete and out of the cache, unless a write or the exit of the flash
\* failed unseen.
THEOREM BootIsLast == CardSpec => []BootLast
<1>1. CardInit => OrderInv
  BY OrderInit
<1>2. OrderInv => BootLast
  <2> SUFFICES ASSUME OrderInv PROVE BootLast
    OBVIOUS
  <2>1. boot # {} /\ card.lost \cap {"write", "exit"} = {} => AllOnFlash(flash, card.list)
    BY DEF OrderInv, BootOrder, SoFar, WritesSeen
  <2> QED
    BY <2>1, BurnedMeans DEF BootLast, OrderInv, BootOrder
<1>3. CardSpec => [](CardType /\ IInv)
  BY CardInductive, PTL
<1> QED
  BY <1>1, <1>2, <1>3, OrderStep, PTL DEF CardSpec

----------------------------------------------------------------------------
(* A verified partition stays on the flash whatever fails later, because   *)
(* even a decoder out of step writes nothing but its own image's place.    *)

\* What is verified of partition q.
Wanted(q) ==
  LET part == card.list[q] IN part.verify /\ ~part.env /\ ~Layout[part.img].sparse
Verified(q) == Holds(flash, card.list[q].img, card.list[q].at, Extent(card.list[q].img))
Passed(q) ==
  IF card.pc \in {"fetch", "scan", "part", "data", "verify"} THEN q < card.part
  ELSE card.pc \in {"private", "open_mbr", "mbr", "boot1", "boot0", "ok"}
VerifyInv ==
  /\ card.pc = "verify" => img = This.img
  /\ \A q \in 1 .. Len(card.list) :
       Wanted(q) /\ Passed(q) /\ q \notin card.warned => Verified(q)
CardInv == CardType /\ IInv /\ Bounded /\ OrderInv

\* A write of the production leaves the other partitions alone.
LEMMA WriteVerified ==
  ASSUME CardInv, VerifyInv, FlashWrite
  PROVE  VerifyInv'
<1>1. CardType /\ IInv /\ OrderInv /\ Types /\ Calls /\ Bounded
  BY DEF CardInv, IInv
<1>2. /\ card.pc \in {"data", "mbr"} /\ UNCHANGED <<img, base, boot>>
      /\ format' # "unknown"
      /\ card' = [card EXCEPT !.faults = card'.faults, !.lost = card'.lost,
                              !.synced = card'.synced]
  BY <1>1, WriteFrame
<1>3. /\ card'.pc = card.pc /\ card'.part = card.part /\ card'.list = card.list
      /\ card'.warned = card.warned
  BY <1>1, <1>2 DEF CardType
<1>4. SameBut(flash, flash', base, Up(Extent(img)))
  <2>1. [Next]_vars
    BY <1>1, CardStep DEF CardNext, Work
  <2>2. InPlace
    BY <1>1, <2>1, InPlaceStep
  <2> QED
    BY <1>2, <2>2 DEF InPlace, SameBut
<1>5. SUFFICES ASSUME NEW q \in 1 .. Len(card.list),
                      Wanted(q), Passed(q), q \notin card.warned
               PROVE  Holds(flash', card.list[q].img, card.list[q].at,
                            Extent(card.list[q].img))
  BY <1>2, <1>3 DEF VerifyInv, Wanted, Passed, Verified
<1>6. Holds(flash, card.list[q].img, card.list[q].at, Extent(card.list[q].img))
  BY <1>5 DEF VerifyInv, Verified
<1>7. card.list \in Lists /\ card.list[q].img \in Image /\ card.list[q].at \in Nat
      /\ Apart(card.list[q].img, card.list[q].at, Mbr, 0)
  BY <1>1, Places DEF CardType
<1>8. CASE card.pc = "data"
  <2>1. img = card.list[card.part].img /\ base = card.list[card.part].at /\ q < card.part
    BY <1>1, <1>5, <1>8 DEF OrderInv, AtWork, This, Passed
  <2>2. card.part \in 1 .. Len(card.list) /\ card.part # q
    <3>1. Len(card.list) \in Nat /\ card.part \in Nat \ {0} /\ card.part <= Len(card.list)
      BY <1>1, <1>7, <1>8, ListTypes DEF CardType
    <3> QED
      BY <2>1, <3>1
  <2>3. /\ Apart(card.list[q].img, card.list[q].at, img, base) /\ img \in Image /\ base \in Nat
    BY <1>7, <2>1, <2>2, Places
  <2> QED
    BY <1>4, <1>6, <1>7, <2>3, Elsewhere
<1>9. CASE card.pc = "mbr"
  <2>1. img = Mbr /\ base = 0 /\ Mbr \in Image /\ 0 \in Nat
    BY <1>1, <1>9, PartsAssumption DEF OrderInv, AtWork
  <2> QED
    BY <1>4, <1>6, <1>7, <2>1, Elsewhere
<1> QED
  BY <1>2, <1>8, <1>9

\* A partition passes when it has been verified, or need not be.
LEMMA PassVerified ==
  ASSUME CardInv, VerifyInv, OpenPart \/ PartDone \/ VerifyUnread \/ VerifySparse \/ VerifyPlain
  PROVE  VerifyInv'
<1>1. CardType /\ OrderInv /\ Calls /\ flash' = flash
      /\ card.part \in Nat \ {0} /\ card.part + 1 \in Nat /\ card.list \in Lists
      /\ Len(card.list) \in Nat
  BY ListTypes DEF CardInv, IInv, CardType, OpenPart, PartDone, VerifyUnread, VerifySparse,
     VerifyPlain, Open, vars
<1>2. \A q \in 1 .. Len(card.list) : q < card.part + 1 => q < card.part \/ q = card.part
  BY <1>1
<1>3. ASSUME card.pc = "verify", Warn(0) \/ Warn(1) PROVE VerifyInv'
  <2>1. /\ card'.pc = "part" /\ card'.part = card.part + 1 /\ card'.list = card.list
        /\ card'.warned = card.warned \cup {card.part}
    BY <1>1, <1>3, AfterMove
  <2> QED
    BY <1>1, <1>2, <1>3, <2>1 DEF VerifyInv, Wanted, Passed, Verified
<1>4. CASE VerifyUnread
  BY <1>3, <1>4 DEF VerifyUnread
<1>5. CASE OpenPart
  <2>1. /\ card.pc = "part" /\ card'.pc = "data" /\ card'.part = card.part
        /\ card'.warned = card.warned /\ card'.list = card.list
    BY <1>1, <1>5, AfterMove DEF OpenPart
  <2> QED
    BY <1>1, <2>1 DEF VerifyInv, Wanted, Passed, Verified
<1>6. CASE PartDone
  <2>1. card.pc = "data" /\ img' = img /\ img = This.img
    BY <1>1, <1>6 DEF PartDone, vars, OrderInv, AtWork
  <2>2. CASE This.verify /\ ~This.env
    <3>1. /\ card'.pc = "verify" /\ card'.part = card.part
          /\ card'.warned = card.warned /\ card'.list = card.list
      BY <1>1, <1>6, <2>2, AfterMove DEF PartDone
    <3> QED
      BY <1>1, <2>1, <3>1 DEF VerifyInv, Wanted, Passed, Verified, This
  <2>3. CASE ~(This.verify /\ ~This.env)
    <3>1. /\ card'.pc = "part" /\ card'.part = card.part + 1
          /\ card'.warned = card.warned /\ card'.list = card.list
      BY <1>1, <1>6, <2>3, AfterMove DEF PartDone
    <3> QED
      BY <1>1, <1>2, <2>1, <2>3, <3>1 DEF VerifyInv, Wanted, Passed, Verified, This
  <2> QED
    BY <2>2, <2>3
<1>7. CASE VerifySparse
  <2>1. /\ card.pc = "verify" /\ card'.pc = "part" /\ card'.part = card.part + 1
        /\ card'.warned = card.warned /\ card'.list = card.list
    BY <1>1, <1>7, AfterMove DEF VerifySparse
  <2>2. Layout[card.list[card.part].img].sparse
    BY <1>1, <1>7, <2>1 DEF VerifySparse, VerifyInv, Calls, Lay, This
  <2> QED
    BY <1>1, <1>2, <2>1, <2>2 DEF VerifyInv, Wanted, Passed, Verified
<1>8. CASE VerifyPlain
  <2>1. card.pc = "verify"
    BY <1>8 DEF VerifyPlain
  <2>2. CASE Intact(This.img, This.at) /\ NextPart
    <3>1. /\ card'.pc = "part" /\ card'.part = card.part + 1
          /\ card'.warned = card.warned /\ card'.list = card.list
      BY <1>1, <2>2, AfterMove
    <3>2. Verified(card.part)
      BY <2>2 DEF Verified, Intact, HoldsUpTo, Holds, This
    <3> QED
      BY <1>1, <1>2, <2>1, <3>1, <3>2 DEF VerifyInv, Wanted, Passed, Verified
  <2>3. CASE Goto("error")
    <3>1. card'.pc = "error"
      BY <1>1, <2>3, AfterMove
    <3> QED
      BY <3>1 DEF VerifyInv, Passed
  <2>4. CASE Warn(1)
    BY <2>1, <2>4, <1>3
  <2> QED
    BY <1>8, <2>2, <2>3, <2>4 DEF VerifyPlain
<1> QED
  BY <1>4, <1>5, <1>6, <1>7, <1>8

\* Before, between and after the partitions the flash stays as it is.
LEMMA RestVerified ==
  ASSUME CardInv, VerifyInv,
         \/ Fetch \/ Scan \/ CardUnreadable \/ PartsDone \/ RestorePrivate \/ OpenMbr
         \/ FlashExit \/ PowerOff \/ Burn("boot1", "boot0") \/ Burn("boot0", "ok")
         \/ BurnFails("boot1") \/ BurnFails("boot0")
  PROVE  VerifyInv'
<1>1. CardType /\ card.part \in Nat \ {0} /\ card.list \in Lists /\ Len(card.list) \in Nat
  BY ListTypes DEF CardInv, CardType
<1>2. CASE CardUnreadable \/ PowerOff \/ BurnFails("boot1") \/ BurnFails("boot0")
  <2>1. card'.pc \in {"error", "off"}
    BY <1>1, <1>2, AfterMove DEF CardUnreadable, PowerOff, BurnFails
  <2> QED
    BY <2>1 DEF VerifyInv, Passed
<1>3. CASE Fetch \/ Scan
  <2>1. flash' = flash /\ card.pc \in {"fetch", "scan"}
    BY <1>3 DEF Fetch, Scan, vars
  <2>2. /\ card'.pc \in {"scan", "part", "error"} /\ card'.part = card.part
        /\ card'.list = card.list /\ card'.warned = card.warned
    BY <1>1, <1>3, AfterMove DEF Fetch, Scan
  <2> QED
    BY <2>1, <2>2 DEF VerifyInv, Wanted, Passed, Verified
<1>4. CASE PartsDone
  <2>1. /\ flash' = flash /\ card.pc = "part" /\ card.part > Len(card.list)
        /\ card'.pc = "private" /\ card'.warned = card.warned /\ card'.list = card.list
    BY <1>1, <1>4, AfterMove DEF PartsDone, vars
  <2>2. \A q \in 1 .. Len(card.list) : Passed(q)
    BY <1>1, <2>1 DEF Passed
  <2> QED
    BY <2>1, <2>2 DEF VerifyInv, Wanted, Verified
<1>5. CASE RestorePrivate \/ OpenMbr \/ FlashExit \/ Burn("boot1", "boot0") \/ Burn("boot0", "ok")
  <2>1. /\ flash' = flash
        /\ card.pc \in {"private", "open_mbr", "mbr", "boot1", "boot0"}
    BY <1>5 DEF RestorePrivate, OpenMbr, FlashExit, Burn, Open, vars
  <2>2. /\ card'.pc \in {"open_mbr", "mbr", "boot1", "boot0", "ok"}
        /\ card'.list = card.list /\ card'.warned = card.warned
    <3> DEFINE still == card.synced /\ ~priv.ram
               out == card.synced \/ card.nand
    <3>1. CASE card' = [card EXCEPT !.pc = "open_mbr", !.synced = @ /\ ~priv.ram]
      <4>1. card' = [card EXCEPT !.pc = "open_mbr", !.synced = still]
        BY <3>1
      <4> HIDE DEF still
      <4> QED
        BY <1>1, <4>1 DEF CardType
    <3>2. CASE card' = [card EXCEPT !.pc = "boot1", !.synced = @ \/ card.nand]
      <4>1. card' = [card EXCEPT !.pc = "boot1", !.synced = out]
        BY <3>2
      <4> HIDE DEF out
      <4> QED
        BY <1>1, <4>1 DEF CardType
    <3> QED
      BY <1>1, <1>5, <3>1, <3>2, AfterMove DEF RestorePrivate, OpenMbr, FlashExit, Burn
  <2> QED
    BY <2>1, <2>2 DEF VerifyInv, Wanted, Passed, Verified
<1> QED
  BY <1>2, <1>3, <1>4, <1>5

LEMMA VerifyStep == CardInv /\ VerifyInv /\ [CardNext]_all => VerifyInv'
<1> SUFFICES ASSUME CardInv, VerifyInv, [CardNext]_all PROVE VerifyInv'
  OBVIOUS
<1>1. CASE CardNext
  BY <1>1, WriteVerified, PassVerified, RestVerified DEF CardNext, Work
<1>2. CASE UNCHANGED all
  BY <1>2 DEF all, vars, VerifyInv, Wanted, Passed, Verified, This
<1> QED
  BY <1>1, <1>2

\* The production never loses what its invariants say.
LEMMA CardAlways == CardSpec => []CardInv
<1>1. CardInit => OrderInv
  BY OrderInit
<1>2. CardSpec => [](CardType /\ IInv) /\ []Bounded
  BY CardInductive, AlwaysBounded, PTL
<1> QED
  BY <1>1, <1>2, OrderStep, PTL DEF CardSpec, CardInv

\* For all lists of images that do not overlap, all sizes of a piece and any
\* number of faults, a plain partition that is to be verified is on the flash when
\* the card says OK, unless the file to verify it with or the partition itself
\* could not be read, of which the card only warns.
THEOREM VerifiedIsBurned == CardSpec => []VerifiedBurned
<1>1. CardInit => VerifyInv
  <2> SUFFICES ASSUME CardInit PROVE VerifyInv
    OBVIOUS
  <2>1. card.pc = "fetch" /\ card.part = 1 /\ card.list \in Lists
    BY DEF CardInit
  <2>2. \A q \in 1 .. Len(card.list) : ~ Passed(q)
    BY <2>1, ListTypes DEF Passed
  <2> QED
    BY <2>1, <2>2 DEF VerifyInv
<1>2. VerifyInv => VerifiedBurned
  BY DEF VerifyInv, VerifiedBurned, Wanted, Passed, Verified, Intact, HoldsUpTo, Holds
<1> QED
  BY <1>1, <1>2, CardAlways, VerifyStep, PTL DEF CardSpec

----------------------------------------------------------------------------
(* The private data, and the types.                                        *)

PrivType == priv \in [flash : BOOLEAN, ram : BOOLEAN, had : BOOLEAN]
\* Where the private data of a device that had some are.
PrivPlace ==
  "private" \notin card.lost /\ priv.had =>
    /\ card.pc = "fetch" => priv.flash
    /\ card.pc \in {"scan", "part", "data", "verify", "private"} => priv.ram
    /\ card.pc \in {"open_mbr", "mbr", "boot1", "boot0", "ok"} => priv.flash
PrivInv == PrivType /\ PrivPlace

\* Only three steps touch the private data.
LEMMA PrivStep == CardInv /\ PrivInv /\ [CardNext]_all => PrivInv'
<1> SUFFICES ASSUME CardInv, PrivInv, [CardNext]_all PROVE PrivInv'
  OBVIOUS
<1>1. CardType /\ PrivType /\ PrivPlace
  BY DEF CardInv, PrivInv
<1>2. CASE Fetch
  <2>1. card.pc = "fetch" /\ card'.pc = "scan"
    BY <1>1, <1>2, AfterMove DEF Fetch
  <2>2. CASE priv' = [priv EXCEPT !.ram = priv.flash] /\ Goto("scan")
    <3>1. card'.lost = card.lost
      BY <1>1, <2>2, AfterMove
    <3> QED
      BY <1>1, <2>1, <2>2, <3>1 DEF PrivInv, PrivType, PrivPlace
  <2>3. CASE UNCHANGED priv /\ Ignore("private", "scan")
    <3>1. "private" \in card'.lost
      BY <1>1, <2>3, AfterMove
    <3> QED
      BY <1>1, <2>3, <3>1 DEF PrivInv, PrivType, PrivPlace
  <2> QED
    BY <1>2, <2>2, <2>3 DEF Fetch
<1>3. CASE Scan
  <2>1. /\ card.pc = "scan" /\ card'.pc \in {"part", "error"} /\ card'.lost = card.lost
    BY <1>1, <1>3, AfterMove DEF Scan
  <2>2. PICK erase \in BOOLEAN : priv' = [priv EXCEPT !.flash = priv.flash /\ ~erase]
    BY <1>3 DEF Scan
  <2>3. (priv.flash /\ ~erase) \in BOOLEAN
    OBVIOUS
  <2>4. PrivType' /\ priv'.ram = priv.ram /\ priv'.had = priv.had
    BY <1>1, <2>2, <2>3 DEF PrivType
  <2> QED
    BY <1>1, <2>1, <2>4 DEF PrivInv, PrivPlace
<1>4. CASE RestorePrivate
  <2>1. card.pc = "private"
    BY <1>4 DEF RestorePrivate
  <2>2. CASE /\ priv' = [priv EXCEPT !.flash = @ \/ priv.ram]
             /\ card' = [card EXCEPT !.pc = "open_mbr", !.synced = @ /\ ~priv.ram]
    <3> DEFINE still == card.synced /\ ~priv.ram
               back == priv.flash \/ priv.ram
    <3>1. card' = [card EXCEPT !.pc = "open_mbr", !.synced = still]
          /\ priv' = [priv EXCEPT !.flash = back] /\ back \in BOOLEAN /\ (priv.ram => back)
      BY <2>2
    <3> HIDE DEF still, back
    <3>2. card'.pc = "open_mbr" /\ card'.lost = card.lost
      BY <1>1, <3>1 DEF CardType
    <3>3. PrivType' /\ priv'.had = priv.had /\ (priv.ram => priv'.flash)
      BY <1>1, <3>1 DEF PrivType
    <3> QED
      BY <1>1, <2>1, <3>2, <3>3 DEF PrivInv, PrivPlace
  <2>3. CASE UNCHANGED priv /\ Ignore("private", "open_mbr")
    <3>1. "private" \in card'.lost
      BY <1>1, <2>3, AfterMove
    <3> QED
      BY <1>1, <2>3, <3>1 DEF PrivInv, PrivType, PrivPlace
  <2> QED
    BY <1>4, <2>2, <2>3 DEF RestorePrivate
<1>5. CASE FlashWrite
  <2>1. card.pc \in {"data", "mbr"} /\ card'.pc = card.pc /\ priv' = priv
    <3>1. /\ card.pc \in {"data", "mbr"}
          /\ card' = [card EXCEPT !.faults = card'.faults, !.lost = card'.lost,
                                  !.synced = card'.synced]
      BY <1>5, WriteFrame DEF CardInv
    <3> QED
      BY <1>1, <1>5, <3>1 DEF CardType, FlashWrite
  <2>2. "private" \notin card'.lost => "private" \notin card.lost
    <3>1. CASE failed' /\ ~failed
      <4>1. card' = [card EXCEPT !.faults = card.faults + 1, !.synced = FALSE,
                                 !.lost = card.lost \cup {"write"}]
        BY <1>5, <3>1 DEF FlashWrite, Noted
      <4> QED
        BY <1>1, <4>1 DEF CardType
    <3>2. CASE ~(failed' /\ ~failed)
      <4> DEFINE still == card.synced /\ flash' = flash
      <4>1. card' = [card EXCEPT !.synced = still]
        BY <1>5, <3>2 DEF FlashWrite, Noted
      <4> HIDE DEF still
      <4> QED
        BY <1>1, <4>1 DEF CardType
    <3> QED
      BY <3>1, <3>2
  <2> QED
    BY <1>1, <2>1, <2>2 DEF PrivInv, PrivType, PrivPlace
<1>6. CASE PowerOff \/ CardUnreadable \/ BurnFails("boot1") \/ BurnFails("boot0")
  <2>1. card'.pc \in {"error", "off"} /\ priv' = priv
    BY <1>1, <1>6, AfterMove DEF PowerOff, CardUnreadable, BurnFails
  <2> QED
    BY <1>1, <2>1 DEF PrivInv, PrivType, PrivPlace
<1>7. CASE OpenPart \/ PartsDone \/ PartDone \/ VerifyUnread \/ VerifySparse \/ VerifyPlain
  <2>1. priv' = priv /\ card.pc \in {"part", "data", "verify"}
    BY <1>7 DEF OpenPart, PartsDone, PartDone, VerifyUnread, VerifySparse, VerifyPlain
  <2>2. /\ card'.pc \in {"part", "data", "verify", "private", "error"}
        /\ "private" \notin card'.lost => "private" \notin card.lost
    BY <1>1, <1>7, AfterMove
    DEF OpenPart, PartsDone, PartDone, VerifyUnread, VerifySparse, VerifyPlain
  <2> QED
    BY <1>1, <2>1, <2>2 DEF PrivInv, PrivType, PrivPlace
<1>8. CASE OpenMbr \/ FlashExit \/ Burn("boot1", "boot0") \/ Burn("boot0", "ok")
  <2>1. priv' = priv /\ card.pc \in {"open_mbr", "mbr", "boot1", "boot0"}
    BY <1>8 DEF OpenMbr, FlashExit, Burn
  <2>2. /\ card'.pc \in {"mbr", "boot1", "boot0", "ok"}
        /\ "private" \notin card'.lost => "private" \notin card.lost
    <3>1. CASE card' = [card EXCEPT !.pc = "boot1", !.synced = @ \/ card.nand]
      <4> DEFINE out == card.synced \/ card.nand
      <4>1. card' = [card EXCEPT !.pc = "boot1", !.synced = out]
        BY <3>1
      <4> HIDE DEF out
      <4> QED
        BY <1>1, <4>1 DEF CardType
    <3> QED
      BY <1>1, <1>8, <3>1, AfterMove DEF OpenMbr, FlashExit, Burn
  <2> QED
    BY <1>1, <2>1, <2>2 DEF PrivInv, PrivType, PrivPlace
<1>9. CASE UNCHANGED all
  BY <1>1, <1>9 DEF all, PrivInv, PrivType, PrivPlace
<1> QED
  BY <1>2, <1>3, <1>4, <1>5, <1>6, <1>7, <1>8, <1>9 DEF CardNext, Work

\* A production that ends well and in which neither the fetch nor the restore
\* failed leaves a device its private data, whatever the scan has erased.
THEOREM PrivateSurvives == CardSpec => []PrivateKept
<1>1. CardInit => PrivInv
  BY DEF CardInit, PrivInv, PrivType, PrivPlace
<1>2. PrivInv => PrivateKept
  BY DEF PrivInv, PrivPlace, PrivateKept
<1> QED
  BY <1>1, <1>2, CardAlways, PrivStep, PTL DEF CardSpec

\* The production goes through its list once.
PartsInv ==
  /\ card.part <= Len(card.list) + 1
  /\ boot \subseteq {"boot1", "boot0"}
LEMMA PartsStep == CardInv /\ PartsInv /\ [CardNext]_all => PartsInv'
<1> SUFFICES ASSUME CardInv, PartsInv, [CardNext]_all PROVE PartsInv'
  OBVIOUS
<1>1. /\ CardType /\ card.part \in Nat \ {0} /\ Len(card.list) \in Nat
      /\ (card.pc \in {"data", "verify"} => card.part <= Len(card.list))
  BY ListTypes DEF CardInv, CardType
<1>2. CASE Burn("boot1", "boot0") \/ Burn("boot0", "ok")
  <2>1. card'.part = card.part /\ card'.list = card.list
    BY <1>1, <1>2, AfterMove DEF Burn
  <2> QED
    BY <1>2, <2>1 DEF PartsInv, Burn
<1>3. CASE ~(Burn("boot1", "boot0") \/ Burn("boot0", "ok")) /\ CardNext
  <2>1. boot' = boot
    BY <1>3 DEF CardNext, Work, Fetch, Scan, OpenPart, PartsDone, FlashWrite, PartDone,
       VerifyUnread, VerifySparse, VerifyPlain, RestorePrivate, OpenMbr, FlashExit, BurnFails,
       CardUnreadable, PowerOff
  <2>2. CASE FlashWrite
    <3>1. card'.part = card.part /\ card'.list = card.list
      <4>1. card' = [card EXCEPT !.faults = card'.faults, !.lost = card'.lost,
                                 !.synced = card'.synced]
        BY <2>2, WriteFrame DEF CardInv
      <4> QED
        BY <1>1, <4>1 DEF CardType
    <3> QED
      BY <2>1, <3>1 DEF PartsInv
  <2>3. CASE PartDone \/ VerifyUnread \/ VerifySparse \/ VerifyPlain
    <3>0. card.pc \in {"data", "verify"}
      BY <2>3 DEF PartDone, VerifyUnread, VerifySparse, VerifyPlain
    <3>1. card.part + 1 <= Len(card.list) + 1
      BY <1>1, <3>0
    <3>2. card'.part \in {card.part, card.part + 1} /\ card'.list = card.list
      BY <1>1, <2>3, AfterMove DEF PartDone, VerifyUnread, VerifySparse, VerifyPlain
    <3> QED
      BY <2>1, <3>1, <3>2 DEF PartsInv
  <2>4. CASE RestorePrivate \/ FlashExit
    <3>1. card'.part = card.part /\ card'.list = card.list
      <4> DEFINE still == card.synced /\ ~priv.ram
                 out == card.synced \/ card.nand
      <4>1. \/ \E p \in {"open_mbr", "boot1"}, f \in {"private", "exit"} : Ignore(f, p)
            \/ card' = [card EXCEPT !.pc = "open_mbr", !.synced = still]
            \/ card' = [card EXCEPT !.pc = "boot1", !.synced = out]
        BY <2>4 DEF RestorePrivate, FlashExit
      <4> HIDE DEF still, out
      <4> QED
        BY <1>1, <4>1, AfterMove DEF CardType
    <3> QED
      BY <2>1, <3>1 DEF PartsInv
  <2>5. CASE \/ Fetch \/ Scan \/ OpenPart \/ PartsDone \/ OpenMbr \/ CardUnreadable
             \/ BurnFails("boot1") \/ BurnFails("boot0") \/ PowerOff
    <3>1. card'.part = card.part /\ card'.list = card.list
      BY <1>1, <2>5, AfterMove DEF Fetch, Scan, OpenPart, PartsDone, OpenMbr,
         CardUnreadable, BurnFails, PowerOff
    <3> QED
      BY <2>1, <3>1 DEF PartsInv
  <2> QED
    BY <1>3, <2>2, <2>3, <2>4, <2>5 DEF CardNext, Work
<1>4. CASE UNCHANGED all
  BY <1>4 DEF all, PartsInv
<1> QED
  BY <1>2, <1>3, <1>4

\* The production stays in its list, and the decoder in its image, whatever
\* fails.
THEOREM TypesKept == CardSpec => []TypeOK
<1>1. CardInit => PartsInv
  <2> SUFFICES ASSUME CardInit PROVE PartsInv
    OBVIOUS
  <2>1. card.part = 1 /\ card.list \in Lists /\ boot = {}
    BY DEF CardInit
  <2> QED
    BY <2>1, ListTypes DEF PartsInv
<1>2. CardInv /\ PartsInv => TypeOK
  <2> SUFFICES ASSUME CardInv, PartsInv PROVE TypeOK
    OBVIOUS
  <2>1. card.part \in Nat \ {0} /\ Len(card.list) \in Nat /\ card.faults \in Nat
    BY ListTypes DEF CardInv, CardType
  <2>2. format \in {"unknown", "detect", "bad"} /\ left < Half
    BY DEF CardInv, IInv, Types, Bounded
  <2>3. busy => at + rest <= Lay.total
    <3>1. /\ at \in Int /\ rest \in Nat /\ kept \in Nat /\ hi \in Nat /\ Lay.total \in Nat
          /\ hi <= Lay.total
      BY LayoutAssumption, SizeAssumption DEF CardInv, IInv, Types, Bounded, WellFormed, Lay
    <3>2. busy => at + rest + kept <= hi
      BY DEF CardInv, IInv, Calls, Bounded
    <3> QED
      BY <3>1, <3>2
  <2> QED
    BY <2>1, <2>2, <2>3 DEF TypeOK, PartsInv
<1> QED
  BY <1>1, <1>2, CardAlways, PartsStep, PTL DEF CardSpec

=============================================================================
