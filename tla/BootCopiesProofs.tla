-------------------------- MODULE BootCopiesProofs --------------------------
(***************************************************************************)
(* Four results about the copies of boot1.                                 *)
(*                                                                         *)
(* While only images of one block may be in the area, each interrupted     *)
(* burn costs at most one block, however many there are and whatever       *)
(* erases and programs fail, and a burn that comes to its end repairs      *)
(* every block that is not worn (BurnDamageBounded).                       *)
(*                                                                         *)
(* The burner and the loader keep to their types (TypesKept).  What the    *)
(* loader reads is defined by recursion over the copies or the blocks; the *)
(* lemmas about it go by induction over a bounded set of numbers, the      *)
(* least counterexample being in it by the well-foundedness of the order.  *)
(*                                                                         *)
(* The blocks, the burner and the loader are a safe update (UpdatesSafe):  *)
(* the steps of ImplementsUpdate, without its fairness.                    *)
(*                                                                         *)
(* What starts is a version that may start, for images of any length       *)
(* (OnlyAllowedStarts).                                                    *)
(***************************************************************************)
EXTENDS BootCopies, FiniteSetTheorems, WellFoundedInduction, TLAPS

Small == \A v \in allowed : OneBlk(v)

Full(v) == [page |-> Fill(v, 0), bad |-> FALSE]

\* The block being written, up to the next page.
Begun(v, n) ==
  [page |-> [p \in Page |-> IF p < n THEN Piece(v, 0 + (p % Chunk(v, 0))) ELSE Blank],
   bad |-> FALSE]

Hurt == {b \in Blk \ worn : ~Whole(b) /\ ~(mode = "burn" /\ b = burn.cur)}

Contents == [page : [Page -> [ver : Version \cup {NoVersion}, no : Nat]],
             bad : BOOLEAN]
BurnType == [ver : Version \cup {NoVersion},
             step : {"none", "status", "erase", "program", "verify", "mark",
                     "scrap", "next"},
             start : Nat, cur : Blk, off : Nat, at : Nat, try : Nat]

\* The shape of the state, as far as the argument needs it.
Shape ==
  /\ blk \in [Blk -> Contents]
  /\ worn \in SUBSET Blk
  /\ burn \in BurnType
  /\ allowed \in SUBSET Version
  /\ cuts \in Nat

\* The burner has written every block behind it, or knows it as worn.
Written(b) == b \in worn \/ blk[b] = Full(burn.ver)

Behind ==
  /\ burn.step \notin {"none", "status"}
  /\ burn.off = IF burn.step = "next" THEN Len[burn.ver] ELSE 0
  /\ \A b \in Blk : b < burn.cur => Written(b)
  /\ burn.step = "next" => Written(burn.cur)
  /\ burn.step = "program" => /\ blk[burn.cur] = Begun(burn.ver, burn.at)
                              /\ burn.at < Filled(burn.ver, 0)
  /\ burn.step \in {"verify", "mark", "scrap"} => burn.cur \in worn

Progress ==
  mode = "burn" =>
    /\ burn.ver \in allowed
    /\ burn.step # "next" => burn.off < Len[burn.ver]
    /\ OneBlk(burn.ver) => Behind

Bound == Small => Cardinality(Hurt) <= cuts

IInv == Shape /\ Progress /\ Bound

\* The area is a finite set of blocks.
LEMMA BlkFinite == IsFiniteSet(Blk)
  BY FS_Interval, AreaAssumption DEF Blk

\* A set of blocks inside another has no more of them.
LEMMA Fewer == ASSUME NEW S, NEW T \in SUBSET Blk, S \subseteq T
               PROVE  Cardinality(S) <= Cardinality(T) /\ Cardinality(S) \in Nat
                      /\ Cardinality(T) \in Nat
  BY BlkFinite, FS_Subset, FS_CardinalityType

\* With one block more, a set has at most one more.
LEMMA OneMore == ASSUME NEW S \in SUBSET Blk, NEW b \in Blk
                 PROVE  Cardinality(S \cup {b}) <= Cardinality(S) + 1
                        /\ Cardinality(S) \in Nat /\ Cardinality(S \cup {b}) \in Nat
<1>1. IsFiniteSet(S)
  BY BlkFinite, FS_Subset
<1>2. Cardinality(S) \in Nat
  BY <1>1, FS_CardinalityType
<1>3. Cardinality(S \cup {b}) = IF b \in S THEN Cardinality(S) ELSE Cardinality(S) + 1
  BY <1>1, FS_AddElement
<1> QED
  BY <1>2, <1>3

\* An image that fits in a block goes there as a whole.
LEMMA WholeChunk == ASSUME NEW v \in Version, OneBlk(v)
                    PROVE  /\ Chunk(v, 0) = Len[v]
                           /\ Len[v] \in Nat \ {0}
                           /\ Filled(v, 0) \in Nat \ {0}
<1>1. Len[v] \in Nat \ {0} /\ Len[v] <= PageCnt /\ PageCnt \in Nat \ {0}
  BY VersionAssumption, AreaAssumption DEF OneBlk
<1>2. Chunk(v, 0) = Len[v]
  BY <1>1 DEF Chunk, MinOf
<1> DEFINE q == PageCnt \div Len[v]
<1>3. q \in Nat \ {0}
  BY <1>1
<1>4. q * Len[v] \in Nat \ {0}
  <2> HIDE DEF q
  <2> QED BY <1>3, <1>1
<1> QED
  BY <1>1, <1>2, <1>4 DEF Filled

\* The block is full when its last copy ends.
LEMMA BegunIsFull == ASSUME NEW v \in Version
                     PROVE  Begun(v, Filled(v, 0)) = Full(v)
  BY DEF Begun, Full, Fill

\* Of an image there is something left for a block until its end.
LEMMA SomeChunk == ASSUME NEW v \in Version, NEW off \in Nat, off < Len[v]
                   PROVE  /\ Chunk(v, off) \in Nat \ {0}
                          /\ \A k \in Nat : Piece(v, off + (k % Chunk(v, off))) \in
                               [ver : Version \cup {NoVersion}, no : Nat]
<1>1. Len[v] \in Nat \ {0} /\ PageCnt \in Nat \ {0}
  BY VersionAssumption, AreaAssumption
<1>2. Chunk(v, off) \in Nat \ {0}
  BY <1>1 DEF Chunk, MinOf
<1>3. \A k \in Nat : off + (k % Chunk(v, off)) \in Nat
  <2> DEFINE c == Chunk(v, off)
  <2> HIDE DEF c
  <2>1. c \in Nat \ {0}
    BY <1>2 DEF c
  <2>2. \A k \in Nat : k % c \in Nat
    BY <2>1
  <2> QED
    BY <2>2 DEF c
<1> QED
  BY <1>2, <1>3 DEF Piece

\* Every block of the layout begins inside the image.
LEMMA LayoutOffset ==
  ASSUME NEW v \in Version, NEW b \in Blk
  PROVE  /\ (b % BlksPerCopy(v)) * PageCnt \in Nat
         /\ (b % BlksPerCopy(v)) * PageCnt < Len[v]
<1> DEFINE n == BlksPerCopy(v)
           m == b % n
<1>1. Len[v] \in Nat \ {0} /\ PageCnt \in Nat \ {0} /\ b \in Nat
  BY VersionAssumption, AreaAssumption DEF Blk
<1>2. n \in Nat \ {0} /\ n * PageCnt <= Len[v] + PageCnt - 1
  BY <1>1 DEF BlksPerCopy
<1> HIDE DEF n
<1>3. m \in Nat /\ m <= n - 1
  BY <1>1, <1>2
<1> HIDE DEF m
<1>4. m * PageCnt <= (n - 1) * PageCnt /\ m * PageCnt \in Nat
  BY <1>1, <1>2, <1>3
<1>5. (n - 1) * PageCnt = n * PageCnt - PageCnt
  BY <1>1, <1>2
<1>6. n * PageCnt \in Nat
  BY <1>1, <1>2
<1>7. m * PageCnt < Len[v]
  BY <1>1, <1>2, <1>4, <1>5, <1>6
<1> QED
  BY <1>4, <1>7 DEF m, n

\* As long as only the block being written changes, no other is hurt.
LEMMA OthersKept ==
  ASSUME IInv, mode = "burn", OneBlk(burn.ver), mode' = "burn", burn'.cur = burn.cur,
         burn' \in BurnType, blk' \in [Blk -> Contents],
         burn'.ver = burn.ver,
         \A b \in Blk : b # burn.cur => blk'[b] = blk[b],
         worn' = worn \/ worn' = worn \cup {burn.cur},
         allowed' = allowed, cuts' = cuts
  PROVE  /\ Shape'
         /\ \A b \in Blk : b < burn'.cur => Written(b)'
         /\ burn'.ver \in allowed'
         /\ Bound'
<1>0. burn.cur \in Blk /\ worn \subseteq Blk /\ worn \subseteq worn'
  BY DEF IInv, Shape, BurnType
<1>1. Hurt' \subseteq Hurt
  BY <1>0 DEF Hurt, Whole
<1>2. Hurt \in SUBSET Blk
  BY DEF Hurt
<1>3. cuts \in Nat /\ (Small => Cardinality(Hurt) <= cuts) /\ (Small' => Small)
  BY DEF IInv, Shape, Bound, Small
<1>4. Shape'
  BY <1>0 DEF IInv, Shape
<1>5. \A b \in Blk : b < burn'.cur => Written(b)'
  <2>1. \A b \in Blk : b < burn.cur => Written(b)
    BY DEF IInv, Progress, Behind
  <2>2. \A b \in Blk : b < burn.cur => b # burn.cur
    BY <1>0 DEF Blk
  <2> QED
    BY <1>0, <2>1, <2>2 DEF Written
<1>6. burn'.ver \in allowed'
  BY DEF IInv, Progress
<1>7. Bound'
  BY <1>1, <1>2, <1>3, Fewer DEF Bound
<1> QED
  BY <1>4, <1>5, <1>6, <1>7

\* A block of garbage is a block.
LEMMA GarbagePages == AllPages(Garbage) \in [Page -> [ver : Version \cup {NoVersion}, no : Nat]]
  BY DEF AllPages, Garbage, Piece

\* Other pages, or another mark, for one block.
LEMMA OtherPages ==
  ASSUME blk \in [Blk -> Contents], NEW b \in Blk,
         NEW ps \in [Page -> [ver : Version \cup {NoVersion}, no : Nat]],
         blk' = [blk EXCEPT ![b].page = ps]
  PROVE  /\ blk' \in [Blk -> Contents]
         /\ blk'[b] = [page |-> ps, bad |-> blk[b].bad]
         /\ \A c \in Blk : c # b => blk'[c] = blk[c]
<1>1. blk[b] \in Contents
  OBVIOUS
<1>2. [blk[b] EXCEPT !.page = ps] = [page |-> ps, bad |-> blk[b].bad]
  BY <1>1 DEF Contents
<1>3. blk' = [blk EXCEPT ![b] = [page |-> ps, bad |-> blk[b].bad]]
  BY <1>2, Zenon
<1>4. [page |-> ps, bad |-> blk[b].bad] \in Contents
  BY <1>1 DEF Contents
<1> QED
  BY <1>3, <1>4

\* The first burn filled the area with whole copies.
LEMMA InitIInv == ASSUME Init PROVE IInv
<1>1. PICK v \in Version : blk = Layout(v) /\ allowed = {v}
  BY DEF Init
<1>2. burn = NoBurn /\ worn = {} /\ cuts = 0 /\ mode = "off"
  BY DEF Init
<1>3. \A b \in Blk : Fill(v, (b % BlksPerCopy(v)) * PageCnt) \in
        [Page -> [ver : Version \cup {NoVersion}, no : Nat]]
  <2> SUFFICES ASSUME NEW b \in Blk, NEW p \in Page
               PROVE  Fill(v, (b % BlksPerCopy(v)) * PageCnt)[p] \in
                        [ver : Version \cup {NoVersion}, no : Nat]
    BY DEF Fill
  <2> DEFINE off == (b % BlksPerCopy(v)) * PageCnt
  <2>1. off \in Nat /\ off < Len[v]
    BY LayoutOffset
  <2> HIDE DEF off
  <2>2. p \in Nat
    BY DEF Page
  <2>3. Piece(v, off + (p % Chunk(v, off))) \in [ver : Version \cup {NoVersion}, no : Nat]
    BY <2>1, <2>2, SomeChunk
  <2>4. Blank \in [ver : Version \cup {NoVersion}, no : Nat]
    BY DEF Blank, Piece
  <2>5. Fill(v, off)[p] \in [ver : Version \cup {NoVersion}, no : Nat]
    BY <2>3, <2>4 DEF Fill
  <2> QED
    BY <2>5 DEF off
<1>4. blk \in [Blk -> Contents]
  BY <1>1, <1>3 DEF Layout, Contents
<1>5. Shape
  <2>1. 0 \in Blk
    BY AreaAssumption DEF Blk
  <2> QED
    BY <1>1, <1>2, <1>4, <2>1 DEF Shape, NoBurn, BurnType
<1>6. Bound
  <2> SUFFICES ASSUME OneBlk(v) PROVE Cardinality(Hurt) <= cuts
    BY <1>1 DEF Bound, Small
  <2>1. BlksPerCopy(v) = 1
    BY VersionAssumption, AreaAssumption DEF OneBlk, BlksPerCopy
  <2>2. \A b \in Blk : (b % BlksPerCopy(v)) * PageCnt = 0
    <3>1. \A b \in Blk : b % 1 = 0
      BY DEF Blk
    <3>2. 0 * PageCnt = 0
      BY AreaAssumption
    <3> QED
      BY <2>1, <3>1, <3>2
  <2>3. \A b \in Blk : blk[b] = Full(v)
    BY <1>1, <2>2 DEF Layout, Full
  <2>4. Hurt = {}
    BY <1>1, <2>3 DEF Hurt, Whole, Full
  <2> QED
    BY <1>2, <2>4, FS_EmptySet
<1>7. Progress
  BY <1>2 DEF Progress
<1> QED
  BY <1>5, <1>6, <1>7 DEF IInv

\* After the work on a block its chunk, the whole image, counts as written.
LEMMA AfterBlockDone ==
  ASSUME OneBlk(burn.ver), burn \in BurnType, burn.ver \in Version, burn.off = 0,
         burn' = AfterBlock(burn)
  PROVE  /\ burn' \in BurnType
         /\ burn'.ver = burn.ver /\ burn'.cur = burn.cur
         /\ burn'.off = Len[burn.ver] /\ burn'.step = "next"
<1>1. Chunk(burn.ver, burn.off) = Len[burn.ver] /\ Len[burn.ver] \in Nat \ {0}
  BY WholeChunk
<1>2. burn' = [burn EXCEPT !.step = "next", !.off = burn.off + Chunk(burn.ver, burn.off)]
  BY DEF AfterBlock
<1>3. burn.off + Chunk(burn.ver, burn.off) = Len[burn.ver]
  BY <1>1
<1>4. burn' = [burn EXCEPT !.step = "next", !.off = Len[burn.ver]]
  BY <1>2, <1>3
<1> QED
  BY <1>1, <1>4 DEF BurnType

\* A burn begins with the first block, and nothing is behind it.
LEMMA BeginIInv ==
  ASSUME IInv, NEW v \in Version, BeginBurn(v) PROVE IInv'
<1>1. /\ burn' \in BurnType /\ burn'.ver = v /\ burn'.cur = 0 /\ burn'.off = 0
      /\ OneBlk(v) => burn'.step = "erase"
  <2>1. burn' = [ver |-> v, step |-> FirstStep(v), start |-> 0, cur |-> 0,
                 off |-> 0, at |-> 0, try |-> 0]
    BY DEF BeginBurn, NoBurn
  <2>2. 0 \in Blk
    BY AreaAssumption DEF Blk
  <2> QED
    BY <2>1, <2>2 DEF BurnType, FirstStep
<1>2. Shape'
  BY <1>1 DEF IInv, Shape, BeginBurn
<1>3. Progress'
  <2>1. v \in allowed' /\ 0 < Len[v]
    BY VersionAssumption DEF BeginBurn
  <2>2. \A b \in Blk : ~(b < 0)
    BY DEF Blk
  <2> QED
    BY <1>1, <2>1, <2>2 DEF Progress, Behind
<1>4. Hurt' \subseteq Hurt
  BY DEF Hurt, Whole, BeginBurn
<1>5. Hurt \in SUBSET Blk
  BY DEF Hurt
<1>6. cuts \in Nat /\ cuts' = cuts /\ (Small' => Cardinality(Hurt) <= cuts)
  BY DEF IInv, Shape, Bound, Small, BeginBurn
<1>7. Bound'
  BY <1>4, <1>5, <1>6, Fewer DEF Bound
<1> QED
  BY <1>2, <1>3, <1>7 DEF IInv

\* An erased block is ready for its first page.
LEMMA EraseIInv == ASSUME OneBlk(burn.ver), IInv, EraseBlock PROVE IInv'
<1>1. /\ mode = "burn" /\ mode' = "burn" /\ burn \in BurnType
      /\ blk \in [Blk -> Contents] /\ burn.ver \in Version /\ burn.step = "erase"
      /\ burn.off = 0
  BY DEF IInv, Shape, Progress, Behind, EraseBlock, Burning
<1>2. /\ burn' \in BurnType
      /\ burn' = [burn EXCEPT !.step = "program", !.at = 0]
      /\ burn'.ver = burn.ver /\ burn'.cur = burn.cur /\ burn'.off = burn.off
      /\ burn'.step = "program" /\ burn'.at = 0
  BY <1>1 DEF EraseBlock, BurnType
<1>3. AllPages(Blank) = Begun(burn.ver, 0).page
  BY DEF Begun, AllPages, Page
<1>4. [page |-> AllPages(Blank), bad |-> FALSE] \in Contents
  BY DEF AllPages, Blank, Piece, Contents
<1>5. burn.cur \in Blk
  BY <1>1 DEF BurnType
<1>6. /\ blk' \in [Blk -> Contents]
      /\ blk'[burn.cur] = Begun(burn.ver, 0)
      /\ \A b \in Blk : b # burn.cur => blk'[b] = blk[b]
  BY <1>1, <1>3, <1>4, <1>5 DEF EraseBlock, Begun
<1>7. UNCHANGED <<worn, allowed, cuts>>
  BY DEF EraseBlock
<1>8. /\ Shape' /\ Bound' /\ burn'.ver \in allowed'
      /\ \A b \in Blk : b < burn'.cur => Written(b)'
  BY <1>1, <1>2, <1>6, <1>7, OthersKept
<1>9. 0 < Filled(burn.ver, 0)
  BY <1>1, WholeChunk
<1>10. Progress'
  BY <1>1, <1>2, <1>6, <1>8, <1>9, WholeChunk DEF Progress, Behind
<1> QED
  BY <1>8, <1>10 DEF IInv

\* A block that cannot be erased is worn, and is given up.
LEMMA EraseFailsIInv == ASSUME OneBlk(burn.ver), IInv, EraseFails PROVE IInv'
<1>1. /\ mode = "burn" /\ mode' = "burn" /\ burn \in BurnType
      /\ blk \in [Blk -> Contents] /\ burn.off = 0 /\ burn.ver \in Version
  BY DEF IInv, Shape, Progress, Behind, EraseFails, Burning
<1>2. /\ burn' \in BurnType
      /\ burn'.ver = burn.ver /\ burn'.cur = burn.cur /\ burn'.off = burn.off
      /\ burn'.step = "mark"
  BY <1>1 DEF EraseFails, BurnType
<1>3. burn.cur \in Blk
  BY <1>1 DEF BurnType
<1>4. /\ blk' \in [Blk -> Contents]
      /\ \A b \in Blk : b # burn.cur => blk'[b] = blk[b]
  <2>1. CASE blk' = blk
    BY <1>1, <2>1
  <2>2. CASE blk' = [blk EXCEPT ![burn.cur].page = AllPages(Garbage)]
    BY <1>1, <1>3, <2>2, GarbagePages, OtherPages
  <2> QED
    BY <2>1, <2>2 DEF EraseFails
<1>5. worn' = worn \cup {burn.cur} /\ UNCHANGED <<allowed, cuts>>
  BY DEF EraseFails
<1>6. /\ Shape' /\ Bound' /\ burn'.ver \in allowed'
      /\ \A b \in Blk : b < burn'.cur => Written(b)'
  BY <1>1, <1>2, <1>4, <1>5, OthersKept
<1>7. Progress'
  BY <1>1, <1>2, <1>5, <1>6, WholeChunk DEF Progress, Behind
<1> QED
  BY <1>6, <1>7 DEF IInv

\* A page more of the block is programmed, or its last one.
LEMMA PageProgrammed ==
  ASSUME OneBlk(burn.ver), IInv, ProgramPage
  PROVE  /\ blk' \in [Blk -> Contents]
         /\ blk'[burn.cur] = Begun(burn.ver, burn.at + 1)
         /\ \A b \in Blk : b # burn.cur => blk'[b] = blk[b]
         /\ \/ /\ burn.at + 1 < Filled(burn.ver, 0)
               /\ burn' = [burn EXCEPT !.at = burn.at + 1]
            \/ blk'[burn.cur] = Full(burn.ver) /\ burn' = AfterBlock(burn)
<1>1. /\ mode = "burn" /\ mode' = "burn" /\ burn \in BurnType
      /\ blk \in [Blk -> Contents] /\ burn.ver \in Version
      /\ burn.off = 0 /\ burn.at < Filled(burn.ver, 0)
      /\ blk[burn.cur] = Begun(burn.ver, burn.at)
  BY DEF IInv, Shape, Progress, Behind, ProgramPage, Burning
<1>2. burn.cur \in Blk /\ burn.at \in Nat
  BY <1>1 DEF BurnType
<1>3. /\ Chunk(burn.ver, 0) = Len[burn.ver] /\ Len[burn.ver] \in Nat \ {0}
      /\ Filled(burn.ver, 0) \in Nat
  BY <1>1, WholeChunk
<1>4. ThisPage = Piece(burn.ver, 0 + (burn.at % Chunk(burn.ver, 0)))
  BY <1>1 DEF ThisPage
<1>5. ThisPage \in [ver : Version \cup {NoVersion}, no : Nat]
  BY <1>1, <1>2, <1>3, <1>4 DEF Piece
<1> DEFINE ps == [blk[burn.cur].page EXCEPT ![burn.at] = ThisPage]
<1>6. ps \in [Page -> [ver : Version \cup {NoVersion}, no : Nat]]
  BY <1>1, <1>2, <1>5 DEF Contents
<1>7. ps = Begun(burn.ver, burn.at + 1).page
  <2>1. blk[burn.cur].page =
          [p \in Page |-> IF p < burn.at THEN Piece(burn.ver, 0 + (p % Chunk(burn.ver, 0)))
                          ELSE Blank]
    BY <1>1 DEF Begun
  <2>2. ps = [p \in Page |-> IF p < burn.at + 1
                THEN Piece(burn.ver, 0 + (p % Chunk(burn.ver, 0))) ELSE Blank]
    <3> HIDE DEF Blank
    <3>1. DOMAIN ps = Page
      BY <2>1
    <3>2. ASSUME NEW p \in Page
          PROVE  ps[p] = IF p < burn.at + 1
                 THEN Piece(burn.ver, 0 + (p % Chunk(burn.ver, 0))) ELSE Blank
      <4>1. p < burn.at + 1 <=> p < burn.at \/ p = burn.at
        BY <1>2 DEF Page
      <4>2. CASE p = burn.at
        BY <2>1, <1>4, <4>1, <4>2
      <4>3. CASE p # burn.at
        BY <2>1, <4>1, <4>3
      <4> QED
        BY <4>2, <4>3
    <3> QED
      BY <2>1, <3>2
  <2> QED
    BY <2>2 DEF Begun
<1>8. blk' = [blk EXCEPT ![burn.cur].page = ps]
  BY Zenon DEF ProgramPage
<1>9. /\ blk' \in [Blk -> Contents]
      /\ blk'[burn.cur] = [page |-> ps, bad |-> blk[burn.cur].bad]
      /\ \A b \in Blk : b # burn.cur => blk'[b] = blk[b]
  <2> HIDE DEF ps
  <2> QED
    BY <1>1, <1>2, <1>6, <1>8, OtherPages
<1>10. blk'[burn.cur] = Begun(burn.ver, burn.at + 1)
  <2>1. blk[burn.cur].bad = FALSE
    BY <1>1 DEF Begun
  <2> HIDE DEF ps
  <2> QED
    BY <1>7, <1>9, <2>1 DEF Begun
<1>11. CASE burn.at + 1 < Filled(burn.ver, 0)
  <2>1. burn' = [burn EXCEPT !.at = burn.at + 1]
    BY <1>1, <1>11 DEF ProgramPage
  <2> HIDE DEF ps
  <2> QED
    BY <1>9, <1>10, <1>11, <2>1
<1>12. CASE ~(burn.at + 1 < Filled(burn.ver, 0))
  <2>1. burn' = AfterBlock(burn)
    BY <1>1, <1>12 DEF ProgramPage
  <2>2. burn.at + 1 = Filled(burn.ver, 0)
    BY <1>1, <1>2, <1>3, <1>12
  <2>3. blk'[burn.cur] = Full(burn.ver)
    BY <1>1, <1>10, <2>2, BegunIsFull
  <2> HIDE DEF ps
  <2> QED
    BY <1>9, <1>10, <2>1, <2>3
<1> QED
  BY <1>11, <1>12

\* A programmed page is a page more of a whole block.
LEMMA ProgramIInv == ASSUME OneBlk(burn.ver), IInv, ProgramPage PROVE IInv'
<1>1. /\ mode = "burn" /\ mode' = "burn" /\ burn \in BurnType
      /\ blk \in [Blk -> Contents] /\ burn.ver \in Version
      /\ burn.off = 0 /\ burn.step = "program" /\ burn.at \in Nat
  BY DEF IInv, Shape, Progress, Behind, ProgramPage, Burning, BurnType
<1>2. /\ blk' \in [Blk -> Contents]
      /\ blk'[burn.cur] = Begun(burn.ver, burn.at + 1)
      /\ \A b \in Blk : b # burn.cur => blk'[b] = blk[b]
  BY PageProgrammed
<1>3. UNCHANGED <<worn, allowed, cuts>>
  BY DEF ProgramPage
<1>4. CASE burn.at + 1 < Filled(burn.ver, 0) /\ burn' = [burn EXCEPT !.at = burn.at + 1]
  <2>1. /\ burn' \in BurnType
        /\ burn'.ver = burn.ver /\ burn'.cur = burn.cur /\ burn'.off = burn.off
        /\ burn'.step = "program" /\ burn'.at = burn.at + 1
    BY <1>1, <1>4 DEF BurnType
  <2>2. /\ Shape' /\ Bound' /\ burn'.ver \in allowed'
        /\ \A b \in Blk : b < burn'.cur => Written(b)'
    BY <1>1, <1>2, <1>3, <2>1, OthersKept
  <2>3. Progress'
    BY <1>1, <1>2, <1>4, <2>1, <2>2, WholeChunk DEF Progress, Behind
  <2> QED
    BY <2>2, <2>3 DEF IInv
<1>5. CASE blk'[burn.cur] = Full(burn.ver) /\ burn' = AfterBlock(burn)
  <2>1. /\ burn' \in BurnType
        /\ burn'.ver = burn.ver /\ burn'.cur = burn.cur
        /\ burn'.off = Len[burn.ver] /\ burn'.step = "next"
    BY <1>1, <1>5, AfterBlockDone
  <2>2. /\ Shape' /\ Bound' /\ burn'.ver \in allowed'
        /\ \A b \in Blk : b < burn'.cur => Written(b)'
    BY <1>1, <1>2, <1>3, <2>1, OthersKept
  <2>3. Progress'
    BY <1>1, <1>5, <2>1, <2>2, WholeChunk DEF Progress, Behind, Written
  <2> QED
    BY <2>2, <2>3 DEF IInv
<1> QED
  BY <1>4, <1>5, PageProgrammed

\* A block that cannot be programmed is worn.
LEMMA ProgramFailsIInv == ASSUME OneBlk(burn.ver), IInv, ProgramFails PROVE IInv'
<1>1. /\ mode = "burn" /\ mode' = "burn" /\ burn \in BurnType
      /\ blk \in [Blk -> Contents] /\ burn.off = 0 /\ burn.ver \in Version
  BY DEF IInv, Shape, Progress, Behind, ProgramFails, Burning
<1>2. /\ burn' \in BurnType
      /\ burn'.ver = burn.ver /\ burn'.cur = burn.cur /\ burn'.off = burn.off
      /\ burn'.step = "verify"
  BY <1>1 DEF ProgramFails, BurnType
<1>3. burn.cur \in Blk
  BY <1>1 DEF BurnType
<1> DEFINE ps == [blk[burn.cur].page EXCEPT ![burn.at] = Garbage]
<1>4. ps \in [Page -> [ver : Version \cup {NoVersion}, no : Nat]]
  BY <1>1, <1>3 DEF Contents, Garbage, Piece
<1>5. blk' = [blk EXCEPT ![burn.cur].page = ps]
  BY Zenon DEF ProgramFails
<1>6. /\ blk' \in [Blk -> Contents]
      /\ \A b \in Blk : b # burn.cur => blk'[b] = blk[b]
  <2> HIDE DEF ps
  <2> QED
    BY <1>1, <1>3, <1>4, <1>5, OtherPages
<1>7. worn' = worn \cup {burn.cur} /\ UNCHANGED <<allowed, cuts>>
  BY DEF ProgramFails
<1>8. /\ Shape' /\ Bound' /\ burn'.ver \in allowed'
      /\ \A b \in Blk : b < burn'.cur => Written(b)'
  BY <1>1, <1>2, <1>6, <1>7, OthersKept
<1>9. Progress'
  BY <1>1, <1>2, <1>7, <1>8, WholeChunk DEF Progress, Behind
<1> QED
  BY <1>8, <1>9 DEF IInv

\* The test of a block writes over that block only.
LEMMA VerifyIInv == ASSUME OneBlk(burn.ver), IInv, VerifyBlock PROVE IInv'
<1>1. /\ mode = "burn" /\ mode' = "burn" /\ burn \in BurnType
      /\ blk \in [Blk -> Contents] /\ burn.off = 0 /\ burn.ver \in Version /\ burn.cur \in worn
  BY DEF IInv, Shape, Progress, Behind, VerifyBlock, Burning
<1>2. /\ burn' \in BurnType
      /\ burn'.ver = burn.ver /\ burn'.cur = burn.cur /\ burn'.off = burn.off
      /\ (burn'.step = "scrap" \/ burn'.step = "erase")
  <2>1. CASE burn' = [burn EXCEPT !.step = "scrap"]
    BY <1>1, <2>1 DEF BurnType
  <2>2. CASE burn' = [burn EXCEPT !.try = @ + 1,
                        !.step = IF burn.try + 1 < TOLERANCE THEN "erase" ELSE "scrap"]
    <3> DEFINE next == IF burn.try + 1 < TOLERANCE THEN "erase" ELSE "scrap"
    <3>1. next = "erase" \/ next = "scrap"
      OBVIOUS
    <3>2. burn' = [burn EXCEPT !.try = burn.try + 1, !.step = next]
      BY <2>2
    <3>3. burn.try + 1 \in Nat
      BY <1>1 DEF BurnType
    <3> HIDE DEF next
    <3>4. CASE next = "erase"
      BY <1>1, <3>2, <3>3, <3>4 DEF BurnType
    <3>5. CASE next = "scrap"
      BY <1>1, <3>2, <3>3, <3>5 DEF BurnType
    <3> QED
      BY <3>1, <3>4, <3>5
  <2> QED
    BY <2>1, <2>2 DEF VerifyBlock
<1>3. burn.cur \in Blk
  BY <1>1 DEF BurnType
<1>4. /\ blk' \in [Blk -> Contents]
      /\ \A b \in Blk : b # burn.cur => blk'[b] = blk[b]
  BY <1>1, <1>3, GarbagePages, OtherPages DEF VerifyBlock
<1>5. UNCHANGED <<worn, allowed, cuts>>
  BY DEF VerifyBlock
<1>6. /\ Shape' /\ Bound' /\ burn'.ver \in allowed'
      /\ \A b \in Blk : b < burn'.cur => Written(b)'
  BY <1>1, <1>2, <1>4, <1>5, OthersKept
<1>7. Progress'
  BY <1>1, <1>2, <1>5, <1>6, WholeChunk DEF Progress, Behind
<1> QED
  BY <1>6, <1>7 DEF IInv

\* A block that is given up is a worn one.
LEMMA GiveUpIInv == ASSUME OneBlk(burn.ver), IInv, GiveUpBlock PROVE IInv'
<1>1. /\ mode = "burn" /\ mode' = "burn" /\ burn \in BurnType
      /\ blk \in [Blk -> Contents] /\ burn.off = 0 /\ burn.cur \in worn
      /\ burn.ver \in Version
  BY DEF IInv, Shape, Progress, Behind, GiveUpBlock
<1>2. burn' = AfterBlock(burn)
  BY DEF GiveUpBlock
<1>3. /\ burn' \in BurnType
      /\ burn'.ver = burn.ver /\ burn'.cur = burn.cur
      /\ burn'.off = Len[burn.ver] /\ burn'.step = "next"
  BY <1>1, <1>2, AfterBlockDone
<1>4. burn.cur \in Blk
  BY <1>1 DEF BurnType
<1>5. /\ blk' \in [Blk -> Contents]
      /\ \A b \in Blk : b # burn.cur => blk'[b] = blk[b]
  <2>1. PICK marked \in BOOLEAN :
          \/ blk' = [blk EXCEPT ![burn.cur].bad = marked]
          \/ blk' = [blk EXCEPT ![burn.cur] = [page |-> AllPages(Blank), bad |-> marked]]
    BY DEF GiveUpBlock
  <2>2. [page |-> AllPages(Blank), bad |-> marked] \in Contents
    BY DEF AllPages, Blank, Piece, Contents
  <2>3. CASE blk' = [blk EXCEPT ![burn.cur].bad = marked]
    BY <1>1, <1>4, <2>3 DEF Contents
  <2>4. CASE blk' = [blk EXCEPT ![burn.cur] = [page |-> AllPages(Blank), bad |-> marked]]
    BY <1>1, <1>4, <2>2, <2>4
  <2> QED
    BY <2>1, <2>3, <2>4
<1>6. UNCHANGED <<worn, allowed, cuts>>
  BY DEF GiveUpBlock
<1>7. /\ Shape' /\ Bound' /\ burn'.ver \in allowed'
      /\ \A b \in Blk : b < burn'.cur => Written(b)'
  BY <1>1, <1>3, <1>5, <1>6, OthersKept
<1>8. Progress'
  BY <1>1, <1>3, <1>6, <1>7, WholeChunk DEF Progress, Behind, Written
<1> QED
  BY <1>7, <1>8 DEF IInv

\* The block that is left behind is whole, or worn.
LEMMA NextBlockIInv == ASSUME OneBlk(burn.ver), IInv, NextBlock PROVE IInv'
<1>1. /\ mode = "burn" /\ mode' = "burn" /\ burn \in BurnType
      /\ burn.ver \in Version /\ burn.ver \in allowed
      /\ burn.off = Len[burn.ver] /\ Len[burn.ver] \in Nat \ {0}
      /\ Written(burn.cur) /\ burn.cur < BlkCnt - 1
      /\ \A b \in Blk : b < burn.cur => Written(b)
  BY WholeChunk DEF IInv, Shape, Progress, Behind, NextBlock, Burning
<1>2. burn.cur \in Blk /\ burn.cur + 1 \in Blk
  BY <1>1, AreaAssumption DEF BurnType, Blk
<1>3. /\ burn' \in BurnType /\ burn'.ver = burn.ver /\ burn'.cur = burn.cur + 1
      /\ burn'.off = 0 /\ burn'.step = "erase"
  <2>1. FirstStep(burn.ver) = "erase" /\ burn.off >= Len[burn.ver]
    BY <1>1 DEF FirstStep
  <2>2. burn' = [burn EXCEPT !.cur = burn.cur + 1, !.try = 0, !.at = 0,
                   !.step = "erase", !.start = burn.cur + 1, !.off = 0]
    BY <2>1 DEF NextBlock
  <2>3. burn.cur + 1 \in Nat
    BY <1>2 DEF Blk
  <2> QED
    BY <1>1, <1>2, <2>2, <2>3 DEF BurnType
<1>4. UNCHANGED <<blk, worn, allowed, cuts>>
  BY DEF NextBlock
<1>5. Shape'
  BY <1>3, <1>4 DEF IInv, Shape
<1>6. Progress'
  <2>1. \A b \in Blk : b < burn.cur + 1 => b < burn.cur \/ b = burn.cur
    BY <1>2 DEF Blk
  <2>2. \A b \in Blk : b < burn'.cur => Written(b)'
    BY <1>1, <1>3, <1>4, <2>1 DEF Written
  <2> QED
    BY <1>1, <1>3, <1>4, <2>2 DEF Progress, Behind
<1>7. Hurt' \subseteq Hurt
  <2>1. burn.cur \in worn \/ Whole(burn.cur)
    BY <1>1 DEF Written, Whole, Full
  <2> QED
    BY <1>1, <1>3, <1>4, <2>1 DEF Hurt, Whole
<1>8. Hurt \in SUBSET Blk
  BY DEF Hurt
<1>9. cuts \in Nat /\ cuts' = cuts /\ (Small' => Cardinality(Hurt) <= cuts)
  BY <1>4 DEF IInv, Shape, Bound, Small
<1>10. Bound'
  BY <1>7, <1>8, <1>9, Fewer DEF Bound
<1> QED
  BY <1>5, <1>6, <1>10 DEF IInv

\* A burn that ends has left every block whole, or worn.
LEMMA EndBurnIInv == ASSUME OneBlk(burn.ver), IInv, EndBurn PROVE IInv'
<1>1. /\ mode = "burn" /\ burn \in BurnType /\ burn.ver \in Version
      /\ Written(burn.cur) /\ burn.cur = BlkCnt - 1
      /\ \A b \in Blk : b < burn.cur => Written(b)
  BY DEF IInv, Shape, Progress, Behind, EndBurn, Burning
<1>2. \A b \in Blk : Written(b)
  BY <1>1, AreaAssumption DEF Blk
<1>3. /\ mode' = "off" /\ burn' = NoBurn /\ allowed' = {burn.ver} /\ cuts' = 0
      /\ UNCHANGED <<blk, worn>>
  BY DEF EndBurn
<1>4. Hurt' = {}
  BY <1>2, <1>3 DEF Hurt, Whole, Written, Full
<1>5. Bound'
  BY <1>3, <1>4, FS_EmptySet DEF Bound
<1>6. 0 \in Blk
  BY AreaAssumption DEF Blk
<1>7. Shape'
  BY <1>1, <1>3, <1>6 DEF IInv, Shape, NoBurn, BurnType
<1>8. Progress'
  BY <1>3, WholeChunk DEF Progress, Behind
<1> QED
  BY <1>5, <1>7, <1>8 DEF IInv

\* The power fails in the work on one block, so no other block is hurt.
LEMMA PowerFailsIInv == ASSUME IInv, PowerFails PROVE IInv'
<1>1. /\ mode = "burn" /\ mode' = "off" /\ burn \in BurnType
      /\ blk \in [Blk -> Contents] /\ burn' = NoBurn /\ cuts' = cuts + 1
      /\ UNCHANGED <<worn, allowed>>
  BY DEF IInv, Shape, PowerFails
<1>2. burn.cur \in Blk /\ 0 \in Blk
  BY <1>1, AreaAssumption DEF BurnType, Blk
<1>3. /\ blk' \in [Blk -> Contents]
      /\ \A b \in Blk : b # burn.cur => blk'[b] = blk[b]
  <2>1. ASSUME NEW pages, Torn(burn.cur, pages)
        PROVE  /\ blk' \in [Blk -> Contents]
               /\ \A b \in Blk : b # burn.cur => blk'[b] = blk[b]
    <3> DEFINE x(bad) == [page |-> [p \in Page |-> IF p \in pages THEN Garbage
                                      ELSE blk[burn.cur].page[p]],
                          bad |-> IF 0 \in pages THEN bad ELSE blk[burn.cur].bad]
    <3>1. PICK bad \in BOOLEAN : blk' = [blk EXCEPT ![burn.cur] = x(bad)]
      BY <2>1, <1>1, <1>2 DEF Torn
    <3>2. x(bad) \in Contents
      BY <1>1, <1>2 DEF Contents, Garbage, Piece
    <3> HIDE DEF x
    <3> QED
      BY <1>1, <1>2, <3>1, <3>2
  <2>2. CASE blk' = blk
    BY <1>1, <2>2
  <2> QED
    BY <2>1, <2>2 DEF PowerFails
<1>4. Hurt' \subseteq Hurt \cup {burn.cur}
  BY <1>1, <1>3 DEF Hurt, Whole
<1>5. Hurt \in SUBSET Blk /\ Hurt \cup {burn.cur} \in SUBSET Blk
  BY <1>2 DEF Hurt
<1>6. cuts \in Nat /\ (Small' => Cardinality(Hurt) <= cuts)
  BY <1>1 DEF IInv, Shape, Bound, Small
<1>7. Cardinality(Hurt') <= Cardinality(Hurt \cup {burn.cur}) /\ Cardinality(Hurt') \in Nat
  BY <1>4, <1>5, Fewer
<1>8. /\ Cardinality(Hurt \cup {burn.cur}) <= Cardinality(Hurt) + 1
      /\ Cardinality(Hurt) \in Nat /\ Cardinality(Hurt \cup {burn.cur}) \in Nat
  BY <1>2, <1>5, OneMore
<1>9. Bound'
  BY <1>1, <1>6, <1>7, <1>8 DEF Bound
<1>10. Shape'
  BY <1>1, <1>2, <1>3, <1>6 DEF IInv, Shape, NoBurn, BurnType
<1>11. Progress'
  BY <1>1 DEF Progress
<1> QED
  BY <1>9, <1>10, <1>11 DEF IInv

\* Booting only reads.
LEMMA BootIInv ==
  ASSUME IInv, UNCHANGED <<blk, worn, burn, allowed, cuts>>,
         mode # "burn", mode' # "burn"
  PROVE  IInv'
<1>1. Hurt' = Hurt
  BY DEF Hurt, Whole
<1> QED
  BY <1>1 DEF IInv, Shape, Progress, Bound, Small

\* The steps of a burn that goes on.
BurnStep ==
  \/ ReadStatus \/ EraseBlock \/ EraseFails
  \/ ProgramPage \/ ProgramFails \/ VerifyBlock \/ GiveUpBlock
  \/ NextBlock \/ EndBurn

\* A burn of an image of several blocks promises nothing here, and keeps the
\* shape of the state.
LEMMA LongIInv == ASSUME IInv, BurnStep, ~OneBlk(burn.ver) PROVE IInv'
<1>1. /\ mode = "burn" /\ burn \in BurnType /\ blk \in [Blk -> Contents]
      /\ burn.ver \in Version /\ burn.ver \in allowed
      /\ allowed \subseteq Version /\ cuts \in Nat /\ worn \subseteq Blk
      /\ burn.step # "next" => burn.off < Len[burn.ver]
  BY DEF IInv, Shape, Progress, BurnStep, ReadStatus, EraseBlock, EraseFails, ProgramPage,
     ProgramFails, VerifyBlock, GiveUpBlock, NextBlock, EndBurn, Burning
<1>2. burn.cur \in Blk /\ burn.at \in Nat /\ burn.off \in Nat /\ 0 \in Blk
  BY <1>1, AreaAssumption DEF BurnType, Blk
<1>3. /\ burn.ver \in allowed' /\ allowed' \subseteq Version /\ cuts' \in Nat
      /\ worn' \subseteq Blk
  <2>1. CASE EndBurn
    BY <1>1, <2>1 DEF EndBurn
  <2>2. CASE EraseFails \/ ProgramFails
    BY <1>1, <1>2, <2>2 DEF EraseFails, ProgramFails
  <2>3. CASE ~EndBurn /\ ~EraseFails /\ ~ProgramFails
    <3>1. UNCHANGED <<allowed, cuts, worn>>
      BY <2>3 DEF BurnStep, ReadStatus, EraseBlock, ProgramPage, VerifyBlock,
         GiveUpBlock, NextBlock
    <3> QED
      BY <1>1, <3>1
  <2> QED
    BY <2>1, <2>2, <2>3
<1>4. /\ burn' \in BurnType
      /\ mode' = "burn" => /\ burn'.ver = burn.ver
                           /\ burn'.step # "next" => burn'.off < Len[burn.ver]
  <2>1. CASE ReadStatus
    <3>1. burn' = [burn EXCEPT !.step = "next"] \/ burn' = [burn EXCEPT !.step = "erase"]
      BY <2>1 DEF ReadStatus
    <3>2. burn.step = "status"
      BY <2>1 DEF ReadStatus, Burning
    <3> QED
      BY <1>1, <3>1, <3>2 DEF BurnType
  <2>2. CASE EraseBlock
    BY <1>1, <2>2 DEF EraseBlock, Burning, BurnType
  <2>3. CASE EraseFails
    BY <1>1, <2>3 DEF EraseFails, Burning, BurnType
  <2>4. ASSUME burn' = AfterBlock(burn), burn.step # "next"
        PROVE  burn' \in BurnType /\ burn'.ver = burn.ver /\ burn'.step = "next"
    <3>1. burn' = [burn EXCEPT !.step = "next", !.off = burn.off + Chunk(burn.ver, burn.off)]
      BY <2>4 DEF AfterBlock
    <3>2. burn.off + Chunk(burn.ver, burn.off) \in Nat
      BY <1>1, <1>2, <2>4, SomeChunk
    <3> QED
      BY <1>1, <3>1, <3>2 DEF BurnType
  <2>5. CASE ProgramPage
    <3>1. burn.step = "program"
      BY <2>5 DEF ProgramPage, Burning
    <3>2. burn' = [burn EXCEPT !.at = burn.at + 1] \/ burn' = AfterBlock(burn)
      BY <2>5 DEF ProgramPage
    <3>3. CASE burn' = [burn EXCEPT !.at = burn.at + 1]
      BY <1>1, <1>2, <3>1, <3>3 DEF BurnType
    <3> QED
      BY <2>4, <3>1, <3>2, <3>3
  <2>6. CASE ProgramFails
    BY <1>1, <2>6 DEF ProgramFails, Burning, BurnType
  <2>7. CASE VerifyBlock
    <3>1. burn.step = "verify"
      BY <2>7 DEF VerifyBlock, Burning
    <3>2. burn.try + 1 \in Nat
      BY <1>1 DEF BurnType
    <3>3. \/ burn' = [burn EXCEPT !.step = "scrap"]
          \/ burn' = [burn EXCEPT !.try = burn.try + 1, !.step = "erase"]
          \/ burn' = [burn EXCEPT !.try = burn.try + 1, !.step = "scrap"]
      BY <2>7, Zenon DEF VerifyBlock
    <3> QED
      BY <1>1, <3>1, <3>2, <3>3 DEF BurnType
  <2>8. CASE GiveUpBlock
    BY <2>4, <2>8 DEF GiveUpBlock
  <2>9. CASE NextBlock
    <3> DEFINE start == IF burn.off >= Len[burn.ver] THEN burn.cur + 1 ELSE burn.start
               off == IF burn.off >= Len[burn.ver] THEN 0 ELSE burn.off
    <3>1. burn' = [burn EXCEPT !.cur = burn.cur + 1, !.try = 0, !.at = 0,
                     !.step = FirstStep(burn.ver), !.start = start, !.off = off]
      BY <2>9 DEF NextBlock
    <3>2. burn.cur + 1 \in Blk /\ burn.cur + 1 \in Nat
      BY <1>2, <2>9, AreaAssumption DEF NextBlock, Blk
    <3>3. Len[burn.ver] \in Nat \ {0}
      BY <1>1, VersionAssumption
    <3>4. off \in Nat /\ off < Len[burn.ver]
      BY <1>2, <3>3
    <3>5. start \in Nat
      BY <1>1, <3>2 DEF BurnType
    <3>6. FirstStep(burn.ver) \in {"erase", "status"}
      BY DEF FirstStep
    <3> HIDE DEF off, start
    <3> QED
      BY <1>1, <3>1, <3>2, <3>4, <3>5, <3>6 DEF BurnType
  <2>10. CASE EndBurn
    BY <1>2, <2>10 DEF EndBurn, NoBurn, BurnType
  <2> QED
    BY <2>1, <2>2, <2>3, <2>5, <2>6, <2>7, <2>8, <2>9, <2>10 DEF BurnStep
<1>5. blk' \in [Blk -> Contents]
  <2>1. CASE ReadStatus \/ NextBlock \/ EndBurn
    BY <1>1, <2>1 DEF ReadStatus, NextBlock, EndBurn
  <2>2. [page |-> AllPages(Blank), bad |-> FALSE] \in Contents /\
        \A marked \in BOOLEAN : [page |-> AllPages(Blank), bad |-> marked] \in Contents
    BY DEF AllPages, Blank, Piece, Contents
  <2>3. CASE EraseBlock
    BY <1>1, <1>2, <2>2, <2>3 DEF EraseBlock
  <2>4. CASE EraseFails \/ VerifyBlock
    <3>1. blk' = blk \/ blk' = [blk EXCEPT ![burn.cur].page = AllPages(Garbage)]
      BY <2>4 DEF EraseFails, VerifyBlock
    <3> QED
      BY <1>1, <1>2, <3>1, GarbagePages, OtherPages
  <2>5. ASSUME NEW piece \in [ver : Version \cup {NoVersion}, no : Nat],
               blk' = [blk EXCEPT ![burn.cur].page[burn.at] = piece]
        PROVE  blk' \in [Blk -> Contents]
    <3> DEFINE ps == [blk[burn.cur].page EXCEPT ![burn.at] = piece]
    <3>1. ps \in [Page -> [ver : Version \cup {NoVersion}, no : Nat]]
      BY <1>1, <1>2, <2>5 DEF Contents
    <3>2. blk' = [blk EXCEPT ![burn.cur].page = ps]
      BY <2>5, Zenon
    <3> HIDE DEF ps
    <3> QED
      BY <1>1, <1>2, <3>1, <3>2, OtherPages
  <2>6. CASE ProgramPage
    <3>1. ThisPage \in [ver : Version \cup {NoVersion}, no : Nat]
      BY <1>1, <1>2, <2>6, SomeChunk DEF ThisPage, ProgramPage, Burning
    <3> QED
      BY <2>5, <2>6, <3>1 DEF ProgramPage
  <2>7. CASE ProgramFails
    <3>1. Garbage \in [ver : Version \cup {NoVersion}, no : Nat]
      BY DEF Garbage, Piece
    <3> QED
      BY <2>5, <2>7, <3>1 DEF ProgramFails
  <2>8. CASE GiveUpBlock
    <3>1. PICK marked \in BOOLEAN :
            \/ blk' = [blk EXCEPT ![burn.cur].bad = marked]
            \/ blk' = [blk EXCEPT ![burn.cur] = [page |-> AllPages(Blank), bad |-> marked]]
      BY <2>8 DEF GiveUpBlock
    <3>2. CASE blk' = [blk EXCEPT ![burn.cur].bad = marked]
      BY <1>1, <1>2, <3>2 DEF Contents
    <3>3. CASE blk' = [blk EXCEPT ![burn.cur] = [page |-> AllPages(Blank), bad |-> marked]]
      BY <1>1, <1>2, <2>2, <3>3
    <3> QED
      BY <3>1, <3>2, <3>3
  <2> QED
    BY <2>1, <2>3, <2>4, <2>6, <2>7, <2>8 DEF BurnStep
<1>6. Shape' /\ Progress'
  BY <1>3, <1>4, <1>5 DEF Shape, Progress
<1>7. ~Small'
  BY <1>3 DEF Small
<1> QED
  BY <1>6, <1>7 DEF IInv, Bound

\* Every step keeps the invariant.
LEMMA NextIInv == ASSUME IInv, [Next]_vars PROVE IInv'
<1>1. CASE \E v \in Version : BeginBurn(v)
  BY <1>1, BeginIInv
<1>2. CASE PowerOn
  BY <1>2, BootIInv DEF PowerOn
<1>3. CASE TryBlock
  <2>1. mode = "load" /\ mode' # "burn" /\ UNCHANGED <<blk, worn, burn, allowed, cuts>>
    BY <1>3 DEF TryBlock
  <2> QED
    BY <2>1, BootIInv
<1>4. CASE TurnOff
  BY <1>4, BootIInv DEF TurnOff
<1>5. CASE PowerFails
  BY <1>5, PowerFailsIInv
<1>6. CASE UNCHANGED vars
  BY <1>6 DEF vars, IInv, Shape, Progress, Behind, Written, Bound, Small, Hurt, Whole
<1>7. CASE BurnStep /\ ~OneBlk(burn.ver)
  BY <1>7, LongIInv
<1>8. CASE BurnStep /\ OneBlk(burn.ver)
  <2>1. CASE ReadStatus
    BY <1>8, <2>1 DEF IInv, Progress, Behind, ReadStatus, Burning
  <2> QED
    BY <1>8, <2>1, EraseIInv, EraseFailsIInv, ProgramIInv, ProgramFailsIInv,
       VerifyIInv, GiveUpIInv, NextBlockIInv, EndBurnIInv DEF BurnStep
<1> QED
  BY <1>1, <1>2, <1>3, <1>4, <1>5, <1>6, <1>7, <1>8 DEF Next, BurnStep

\* While every image in the area, and every one begun, fits in a block, an
\* interrupted burn of boot1 costs at most one block (write_in_one_blk and
\* Nand_Burn_Boot1): the blocks that hold nothing but copies of one version
\* that was asked for are all but those in use, worn, or lost to one of the
\* interruptions since the last whole burn.
THEOREM BurnDamageBounded == Spec => []DamageBounded
<1>1. Init => IInv
  BY InitIInv
<1>2. IInv /\ [Next]_vars => IInv'
  BY NextIInv
<1>3. IInv => DamageBounded
  BY DEF IInv, Bound, Small, DamageBounded, Hurt
<1> QED
  BY <1>1, <1>2, <1>3, PTL DEF Spec

\* A set of numbers has a least one.
LEMMA FirstOf ==
  ASSUME NEW S \in SUBSET Nat, S # {}
  PROVE  \E m \in S : \A y \in S : m <= y
<1> DEFINE R == {ss \in Nat \X Nat : ss[1] < ss[2]}
<1>2. IsWellFoundedOn(R, Nat)
  <2>1. IsWellFoundedOn(OpToRel(<, Nat), Nat)
    BY NatLessThanWellFounded, Zenon
  <2> QED
    BY <2>1 DEF OpToRel
<1> HIDE DEF R
<1>3. PICK x \in S : TRUE
  OBVIOUS
<1>4. \E m \in S : \A y \in S : ~(<<y, m>> \in R)
  BY <1>2, <1>3, WFMin
<1>5. PICK m \in S : \A y \in S : ~(<<y, m>> \in R)
  BY <1>4
<1>6. \A y \in S : ~(y < m)
  BY <1>5 DEF R
<1>7. m \in Nat /\ \A y \in S : y \in Nat
  OBVIOUS
<1> QED
  BY <1>6, <1>7

\* Counting up to n.
LEMMA CountUp ==
  ASSUME NEW n \in Nat, NEW S, 0 \in S, \A k \in 0 .. n - 1 : k \in S => k + 1 \in S
  PROVE  0 .. n \subseteq S
<1> DEFINE T == (0 .. n) \ S
<1>1. CASE T = {}
  BY <1>1
<1>2. CASE T # {}
  <2>1. T \in SUBSET Nat
    OBVIOUS
  <2> HIDE DEF T
  <2>2. PICK m \in T : \A y \in T : m <= y
    BY <1>2, <2>1, FirstOf
  <2>3. m \in 0 .. n /\ m \notin S
    BY DEF T
  <2>4. m - 1 \in 0 .. n - 1 /\ m = (m - 1) + 1
    BY <2>3
  <2>5. m - 1 \in S
    <3>1. m - 1 \notin T
      BY <2>2, <2>3
    <3> QED
      BY <2>4, <3>1 DEF T
  <2> QED
    BY <2>3, <2>4, <2>5
<1> QED
  BY <1>1, <1>2

\* A table that is made entry by entry.
Table(f, n, B, base, g) ==
  f \in [0 .. n -> B] /\ f[0] = base /\ \A k \in 1 .. n : f[k] = g[k][f[k - 1]]
\* And there always is one.
LEMMA TableExists ==
  ASSUME NEW n \in Nat, NEW B, NEW base \in B, NEW g \in [1 .. n -> [B -> B]]
  PROVE  \E f : Table(f, n, B, base, g)
<1> DEFINE S == {m \in 0 .. n : \E f : Table(f, m, B, base, g)}
<1>1. 0 \in S
  <2> DEFINE f == [k \in 0 .. 0 |-> base]
  <2>1. Table(f, 0, B, base, g)
    BY DEF Table
  <2> QED
    BY <2>1
<1>2. ASSUME NEW m \in 0 .. n - 1, m \in S PROVE m + 1 \in S
  <2>1. PICK f : Table(f, m, B, base, g)
    BY <1>2
  <2> DEFINE h == [k \in 0 .. m + 1 |-> IF k = m + 1 THEN g[m + 1][f[m]] ELSE f[k]]
  <2>2. f[m] \in B /\ m + 1 \in 1 .. n /\ g[m + 1][f[m]] \in B
    BY <2>1 DEF Table
  <2>3. h \in [0 .. m + 1 -> B] /\ h[0] = base
    BY <2>1, <2>2 DEF Table
  <2>4. ASSUME NEW k \in 1 .. m + 1 PROVE h[k] = g[k][h[k - 1]]
    <3>1. CASE k = m + 1
      <4>1. h[k] = g[m + 1][f[m]] /\ h[k - 1] = f[m]
        BY <3>1
      <4> QED
        BY <3>1, <4>1
    <3>2. CASE k # m + 1
      <4>1. k \in 1 .. m /\ h[k] = f[k] /\ h[k - 1] = f[k - 1]
        BY <3>2
      <4> QED
        BY <2>1, <4>1 DEF Table
    <3> QED
      BY <3>1, <3>2
  <2>5. Table(h, m + 1, B, base, g)
    BY <2>3, <2>4 DEF Table
  <2> QED
    BY <2>5
<1> HIDE DEF S
<1>3. 0 .. n \subseteq S
  BY <1>1, <1>2, CountUp
<1> QED
  BY <1>3 DEF S

\* One step of load_and_check_in_one_blk: the copy before passed, or the next
\* is read.
OneStep(x, k, b, size, lost, how) ==
  IF k > 1 /\ CheckFile(x, size) THEN x
  ELSE ReadPages(x, 0, b, (k - 1) * size, size, lost, how)
OneRec(f, buf, b, size, lost, how) ==
  f = [k \in 0 .. PageCnt \div size |->
         IF k = 0 THEN buf
         ELSE IF k > 1 /\ CheckFile(f[k - 1], size) THEN f[k - 1]
         ELSE ReadPages(f[k - 1], 0, b, (k - 1) * size, size, lost, how)]
\* The recursive definition is met, if something meets it.
LEMMA OneBlkMeets ==
  ASSUME NEW buf, NEW b, NEW size, NEW lost, NEW how,
         \E f : OneRec(f, buf, b, size, lost, how)
  PROVE  \E f : /\ OneRec(f, buf, b, size, lost, how)
                /\ OneBlkBuf(buf, b, size, lost, how) = f[PageCnt \div size]
  BY DEF OneBlkBuf, OneRec

----------------------------------------------------------------------------
(* What the loader reads.                                                  *)
PieceOf(A) == [ver : A \cup {NoVersion}, no : 0 .. MaxLen]
PagesOf(A) == [Page -> PieceOf(A)]
BufOf(A) == [head : A \cup {NoVersion}, page : [0 .. MaxLen - 1 -> PieceOf(A)]]

\* No image is longer than the longest.
LEMMA LongEnough == MaxLen \in Nat \ {0} /\ \A v \in Version : Len[v] <= MaxLen
<1>1. PICK v \in Version : TRUE
  BY VersionAssumption
<1>2. Len[v] \in Nat \ {0} /\ Len[v] <= MaxLen /\ MaxLen \in Nat
  BY VersionAssumption, LongestAssumption
<1> QED
  BY <1>2, LongestAssumption

\* Blank and garbage are of no version.
LEMMA GarbageOf == \A A : Garbage \in PieceOf(A) /\ Blank \in PieceOf(A)
  BY LongEnough DEF Garbage, Blank, Piece, PieceOf

\* How far a read goes.
Got(lost, from, n, how) ==
  LET stops == {p \in lost : from <= p /\ p < from + n /\ how = "error"}
  IN IF stops = {} THEN n ELSE Min(stops) - from

\* A read gets no more pages than it asks for.
LEMMA GotBounded ==
  ASSUME NEW lost \in SUBSET Page, NEW from \in Nat, NEW n \in Nat, NEW how
  PROVE  Got(lost, from, n, how) \in 0 .. n
<1> DEFINE stops == {p \in lost : from <= p /\ p < from + n /\ how = "error"}
<1>1. CASE stops = {}
  BY <1>1 DEF Got
<1>2. CASE stops # {}
  <2>0. Page \subseteq Nat
    BY AreaAssumption DEF Page
  <2>1. stops \in SUBSET Nat /\ \A p \in stops : from <= p /\ p < from + n
    BY <2>0
  <2>2. Got(lost, from, n, how) = Min(stops) - from
    BY <1>2 DEF Got
  <2> HIDE DEF stops
  <2>3. \E m \in stops : \A y \in stops : m <= y
    BY <1>2, <2>1, FirstOf
  <2>4. Min(stops) \in stops
    BY <2>3 DEF Min
  <2> DEFINE m == Min(stops)
  <2>5. m \in Nat /\ from <= m /\ m < from + n
    BY <2>1, <2>4
  <2> HIDE DEF m
  <2>6. m - from \in 0 .. n
    BY <2>5
  <2>7. Got(lost, from, n, how) = m - from
    BY <2>2 DEF m
  <2> QED
    BY <2>6, <2>7
<1> QED
  BY <1>1, <1>2

\* What a read leaves in the buffer, by the pages that it got.
LEMMA ReadFields ==
  ASSUME NEW buf, NEW at, NEW b, NEW from, NEW n, NEW lost, NEW how,
         NEW got, got = Got(lost, from, n, how)
  PROVE  ReadPages(buf, at, b, from, n, lost, how) =
           [head |-> IF at = 0 /\ got > 0
                     THEN HeadOf(IF from \in lost THEN Garbage ELSE blk[b].page[from])
                     ELSE buf.head,
            page |-> [k \in DOMAIN buf.page |->
              IF at <= k /\ k < at + got
              THEN IF from + k - at \in lost THEN Garbage ELSE blk[b].page[from + k - at]
              ELSE buf.page[k]]]
  BY DEF ReadPages, Got

\* What is read from a block are the pieces in it, or garbage.
LEMMA ReadTyped ==
  ASSUME NEW A, NEW buf \in BufOf(A), NEW at \in Nat, NEW b,
         blk[b].page \in PagesOf(A), NEW from \in Nat, NEW n \in Nat, from + n <= PageCnt,
         NEW lost \in SUBSET Page, NEW how
  PROVE  ReadPages(buf, at, b, from, n, lost, how) \in BufOf(A)
<1> DEFINE got == Got(lost, from, n, how)
           pages == blk[b].page
           Seen(p) == IF p \in lost THEN Garbage ELSE pages[p]
           h == IF at = 0 /\ got > 0 THEN HeadOf(Seen(from)) ELSE buf.head
           ps == [k \in DOMAIN buf.page |->
                    IF at <= k /\ k < at + got THEN Seen(from + k - at) ELSE buf.page[k]]
<1>1. got \in 0 .. n /\ PageCnt \in Nat
  BY GotBounded, AreaAssumption
<1>2. ReadPages(buf, at, b, from, n, lost, how) = [head |-> h, page |-> ps]
  BY ReadFields
<1>3. pages \in [Page -> PieceOf(A)] /\ Garbage \in PieceOf(A)
  BY GarbageOf DEF PagesOf
<1> HIDE DEF got, pages
<1>4. ASSUME NEW p \in Nat, p < PageCnt PROVE Seen(p) \in PieceOf(A)
  <2>1. p \in Page
    BY <1>1, <1>4 DEF Page
  <2> QED
    BY <1>3, <2>1
<1> HIDE DEF Seen
<1>5. h \in A \cup {NoVersion}
  <2>1. CASE at = 0 /\ got > 0
    <3>1. from < PageCnt
      BY <1>1, <2>1
    <3>2. Seen(from) \in PieceOf(A)
      BY <1>4, <3>1
    <3> QED
      BY <2>1, <3>2 DEF HeadOf, PieceOf
  <2>2. CASE ~(at = 0 /\ got > 0)
    BY <2>2 DEF BufOf
  <2> QED
    BY <2>1, <2>2
<1>6. ps \in [0 .. MaxLen - 1 -> PieceOf(A)]
  <2>1. buf.page \in [0 .. MaxLen - 1 -> PieceOf(A)]
    BY DEF BufOf
  <2>2. ASSUME NEW k \in 0 .. MaxLen - 1 PROVE ps[k] \in PieceOf(A)
    <3>1. CASE at <= k /\ k < at + got
      <4>1. from + k - at \in Nat /\ from + k - at < PageCnt
        BY <1>1, <3>1
      <4> QED
        BY <1>4, <2>1, <3>1, <4>1
    <3>2. CASE ~(at <= k /\ k < at + got)
      BY <2>1, <3>2
    <3> QED
      BY <3>1, <3>2
  <2> QED
    BY <2>1, <2>2
<1> HIDE DEF h, ps
<1> QED
  BY <1>2, <1>5, <1>6 DEF BufOf

\* And so is its first sector.
LEMMA HeadTyped ==
  ASSUME NEW A, NEW buf \in BufOf(A), NEW b,
         blk[b].page \in PagesOf(A), NEW lost, NEW how
  PROVE  ReadHead(buf, b, lost, how) \in BufOf(A)
<1> DEFINE x == IF 0 \in lost THEN Garbage ELSE blk[b].page[0]
           y == IF buf.page[0] = x THEN x ELSE Garbage
           ps == [buf.page EXCEPT ![0] = y]
<1>1. x \in PieceOf(A) /\ Garbage \in PieceOf(A)
  <2>1. 0 \in Page
    BY AreaAssumption DEF Page
  <2> QED
    BY <2>1, GarbageOf DEF PagesOf
<1>2. \/ ReadHead(buf, b, lost, how) = buf
      \/ ReadHead(buf, b, lost, how) = [head |-> HeadOf(x), page |-> ps]
  BY DEF ReadHead
<1> HIDE DEF x
<1>3. HeadOf(x) \in A \cup {NoVersion}
  BY <1>1 DEF HeadOf, PieceOf
<1>4. y \in PieceOf(A)
  BY <1>1
<1> HIDE DEF y
<1>5. ps \in [0 .. MaxLen - 1 -> PieceOf(A)]
  BY <1>4 DEF BufOf
<1> HIDE DEF ps
<1> QED
  BY <1>2, <1>3, <1>5 DEF BufOf

\* The buffers of a run of load_and_check_in_one_blk.
OneRun(f, B, buf, b, size, lost, how) ==
  /\ f \in [0 .. PageCnt \div size -> B] /\ f[0] = buf
  /\ \A k \in 1 .. PageCnt \div size :
       f[k] = OneStep(f[k - 1], k, b, size, lost, how)
  /\ OneBlkBuf(buf, b, size, lost, how) = f[PageCnt \div size]

\* The recursive definition of OneBlkBuf is such a run.
LEMMA OneBlkSteps ==
  ASSUME NEW B, NEW buf \in B, NEW b, NEW size \in Nat \ {0}, NEW lost, NEW how,
         \A k \in 1 .. PageCnt \div size, x \in B :
           ReadPages(x, 0, b, (k - 1) * size, size, lost, how) \in B
  PROVE  \E f : OneRun(f, B, buf, b, size, lost, how)
<1> DEFINE n == PageCnt \div size
           g == [k \in 1 .. n |-> [x \in B |-> OneStep(x, k, b, size, lost, how)]]
           R(f) == OneRec(f, buf, b, size, lost, how)
           Q(f) == f[0] = buf /\ \A k \in 1 .. n : f[k] = OneStep(f[k - 1], k, b, size, lost, how)
<1>1. n \in Nat
  BY AreaAssumption
<1>2. (\E f : R(f)) => \E f : R(f) /\ OneBlkBuf(buf, b, size, lost, how) = f[n]
  BY OneBlkMeets
<1>3. \A k \in 1 .. n, x \in B : OneStep(x, k, b, size, lost, how) \in B
  BY DEF OneStep
<1>4. ASSUME NEW f PROVE R(f) <=> (Q(f) /\ f = [k \in 0 .. n |-> f[k]])
  <2>1. ASSUME R(f) PROVE Q(f) /\ f = [k \in 0 .. n |-> f[k]]
    <3> DEFINE e(k) == IF k = 0 THEN buf
               ELSE IF k > 1 /\ CheckFile(f[k - 1], size) THEN f[k - 1]
               ELSE ReadPages(f[k - 1], 0, b, (k - 1) * size, size, lost, how)
    <3>1. f = [k \in 0 .. n |-> e(k)]
      BY <2>1 DEF OneRec
    <3>2. e(0) = buf /\ \A k \in 1 .. n : e(k) = OneStep(f[k - 1], k, b, size, lost, how)
      BY <1>1 DEF OneStep
    <3> HIDE DEF e, n
    <3>3. \A k \in 0 .. n : f[k] = e(k)
      BY <3>1
    <3>4. 0 \in 0 .. n /\ \A k \in 1 .. n : k \in 0 .. n
      BY <1>1
    <3>5. f = [k \in 0 .. n |-> f[k]]
      BY <3>1
    <3> QED
      BY <3>2, <3>3, <3>4, <3>5
  <2>2. ASSUME Q(f), f = [k \in 0 .. n |-> f[k]] PROVE R(f)
    <3> DEFINE e(k) == IF k = 0 THEN buf
               ELSE IF k > 1 /\ CheckFile(f[k - 1], size) THEN f[k - 1]
               ELSE ReadPages(f[k - 1], 0, b, (k - 1) * size, size, lost, how)
    <3>1. e(0) = buf /\ \A k \in 1 .. n : e(k) = OneStep(f[k - 1], k, b, size, lost, how)
      BY <1>1 DEF OneStep
    <3>2. \A k \in 0 .. n : k = 0 \/ k \in 1 .. n
      BY <1>1
    <3> HIDE DEF e, n
    <3>3. \A k \in 0 .. n : f[k] = e(k)
      BY <2>2, <3>1, <3>2
    <3>4. f = [k \in 0 .. n |-> e(k)]
      BY <2>2, <3>3
    <3> QED
      BY <3>4 DEF e, n, OneRec
  <2> QED
    BY <2>1, <2>2
<1> HIDE DEF n, R
<1>5. g \in [1 .. n -> [B -> B]]
  BY <1>3
<1>6. PICK f : Table(f, n, B, buf, g)
  BY <1>1, <1>5, TableExists
<1>7. f = [k \in 0 .. n |-> f[k]] /\ Q(f)
  <2>1. /\ f \in [0 .. n -> B] /\ f[0] = buf
        /\ \A k \in 1 .. n : f[k] = g[k][f[k - 1]]
    BY <1>6 DEF Table
  <2>2. \A k \in 1 .. n : f[k - 1] \in B
    BY <1>1, <2>1
  <2> QED
    BY <2>1, <2>2
<1>8. PICK h : R(h) /\ OneBlkBuf(buf, b, size, lost, how) = h[n]
  BY <1>2, <1>4, <1>7
<1>9. Q(h) /\ h = [k \in 0 .. n |-> h[k]]
  BY <1>4, <1>8
<1>10. \A k \in 0 .. n : h[k] \in B
  <2> DEFINE S == {k \in 0 .. n : h[k] \in B}
  <2>1. 0 \in S
    BY <1>1, <1>9
  <2>2. ASSUME NEW k \in 0 .. n - 1, k \in S PROVE k + 1 \in S
    <3>1. k + 1 \in 1 .. n /\ (k + 1) - 1 = k
      BY <1>1
    <3>2. h[k + 1] = OneStep(h[k], k + 1, b, size, lost, how)
      BY <1>9, <3>1
    <3>3. h[k + 1] \in B
      BY <1>3, <2>2, <3>1, <3>2
    <3> QED
      BY <1>1, <3>3
  <2> HIDE DEF S
  <2>3. 0 .. n \subseteq S
    BY <1>1, <2>1, <2>2, CountUp
  <2> QED
    BY <2>3 DEF S
<1>11. h \in [0 .. n -> B]
  BY <1>9, <1>10
<1> QED
  BY <1>8, <1>9, <1>11 DEF n, OneRun

\* One block of load_in_many_blks.
ManyStep(x, c, size, bad, lost, how) ==
  IF x.off >= size \/ (c - 1) \in bad THEN x
  ELSE LET n == MinOf(size - x.off, PageCnt) IN
    [buf |-> ReadPages(x.buf, x.off, c - 1, 0, n, lost[c - 1], how), off |-> x.off + n]
ManyRec(f, buf, b, size, bad, lost, how) ==
  f = [c \in b .. BlkCnt |->
         IF c = b THEN [buf |-> buf, off |-> 0]
         ELSE LET x == f[c - 1] IN
           IF x.off >= size \/ (c - 1) \in bad THEN x
           ELSE LET n == MinOf(size - x.off, PageCnt) IN
             [buf |-> ReadPages(x.buf, x.off, c - 1, 0, n, lost[c - 1], how),
              off |-> x.off + n]]
\* The recursive definition is met, if something meets it.
LEMMA ManyBlkMeets ==
  ASSUME NEW buf, NEW b, NEW size, NEW bad, NEW lost, NEW how,
         \E f : ManyRec(f, buf, b, size, bad, lost, how)
  PROVE  \E f : /\ ManyRec(f, buf, b, size, bad, lost, how)
                /\ ManyBlkBuf(buf, b, size, bad, lost, how) = f[BlkCnt]
  BY DEF ManyBlkBuf, ManyRec

\* It says what the first block starts with, and what each one adds.
LEMMA ManyRecSteps ==
  ASSUME NEW f, NEW buf, NEW b \in Blk, NEW size, NEW bad, NEW lost, NEW how
  PROVE  ManyRec(f, buf, b, size, bad, lost, how) <=>
           /\ f = [c \in b .. BlkCnt |-> f[c]]
           /\ f[b] = [buf |-> buf, off |-> 0]
           /\ \A c \in b + 1 .. BlkCnt : f[c] = ManyStep(f[c - 1], c, size, bad, lost, how)
<1> DEFINE e(c) == IF c = b THEN [buf |-> buf, off |-> 0]
                   ELSE ManyStep(f[c - 1], c, size, bad, lost, how)
<1>1. b \in Nat /\ BlkCnt \in Nat /\ b < BlkCnt
  BY AreaAssumption DEF Blk
<1>2. ManyRec(f, buf, b, size, bad, lost, how) <=> f = [c \in b .. BlkCnt |-> e(c)]
  BY DEF ManyRec, ManyStep
<1>3. e(b) = [buf |-> buf, off |-> 0]
  OBVIOUS
<1>4. \A c \in b + 1 .. BlkCnt : e(c) = ManyStep(f[c - 1], c, size, bad, lost, how)
  BY <1>1
<1>5. \A c \in b .. BlkCnt : c = b \/ c \in b + 1 .. BlkCnt
  BY <1>1
<1>6. b \in b .. BlkCnt /\ \A c \in b + 1 .. BlkCnt : c \in b .. BlkCnt
  BY <1>1
<1> HIDE DEF e
<1>7. ASSUME f = [c \in b .. BlkCnt |-> e(c)]
      PROVE  /\ f = [c \in b .. BlkCnt |-> f[c]]
             /\ \A c \in b .. BlkCnt : f[c] = e(c)
  BY <1>7
<1>8. ASSUME f = [c \in b .. BlkCnt |-> f[c]], \A c \in b .. BlkCnt : f[c] = e(c)
      PROVE  f = [c \in b .. BlkCnt |-> e(c)]
  BY <1>8
<1>9. ASSUME f = [c \in b .. BlkCnt |-> e(c)]
      PROVE  /\ f[b] = [buf |-> buf, off |-> 0]
             /\ \A c \in b + 1 .. BlkCnt : f[c] = ManyStep(f[c - 1], c, size, bad, lost, how)
  BY <1>3, <1>4, <1>6, <1>7, <1>9
<1>10. ASSUME f[b] = [buf |-> buf, off |-> 0],
              \A c \in b + 1 .. BlkCnt : f[c] = ManyStep(f[c - 1], c, size, bad, lost, how)
       PROVE  \A c \in b .. BlkCnt : f[c] = e(c)
  BY <1>3, <1>4, <1>5, <1>10
<1> QED
  BY <1>2, <1>7, <1>8, <1>9, <1>10

\* What every block keeps, load_in_many_blks keeps.
LEMMA ManyBlkIn ==
  ASSUME NEW B, NEW buf, NEW b \in Blk, NEW size, NEW bad, NEW lost, NEW how,
         [buf |-> buf, off |-> 0] \in B,
         \A c \in b + 1 .. BlkCnt, x \in B : ManyStep(x, c, size, bad, lost, how) \in B
  PROVE  ManyBlkBuf(buf, b, size, bad, lost, how) \in B
<1> DEFINE n == BlkCnt - b
           base == [buf |-> buf, off |-> 0]
           g == [k \in 1 .. n |-> [x \in B |-> ManyStep(x, b + k, size, bad, lost, how)]]
           R(f) == ManyRec(f, buf, b, size, bad, lost, how)
<1>1. b \in Nat /\ n \in Nat /\ BlkCnt \in Nat /\ BlkCnt = b + n
  BY AreaAssumption DEF Blk
<1>2. \A k \in 1 .. n : b + k \in b + 1 .. BlkCnt
  BY <1>1
<1>3. \A k \in 1 .. n, x \in B : ManyStep(x, b + k, size, bad, lost, how) \in B
  BY <1>2
<1> HIDE DEF n
<1>4. g \in [1 .. n -> [B -> B]]
  BY <1>3
<1>5. PICK t : Table(t, n, B, base, g)
  BY <1>1, <1>4, TableExists
<1>6. R([c \in b .. BlkCnt |-> t[c - b]])
  <2> DEFINE f == [c \in b .. BlkCnt |-> t[c - b]]
  <2>1. f = [c \in b .. BlkCnt |-> f[c]]
    OBVIOUS
  <2>2. f[b] = base
    BY <1>1, <1>5 DEF Table
  <2>3. ASSUME NEW c \in b + 1 .. BlkCnt
        PROVE  f[c] = ManyStep(f[c - 1], c, size, bad, lost, how)
    <3>1. c - b \in 1 .. n /\ (c - b) - 1 = (c - 1) - b /\ b + (c - b) = c
          /\ c \in b .. BlkCnt /\ c - 1 \in b .. BlkCnt /\ (c - b) - 1 \in 0 .. n
      BY <1>1
    <3>2. f[c] = t[c - b] /\ f[c - 1] = t[(c - b) - 1]
      BY <3>1
    <3>3. t[(c - b) - 1] \in B /\ t[c - b] = g[c - b][t[(c - b) - 1]]
      BY <1>5, <3>1 DEF Table
    <3>4. t[c - b] = ManyStep(t[(c - b) - 1], b + (c - b), size, bad, lost, how)
      BY <3>1, <3>3
    <3> HIDE DEF f
    <3> QED
      BY <3>1, <3>2, <3>4
  <2> HIDE DEF f
  <2>4. R(f)
    BY <2>1, <2>2, <2>3, ManyRecSteps
  <2> QED
    BY <2>4 DEF f
<1>7. PICK h : R(h) /\ ManyBlkBuf(buf, b, size, bad, lost, how) = h[BlkCnt]
  <2>1. \E f : R(f)
    BY <1>6
  <2> QED
    BY <2>1, ManyBlkMeets
<1>8. /\ h[b] = base
      /\ \A c \in b + 1 .. BlkCnt : h[c] = ManyStep(h[c - 1], c, size, bad, lost, how)
  BY <1>7, ManyRecSteps
<1> DEFINE S == {k \in 0 .. n : h[b + k] \in B}
<1>9. 0 \in S
  BY <1>1, <1>8
<1>10. ASSUME NEW k \in 0 .. n - 1, k \in S PROVE k + 1 \in S
  <2>1. k + 1 \in 1 .. n /\ k + 1 \in 0 .. n /\ b + (k + 1) \in b + 1 .. BlkCnt
        /\ (b + (k + 1)) - 1 = b + k
    BY <1>1
  <2>2. h[b + (k + 1)] = ManyStep(h[b + k], b + (k + 1), size, bad, lost, how)
    BY <1>8, <2>1
  <2>3. h[b + (k + 1)] \in B
    BY <1>10, <2>1, <2>2
  <2> QED
    BY <2>1, <2>3
<1> HIDE DEF S
<1>11. 0 .. n \subseteq S
  BY <1>1, <1>9, <1>10, CountUp
<1>12. n \in S
  BY <1>1, <1>11
<1> QED
  BY <1>1, <1>7, <1>12 DEF S

----------------------------------------------------------------------------
\* Whatever copy is read, the buffer keeps to pieces of what is in the area.
LEMMA CopyTyped ==
  ASSUME NEW A, NEW b, blk[b].page \in PagesOf(A), NEW size \in Nat \ {0},
         NEW lost \in SUBSET Page, NEW how,
         NEW k \in 1 .. PageCnt \div size, NEW x \in BufOf(A)
  PROVE  ReadPages(x, 0, b, (k - 1) * size, size, lost, how) \in BufOf(A)
<1> DEFINE n == PageCnt \div size
           from == (k - 1) * size
<1>1. n \in Nat /\ n * size <= PageCnt /\ PageCnt \in Nat /\ k \in 1 .. n
  BY AreaAssumption
<1> HIDE DEF n
<1>2. k \in Nat \ {0} /\ k <= n
  BY <1>1
<1>3. from \in Nat /\ from + size = k * size
  BY <1>2
<1>4. k * size <= n * size
  BY <1>1, <1>2
<1>5. from + size <= PageCnt
  <2>1. k * size \in Nat /\ n * size \in Nat
    BY <1>1, <1>2
  <2> QED
    BY <1>1, <1>3, <1>4, <2>1
<1> HIDE DEF from
<1>6. ReadPages(x, 0, b, from, size, lost, how) \in BufOf(A)
  BY <1>3, <1>5, ReadTyped
<1> QED
  BY <1>6 DEF from

\* So do all copies of a block,
LEMMA OneBlkTyped ==
  ASSUME NEW A, NEW buf \in BufOf(A), NEW b, blk[b].page \in PagesOf(A),
         NEW size \in Nat \ {0}, NEW lost \in SUBSET Page, NEW how
  PROVE  OneBlkBuf(buf, b, size, lost, how) \in BufOf(A)
<1> DEFINE n == PageCnt \div size
<1>1. n \in Nat
  BY AreaAssumption
<1>2. \A k \in 1 .. n, x \in BufOf(A) :
        ReadPages(x, 0, b, (k - 1) * size, size, lost, how) \in BufOf(A)
  BY CopyTyped
<1>3. PICK f : /\ f \in [0 .. n -> BufOf(A)]
               /\ OneBlkBuf(buf, b, size, lost, how) = f[n]
  <2>1. \E f : OneRun(f, BufOf(A), buf, b, size, lost, how)
    BY <1>2, OneBlkSteps
  <2> QED
    BY <2>1 DEF OneRun
<1> HIDE DEF n
<1> QED
  BY <1>1, <1>3

\* and the blocks of a long image.
LEMMA ManyBlkTyped ==
  ASSUME NEW A, NEW buf \in BufOf(A), NEW b \in Blk, NEW size \in Nat, NEW bad,
         \A c \in Blk : c \notin bad => blk[c].page \in PagesOf(A),
         NEW lost \in [Blk -> SUBSET Page], NEW how
  PROVE  ManyBlkBuf(buf, b, size, bad, lost, how).buf \in BufOf(A)
<1> DEFINE B == [buf : BufOf(A), off : Nat]
<1>1. [buf |-> buf, off |-> 0] \in B
  OBVIOUS
<1>2. ASSUME NEW c \in b + 1 .. BlkCnt, NEW x \in B
      PROVE  ManyStep(x, c, size, bad, lost, how) \in B
  <2> DEFINE n == MinOf(size - x.off, PageCnt)
  <2>1. c - 1 \in Blk /\ PageCnt \in Nat
    BY AreaAssumption DEF Blk
  <2>2. CASE x.off >= size \/ (c - 1) \in bad
    BY <2>2 DEF ManyStep
  <2>3. CASE ~(x.off >= size \/ (c - 1) \in bad)
    <3>1. n \in Nat /\ n <= PageCnt /\ 0 + n <= PageCnt
      BY <2>1, <2>3 DEF MinOf
    <3>2. ManyStep(x, c, size, bad, lost, how) =
            [buf |-> ReadPages(x.buf, x.off, c - 1, 0, n, lost[c - 1], how),
             off |-> x.off + n]
      BY <2>3 DEF ManyStep
    <3> HIDE DEF n
    <3>3. ReadPages(x.buf, x.off, c - 1, 0, n, lost[c - 1], how) \in BufOf(A)
      <4> DEFINE l == lost[c - 1]
                 d == c - 1
      <4>1. l \in SUBSET Page /\ blk[d].page \in PagesOf(A)
        BY <2>1, <2>3
      <4>2. x.buf \in BufOf(A) /\ x.off \in Nat
        OBVIOUS
      <4> HIDE DEF l, d
      <4>3. ReadPages(x.buf, x.off, d, 0, n, l, how) \in BufOf(A)
        BY <3>1, <4>1, <4>2, ReadTyped
      <4> QED
        BY <4>3 DEF l, d
    <3>4. x.off + n \in Nat
      BY <3>1
    <3> QED
      BY <3>2, <3>3, <3>4
  <2> QED
    BY <2>2, <2>3
<1> HIDE DEF B
<1>3. ManyBlkBuf(buf, b, size, bad, lost, how) \in B
  BY <1>1, <1>2, ManyBlkIn
<1> QED
  BY <1>3 DEF B

----------------------------------------------------------------------------
(* The types of the state.                                                 *)
Block(A) == [page : PagesOf(A), bad : BOOLEAN]

BurnTyped ==
  burn \in [ver : Version \cup {NoVersion},
            step : {"none", "status", "erase", "program", "verify", "mark",
                    "scrap", "next"},
            start : Blk, cur : Blk, off : 0 .. MaxLen,
            at : 0 .. PageCnt - 1, try : 0 .. TOLERANCE]

\* Where the burner is in its image and in its attempts.
BurnPlace ==
  IF mode = "burn"
  THEN /\ burn.ver \in Version
       /\ burn.off <= Len[burn.ver]
       /\ burn.step # "next" => burn.off < Len[burn.ver]
       /\ burn.step \in {"status", "erase", "program", "verify"} => burn.try < TOLERANCE
  ELSE burn = NoBurn

WornTyped == worn \in SUBSET Blk /\ Cardinality(worn) <= MaxWorn

TypeInv ==
  /\ blk \in [Blk -> Block(Version)]
  /\ WornTyped
  /\ mode \in {"off", "burn", "load", "up", "fel"}
  /\ BurnTyped /\ BurnPlace
  /\ load \in [cur : Blk, buf : BufOf(Version)]
  /\ allowed \in SUBSET Version
  /\ cuts \in 0 .. MaxCuts

\* Every piece of an image is one of its pages.
LEMMA PieceTyped ==
  ASSUME NEW v \in Version, NEW off \in Nat, off < Len[v], NEW k \in Nat
  PROVE  /\ Piece(v, off + (k % Chunk(v, off))) \in PieceOf({v})
         /\ Chunk(v, off) \in Nat \ {0} /\ Chunk(v, off) <= Len[v] - off
         /\ Filled(v, off) \in Nat /\ Filled(v, off) <= PageCnt
<1> DEFINE c == Chunk(v, off)
<1>1. /\ Len[v] \in Nat \ {0} /\ PageCnt \in Nat \ {0} /\ MaxLen \in Nat
      /\ Len[v] <= MaxLen
  BY VersionAssumption, AreaAssumption, LongEnough
<1>2. c \in Nat \ {0} /\ c <= Len[v] - off
  BY <1>1 DEF Chunk, MinOf
<1>3. Filled(v, off) = (PageCnt \div c) * c
  BY DEF Filled
<1> HIDE DEF c
<1>4. k % c \in Nat /\ k % c < c
  BY <1>2
<1> DEFINE r == k % c
<1> HIDE DEF r
<1>5. off + r \in 0 .. MaxLen
  BY <1>1, <1>2, <1>4 DEF r
<1>6. Piece(v, off + r) \in PieceOf({v})
  BY <1>5 DEF Piece, PieceOf
<1> DEFINE q == PageCnt \div c
<1>7. q \in Nat /\ q * c <= PageCnt
  BY <1>1, <1>2
<1> HIDE DEF q
<1>8. q * c \in Nat
  BY <1>2, <1>7
<1> QED
  BY <1>2, <1>3, <1>6, <1>7, <1>8 DEF r, q, c

\* Pieces of a version are pieces of every set it is in.
LEMMA MorePieces ==
  ASSUME NEW A, NEW B, A \subseteq B
  PROVE  /\ PieceOf(A) \subseteq PieceOf(B)
         /\ PagesOf(A) \subseteq PagesOf(B)
         /\ BufOf(A) \subseteq BufOf(B)
<1>1. PieceOf(A) \subseteq PieceOf(B)
  BY DEF PieceOf
<1>2. PagesOf(A) \subseteq PagesOf(B)
  BY <1>1 DEF PagesOf
<1>3. [0 .. MaxLen - 1 -> PieceOf(A)] \subseteq [0 .. MaxLen - 1 -> PieceOf(B)]
  BY <1>1
<1>4. BufOf(A) \subseteq BufOf(B)
  BY <1>3 DEF BufOf
<1> QED
  BY <1>1, <1>2, <1>4

\* Pages that are all blank or all garbage are of no version.
LEMMA NoPages == \A A : AllPages(Blank) \in PagesOf(A) /\ AllPages(Garbage) \in PagesOf(A)
  BY GarbageOf DEF AllPages, PagesOf

\* A burned block holds pieces of its version only.
LEMMA FillTyped ==
  ASSUME NEW v \in Version, NEW off \in Nat, off < Len[v]
  PROVE  Fill(v, off) \in PagesOf({v})
<1> SUFFICES ASSUME NEW p \in Page PROVE Fill(v, off)[p] \in PieceOf({v})
  BY DEF Fill, PagesOf
<1>1. p \in Nat
  BY AreaAssumption DEF Page
<1>2. Piece(v, off + (p % Chunk(v, off))) \in PieceOf({v}) /\ Blank \in PieceOf({v})
  BY <1>1, PieceTyped, GarbageOf
<1> QED
  BY <1>2 DEF Fill

\* Other pages for one block.
LEMMA PagesChange ==
  ASSUME NEW A, blk \in [Blk -> Block(A)], NEW b \in Blk, NEW ps \in PagesOf(A),
         blk' = [blk EXCEPT ![b].page = ps]
  PROVE  /\ blk' \in [Blk -> Block(A)]
         /\ blk'[b] = [page |-> ps, bad |-> blk[b].bad]
         /\ \A c \in Blk : c # b => blk'[c] = blk[c]
<1>1. blk[b] \in Block(A)
  OBVIOUS
<1>2. [blk[b] EXCEPT !.page = ps] = [page |-> ps, bad |-> blk[b].bad]
  BY <1>1 DEF Block
<1>3. [page |-> ps, bad |-> blk[b].bad] \in Block(A)
  BY <1>1 DEF Block
<1>4. blk' = [blk EXCEPT ![b] = [page |-> ps, bad |-> blk[b].bad]]
  BY <1>2, Zenon
<1> QED
  BY <1>3, <1>4

\* Another mark.
LEMMA MarkChange ==
  ASSUME NEW A, blk \in [Blk -> Block(A)], NEW b \in Blk, NEW bad \in BOOLEAN,
         blk' = [blk EXCEPT ![b].bad = bad]
  PROVE  /\ blk' \in [Blk -> Block(A)]
         /\ blk'[b] = [page |-> blk[b].page, bad |-> bad]
         /\ \A c \in Blk : c # b => blk'[c] = blk[c]
<1>1. blk[b] \in Block(A)
  OBVIOUS
<1>2. [blk[b] EXCEPT !.bad = bad] = [page |-> blk[b].page, bad |-> bad]
  BY <1>1 DEF Block
<1>3. [page |-> blk[b].page, bad |-> bad] \in Block(A)
  BY <1>1 DEF Block
<1>4. blk' = [blk EXCEPT ![b] = [page |-> blk[b].page, bad |-> bad]]
  BY <1>2, Zenon
<1> QED
  BY <1>3, <1>4

\* What a failing power leaves of a block.
LEMMA TornChange ==
  ASSUME NEW A, blk \in [Blk -> Block(A)], NEW b \in Blk, NEW pages, Torn(b, pages)
  PROVE  /\ blk' \in [Blk -> Block(A)]
         /\ blk'[b].page = [p \in Page |-> IF p \in pages THEN Garbage ELSE blk[b].page[p]]
         /\ \A c \in Blk : c # b => blk'[c] = blk[c]
<1> DEFINE ps == [p \in Page |-> IF p \in pages THEN Garbage ELSE blk[b].page[p]]
           m(bad) == IF 0 \in pages THEN bad ELSE blk[b].bad
<1>1. PICK bad \in BOOLEAN : blk' = [blk EXCEPT ![b] = [page |-> ps, bad |-> m(bad)]]
  BY DEF Torn
<1>2. ps \in PagesOf(A) /\ m(bad) \in BOOLEAN
  <2>1. blk[b].page \in [Page -> PieceOf(A)] /\ blk[b].bad \in BOOLEAN
    BY DEF Block, PagesOf
  <2>2. Garbage \in PieceOf(A)
    BY GarbageOf
  <2> QED
    BY <2>1, <2>2 DEF PagesOf
<1> HIDE DEF ps, m
<1>3. [page |-> ps, bad |-> m(bad)] \in Block(A)
  BY <1>2 DEF Block
<1>4. /\ blk' \in [Blk -> Block(A)] /\ blk'[b].page = ps
      /\ \A c \in Blk : c # b => blk'[c] = blk[c]
  BY <1>1, <1>3
<1> QED
  BY <1>4 DEF ps

\* The buffer before anything was read.
LEMMA NoLoadTyped == \A A : NoLoad \in [cur : Blk, buf : BufOf(A)]
<1> TAKE A
<1>1. 0 \in Blk /\ Garbage \in PieceOf(A)
  BY AreaAssumption, GarbageOf DEF Blk
<1> QED
  BY <1>1 DEF NoLoad, NoImage, BufOf

\* The burner at rest is well typed.
LEMMA NoBurnTyped == burn = NoBurn => BurnTyped
<1>1. 0 \in Blk /\ 0 \in 0 .. MaxLen /\ 0 \in 0 .. PageCnt - 1 /\ 0 \in 0 .. TOLERANCE
  BY AreaAssumption, LongEnough DEF Blk, TOLERANCE
<1> QED
  BY <1>1 DEF NoBurn, BurnTyped

\* The first state is well typed.
LEMMA InitTypes == ASSUME Init PROVE TypeInv
<1>1. PICK v \in Version : blk = Layout(v) /\ allowed = {v}
  BY DEF Init
<1>2. blk \in [Blk -> Block(Version)]
  <2> SUFFICES ASSUME NEW b \in Blk PROVE Layout(v)[b] \in Block(Version)
    BY <1>1 DEF Layout
  <2> DEFINE off == (b % BlksPerCopy(v)) * PageCnt
  <2>1. off \in Nat /\ off < Len[v]
    BY LayoutOffset
  <2>2. Layout(v)[b] = [page |-> Fill(v, off), bad |-> FALSE]
    BY DEF Layout
  <2> HIDE DEF off
  <2>3. Fill(v, off) \in PagesOf(Version)
    <3>1. {v} \subseteq Version
      OBVIOUS
    <3> QED
      BY <2>1, <3>1, FillTyped, MorePieces
  <2> QED
    BY <2>2, <2>3 DEF Block
<1>3. WornTyped
  BY FS_EmptySet, AreaAssumption DEF Init, WornTyped
<1>4. BurnTyped /\ BurnPlace /\ mode = "off"
  BY NoBurnTyped DEF Init, BurnPlace
<1>5. load \in [cur : Blk, buf : BufOf(Version)]
  BY NoLoadTyped DEF Init
<1>6. cuts \in 0 .. MaxCuts
  BY AreaAssumption DEF Init
<1> QED
  BY <1>1, <1>2, <1>3, <1>4, <1>5, <1>6 DEF TypeInv

\* The blocks that begin to fail are counted.
LEMMA WearTyped ==
  ASSUME WornTyped, NEW b \in Blk, MayWear(b), worn' = worn \cup {b}
  PROVE  WornTyped'
<1>1. CASE b \in worn
  <2>1. worn' = worn
    BY <1>1
  <2> QED
    BY <2>1 DEF WornTyped
<1>2. CASE Cardinality(worn) < MaxWorn
  BY <1>2, OneMore, AreaAssumption DEF WornTyped
<1> QED
  BY <1>1, <1>2 DEF MayWear

\* What the steps of a burn leave of the burner.
LEMMA BurnGoesOn ==
  ASSUME TypeInv, mode = "burn", mode' = "burn", NEW s,
         \/ /\ burn' = [burn EXCEPT !.step = s]
            /\ s \in {"erase", "program", "verify", "mark", "scrap"}
            /\ s \in {"erase", "program", "verify"} => burn.try < TOLERANCE
            /\ burn.step # "next"
         \/ burn' = [burn EXCEPT !.step = "next"] 
  PROVE  BurnTyped' /\ BurnPlace'
<1>1. BurnTyped /\ BurnPlace
  BY DEF TypeInv
<1> QED
  BY <1>1 DEF BurnTyped, BurnPlace

\* The chunk of a block that is done does not go beyond the image.
LEMMA BlockDone ==
  ASSUME TypeInv, mode = "burn", mode' = "burn", burn.step # "next",
         burn' = AfterBlock(burn)
  PROVE  BurnTyped' /\ BurnPlace'
<1> DEFINE off == burn.off + Chunk(burn.ver, burn.off)
<1>1. BurnTyped /\ BurnPlace
  BY DEF TypeInv
<1>2. burn.ver \in Version /\ burn.off \in Nat /\ burn.off < Len[burn.ver]
  BY <1>1, LongEnough DEF BurnTyped, BurnPlace
<1>3. /\ Chunk(burn.ver, burn.off) \in Nat
      /\ Chunk(burn.ver, burn.off) <= Len[burn.ver] - burn.off
      /\ Len[burn.ver] \in Nat /\ Len[burn.ver] <= MaxLen /\ MaxLen \in Nat
  BY <1>2, PieceTyped, VersionAssumption, LongEnough
<1>4. off \in 0 .. MaxLen /\ off <= Len[burn.ver]
  BY <1>2, <1>3
<1>5. burn' = [burn EXCEPT !.step = "next", !.off = off]
  BY DEF AfterBlock
<1> HIDE DEF off
<1> QED
  BY <1>1, <1>4, <1>5 DEF BurnTyped, BurnPlace

\* Every step of a burn keeps to the area, the image and the attempts.
LEMMA BurnStepTyped == ASSUME TypeInv, BurnStep PROVE BurnTyped' /\ BurnPlace'
<1>1. BurnTyped /\ BurnPlace /\ mode = "burn"
  BY DEF TypeInv, BurnStep, ReadStatus, EraseBlock, EraseFails, ProgramPage, ProgramFails,
     VerifyBlock, GiveUpBlock, NextBlock, EndBurn, Burning
<1>2. mode' = "burn" \/ EndBurn
  BY DEF BurnStep, ReadStatus, EraseBlock, EraseFails, ProgramPage, ProgramFails,
     VerifyBlock, GiveUpBlock, NextBlock, Burning
<1>3. /\ burn.ver \in Version /\ burn.off \in Nat /\ burn.try \in Nat
      /\ burn.at \in Nat /\ burn.cur \in Blk /\ PageCnt \in Nat \ {0}
  BY <1>1, LongEnough, AreaAssumption DEF BurnTyped, BurnPlace, TOLERANCE
<1>4. CASE ReadStatus
  <2>1. burn.step = "status" /\ mode' = "burn"
    BY <1>4 DEF ReadStatus, Burning
  <2>2. burn.try < TOLERANCE
    BY <1>1, <2>1 DEF BurnPlace
  <2>3. burn.off < Len[burn.ver]
    BY <1>1, <2>1 DEF BurnPlace
  <2>4. CASE burn' = [burn EXCEPT !.step = "erase"]
    BY <1>1, <2>1, <2>2, <2>4, BurnGoesOn
  <2>5. CASE burn' = [burn EXCEPT !.step = "next"]
    BY <1>1, <2>1, <2>5, BurnGoesOn
  <2> QED
    BY <1>4, <2>4, <2>5 DEF ReadStatus
<1>5. CASE EraseBlock
  <2>1. burn.step = "erase" /\ burn' = [burn EXCEPT !.step = "program", !.at = 0]
        /\ mode' = "burn"
    BY <1>1, <1>5 DEF EraseBlock, Burning
  <2>2. 0 \in 0 .. PageCnt - 1
    BY <1>3
  <2> QED
    BY <1>1, <2>1, <2>2 DEF BurnTyped, BurnPlace
<1>6. CASE EraseFails
  <2>1. burn.step = "erase" /\ burn' = [burn EXCEPT !.step = "mark"] /\ mode' = "burn"
    BY <1>1, <1>6 DEF EraseFails, Burning
  <2> QED
    BY <1>1, <2>1, BurnGoesOn
<1>7. CASE ProgramPage
  <2>1. burn.step = "program" /\ mode' = "burn"
    BY <1>1, <1>7 DEF ProgramPage, Burning
  <2>2. CASE burn' = AfterBlock(burn)
    BY <1>1, <2>1, <2>2, BlockDone
  <2>3. CASE burn' # AfterBlock(burn)
    <3>1. burn' = [burn EXCEPT !.at = burn.at + 1] /\ burn.at + 1 < Filled(burn.ver, burn.off)
      BY <1>7, <2>3 DEF ProgramPage
    <3>2. Filled(burn.ver, burn.off) \in Nat /\ Filled(burn.ver, burn.off) <= PageCnt
      BY <1>1, <1>3, <2>1, PieceTyped DEF BurnPlace
    <3>3. burn.at + 1 \in 0 .. PageCnt - 1
      BY <1>3, <3>1, <3>2
    <3> QED
      BY <1>1, <2>1, <3>1, <3>3 DEF BurnTyped, BurnPlace
  <2> QED
    BY <2>2, <2>3
<1>8. CASE ProgramFails
  <2>1. burn.step = "program" /\ burn' = [burn EXCEPT !.step = "verify"] /\ mode' = "burn"
    BY <1>1, <1>8 DEF ProgramFails, Burning
  <2>2. burn.try < TOLERANCE
    BY <1>1, <2>1 DEF BurnPlace
  <2> QED
    BY <1>1, <2>1, <2>2, BurnGoesOn
<1>9. CASE VerifyBlock
  <2> DEFINE s == IF burn.try + 1 < TOLERANCE THEN "erase" ELSE "scrap"
  <2>1. burn.step = "verify" /\ mode' = "burn"
    BY <1>1, <1>9 DEF VerifyBlock, Burning
  <2>2. CASE burn' = [burn EXCEPT !.step = "scrap"]
    BY <1>1, <2>1, <2>2, BurnGoesOn
  <2>3. CASE burn' = [burn EXCEPT !.try = burn.try + 1, !.step = s]
    <3>1. burn.try + 1 \in 0 .. TOLERANCE
      BY <1>1, <1>3, <2>1 DEF BurnPlace, TOLERANCE
    <3>2. s \in {"erase", "scrap"} /\ (s = "erase" => burn.try + 1 < TOLERANCE)
      OBVIOUS
    <3> HIDE DEF s
    <3> QED
      BY <1>1, <2>1, <2>3, <3>1, <3>2 DEF BurnTyped, BurnPlace
  <2> QED
    BY <1>9, <2>2, <2>3 DEF VerifyBlock
<1>10. CASE GiveUpBlock
  <2>1. burn.step # "next" /\ burn' = AfterBlock(burn) /\ mode' = "burn"
    BY <1>1, <1>10 DEF GiveUpBlock
  <2> QED
    BY <1>1, <2>1, BlockDone
<1>11. CASE NextBlock
  <2> DEFINE start == IF burn.off >= Len[burn.ver] THEN burn.cur + 1 ELSE burn.start
             off == IF burn.off >= Len[burn.ver] THEN 0 ELSE burn.off
  <2>1. burn' = [burn EXCEPT !.cur = burn.cur + 1, !.try = 0, !.at = 0,
                   !.step = FirstStep(burn.ver), !.start = start, !.off = off]
        /\ mode' = "burn"
    BY <1>1, <1>11 DEF NextBlock, Burning
  <2>2. burn.cur + 1 \in Blk
    BY <1>3, <1>11, AreaAssumption DEF NextBlock, Blk
  <2>3. Len[burn.ver] \in Nat \ {0}
    BY <1>3, VersionAssumption
  <2>4. off \in 0 .. MaxLen /\ off < Len[burn.ver]
    BY <1>1, <1>3, <2>3, LongEnough DEF BurnTyped
  <2>5. start \in Blk
    BY <1>1, <2>2 DEF BurnTyped
  <2>6. FirstStep(burn.ver) \in {"erase", "status"} /\ 0 \in 0 .. PageCnt - 1
        /\ 0 \in 0 .. TOLERANCE /\ 0 < TOLERANCE
    BY <1>3 DEF FirstStep, TOLERANCE
  <2> DEFINE s == FirstStep(burn.ver)
  <2> HIDE DEF off, start, s
  <2>7. burn' = [ver |-> burn.ver, step |-> s, start |-> start, cur |-> burn.cur + 1,
                 off |-> off, at |-> 0, try |-> 0]
    BY <1>1, <2>1 DEF BurnTyped, s
  <2>8. s \in {"erase", "status"}
    BY <2>6 DEF s
  <2>9. BurnTyped'
    BY <1>1, <2>2, <2>4, <2>5, <2>6, <2>7, <2>8 DEF BurnTyped
  <2>10. BurnPlace'
    BY <1>3, <2>1, <2>3, <2>4, <2>6, <2>7 DEF BurnPlace
  <2> QED
    BY <2>9, <2>10
<1>12. CASE EndBurn
  <2>1. burn' = NoBurn /\ mode' = "off"
    BY <1>12 DEF EndBurn
  <2>2. BurnTyped'
    <3>1. 0 \in Blk /\ 0 \in 0 .. MaxLen /\ 0 \in 0 .. PageCnt - 1 /\ 0 \in 0 .. TOLERANCE
      BY AreaAssumption, LongEnough DEF Blk, TOLERANCE
    <3> QED
      BY <2>1, <3>1 DEF NoBurn, BurnTyped
  <2> QED
    BY <2>1, <2>2 DEF BurnPlace
<1> QED
  BY <1>4, <1>5, <1>6, <1>7, <1>8, <1>9, <1>10, <1>11, <1>12 DEF BurnStep

\* And of the blocks.
LEMMA BlkStepTyped == ASSUME TypeInv, BurnStep PROVE blk' \in [Blk -> Block(Version)]
<1>1. /\ mode = "burn" /\ blk \in [Blk -> Block(Version)] /\ BurnTyped /\ BurnPlace
  BY DEF TypeInv, BurnStep, ReadStatus, EraseBlock, EraseFails, ProgramPage, ProgramFails,
     VerifyBlock, GiveUpBlock, NextBlock, EndBurn, Burning
<1>2. burn.cur \in Blk /\ burn.at \in Page /\ burn.at \in Nat /\ burn.ver \in Version
  BY <1>1, AreaAssumption DEF BurnTyped, BurnPlace, Page
<1>3. CASE ReadStatus \/ NextBlock \/ EndBurn
  BY <1>1, <1>3 DEF ReadStatus, NextBlock, EndBurn
<1>4. AllPages(Blank) \in PagesOf(Version) /\ AllPages(Garbage) \in PagesOf(Version)
  BY NoPages
<1>5. \A m \in BOOLEAN : [page |-> AllPages(Blank), bad |-> m] \in Block(Version)
  BY <1>4 DEF Block
<1>6. CASE EraseBlock
  <2>1. blk' = [blk EXCEPT ![burn.cur] = [page |-> AllPages(Blank), bad |-> FALSE]]
    BY <1>6 DEF EraseBlock
  <2> QED
    BY <1>1, <1>2, <1>5, <2>1
<1>7. CASE EraseFails \/ VerifyBlock
  <2>1. blk' = blk \/ blk' = [blk EXCEPT ![burn.cur].page = AllPages(Garbage)]
    BY <1>7 DEF EraseFails, VerifyBlock
  <2> QED
    BY <1>1, <1>2, <1>4, <2>1, PagesChange
<1>8. ASSUME NEW piece \in PieceOf(Version),
             blk' = [blk EXCEPT ![burn.cur].page[burn.at] = piece]
      PROVE  blk' \in [Blk -> Block(Version)]
  <2> DEFINE ps == [blk[burn.cur].page EXCEPT ![burn.at] = piece]
  <2>1. ps \in PagesOf(Version)
    BY <1>1, <1>2, <1>8 DEF Block, PagesOf
  <2>2. blk' = [blk EXCEPT ![burn.cur].page = ps]
    BY <1>8, Zenon
  <2> HIDE DEF ps
  <2> QED
    BY <1>1, <1>2, <2>1, <2>2, PagesChange
<1>9. CASE ProgramPage
  <2>1. burn.off \in Nat /\ burn.off < Len[burn.ver]
    BY <1>1, <1>9, LongEnough DEF ProgramPage, Burning, BurnTyped, BurnPlace
  <2>2. ThisPage \in PieceOf({burn.ver})
    BY <1>2, <2>1, PieceTyped DEF ThisPage
  <2>3. {burn.ver} \subseteq Version
    BY <1>2
  <2>4. ThisPage \in PieceOf(Version)
    BY <2>2, <2>3, MorePieces
  <2> QED
    BY <1>8, <1>9, <2>4 DEF ProgramPage
<1>10. CASE ProgramFails
  <2>1. Garbage \in PieceOf(Version)
    BY GarbageOf
  <2> QED
    BY <1>8, <1>10, <2>1 DEF ProgramFails
<1>11. CASE GiveUpBlock
  <2>1. PICK m \in BOOLEAN :
          \/ blk' = [blk EXCEPT ![burn.cur].bad = m]
          \/ blk' = [blk EXCEPT ![burn.cur] = [page |-> AllPages(Blank), bad |-> m]]
    BY <1>11 DEF GiveUpBlock
  <2>2. CASE blk' = [blk EXCEPT ![burn.cur].bad = m]
    BY <1>1, <1>2, <2>2, MarkChange
  <2>3. CASE blk' = [blk EXCEPT ![burn.cur] = [page |-> AllPages(Blank), bad |-> m]]
    BY <1>1, <1>2, <1>5, <2>3
  <2> QED
    BY <2>1, <2>2, <2>3
<1> QED
  BY <1>3, <1>6, <1>7, <1>9, <1>10, <1>11 DEF BurnStep

----------------------------------------------------------------------------
(* A try to load from a block: what it sees, loses and reads.              *)
Lost(l) == [c \in Blk |-> IF c \in worn THEN l ELSE {}]
Bad(sees) == {c \in Blk : sees[c]}
HeadBuf(l, how) == ReadHead(load.buf, load.cur, Lost(l)[load.cur], how)
SizeOf(l, how) == Len[HeadBuf(l, how).head]
ManyOf(sees, l, how) ==
  ManyBlkBuf(HeadBuf(l, how), load.cur, SizeOf(l, how), Bad(sees), Lost(l), how)
FoundIn(sees, l, how) == load.cur \notin Bad(sees) /\ HeadBuf(l, how).head # NoVersion
BufAfter(sees, l, how) ==
  IF load.cur \in Bad(sees) THEN load.buf
  ELSE IF ~FoundIn(sees, l, how) THEN HeadBuf(l, how)
  ELSE IF OneBlk(HeadBuf(l, how).head)
       THEN OneBlkBuf(HeadBuf(l, how), load.cur, SizeOf(l, how), Lost(l)[load.cur], how)
  ELSE ManyOf(sees, l, how).buf
Passes(sees, l, how) ==
  FoundIn(sees, l, how) /\ CheckFile(BufAfter(sees, l, how), SizeOf(l, how))
Lacks(sees, l, how) ==
  /\ FoundIn(sees, l, how) /\ ~OneBlk(HeadBuf(l, how).head)
  /\ ManyOf(sees, l, how).off < SizeOf(l, how)

Tried(sees, l, how) ==
  /\ \A c \in Blk : sees[c] \in SeesBad(c)
  /\ load' = [cur |-> IF load.cur < BlkCnt - 1 THEN load.cur + 1 ELSE load.cur,
              buf |-> BufAfter(sees, l, how)]
  /\ mode' = IF Passes(sees, l, how) /\ ~Lacks(sees, l, how) THEN "up"
             ELSE IF Lacks(sees, l, how) \/ load.cur = BlkCnt - 1 THEN "fel" ELSE "load"

\* The same, in these names.
LEMMA TryMeans ==
  ASSUME TryBlock
  PROVE  /\ mode = "load"
         /\ \E sees \in [Blk -> BOOLEAN], l \in SUBSET Page, how \in {"ecc", "error"} :
              Tried(sees, l, how)
         /\ UNCHANGED <<blk, worn, burn, allowed, cuts>>
<1>1. mode = "load" /\ UNCHANGED <<blk, worn, burn, allowed, cuts>>
  BY DEF TryBlock
<1>2. PICK sees \in [Blk -> BOOLEAN], l \in SUBSET Page, how \in {"ecc", "error"} :
       LET b == load.cur
           bad == {c \in Blk : sees[c]}
           lost == [c \in Blk |-> IF c \in worn THEN l ELSE {}]
           head == ReadHead(load.buf, b, lost[b], how)
           size == Len[head.head]
           many == ManyBlkBuf(head, b, size, bad, lost, how)
           found == b \notin bad /\ head.head # NoVersion
           buf == IF b \in bad THEN load.buf
                  ELSE IF ~found THEN head
                  ELSE IF OneBlk(head.head) THEN OneBlkBuf(head, b, size, lost[b], how)
                  ELSE many.buf
           passed == found /\ CheckFile(buf, size)
           lack == found /\ ~OneBlk(head.head) /\ many.off < size
       IN /\ \A c \in Blk : sees[c] \in SeesBad(c)
          /\ worn = {} => l = {} /\ how = "ecc"
          /\ load' = [cur |-> IF b < BlkCnt - 1 THEN b + 1 ELSE b, buf |-> buf]
          /\ mode' = IF passed /\ ~lack THEN "up"
                     ELSE IF lack \/ b = BlkCnt - 1 THEN "fel" ELSE "load"
  BY Zenon DEF TryBlock
<1>3. Tried(sees, l, how)
  BY <1>2 DEF Tried, Lost, Bad, HeadBuf, SizeOf, ManyOf, FoundIn, BufAfter, Passes, Lacks
<1> QED
  BY <1>1, <1>3

\* The blocks that the loader may take for good ones hold nothing but pieces of
\* the versions in A.
SeenIn(A) == \A c \in Blk : FALSE \in SeesBad(c) => blk[c].page \in PagesOf(A)

\* What a try leaves in the buffer.
LEMMA TryTyped ==
  ASSUME NEW A \in SUBSET Version, load \in [cur : Blk, buf : BufOf(A)], SeenIn(A),
         NEW sees \in [Blk -> BOOLEAN], NEW l \in SUBSET Page, NEW how,
         Tried(sees, l, how)
  PROVE  load' \in [cur : Blk, buf : BufOf(A)]
<1> DEFINE b == load.cur
           head == HeadBuf(l, how)
           size == SizeOf(l, how)
           buf == BufAfter(sees, l, how)
           cur == IF load.cur < BlkCnt - 1 THEN load.cur + 1 ELSE load.cur
<1>1. b \in Blk /\ load.buf \in BufOf(A)
  OBVIOUS
<1>2. cur \in Blk
  BY <1>1, AreaAssumption DEF Blk
<1>3. Lost(l) \in [Blk -> SUBSET Page]
  BY DEF Lost
<1>4. \A c \in Blk : c \notin Bad(sees) => blk[c].page \in PagesOf(A)
  <2> SUFFICES ASSUME NEW c \in Blk, ~sees[c] PROVE blk[c].page \in PagesOf(A)
    BY DEF Bad
  <2>1. sees[c] \in SeesBad(c) /\ sees[c] = FALSE
    BY DEF Tried
  <2> QED
    BY <2>1 DEF SeenIn
<1>5. buf \in BufOf(A)
  <2>1. CASE b \in Bad(sees)
    BY <1>1, <2>1 DEF BufAfter
  <2>2. CASE b \notin Bad(sees)
    <3>1. blk[b].page \in PagesOf(A)
      BY <1>1, <1>4, <2>2
    <3>2. head \in BufOf(A)
      <4> HIDE DEF b
      <4>1. ReadHead(load.buf, b, Lost(l)[b], how) \in BufOf(A)
        BY <1>1, <3>1, HeadTyped
      <4> QED
        BY <4>1 DEF HeadBuf, b
    <3>3. CASE ~FoundIn(sees, l, how)
      BY <2>2, <3>2, <3>3 DEF BufAfter
    <3>4. CASE FoundIn(sees, l, how)
      <4>1. head.head \in Version
        BY <3>2, <3>4 DEF FoundIn, BufOf
      <4>2. size \in Nat \ {0}
        BY <4>1, VersionAssumption DEF SizeOf
      <4>3. Lost(l)[b] \in SUBSET Page
        BY <1>1, <1>3
      <4>4. OneBlkBuf(head, b, size, Lost(l)[b], how) \in BufOf(A)
        <5> DEFINE x == Lost(l)[b]
        <5> HIDE DEF b, head, size, x
        <5>1. x \in SUBSET Page
          BY <4>3 DEF x
        <5>2. OneBlkBuf(head, b, size, x, how) \in BufOf(A)
          BY <3>1, <3>2, <4>2, <5>1, OneBlkTyped
        <5> QED
          BY <5>2 DEF x
      <4>5. ManyBlkBuf(head, b, size, Bad(sees), Lost(l), how).buf \in BufOf(A)
        <5> DEFINE x == Lost(l)
                   y == Bad(sees)
        <5> HIDE DEF b, head, size, x, y
        <5>1. x \in [Blk -> SUBSET Page] /\ size \in Nat
              /\ \A c \in Blk : c \notin y => blk[c].page \in PagesOf(A)
          BY <1>3, <1>4, <4>2 DEF x, y
        <5>2. ManyBlkBuf(head, b, size, y, x, how).buf \in BufOf(A)
          BY <1>1, <3>2, <5>1, ManyBlkTyped
        <5> QED
          BY <5>2 DEF x, y
      <4>6. \/ buf = OneBlkBuf(head, b, size, Lost(l)[b], how)
            \/ buf = ManyBlkBuf(head, b, size, Bad(sees), Lost(l), how).buf
        BY <2>2, <3>4 DEF BufAfter, ManyOf
      <4> HIDE DEF buf
      <4> QED
        BY <4>4, <4>5, <4>6
    <3> QED
      BY <3>3, <3>4
  <2> QED
    BY <2>1, <2>2
<1>6. load' = [cur |-> cur, buf |-> buf]
  BY DEF Tried
<1> HIDE DEF cur, buf
<1> QED
  BY <1>2, <1>5, <1>6

\* Every step keeps the types.
LEMMA NextTypes == ASSUME TypeInv, [Next]_vars PROVE TypeInv'
<1>1. CASE \E v \in Version : BeginBurn(v)
  <2>1. PICK v \in Version : BeginBurn(v)
    BY <1>1
  <2>2. /\ mode' = "burn" /\ UNCHANGED <<blk, worn, load, cuts>>
        /\ allowed' = allowed \cup {v}
        /\ burn' = [ver |-> v, step |-> FirstStep(v), start |-> 0, cur |-> 0,
                    off |-> 0, at |-> 0, try |-> 0]
    BY <2>1 DEF BeginBurn, NoBurn
  <2>3. FirstStep(v) \in {"erase", "status"}
    BY DEF FirstStep
  <2>4. 0 \in Blk /\ 0 \in 0 .. MaxLen /\ 0 \in 0 .. PageCnt - 1 /\ 0 \in 0 .. TOLERANCE
        /\ 0 < TOLERANCE
    BY AreaAssumption, LongEnough DEF Blk, TOLERANCE
  <2>5. Len[v] \in Nat \ {0}
    BY VersionAssumption
  <2> DEFINE s == FirstStep(v)
  <2> HIDE DEF s
  <2>6. burn' = [ver |-> v, step |-> s, start |-> 0, cur |-> 0,
                 off |-> 0, at |-> 0, try |-> 0] /\ s \in {"erase", "status"}
    BY <2>2, <2>3 DEF s
  <2>7. BurnTyped'
    BY <2>4, <2>6 DEF BurnTyped
  <2>8. BurnPlace'
    BY <2>2, <2>4, <2>5, <2>6 DEF BurnPlace
  <2> QED
    BY <2>2, <2>7, <2>8 DEF TypeInv, WornTyped
<1>2. CASE BurnStep
  <2>1. BurnTyped' /\ BurnPlace' /\ blk' \in [Blk -> Block(Version)]
    BY <1>2, BurnStepTyped, BlkStepTyped
  <2>2. mode' \in {"off", "burn"} /\ load' = load
    BY <1>2 DEF TypeInv, BurnStep, ReadStatus, EraseBlock, EraseFails, ProgramPage, ProgramFails,
       VerifyBlock, GiveUpBlock, NextBlock, EndBurn, Burning
  <2>3. (allowed' = allowed /\ cuts' = cuts) \/ EndBurn
    BY <1>2 DEF BurnStep, ReadStatus, EraseBlock, EraseFails, ProgramPage, ProgramFails,
       VerifyBlock, GiveUpBlock, NextBlock
  <2>4. allowed' \in SUBSET Version /\ cuts' \in 0 .. MaxCuts
    <3>1. CASE EndBurn
      <4>1. mode = "burn" /\ allowed' = {burn.ver} /\ cuts' = 0
        BY <3>1 DEF EndBurn, Burning
      <4>2. burn.ver \in Version
        BY <4>1 DEF TypeInv, BurnPlace
      <4> QED
        BY <4>1, <4>2, AreaAssumption
    <3> QED
      BY <2>3, <3>1 DEF TypeInv
  <2>5. WornTyped'
    <3>1. CASE EraseFails \/ ProgramFails
      <4>1. MayWear(burn.cur) /\ worn' = worn \cup {burn.cur}
        BY <3>1 DEF EraseFails, ProgramFails
      <4>2. burn.cur \in Blk /\ WornTyped
        BY DEF TypeInv, BurnTyped
      <4> DEFINE b == burn.cur
      <4> HIDE DEF b
      <4>3. b \in Blk /\ MayWear(b) /\ worn' = worn \cup {b}
        BY <4>1, <4>2 DEF b
      <4> QED
        BY <4>2, <4>3, WearTyped
    <3>2. CASE ~(EraseFails \/ ProgramFails)
      <4>1. worn' = worn
        BY <1>2, <3>2 DEF BurnStep, ReadStatus, EraseBlock, ProgramPage,
           VerifyBlock, GiveUpBlock, NextBlock, EndBurn
      <4> QED
        BY <4>1 DEF TypeInv, WornTyped
    <3> QED
      BY <3>1, <3>2
  <2> QED
    BY <2>1, <2>2, <2>4, <2>5 DEF TypeInv
<1>3. CASE PowerOn \/ TurnOff
  <2>1. /\ mode # "burn" /\ mode' \in {"load", "off"} /\ load' = NoLoad
        /\ UNCHANGED <<blk, worn, burn, allowed, cuts>>
    BY <1>3 DEF PowerOn, TurnOff
  <2>2. load' \in [cur : Blk, buf : BufOf(Version)]
    BY <2>1, NoLoadTyped
  <2> QED
    BY <2>1, <2>2 DEF TypeInv, WornTyped, BurnTyped, BurnPlace
<1>4. CASE TryBlock
  <2>1. /\ mode = "load" /\ UNCHANGED <<blk, worn, burn, allowed, cuts>>
    BY <1>4, TryMeans
  <2>2. PICK sees \in [Blk -> BOOLEAN], l \in SUBSET Page, how \in {"ecc", "error"} :
          Tried(sees, l, how)
    BY <1>4, TryMeans
  <2>3. SeenIn(Version)
    BY DEF TypeInv, SeenIn, Block
  <2>4. Version \in SUBSET Version /\ load \in [cur : Blk, buf : BufOf(Version)]
    BY DEF TypeInv
  <2>5. load' \in [cur : Blk, buf : BufOf(Version)]
    BY <2>2, <2>3, <2>4, TryTyped
  <2>6. mode' \in {"up", "fel", "load"}
    BY <2>2 DEF Tried
  <2> QED
    BY <2>1, <2>5, <2>6 DEF TypeInv, WornTyped, BurnTyped, BurnPlace
<1>5. CASE PowerFails
  <2>1. /\ mode = "burn" /\ mode' = "off" /\ burn' = NoBurn /\ cuts < MaxCuts
        /\ cuts' = cuts + 1 /\ UNCHANGED <<worn, load, allowed>>
    BY <1>5 DEF PowerFails
  <2>2. burn.cur \in Blk /\ blk \in [Blk -> Block(Version)]
    BY DEF TypeInv, BurnTyped
  <2>3. blk' \in [Blk -> Block(Version)]
    <3>1. CASE blk' = blk
      BY <2>2, <3>1
    <3>2. CASE \E pages : Torn(burn.cur, pages)
      <4>1. PICK pages : Torn(burn.cur, pages)
        BY <3>2
      <4> DEFINE b == burn.cur
      <4> HIDE DEF b
      <4>2. b \in Blk /\ Torn(b, pages)
        BY <2>2, <4>1 DEF b
      <4> QED
        BY <2>2, <4>2, TornChange
    <3>3. blk' = blk \/ Torn(burn.cur, Page) \/ Torn(burn.cur, {burn.at})
      BY <1>5 DEF PowerFails
    <3> QED
      BY <3>1, <3>2, <3>3
  <2>4. cuts' \in 0 .. MaxCuts
    BY <2>1, AreaAssumption DEF TypeInv
  <2>5. BurnTyped'
    <3>1. 0 \in Blk /\ 0 \in 0 .. MaxLen /\ 0 \in 0 .. PageCnt - 1 /\ 0 \in 0 .. TOLERANCE
      BY AreaAssumption, LongEnough DEF Blk, TOLERANCE
    <3> QED
      BY <2>1, <3>1 DEF NoBurn, BurnTyped
  <2> QED
    BY <2>1, <2>3, <2>4, <2>5 DEF TypeInv, WornTyped, BurnPlace
<1>6. CASE UNCHANGED vars
  BY <1>6 DEF vars, TypeInv, WornTyped, BurnTyped, BurnPlace
<1> QED
  BY <1>1, <1>2, <1>3, <1>4, <1>5, <1>6 DEF Next, BurnStep

\* The burner and the loader keep to the area, the block, the image and the
\* buffer they were given (write_in_one_blk, write_in_many_blks, the loops of
\* Nand_Burn_Boot1 and of load_Boot1_from_nand): no page past the end of a block
\* is programmed, no attempt is made after the third, and whatever is read of
\* however many blocks fits in the buffer of the longest image.
THEOREM TypesKept == Spec => []TypeOK
<1>1. Init => TypeInv
  BY InitTypes
<1>2. TypeInv /\ [Next]_vars => TypeInv'
  BY NextTypes
<1>3. TypeInv => TypeOK
  BY DEF TypeInv, TypeOK, WornTyped, BurnTyped, BufOf, PagesOf, PieceOf, PieceType, Block
<1> QED
  BY <1>1, <1>2, <1>3, PTL DEF Spec

----------------------------------------------------------------------------
(* A safe update.                                                          *)
Survivable ==
  (\A v \in Version : OneBlk(v)) /\ LostMarks = FALSE /\ MaxWorn + MaxCuts < BlkCnt

\* A block that looks good holds nothing of a version that is not asked for
\* any more.
OldGone == \A b \in Blk : ~blk[b].bad => blk[b].page \in PagesOf(allowed)

\* The burner leaves nothing of the old version behind it.
Renewed ==
  mode = "burn" =>
    \A b \in Blk : (b < burn.cur \/ (b = burn.cur /\ burn.step = "next")) =>
      (blk[b].bad \/ blk[b] = Full(burn.ver))

\* A good block is still before the loader.
Boots ==
  mode = "load" =>
    /\ load \in [cur : Blk, buf : BufOf(allowed)]
    /\ \E b \in Blk \ worn : b >= load.cur /\ Whole(b)

SafeInv == IInv /\ TypeInv /\ mode # "fel" /\ OldGone /\ Renewed /\ Boots

\* The first copy in a whole block passes, and is the one that stays.
LEMMA FirstCopyPasses ==
  ASSUME NEW v \in Version, OneBlk(v), NEW buf \in BufOf(Version), NEW b,
         blk[b] = Full(v), NEW how
  PROVE  CheckFile(ReadPages(buf, 0, b, 0, Len[v], {}, how), Len[v])
<1> DEFINE n == Len[v]
           pages == blk[b].page
           ps == [k \in DOMAIN buf.page |->
                    IF 0 <= k /\ k < 0 + n THEN pages[0 + k - 0] ELSE buf.page[k]]
<1>1. /\ n \in Nat \ {0} /\ n <= PageCnt /\ PageCnt \in Nat /\ n <= MaxLen /\ MaxLen \in Nat
      /\ Chunk(v, 0) = n /\ Filled(v, 0) = (PageCnt \div n) * n
  BY VersionAssumption, AreaAssumption, LongEnough, WholeChunk DEF OneBlk, Filled
<1>2. n <= Filled(v, 0) /\ Filled(v, 0) \in Nat
  <2> DEFINE q == PageCnt \div n
  <2>1. q \in Nat \ {0}
    BY <1>1
  <2> HIDE DEF q
  <2>2. q * n >= n /\ q * n \in Nat
    BY <1>1, <2>1
  <2> QED
    BY <1>1, <2>2 DEF q
<1>3. pages = Fill(v, 0)
  BY DEF Full
<1>4. ASSUME NEW k \in 0 .. n - 1 PROVE pages[k] = Piece(v, k)
  <2>1. k \in Page /\ k < Filled(v, 0) /\ k % n = k /\ 0 + k = k
    BY <1>1, <1>2 DEF Page
  <2>2. Fill(v, 0)[k] = Piece(v, 0 + (k % Chunk(v, 0)))
    BY <2>1 DEF Fill
  <2> QED
    BY <1>1, <1>3, <2>1, <2>2
<1> HIDE DEF pages
<1>5. Got({}, 0, n, how) = n
  BY DEF Got
<1>6. ReadPages(buf, 0, b, 0, n, {}, how) = [head |-> HeadOf(pages[0]), page |-> ps]
  <2>1. ReadPages(buf, 0, b, 0, n, {}, how) =
          [head |-> IF 0 = 0 /\ n > 0
                    THEN HeadOf(IF 0 \in {} THEN Garbage ELSE blk[b].page[0])
                    ELSE buf.head,
           page |-> [k \in DOMAIN buf.page |->
             IF 0 <= k /\ k < 0 + n
             THEN IF 0 + k - 0 \in {} THEN Garbage ELSE blk[b].page[0 + k - 0]
             ELSE buf.page[k]]]
    BY <1>5, ReadFields
  <2> QED
    BY <1>1, <2>1 DEF pages
<1>7. HeadOf(pages[0]) = v
  <2>1. pages[0] = Piece(v, 0)
    BY <1>1, <1>4
  <2> QED
    BY <2>1 DEF HeadOf, Piece
<1>8. ASSUME NEW k \in 0 .. n - 1 PROVE ps[k] = Piece(v, k)
  <2>1. k \in DOMAIN buf.page /\ 0 <= k /\ k < 0 + n /\ 0 + k - 0 = k
    BY <1>1 DEF BufOf
  <2>2. ps[k] = pages[k]
    BY <2>1
  <2> QED
    BY <1>4, <2>2
<1> HIDE DEF ps, n
<1> DEFINE r == ReadPages(buf, 0, b, 0, n, {}, how)
<1>9. r.head = v /\ r.page = ps
  BY <1>6, <1>7
<1> HIDE DEF r
<1>10. CheckFile(r, n)
  BY <1>8, <1>9 DEF CheckFile, n
<1> QED
  BY <1>10 DEF r, n

\* As the first copy passes, no other one is read.
LEMMA WholePasses ==
  ASSUME NEW v \in Version, OneBlk(v), NEW buf \in BufOf(Version), NEW b,
         blk[b] = Full(v), NEW how
  PROVE  CheckFile(OneBlkBuf(buf, b, Len[v], {}, how), Len[v])
<1> DEFINE size == Len[v]
           n == PageCnt \div size
           B == BufOf(Version)
<1>1. size \in Nat \ {0} /\ size <= PageCnt /\ PageCnt \in Nat /\ n \in Nat \ {0}
  BY VersionAssumption, AreaAssumption DEF OneBlk
<1>2. blk[b].page \in PagesOf(Version)
  <2>1. 0 < Len[v] /\ {v} \subseteq Version /\ blk[b].page = Fill(v, 0)
    BY <1>1 DEF Full
  <2> QED
    BY <2>1, FillTyped, MorePieces
<1>3. \A k \in 1 .. PageCnt \div size, x \in B :
        ReadPages(x, 0, b, (k - 1) * size, size, {}, how) \in B
  BY <1>1, <1>2, CopyTyped
<1> HIDE DEF size, B
<1>4. buf \in B
  BY DEF B
<1>5. PICK f : /\ f \in [0 .. PageCnt \div size -> B] /\ f[0] = buf
               /\ \A k \in 1 .. PageCnt \div size :
                    f[k] = OneStep(f[k - 1], k, b, size, {}, how)
               /\ OneBlkBuf(buf, b, size, {}, how) = f[PageCnt \div size]
  <2> DEFINE lost == {}
  <2>1. size \in Nat \ {0}
    BY <1>1
  <2>2. \A k \in 1 .. PageCnt \div size, x \in B :
          ReadPages(x, 0, b, (k - 1) * size, size, lost, how) \in B
    BY <1>3
  <2> HIDE DEF lost, n
  <2>3. \E f : OneRun(f, B, buf, b, size, lost, how)
    BY <1>4, <2>1, <2>2, OneBlkSteps
  <2> QED
    BY <2>3 DEF lost, OneRun
<1>6. /\ f[0] = buf
      /\ \A k \in 1 .. n : f[k] = OneStep(f[k - 1], k, b, size, {}, how)
      /\ OneBlkBuf(buf, b, size, {}, how) = f[n]
  BY <1>5
<1> HIDE DEF n
<1> DEFINE S == {k \in 0 .. n : k = 0 \/ CheckFile(f[k], size)}
<1>7. 0 \in S
  BY <1>1
<1>8. ASSUME NEW k \in 0 .. n - 1, k \in S PROVE k + 1 \in S
  <2>1. k + 1 \in 1 .. n /\ (k + 1) - 1 = k /\ k + 1 \in 0 .. n
    BY <1>1
  <2>2. f[k + 1] = OneStep(f[k], k + 1, b, size, {}, how)
    BY <1>6, <2>1
  <2>3. CASE k = 0
    <3>1. f[k + 1] = ReadPages(buf, 0, b, (1 - 1) * size, size, {}, how)
      BY <1>6, <2>2, <2>3 DEF OneStep
    <3>2. (1 - 1) * size = 0
      BY <1>1
    <3>3. CheckFile(ReadPages(buf, 0, b, 0, size, {}, how), size)
      BY FirstCopyPasses DEF size
    <3> QED
      BY <2>1, <3>1, <3>2, <3>3
  <2>4. CASE k # 0
    <3>1. CheckFile(f[k], size) /\ k + 1 > 1
      BY <1>8, <2>4
    <3>2. f[k + 1] = f[k]
      BY <2>2, <3>1 DEF OneStep
    <3> QED
      BY <2>1, <3>1, <3>2
  <2> QED
    BY <2>3, <2>4
<1> HIDE DEF S
<1>9. 0 .. n \subseteq S
  BY <1>1, <1>7, <1>8, CountUp
<1>10. n \in S /\ n # 0
  BY <1>1, <1>9
<1>11. CheckFile(f[n], size)
  BY <1>10 DEF S
<1> QED
  BY <1>6, <1>11 DEF size

\* The loader starts the first whole block that it comes to.
LEMMA WholeStarts ==
  ASSUME Survivable, SafeInv, mode = "load", load.cur \notin worn, Whole(load.cur),
         NEW sees \in [Blk -> BOOLEAN], NEW l, NEW how, Tried(sees, l, how)
  PROVE  mode' = "up"
<1> DEFINE b == load.cur
           head == HeadBuf(l, how)
<1>1. /\ b \in Blk /\ load.buf \in BufOf(Version) /\ allowed \subseteq Version
  BY DEF SafeInv, TypeInv
<1>2. PICK v \in allowed : blk[b] = Full(v)
  BY DEF Whole, Full
<1>3. v \in Version /\ OneBlk(v) /\ v # NoVersion /\ Len[v] \in Nat \ {0}
  BY <1>1, VersionAssumption DEF Survivable
<1>4. Lost(l)[b] = {}
  BY <1>1 DEF Lost
<1>5. b \notin Bad(sees)
  <2>1. SeesBad(b) = {FALSE}
    BY <1>2 DEF SeesBad, Survivable, Full
  <2>2. sees[b] \in SeesBad(b)
    BY <1>1 DEF Tried
  <2> QED
    BY <2>1, <2>2 DEF Bad
<1>6. head.head = v /\ head \in BufOf(Version)
  <2>1. blk[b].page = Fill(v, 0)
    BY <1>2 DEF Full
  <2>2. 0 \in Page /\ 0 < Filled(v, 0) /\ 0 % Chunk(v, 0) = 0
    BY <1>3, WholeChunk, AreaAssumption DEF Page
  <2>3. Fill(v, 0)[0] = Piece(v, 0)
    BY <2>2 DEF Fill
  <2>4. HeadOf(blk[b].page[0]) = v
    BY <2>1, <2>3 DEF HeadOf, Piece
  <2>5. head = ReadHead(load.buf, b, {}, how)
    BY <1>4 DEF HeadBuf
  <2>6. head.head = v
    BY <2>4, <2>5 DEF ReadHead
  <2>7. blk[b].page \in PagesOf(Version)
    BY <1>1 DEF SafeInv, TypeInv, Block
  <2> HIDE DEF b
  <2>8. ReadHead(load.buf, b, {}, how) \in BufOf(Version)
    BY <1>1, <2>7, HeadTyped
  <2> QED
    BY <2>5, <2>6, <2>8
<1>7. FoundIn(sees, l, how) /\ SizeOf(l, how) = Len[v] /\ ~Lacks(sees, l, how)
  BY <1>3, <1>5, <1>6 DEF FoundIn, SizeOf, Lacks
<1>8. BufAfter(sees, l, how) = OneBlkBuf(head, b, Len[v], {}, how)
  BY <1>3, <1>4, <1>5, <1>6, <1>7 DEF BufAfter
<1>9. CheckFile(OneBlkBuf(head, b, Len[v], {}, how), Len[v])
  <2> HIDE DEF b, head
  <2> QED
    BY <1>2, <1>3, <1>6, WholePasses
<1>10. Passes(sees, l, how)
  BY <1>7, <1>8, <1>9 DEF Passes
<1> QED
  BY <1>7, <1>10 DEF Tried

\* While there are fewer interruptions and worn blocks than blocks, one is whole.
LEMMA OneIsWhole ==
  ASSUME Survivable, IInv, TypeInv, mode # "burn"
  PROVE  \E b \in Blk \ worn : Whole(b)
<1> SUFFICES ASSUME \A b \in Blk \ worn : ~Whole(b) PROVE FALSE
  OBVIOUS
<1>1. Hurt = Blk \ worn
  BY DEF Hurt
<1>2. worn \in SUBSET Blk /\ Cardinality(worn) <= MaxWorn /\ cuts \in 0 .. MaxCuts
      /\ allowed \subseteq Version
  BY DEF TypeInv, WornTyped
<1>3. Cardinality(Hurt) <= cuts
  BY <1>2 DEF IInv, Bound, Small, Survivable
<1>4. Cardinality(Blk) = BlkCnt
  <2>1. Cardinality(0 .. BlkCnt - 1) = (BlkCnt - 1) - 0 + 1
    <3>1. 0 \in Int /\ BlkCnt - 1 \in Int /\ 0 <= BlkCnt - 1
      BY AreaAssumption
    <3> DEFINE m == BlkCnt - 1
    <3> HIDE DEF m
    <3>2. m \in Int /\ 0 \in Int /\ 0 <= m
      BY <3>1 DEF m
    <3>3. Cardinality(0 .. m) = IF 0 > m THEN 0 ELSE m - 0 + 1
      BY <3>2, FS_Interval
    <3> QED
      BY <3>2, <3>3 DEF m
  <2> QED
    BY <2>1, AreaAssumption DEF Blk
<1>5. IsFiniteSet(Blk) /\ IsFiniteSet(worn) /\ Blk \cap worn = worn
  BY <1>2, BlkFinite, FS_Subset
<1>6. Cardinality(Blk \ worn) = Cardinality(Blk) - Cardinality(Blk \cap worn)
  BY <1>5, FS_Difference
<1>7. Cardinality(worn) \in Nat
  BY <1>5, FS_CardinalityType
<1> DEFINE n == Cardinality(worn)
           m == Cardinality(Blk \ worn)
<1>8. m = BlkCnt - n /\ m <= cuts
  BY <1>1, <1>3, <1>4, <1>5, <1>6
<1>9. n \in Nat /\ n <= MaxWorn
  BY <1>2, <1>7
<1> HIDE DEF n, m
<1>10. MaxWorn + MaxCuts < BlkCnt /\ cuts \in 0 .. MaxCuts
  BY <1>2 DEF Survivable
<1> QED
  BY <1>8, <1>9, <1>10, AreaAssumption

\* The contents of the block in work change, and those of no other.
LEMMA OneBlockChanges ==
  ASSUME OldGone, allowed' = allowed, NEW b \in Blk,
         ~blk'[b].bad => blk'[b].page \in PagesOf(allowed),
         \A c \in Blk : c # b => blk'[c] = blk[c]
  PROVE  OldGone'
  BY DEF OldGone

\* The blocks behind the burner stay as they are.
LEMMA StillRenewed ==
  ASSUME Renewed, mode = "burn", burn'.ver = burn.ver, burn'.cur = burn.cur,
         burn.cur \in Blk,
         \A c \in Blk : c # burn.cur => blk'[c] = blk[c],
         burn'.step = "next" => (blk'[burn.cur].bad \/ blk'[burn.cur] = Full(burn.ver))
  PROVE  Renewed'
<1>1. \A c \in Blk : c < burn.cur => c # burn.cur
  BY DEF Blk
<1> QED
  BY <1>1 DEF Renewed

\* A step of a burn keeps what the loader relies on.
LEMMA BurnStepSafe ==
  ASSUME Survivable, SafeInv, BurnStep PROVE OldGone' /\ Renewed'
<1>1. /\ mode = "burn" /\ blk \in [Blk -> Block(Version)] /\ BurnTyped /\ BurnPlace
      /\ OldGone /\ Renewed
  BY DEF SafeInv, TypeInv, BurnStep, ReadStatus, EraseBlock, EraseFails, ProgramPage,
     ProgramFails, VerifyBlock, GiveUpBlock, NextBlock, EndBurn, Burning
<1>2. burn.cur \in Blk /\ burn.at \in Page /\ burn.ver \in Version
  BY <1>1, AreaAssumption DEF BurnTyped, BurnPlace, Page
<1>3. OneBlk(burn.ver) /\ Behind /\ burn.ver \in allowed
  BY <1>1, <1>2 DEF SafeInv, IInv, Progress, Survivable
<1>4. AllPages(Blank) \in PagesOf(Version) /\ AllPages(Garbage) \in PagesOf(Version)
      /\ AllPages(Blank) \in PagesOf(allowed) /\ AllPages(Garbage) \in PagesOf(allowed)
  BY NoPages
<1>5. \A m \in BOOLEAN : [page |-> AllPages(Blank), bad |-> m] \in Block(Version)
  BY <1>4 DEF Block
<1>6. allowed \subseteq Version
  BY DEF SafeInv, TypeInv
<1>7. \A c \in Blk : blk[c] \in Block(Version)
  BY <1>1
<1>8. CASE ReadStatus
  BY <1>3, <1>8 DEF ReadStatus, Burning, Behind
<1>9. CASE EraseBlock
  <2>1. /\ blk' = [blk EXCEPT ![burn.cur] = [page |-> AllPages(Blank), bad |-> FALSE]]
        /\ burn' = [burn EXCEPT !.step = "program", !.at = 0] /\ allowed' = allowed
    BY <1>9 DEF EraseBlock
  <2>2. /\ blk'[burn.cur] = [page |-> AllPages(Blank), bad |-> FALSE]
        /\ \A c \in Blk : c # burn.cur => blk'[c] = blk[c]
    BY <1>1, <1>2, <2>1
  <2>3. burn'.ver = burn.ver /\ burn'.cur = burn.cur /\ burn'.step = "program"
    BY <1>1, <2>1 DEF BurnTyped
  <2> QED
    BY <1>1, <1>2, <1>4, <2>1, <2>2, <2>3, OneBlockChanges, StillRenewed
<1>10. CASE EraseFails \/ VerifyBlock
  <2>1. /\ blk' = blk \/ blk' = [blk EXCEPT ![burn.cur].page = AllPages(Garbage)]
        /\ allowed' = allowed
    BY <1>10 DEF EraseFails, VerifyBlock
  <2>2. /\ ~blk'[burn.cur].bad => blk'[burn.cur].page \in PagesOf(allowed)
        /\ \A c \in Blk : c # burn.cur => blk'[c] = blk[c]
    <3>1. CASE blk' = blk
      BY <1>1, <1>2, <3>1 DEF OldGone
    <3>2. CASE blk' = [blk EXCEPT ![burn.cur].page = AllPages(Garbage)]
      <4>1. /\ blk'[burn.cur] = [page |-> AllPages(Garbage), bad |-> blk[burn.cur].bad]
            /\ \A c \in Blk : c # burn.cur => blk'[c] = blk[c]
        BY <1>1, <1>2, <1>4, <3>2, PagesChange
      <4> QED
        BY <1>4, <4>1
    <3> QED
      BY <2>1, <3>1, <3>2
  <2>3. burn'.ver = burn.ver /\ burn'.cur = burn.cur /\ burn'.step # "next"
    <3>1. CASE EraseFails
      BY <1>1, <3>1 DEF EraseFails, BurnTyped
    <3>2. CASE VerifyBlock
      <4> DEFINE s == IF burn.try + 1 < TOLERANCE THEN "erase" ELSE "scrap"
      <4>1. \/ burn' = [burn EXCEPT !.step = "scrap"]
            \/ burn' = [burn EXCEPT !.try = burn.try + 1, !.step = s]
        BY <3>2 DEF VerifyBlock
      <4>2. s # "next"
        OBVIOUS
      <4> HIDE DEF s
      <4> QED
        BY <1>1, <4>1, <4>2 DEF BurnTyped
    <3> QED
      BY <1>10, <3>1, <3>2
  <2> QED
    BY <1>1, <1>2, <2>1, <2>2, <2>3, OneBlockChanges, StillRenewed
<1>11. ASSUME NEW piece \in PieceOf(allowed), blk[burn.cur].page \in PagesOf(allowed),
              blk' = [blk EXCEPT ![burn.cur].page[burn.at] = piece]
       PROVE  /\ blk'[burn.cur].page \in PagesOf(allowed)
              /\ \A c \in Blk : c # burn.cur => blk'[c] = blk[c]
  <2> DEFINE ps == [blk[burn.cur].page EXCEPT ![burn.at] = piece]
  <2>1. ps \in PagesOf(allowed)
    BY <1>2, <1>11 DEF PagesOf
  <2>2. blk' = [blk EXCEPT ![burn.cur].page = ps]
    BY <1>11, Zenon
  <2> HIDE DEF ps
  <2>3. ps \in PagesOf(Version)
    BY <1>6, <2>1, MorePieces
  <2>4. /\ blk'[burn.cur] = [page |-> ps, bad |-> blk[burn.cur].bad]
        /\ \A c \in Blk : c # burn.cur => blk'[c] = blk[c]
    BY <1>1, <1>2, <2>2, <2>3, PagesChange
  <2> QED
    BY <2>1, <2>4
<1>12. burn.step = "program" => blk[burn.cur].page \in PagesOf(allowed)
  BY <1>1, <1>2, <1>3 DEF Behind, Begun, OldGone
<1>13. CASE ProgramPage
  <2>1. burn.step = "program" /\ allowed' = allowed
    BY <1>13 DEF ProgramPage, Burning
  <2>2. burn.off \in Nat /\ burn.off < Len[burn.ver] /\ burn.at \in Nat
    BY <1>1, <1>2, <2>1, LongEnough DEF BurnTyped, BurnPlace, Page
  <2>3. ThisPage \in PieceOf({burn.ver})
    BY <1>2, <2>2, PieceTyped DEF ThisPage
  <2>4. ThisPage \in PieceOf(allowed)
    <3>1. {burn.ver} \subseteq allowed
      BY <1>3
    <3> QED
      BY <2>3, <3>1, MorePieces
  <2>5. blk' = [blk EXCEPT ![burn.cur].page[burn.at] = ThisPage]
    BY <1>13 DEF ProgramPage
  <2>6. /\ blk'[burn.cur].page \in PagesOf(allowed)
        /\ \A c \in Blk : c # burn.cur => blk'[c] = blk[c]
    BY <1>11, <1>12, <2>1, <2>4, <2>5
  <2>7. /\ burn'.ver = burn.ver /\ burn'.cur = burn.cur
        /\ burn'.step = "next" => blk'[burn.cur] = Full(burn.ver)
    <3>1. CASE burn' = [burn EXCEPT !.at = burn.at + 1]
      BY <1>1, <2>1, <3>1 DEF BurnTyped
    <3>2. CASE blk'[burn.cur] = Full(burn.ver) /\ burn' = AfterBlock(burn)
      BY <1>1, <3>2 DEF BurnTyped, AfterBlock
    <3> QED
      BY <1>3, <1>13, <3>1, <3>2, PageProgrammed DEF SafeInv
  <2> QED
    BY <1>1, <1>2, <2>1, <2>6, <2>7, OneBlockChanges, StillRenewed
<1>14. CASE ProgramFails
  <2>1. /\ burn.step = "program" /\ allowed' = allowed
        /\ burn' = [burn EXCEPT !.step = "verify"]
        /\ blk' = [blk EXCEPT ![burn.cur].page[burn.at] = Garbage]
    BY <1>14 DEF ProgramFails, Burning
  <2>2. Garbage \in PieceOf(allowed)
    BY GarbageOf
  <2>3. /\ blk'[burn.cur].page \in PagesOf(allowed)
        /\ \A c \in Blk : c # burn.cur => blk'[c] = blk[c]
    BY <1>11, <1>12, <2>1, <2>2
  <2>4. burn'.ver = burn.ver /\ burn'.cur = burn.cur /\ burn'.step # "next"
    BY <1>1, <2>1 DEF BurnTyped
  <2> QED
    BY <1>1, <1>2, <2>1, <2>3, <2>4, OneBlockChanges, StillRenewed
<1>15. CASE GiveUpBlock
  <2>1. \/ blk' = [blk EXCEPT ![burn.cur].bad = TRUE]
        \/ blk' = [blk EXCEPT ![burn.cur] = [page |-> AllPages(Blank), bad |-> TRUE]]
    BY <1>15 DEF GiveUpBlock, Survivable
  <2>2. blk'[burn.cur].bad /\ \A c \in Blk : c # burn.cur => blk'[c] = blk[c]
    <3>1. CASE blk' = [blk EXCEPT ![burn.cur].bad = TRUE]
      BY <1>1, <1>2, <3>1, MarkChange
    <3>2. CASE blk' = [blk EXCEPT ![burn.cur] = [page |-> AllPages(Blank), bad |-> TRUE]]
      BY <1>1, <1>2, <3>2
    <3> QED
      BY <2>1, <3>1, <3>2
  <2>3. allowed' = allowed /\ burn'.ver = burn.ver /\ burn'.cur = burn.cur
    BY <1>1, <1>15 DEF GiveUpBlock, BurnTyped, AfterBlock
  <2> QED
    BY <1>1, <1>2, <2>2, <2>3, OneBlockChanges, StillRenewed
<1>16. CASE NextBlock
  <2>1. UNCHANGED <<blk, allowed>> /\ burn.step = "next"
    BY <1>16 DEF NextBlock, Burning
  <2>2. burn'.ver = burn.ver /\ burn'.cur = burn.cur + 1 /\ burn'.step # "next"
    <3> DEFINE start == IF burn.off >= Len[burn.ver] THEN burn.cur + 1 ELSE burn.start
               off == IF burn.off >= Len[burn.ver] THEN 0 ELSE burn.off
               s == FirstStep(burn.ver)
    <3>1. burn' = [burn EXCEPT !.cur = burn.cur + 1, !.try = 0, !.at = 0,
                     !.step = s, !.start = start, !.off = off]
      BY <1>16 DEF NextBlock
    <3>2. s # "next"
      BY DEF FirstStep
    <3> HIDE DEF start, off, s
    <3> QED
      BY <1>1, <3>1, <3>2 DEF BurnTyped
  <2>3. \A c \in Blk : c < burn.cur + 1 => (c < burn.cur \/ c = burn.cur)
    BY <1>2 DEF Blk
  <2>4. Renewed'
    BY <1>1, <2>1, <2>2, <2>3 DEF Renewed
  <2> QED
    BY <1>1, <2>1, <2>4 DEF OldGone
<1>17. CASE EndBurn
  <2>1. /\ mode' = "off" /\ allowed' = {burn.ver} /\ blk' = blk
        /\ burn.step = "next" /\ burn.cur = BlkCnt - 1
    BY <1>17 DEF EndBurn, Burning
  <2>2. \A c \in Blk : c < burn.cur \/ c = burn.cur
    BY <2>1, AreaAssumption DEF Blk
  <2>3. Full(burn.ver).page \in PagesOf({burn.ver})
    <3>1. 0 < Len[burn.ver]
      BY <1>2, VersionAssumption
    <3>2. Fill(burn.ver, 0) \in PagesOf({burn.ver})
      BY <1>2, <3>1, FillTyped
    <3> QED
      BY <3>2 DEF Full
  <2>4. \A c \in Blk : blk[c].bad \/ blk[c] = Full(burn.ver)
    BY <1>1, <2>1, <2>2 DEF Renewed
  <2> QED
    BY <2>1, <2>3, <2>4 DEF OldGone, Renewed
<1> QED
  BY <1>8, <1>9, <1>10, <1>13, <1>14, <1>15, <1>16, <1>17 DEF BurnStep

\* What passes is a version in the buffer.
LEMMA StartedIs ==
  ASSUME NEW A \in SUBSET Version, load' \in [cur : Blk, buf : BufOf(A)],
         NEW size, CheckFile(load'.buf, size)
  PROVE  Started' \in A
<1>1. PICK v \in Version :
        load'.buf.head = v /\ \A k \in 0 .. Len[v] - 1 : load'.buf.page[k] = Piece(v, k)
  BY DEF CheckFile
<1>2. 0 \in 0 .. Len[v] - 1
  BY VersionAssumption
<1>3. load'.buf.page[0].ver = v
  <2>1. load'.buf.page[0] = Piece(v, 0)
    BY <1>1, <1>2
  <2> QED
    BY <2>1 DEF Piece
<1>4. Started' = v
  BY <1>1, <1>3 DEF Started
<1>5. v \in A \cup {NoVersion}
  BY <1>1 DEF BufOf
<1> QED
  BY <1>4, <1>5, VersionAssumption

\* A block is tried: its version starts, or the next block is tried.
LEMMA TrySafe ==
  ASSUME Survivable, SafeInv, TryBlock
  PROVE  /\ mode = "load" /\ UNCHANGED <<blk, worn, burn, allowed, cuts>>
         /\ mode' \in {"up", "load"} /\ Boots'
         /\ mode' = "up" => Started' \in allowed
<1>1. mode = "load" /\ UNCHANGED <<blk, worn, burn, allowed, cuts>>
  BY TryMeans
<1>2. PICK sees \in [Blk -> BOOLEAN], l \in SUBSET Page, how \in {"ecc", "error"} :
        Tried(sees, l, how)
  BY TryMeans
<1>3. load \in [cur : Blk, buf : BufOf(allowed)] /\ allowed \in SUBSET Version
  BY <1>1 DEF SafeInv, Boots, TypeInv
<1>4. SeenIn(allowed)
  BY DEF SafeInv, OldGone, SeenIn, SeesBad, Survivable
<1>5. load' \in [cur : Blk, buf : BufOf(allowed)]
  BY <1>2, <1>3, <1>4, TryTyped
<1>6. PICK b \in Blk \ worn : b >= load.cur /\ Whole(b)
  BY <1>1 DEF SafeInv, Boots
<1>7. CASE b = load.cur
  <2>1. mode' = "up"
    BY <1>1, <1>2, <1>6, <1>7, WholeStarts
  <2> QED
    BY <1>1, <2>1, <1>2, <1>3, <1>5, StartedIs DEF Boots, Tried, Passes
<1>8. CASE b # load.cur
  <2>1. load.cur < BlkCnt - 1 /\ load.cur \in Blk
    BY <1>3, <1>6, <1>8, AreaAssumption DEF Blk
  <2>2. load'.cur = load.cur + 1 /\ b >= load.cur + 1
    BY <1>2, <1>6, <1>8, <2>1, AreaAssumption DEF Tried, Blk
  <2>3. ~Lacks(sees, l, how)
    <3>1. CASE FoundIn(sees, l, how)
      <4>1. HeadBuf(l, how).head \in Version
        <5>1. load.cur \notin Bad(sees) /\ HeadBuf(l, how).head # NoVersion
          BY <3>1 DEF FoundIn
        <5>2. load.cur \in Blk /\ load.buf \in BufOf(Version)
          BY DEF SafeInv, TypeInv
        <5>3. blk[load.cur].page \in PagesOf(Version)
          BY <5>2 DEF SafeInv, TypeInv, Block
        <5>4. HeadBuf(l, how) \in BufOf(Version)
          <6> DEFINE c == load.cur
                     lost == Lost(l)[load.cur]
          <6> HIDE DEF c, lost
          <6>1. blk[c].page \in PagesOf(Version)
            BY <5>3 DEF c
          <6>2. ReadHead(load.buf, c, lost, how) \in BufOf(Version)
            BY <5>2, <6>1, HeadTyped
          <6> QED
            BY <6>2 DEF HeadBuf, c, lost
        <5> QED
          BY <5>1, <5>4 DEF BufOf
      <4> QED
        BY <4>1 DEF Lacks, Survivable
    <3> QED
      BY <3>1 DEF Lacks
  <2>4. mode' \in {"up", "load"} /\ (mode' = "up" => Passes(sees, l, how))
    BY <1>2, <2>1, <2>3, AreaAssumption DEF Tried, Blk
  <2>5. Whole(b)'
    BY <1>1, <1>6 DEF Whole
  <2>6. Boots'
    BY <1>1, <1>5, <1>6, <2>2, <2>5 DEF Boots
  <2>7. mode' = "up" => Started' \in allowed
    <3>1. ASSUME mode' = "up" PROVE CheckFile(load'.buf, SizeOf(l, how))
      BY <1>2, <2>4, <3>1 DEF Tried, Passes
    <3> QED
      BY <1>3, <1>5, <3>1, StartedIs
  <2> QED
    BY <1>1, <2>4, <2>6, <2>7
<1> QED
  BY <1>7, <1>8

\* The first state is safe.
LEMMA InitSafe == ASSUME Survivable, Init PROVE SafeInv
<1>1. IInv /\ TypeInv
  BY InitIInv, InitTypes
<1>2. PICK v \in Version : blk = Layout(v) /\ allowed = {v}
  BY DEF Init
<1>3. OldGone
  <2> SUFFICES ASSUME NEW b \in Blk PROVE Layout(v)[b].page \in PagesOf({v})
    BY <1>2 DEF OldGone
  <2> DEFINE off == (b % BlksPerCopy(v)) * PageCnt
  <2>1. off \in Nat /\ off < Len[v]
    BY LayoutOffset
  <2>2. Layout(v)[b].page = Fill(v, off)
    BY DEF Layout
  <2> HIDE DEF off
  <2> QED
    BY <2>1, <2>2, FillTyped
<1>4. mode = "off"
  BY DEF Init
<1> QED
  BY <1>1, <1>3, <1>4 DEF SafeInv, Renewed, Boots

\* Every step keeps the machine safe.
LEMMA NextSafe == ASSUME Survivable, SafeInv, [Next]_vars PROVE SafeInv'
<1>1. IInv' /\ TypeInv'
  BY NextIInv, NextTypes DEF SafeInv
<1>2. CASE \E v \in Version : BeginBurn(v)
  <2>1. PICK v \in Version : BeginBurn(v)
    BY <1>2
  <2>2. /\ mode' = "burn" /\ blk' = blk /\ allowed' = allowed \cup {v}
        /\ burn'.cur = 0 /\ burn'.step # "next"
    BY <2>1 DEF BeginBurn, NoBurn, FirstStep
  <2>3. OldGone'
    <3>1. PagesOf(allowed) \subseteq PagesOf(allowed')
      <4>1. allowed \subseteq allowed'
        BY <2>2
      <4> QED
        BY <4>1, MorePieces
    <3> QED
      BY <2>2, <3>1 DEF SafeInv, OldGone
  <2>4. Renewed'
    <3>1. \A b \in Blk : ~(b < 0)
      BY DEF Blk
    <3> QED
      BY <2>2, <3>1 DEF Renewed
  <2> QED
    BY <1>1, <2>2, <2>3, <2>4 DEF SafeInv, Boots
<1>3. CASE BurnStep
  <2>1. OldGone' /\ Renewed'
    BY <1>3, BurnStepSafe
  <2>2. mode' \in {"burn", "off"}
    BY <1>3 DEF BurnStep, ReadStatus, EraseBlock, EraseFails, ProgramPage, ProgramFails,
       VerifyBlock, GiveUpBlock, NextBlock, EndBurn, Burning
  <2> QED
    BY <1>1, <2>1, <2>2 DEF SafeInv, Boots
<1>4. CASE PowerOn
  <2>1. /\ mode = "off" /\ mode' = "load" /\ load' = NoLoad
        /\ UNCHANGED <<blk, worn, burn, allowed, cuts>>
    BY <1>4 DEF PowerOn
  <2>2. OldGone' /\ Renewed'
    BY <2>1 DEF SafeInv, OldGone, Renewed
  <2>3. Boots'
    <3>1. PICK b \in Blk \ worn : Whole(b)
      BY <2>1, OneIsWhole DEF SafeInv
    <3>2. Whole(b)' /\ b \in Blk \ worn'
      BY <2>1, <3>1 DEF Whole
    <3>3. load'.cur = 0 /\ b >= 0
      BY <2>1 DEF NoLoad, Blk
    <3>4. load' \in [cur : Blk, buf : BufOf(allowed')]
      BY <2>1, NoLoadTyped
    <3> QED
      BY <3>2, <3>3, <3>4 DEF Boots
  <2> QED
    BY <1>1, <2>1, <2>2, <2>3 DEF SafeInv
<1>5. CASE TryBlock
  <2>1. /\ mode = "load" /\ UNCHANGED <<blk, worn, burn, allowed, cuts>>
        /\ mode' \in {"up", "load"} /\ Boots'
    BY <1>5, TrySafe
  <2>2. OldGone' /\ Renewed'
    BY <2>1 DEF SafeInv, OldGone, Renewed
  <2> QED
    BY <1>1, <2>1, <2>2 DEF SafeInv
<1>6. CASE TurnOff
  <2>1. mode' = "off" /\ UNCHANGED <<blk, worn, burn, allowed, cuts>>
    BY <1>6 DEF TurnOff
  <2>2. OldGone' /\ Renewed' /\ Boots' /\ mode' # "fel"
    BY <2>1 DEF SafeInv, OldGone, Renewed, Boots
  <2> QED
    BY <1>1, <2>2 DEF SafeInv
<1>7. CASE PowerFails
  <2>1. mode = "burn" /\ mode' = "off" /\ allowed' = allowed
    BY <1>7 DEF PowerFails
  <2>2. /\ burn.cur \in Blk /\ blk \in [Blk -> Block(Version)] /\ OldGone
        /\ burn.ver \in Version
    BY <2>1 DEF SafeInv, TypeInv, BurnTyped, BurnPlace
  <2>3. ASSUME blk' = blk PROVE OldGone'
    BY <2>1, <2>3 DEF SafeInv, OldGone
  <2>4. ASSUME NEW pages, Torn(burn.cur, pages),
               pages = Page \/ blk[burn.cur].page \in PagesOf(allowed)
        PROVE  OldGone'
    <3> DEFINE b == burn.cur
    <3>1. b \in Blk
      BY <2>2
    <3>2. /\ blk'[b].page = [p \in Page |-> IF p \in pages THEN Garbage ELSE blk[b].page[p]]
          /\ \A c \in Blk : c # b => blk'[c] = blk[c]
      <4>1. Torn(b, pages)
        BY <2>4
      <4> HIDE DEF b
      <4> QED
        BY <2>2, <3>1, <4>1, TornChange
    <3>3. Garbage \in PieceOf(allowed)
      BY GarbageOf
    <3>4. blk'[b].page \in PagesOf(allowed)
      <4>1. CASE pages = Page
        BY <3>2, <3>3, <4>1 DEF PagesOf
      <4>2. CASE blk[b].page \in PagesOf(allowed)
        BY <3>2, <3>3, <4>2 DEF PagesOf
      <4> QED
        BY <2>4, <4>1, <4>2
    <3> HIDE DEF b
    <3> QED
      BY <2>1, <2>2, <3>1, <3>2, <3>4, OneBlockChanges
  <2>5. burn.step = "program" => blk[burn.cur].page \in PagesOf(allowed)
    <3>1. OneBlk(burn.ver)
      BY <2>2 DEF Survivable
    <3> QED
      BY <2>1, <2>2, <3>1 DEF SafeInv, IInv, Progress, Behind, Begun, OldGone
  <2>6. OldGone'
    <3>1. \/ blk' = blk \/ Torn(burn.cur, Page)
          \/ burn.step = "program" /\ Torn(burn.cur, {burn.at})
      BY <1>7 DEF PowerFails
    <3>2. CASE Torn(burn.cur, Page)
      BY <2>4, <3>2
    <3>3. CASE burn.step = "program" /\ Torn(burn.cur, {burn.at})
      BY <2>4, <2>5, <3>3
    <3> QED
      BY <2>3, <3>1, <3>2, <3>3
  <2> QED
    BY <1>1, <2>1, <2>6 DEF SafeInv, Renewed, Boots
<1>8. CASE UNCHANGED vars
  <2>1. /\ UNCHANGED <<blk, worn, mode, burn, load, allowed>>
    BY <1>8 DEF vars
  <2> QED
    BY <1>1, <2>1 DEF SafeInv, OldGone, Renewed, Boots, Whole
<1> QED
  BY <1>2, <1>3, <1>4, <1>5, <1>6, <1>7, <1>8 DEF Next, BurnStep

\* The version being burned stays the same.
LEMMA SameVersion ==
  ASSUME TypeInv, BurnStep, ~EndBurn PROVE burn'.ver = burn.ver
<1>1. BurnTyped
  BY DEF TypeInv
<1>2. CASE VerifyBlock
  <2> DEFINE s == IF burn.try + 1 < TOLERANCE THEN "erase" ELSE "scrap"
  <2>1. \/ burn' = [burn EXCEPT !.step = "scrap"]
        \/ burn' = [burn EXCEPT !.try = burn.try + 1, !.step = s]
    BY <1>2 DEF VerifyBlock
  <2> HIDE DEF s
  <2> QED
    BY <1>1, <2>1 DEF BurnTyped
<1>3. CASE NextBlock
  <2> DEFINE start == IF burn.off >= Len[burn.ver] THEN burn.cur + 1 ELSE burn.start
             off == IF burn.off >= Len[burn.ver] THEN 0 ELSE burn.off
             s == FirstStep(burn.ver)
  <2>1. burn' = [burn EXCEPT !.cur = burn.cur + 1, !.try = 0, !.at = 0,
                   !.step = s, !.start = start, !.off = off]
    BY <1>3 DEF NextBlock
  <2> HIDE DEF start, off, s
  <2> QED
    BY <1>1, <2>1 DEF BurnTyped
<1>4. CASE ReadStatus \/ EraseBlock \/ EraseFails \/ ProgramFails
  BY <1>1, <1>4 DEF ReadStatus, EraseBlock, EraseFails, ProgramFails, BurnTyped
<1>5. CASE ProgramPage \/ GiveUpBlock
  <2>1. burn' = AfterBlock(burn) \/ burn' = [burn EXCEPT !.at = burn.at + 1]
    BY <1>5 DEF ProgramPage, GiveUpBlock
  <2> QED
    BY <1>1, <2>1 DEF AfterBlock, BurnTyped
<1> QED
  BY <1>2, <1>3, <1>4, <1>5 DEF BurnStep

\* Burning a new boot1 is a safe update, when every image fits in a block, the
\* mark of a bad block can be relied on, and there are more blocks than can be
\* worn or lost to interruptions: every step of Nand_Burn_Boot1, of the loader
\* and of the power is a step of BootUpdate or changes nothing of it.  So what
\* a boot starts is a whole image of a version it may start, after a burn that
\* ended only the new one, and no boot ends in FEL.
THEOREM UpdatesSafe ==
  ASSUME Survivable
  PROVE  Spec => Update!UpdateInit /\ [][Update!UpdateNext]_(Update!updateVars)
<1>1. Init => SafeInv
  BY InitSafe
<1>2. SafeInv /\ [Next]_vars => SafeInv'
  BY NextSafe
<1>3. Init => Update!UpdateInit
  BY DEF Init, Update!UpdateInit, NoBurn
<1>4. SafeInv /\ SafeInv' /\ [Next]_vars => [Update!UpdateNext]_(Update!updateVars)
  <2> SUFFICES ASSUME SafeInv, SafeInv', [Next]_vars
               PROVE  Update!UpdateNext \/ UNCHANGED Update!updateVars
    OBVIOUS
  <2>1. CASE \E v \in Version : BeginBurn(v)
    <3>1. PICK v \in Version : BeginBurn(v)
      BY <2>1
    <3>2. mode = "off" /\ mode' = "burn" /\ burn'.ver = v /\ allowed' = allowed \cup {v}
      BY <3>1 DEF SafeInv, BeginBurn, NoBurn
    <3>3. Update!BeginBurn(v)
      BY <3>2 DEF Update!BeginBurn
    <3> QED
      BY <3>3 DEF Update!UpdateNext
  <2>2. CASE BurnStep
    <3>1. mode = "burn"
      BY <2>2 DEF BurnStep, ReadStatus, EraseBlock, EraseFails, ProgramPage,
         ProgramFails, VerifyBlock, GiveUpBlock, NextBlock, EndBurn, Burning
    <3>2. CASE EndBurn
      <4>1. mode' = "off" /\ burn' = NoBurn /\ allowed' = {burn.ver}
        BY <3>2 DEF EndBurn
      <4>2. Update!EndBurn
        BY <3>1, <4>1 DEF Update!EndBurn, NoBurn
      <4> QED
        BY <4>2 DEF Update!UpdateNext
    <3>3. CASE ~EndBurn
      <4>1. mode' = "burn" /\ allowed' = allowed
        BY <2>2, <3>1, <3>3 DEF BurnStep, ReadStatus, EraseBlock, EraseFails, ProgramPage,
           ProgramFails, VerifyBlock, GiveUpBlock, NextBlock
      <4>2. burn'.ver = burn.ver
        BY <2>2, <3>3, SameVersion DEF SafeInv
      <4>3. UNCHANGED Update!updateVars
        BY <3>1, <4>1, <4>2 DEF Update!updateVars
      <4> QED
        BY <4>3
    <3> QED
      BY <3>2, <3>3
  <2>3. CASE PowerOn
    <3>1. mode = "off" /\ mode' = "load" /\ UNCHANGED <<burn, allowed>>
      BY <2>3 DEF PowerOn
    <3>2. Update!PowerOn
      BY <3>1 DEF Update!PowerOn
    <3> QED
      BY <3>2 DEF Update!UpdateNext
  <2>4. CASE TryBlock
    <3>1. /\ mode = "load" /\ UNCHANGED <<burn, allowed>> /\ mode' \in {"up", "load"}
          /\ mode' = "up" => Started' \in allowed
      BY <2>4, TrySafe
    <3>2. CASE mode' = "load"
      <4>1. UNCHANGED Update!updateVars
        BY <3>1, <3>2 DEF Update!updateVars
      <4> QED
        BY <4>1
    <3>3. CASE mode' = "up"
      <4>1. Started' \in allowed /\ Started' \in Version
        BY <3>1, <3>3 DEF SafeInv, TypeInv
      <4>2. Update!Start(Started')
        BY <3>1, <3>3, <4>1 DEF Update!Start
      <4> QED
        BY <4>1, <4>2 DEF Update!UpdateNext
    <3> QED
      BY <3>1, <3>2, <3>3
  <2>5. CASE TurnOff \/ PowerFails
    <3>1. mode \in {"burn", "load", "up"} /\ mode' = "off" /\ allowed' = allowed
      BY <2>5 DEF SafeInv, TurnOff, PowerFails
    <3>2. burn' = NoBurn
      BY <3>1 DEF SafeInv, TypeInv, BurnPlace
    <3>3. Update!PowerOff
      BY <3>1, <3>2 DEF Update!PowerOff, NoBurn
    <3> QED
      BY <3>3 DEF Update!UpdateNext
  <2>6. CASE UNCHANGED vars
    <3>1. UNCHANGED Update!updateVars
      BY <2>6 DEF vars, Update!updateVars, Started
    <3> QED
      BY <3>1
  <2> QED
    BY <2>1, <2>2, <2>3, <2>4, <2>5, <2>6 DEF Next, BurnStep
<1> QED
  BY <1>1, <1>2, <1>3, <1>4, PTL DEF Spec
(***************************************************************************)
(* What starts, for images of any length.                                  *)
(***************************************************************************)
\* What starts is a whole image of a version that a boot may find, however many
\* burns of images of any length were interrupted or hurt before: the loader
\* takes no mixture of versions, and after a whole burn no older one.
StartsAllowed == mode = "up" => Started \in allowed

\* The blocks behind the burner have nothing of an older version, and neither
\* has the block it programs.
Replaced ==
  mode = "burn" =>
    /\ burn.ver \in allowed
    /\ \A b \in Blk : (b < burn.cur \/ (b = burn.cur /\ burn.step = "next")) =>
         (blk[b].bad \/ blk[b].page \in PagesOf({burn.ver}))
    /\ burn.step = "program" => blk[burn.cur].page \in PagesOf({burn.ver})

\* Neither has the buffer of the loader, and what started is allowed.
StartInv ==
  /\ TypeInv /\ OldGone /\ Replaced /\ StartsAllowed
  /\ mode = "load" => load \in [cur : Blk, buf : BufOf(allowed)]

\* The blocks behind the burner stay as they are.
LEMMA StillReplaced ==
  ASSUME Replaced, mode = "burn", allowed' = allowed,
         burn'.ver = burn.ver, burn'.cur = burn.cur, burn.cur \in Blk,
         \A c \in Blk : c # burn.cur => blk'[c] = blk[c],
         burn'.step = "next" =>
           blk'[burn.cur].bad \/ blk'[burn.cur].page \in PagesOf({burn.ver}),
         burn'.step = "program" => blk'[burn.cur].page \in PagesOf({burn.ver})
  PROVE  Replaced'
<1>1. \A c \in Blk : c < burn.cur => c # burn.cur
  BY DEF Blk
<1> QED
  BY <1>1 DEF Replaced

\* A step of a burn leaves no old version behind it.
LEMMA BurnStepReplaces ==
  ASSUME LostMarks = FALSE, TypeInv, OldGone, Replaced, BurnStep
  PROVE  OldGone' /\ Replaced'
<1>1. /\ mode = "burn" /\ blk \in [Blk -> Block(Version)] /\ BurnTyped /\ BurnPlace
  BY DEF TypeInv, BurnStep, ReadStatus, EraseBlock, EraseFails, ProgramPage,
     ProgramFails, VerifyBlock, GiveUpBlock, NextBlock, EndBurn, Burning
<1>2. burn.cur \in Blk /\ burn.at \in Page /\ burn.ver \in Version
  BY <1>1, AreaAssumption DEF BurnTyped, BurnPlace, Page
<1>3. /\ burn.ver \in allowed /\ allowed \subseteq Version
      /\ PagesOf({burn.ver}) \subseteq PagesOf(allowed)
  <2>1. burn.ver \in allowed /\ {burn.ver} \subseteq allowed
    BY <1>1 DEF Replaced
  <2> QED
    BY <2>1, MorePieces DEF TypeInv
<1>4. \A A : AllPages(Blank) \in PagesOf(A) /\ AllPages(Garbage) \in PagesOf(A)
  BY NoPages
<1>5. CASE ReadStatus
  <2>1. PICK bad \in {blk[burn.cur].bad} :
          burn' = [burn EXCEPT !.step = IF bad THEN "next" ELSE "erase"]
    BY <1>5 DEF ReadStatus, SeesBad
  <2> DEFINE s == IF bad THEN "next" ELSE "erase"
  <2>2. burn' = [burn EXCEPT !.step = s] /\ UNCHANGED <<blk, allowed>>
    BY <1>5, <2>1 DEF ReadStatus
  <2>3. s # "program" /\ (s = "next" => blk[burn.cur].bad)
    BY <2>1
  <2> HIDE DEF s
  <2>4. burn'.ver = burn.ver /\ burn'.cur = burn.cur /\ burn'.step = s
    BY <1>1, <2>2 DEF BurnTyped
  <2>5. Replaced'
    BY <1>1, <1>2, <2>2, <2>3, <2>4, StillReplaced
  <2> QED
    BY <2>2, <2>5 DEF OldGone
<1>6. CASE EraseBlock
  <2>1. /\ blk' = [blk EXCEPT ![burn.cur] = [page |-> AllPages(Blank), bad |-> FALSE]]
        /\ burn' = [burn EXCEPT !.step = "program", !.at = 0] /\ allowed' = allowed
    BY <1>6 DEF EraseBlock
  <2>2. /\ blk'[burn.cur] = [page |-> AllPages(Blank), bad |-> FALSE]
        /\ \A c \in Blk : c # burn.cur => blk'[c] = blk[c]
    BY <1>1, <1>2, <2>1
  <2>3. burn'.ver = burn.ver /\ burn'.cur = burn.cur /\ burn'.step = "program"
    BY <1>1, <2>1 DEF BurnTyped
  <2> QED
    BY <1>1, <1>2, <1>4, <2>1, <2>2, <2>3, OneBlockChanges, StillReplaced
<1>7. CASE EraseFails \/ VerifyBlock
  <2>1. /\ blk' = blk \/ blk' = [blk EXCEPT ![burn.cur].page = AllPages(Garbage)]
        /\ allowed' = allowed
    BY <1>7 DEF EraseFails, VerifyBlock
  <2>2. /\ ~blk'[burn.cur].bad => blk'[burn.cur].page \in PagesOf(allowed)
        /\ \A c \in Blk : c # burn.cur => blk'[c] = blk[c]
    <3>1. CASE blk' = blk
      BY <1>1, <1>2, <3>1 DEF OldGone
    <3>2. CASE blk' = [blk EXCEPT ![burn.cur].page = AllPages(Garbage)]
      <4>1. /\ blk'[burn.cur] = [page |-> AllPages(Garbage), bad |-> blk[burn.cur].bad]
            /\ \A c \in Blk : c # burn.cur => blk'[c] = blk[c]
        BY <1>1, <1>2, <1>4, <3>2, PagesChange
      <4> QED
        BY <1>4, <4>1
    <3> QED
      BY <2>1, <3>1, <3>2
  <2>3. /\ burn'.ver = burn.ver /\ burn'.cur = burn.cur
        /\ burn'.step # "next" /\ burn'.step # "program"
    <3>1. CASE EraseFails
      BY <1>1, <3>1 DEF EraseFails, BurnTyped
    <3>2. CASE VerifyBlock
      <4> DEFINE s == IF burn.try + 1 < TOLERANCE THEN "erase" ELSE "scrap"
      <4>1. \/ burn' = [burn EXCEPT !.step = "scrap"]
            \/ burn' = [burn EXCEPT !.try = burn.try + 1, !.step = s]
        BY <3>2 DEF VerifyBlock
      <4>2. s # "next" /\ s # "program"
        OBVIOUS
      <4> HIDE DEF s
      <4> QED
        BY <1>1, <4>1, <4>2 DEF BurnTyped
    <3> QED
      BY <1>7, <3>1, <3>2
  <2> QED
    BY <1>1, <1>2, <2>1, <2>2, <2>3, OneBlockChanges, StillReplaced
<1>8. ASSUME NEW piece \in PieceOf({burn.ver}), burn.step = "program",
             blk' = [blk EXCEPT ![burn.cur].page[burn.at] = piece]
      PROVE  /\ blk'[burn.cur].page \in PagesOf({burn.ver})
             /\ \A c \in Blk : c # burn.cur => blk'[c] = blk[c]
  <2> DEFINE ps == [blk[burn.cur].page EXCEPT ![burn.at] = piece]
  <2>1. ps \in PagesOf({burn.ver})
    <3>1. blk[burn.cur].page \in PagesOf({burn.ver})
      BY <1>1, <1>8 DEF Replaced
    <3> QED
      BY <1>2, <1>8, <3>1 DEF PagesOf
  <2>2. blk' = [blk EXCEPT ![burn.cur].page = ps]
    BY <1>8, Zenon
  <2> HIDE DEF ps
  <2>3. ps \in PagesOf(Version)
    <3>1. {burn.ver} \subseteq Version
      BY <1>2
    <3> QED
      BY <2>1, <3>1, MorePieces
  <2>4. /\ blk'[burn.cur] = [page |-> ps, bad |-> blk[burn.cur].bad]
        /\ \A c \in Blk : c # burn.cur => blk'[c] = blk[c]
    BY <1>1, <1>2, <2>2, <2>3, PagesChange
  <2> QED
    BY <2>1, <2>4
<1>9. CASE ProgramPage
  <2>1. burn.step = "program" /\ allowed' = allowed
    BY <1>9 DEF ProgramPage, Burning
  <2>2. burn.off \in Nat /\ burn.off < Len[burn.ver] /\ burn.at \in Nat
    BY <1>1, <1>2, <2>1, LongEnough DEF BurnTyped, BurnPlace, Page
  <2>3. ThisPage \in PieceOf({burn.ver})
    BY <1>2, <2>2, PieceTyped DEF ThisPage
  <2>4. blk' = [blk EXCEPT ![burn.cur].page[burn.at] = ThisPage]
    BY <1>9 DEF ProgramPage
  <2>5. /\ blk'[burn.cur].page \in PagesOf({burn.ver})
        /\ \A c \in Blk : c # burn.cur => blk'[c] = blk[c]
    BY <1>8, <2>1, <2>3, <2>4
  <2>6. burn'.ver = burn.ver /\ burn'.cur = burn.cur
    <3>1. burn' = AfterBlock(burn) \/ burn' = [burn EXCEPT !.at = burn.at + 1]
      BY <1>9 DEF ProgramPage
    <3> QED
      BY <1>1, <3>1 DEF AfterBlock, BurnTyped
  <2> QED
    BY <1>1, <1>2, <1>3, <2>1, <2>5, <2>6, OneBlockChanges, StillReplaced
<1>10. CASE ProgramFails
  <2>1. /\ burn.step = "program" /\ allowed' = allowed
        /\ burn' = [burn EXCEPT !.step = "verify"]
        /\ blk' = [blk EXCEPT ![burn.cur].page[burn.at] = Garbage]
    BY <1>10 DEF ProgramFails, Burning
  <2>2. Garbage \in PieceOf({burn.ver})
    BY GarbageOf
  <2>3. /\ blk'[burn.cur].page \in PagesOf({burn.ver})
        /\ \A c \in Blk : c # burn.cur => blk'[c] = blk[c]
    BY <1>8, <2>1, <2>2
  <2>4. burn'.ver = burn.ver /\ burn'.cur = burn.cur /\ burn'.step = "verify"
    BY <1>1, <2>1 DEF BurnTyped
  <2> QED
    BY <1>1, <1>2, <1>3, <2>1, <2>3, <2>4, OneBlockChanges, StillReplaced
<1>11. CASE GiveUpBlock
  <2>1. \/ blk' = [blk EXCEPT ![burn.cur].bad = TRUE]
        \/ blk' = [blk EXCEPT ![burn.cur] = [page |-> AllPages(Blank), bad |-> TRUE]]
    BY <1>11 DEF GiveUpBlock
  <2>2. blk'[burn.cur].bad /\ \A c \in Blk : c # burn.cur => blk'[c] = blk[c]
    <3>1. CASE blk' = [blk EXCEPT ![burn.cur].bad = TRUE]
      BY <1>1, <1>2, <3>1, MarkChange
    <3>2. CASE blk' = [blk EXCEPT ![burn.cur] = [page |-> AllPages(Blank), bad |-> TRUE]]
      BY <1>1, <1>2, <3>2
    <3> QED
      BY <2>1, <3>1, <3>2
  <2>3. /\ allowed' = allowed /\ burn'.ver = burn.ver /\ burn'.cur = burn.cur
        /\ burn'.step = "next"
    BY <1>1, <1>11 DEF GiveUpBlock, BurnTyped, AfterBlock
  <2> QED
    BY <1>1, <1>2, <2>2, <2>3, OneBlockChanges, StillReplaced
<1>12. CASE NextBlock
  <2>1. UNCHANGED <<blk, allowed, mode>> /\ burn.step = "next"
    BY <1>12 DEF NextBlock, Burning
  <2>2. /\ burn'.ver = burn.ver /\ burn'.cur = burn.cur + 1
        /\ burn'.step # "next" /\ burn'.step # "program"
    <3> DEFINE start == IF burn.off >= Len[burn.ver] THEN burn.cur + 1 ELSE burn.start
               off == IF burn.off >= Len[burn.ver] THEN 0 ELSE burn.off
               s == FirstStep(burn.ver)
    <3>1. burn' = [burn EXCEPT !.cur = burn.cur + 1, !.try = 0, !.at = 0,
                     !.step = s, !.start = start, !.off = off]
      BY <1>12 DEF NextBlock
    <3>2. s # "next" /\ s # "program"
      BY DEF FirstStep
    <3> HIDE DEF start, off, s
    <3> QED
      BY <1>1, <3>1, <3>2 DEF BurnTyped
  <2>3. \A c \in Blk : c < burn.cur + 1 => (c < burn.cur \/ c = burn.cur)
    BY <1>2 DEF Blk
  <2>4. Replaced'
    BY <1>1, <2>1, <2>2, <2>3 DEF Replaced
  <2> QED
    BY <2>1, <2>4 DEF OldGone
<1>13. CASE EndBurn
  <2>1. /\ mode' = "off" /\ allowed' = {burn.ver} /\ blk' = blk
        /\ burn.step = "next" /\ burn.cur = BlkCnt - 1
    BY <1>13 DEF EndBurn, Burning
  <2>2. \A c \in Blk : c < burn.cur \/ c = burn.cur
    BY <2>1, AreaAssumption DEF Blk
  <2>3. \A c \in Blk : blk[c].bad \/ blk[c].page \in PagesOf({burn.ver})
    BY <1>1, <2>1, <2>2 DEF Replaced
  <2> QED
    BY <2>1, <2>3 DEF OldGone, Replaced
<1> QED
  BY <1>5, <1>6, <1>7, <1>9, <1>10, <1>11, <1>12, <1>13 DEF BurnStep

\* Power that fails during a burn leaves pieces of an image or garbage.
LEMMA CutLeavesPieces ==
  ASSUME TypeInv, OldGone, Replaced, PowerFails PROVE OldGone'
<1>1. /\ mode = "burn" /\ allowed' = allowed
      /\ \/ blk' = blk \/ Torn(burn.cur, Page)
         \/ burn.step = "program" /\ Torn(burn.cur, {burn.at})
  BY DEF PowerFails
<1>2. burn.cur \in Blk /\ blk \in [Blk -> Block(Version)] /\ burn.ver \in allowed
  BY <1>1 DEF TypeInv, BurnTyped, Replaced
<1>3. CASE blk' = blk
  BY <1>1, <1>3 DEF OldGone
<1>4. ASSUME NEW pages, Torn(burn.cur, pages),
             pages = Page \/ blk[burn.cur].page \in PagesOf(allowed)
      PROVE  OldGone'
  <2> DEFINE b == burn.cur
  <2>1. b \in Blk
    BY <1>2
  <2>2. /\ blk'[b].page = [p \in Page |-> IF p \in pages THEN Garbage ELSE blk[b].page[p]]
        /\ \A c \in Blk : c # b => blk'[c] = blk[c]
    <3>1. Torn(b, pages)
      BY <1>4
    <3> HIDE DEF b
    <3> QED
      BY <1>2, <2>1, <3>1, TornChange
  <2>3. Garbage \in PieceOf(allowed)
    BY GarbageOf
  <2>4. blk'[b].page \in PagesOf(allowed)
    <3>1. CASE pages = Page
      BY <2>2, <2>3, <3>1 DEF PagesOf
    <3>2. CASE blk[b].page \in PagesOf(allowed)
      BY <2>2, <2>3, <3>2 DEF PagesOf
    <3> QED
      BY <1>4, <3>1, <3>2
  <2> HIDE DEF b
  <2> QED
    BY <1>1, <2>1, <2>2, <2>4, OneBlockChanges
<1>5. burn.step = "program" => blk[burn.cur].page \in PagesOf(allowed)
  <2>1. {burn.ver} \subseteq allowed
    BY <1>2
  <2>2. PagesOf({burn.ver}) \subseteq PagesOf(allowed)
    BY <2>1, MorePieces
  <2> QED
    BY <1>1, <2>2 DEF Replaced
<1>6. CASE Torn(burn.cur, Page)
  BY <1>4, <1>6
<1>7. CASE burn.step = "program" /\ Torn(burn.cur, {burn.at})
  BY <1>4, <1>5, <1>7
<1> QED
  BY <1>1, <1>3, <1>6, <1>7

\* A try that starts an image starts one that is allowed.
LEMMA TryAllowed ==
  ASSUME LostMarks = FALSE, StartInv, TryBlock
  PROVE  /\ UNCHANGED <<blk, allowed>> /\ mode' # "burn"
         /\ load' \in [cur : Blk, buf : BufOf(allowed)]
         /\ mode' = "up" => Started' \in allowed
<1>1. mode = "load" /\ UNCHANGED <<blk, worn, burn, allowed, cuts>>
  BY TryMeans
<1>2. PICK sees \in [Blk -> BOOLEAN], l \in SUBSET Page, how \in {"ecc", "error"} :
        Tried(sees, l, how)
  BY TryMeans
<1>3. load \in [cur : Blk, buf : BufOf(allowed)] /\ allowed \in SUBSET Version
  BY <1>1 DEF StartInv, TypeInv
<1>4. SeenIn(allowed)
  BY DEF StartInv, OldGone, SeenIn, SeesBad
<1>5. load' \in [cur : Blk, buf : BufOf(allowed)]
  BY <1>2, <1>3, <1>4, TryTyped
<1>6. mode' # "burn" /\ (mode' = "up" => CheckFile(load'.buf, SizeOf(l, how)))
  BY <1>2 DEF Tried, Passes
<1> QED
  BY <1>1, <1>3, <1>5, <1>6, StartedIs

\* The first state has one version.
LEMMA InitStart == ASSUME Init PROVE StartInv
<1>1. PICK v \in Version : blk = Layout(v) /\ allowed = {v}
  BY DEF Init
<1>2. OldGone
  <2> SUFFICES ASSUME NEW b \in Blk PROVE Layout(v)[b].page \in PagesOf({v})
    BY <1>1 DEF OldGone
  <2> DEFINE off == (b % BlksPerCopy(v)) * PageCnt
  <2>1. off \in Nat /\ off < Len[v]
    BY LayoutOffset
  <2>2. Layout(v)[b].page = Fill(v, off)
    BY DEF Layout
  <2> HIDE DEF off
  <2> QED
    BY <2>1, <2>2, FillTyped
<1>3. mode = "off"
  BY DEF Init
<1> QED
  BY <1>2, <1>3, InitTypes DEF StartInv, Replaced, StartsAllowed

\* Every step keeps it so.
LEMMA NextStart == ASSUME LostMarks = FALSE, StartInv, [Next]_vars PROVE StartInv'
<1>0. TypeInv /\ TypeInv' /\ OldGone /\ Replaced
  BY NextTypes DEF StartInv
<1>1. CASE \E v \in Version : BeginBurn(v)
  <2>1. PICK v \in Version : BeginBurn(v)
    BY <1>1
  <2>2. /\ mode' = "burn" /\ blk' = blk /\ allowed' = allowed \cup {v}
        /\ burn'.ver = v /\ burn'.cur = 0
        /\ burn'.step # "next" /\ burn'.step # "program"
    BY <2>1 DEF BeginBurn, NoBurn, FirstStep
  <2>3. OldGone'
    <3>1. allowed \subseteq allowed'
      BY <2>2
    <3>2. PagesOf(allowed) \subseteq PagesOf(allowed')
      BY <3>1, MorePieces
    <3> QED
      BY <1>0, <2>2, <3>2 DEF OldGone
  <2>4. Replaced'
    <3>1. \A b \in Blk : ~(b < 0)
      BY DEF Blk
    <3> QED
      BY <2>2, <3>1 DEF Replaced
  <2> QED
    BY <1>0, <2>2, <2>3, <2>4 DEF StartInv, StartsAllowed
<1>2. CASE BurnStep
  <2>1. OldGone' /\ Replaced'
    BY <1>0, <1>2, BurnStepReplaces
  <2>2. mode' \in {"burn", "off"}
    BY <1>2 DEF BurnStep, ReadStatus, EraseBlock, EraseFails, ProgramPage, ProgramFails,
       VerifyBlock, GiveUpBlock, NextBlock, EndBurn, Burning
  <2> QED
    BY <1>0, <2>1, <2>2 DEF StartInv, StartsAllowed
<1>3. CASE PowerOn
  <2>1. mode' = "load" /\ load' = NoLoad /\ UNCHANGED <<blk, allowed>>
    BY <1>3 DEF PowerOn
  <2> QED
    BY <1>0, <2>1, NoLoadTyped DEF StartInv, StartsAllowed, OldGone, Replaced
<1>4. CASE TryBlock
  <2>1. /\ UNCHANGED <<blk, allowed>> /\ mode' # "burn"
        /\ load' \in [cur : Blk, buf : BufOf(allowed)]
        /\ mode' = "up" => Started' \in allowed
    BY <1>4, TryAllowed
  <2> QED
    BY <1>0, <2>1 DEF StartInv, StartsAllowed, OldGone, Replaced
<1>5. CASE TurnOff
  <2>1. mode' = "off" /\ UNCHANGED <<blk, allowed>>
    BY <1>5 DEF TurnOff
  <2> QED
    BY <1>0, <2>1 DEF StartInv, StartsAllowed, OldGone, Replaced
<1>6. CASE PowerFails
  <2>1. mode' = "off"
    BY <1>6 DEF PowerFails
  <2>2. OldGone'
    BY <1>0, <1>6, CutLeavesPieces
  <2> QED
    BY <1>0, <2>1, <2>2 DEF StartInv, StartsAllowed, Replaced
<1>7. CASE UNCHANGED vars
  <2>1. UNCHANGED <<blk, mode, burn, load, allowed>>
    BY <1>7 DEF vars
  <2> QED
    BY <1>0, <2>1 DEF StartInv, StartsAllowed, Started, OldGone, Replaced
<1> QED
  BY <1>1, <1>2, <1>3, <1>4, <1>5, <1>6, <1>7 DEF Next, BurnStep

\* What starts is a whole image of a version that may start, for images of any
\* length, any blocks that wear and any number of interrupted burns, if the
\* mark of a worn block can be relied on: burner and loader never let an older
\* version, or a mixture, come up after a whole burn.
THEOREM OnlyAllowedStarts ==
  ASSUME LostMarks = FALSE PROVE Spec => []StartsAllowed
<1>1. Init => StartInv
  BY InitStart
<1>2. StartInv /\ [Next]_vars => StartInv'
  BY NextStart
<1>3. StartInv => StartsAllowed
  BY DEF StartInv
<1> QED
  BY <1>1, <1>2, <1>3, PTL DEF Spec
=============================================================================
