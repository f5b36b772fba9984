-------------------------------- MODULE MCFtl --------------------------------
(* Small instances of Ftl for TLC. *)
EXTENDS Ftl

AnyPage == LogicBlk \X Page
AnyAge == 0 .. AgeCnt - 1
FirstAges == {0, 1}
\* Enough pages of one logical block to fill a log block in and out of order.
ThreePages == {0} \X {0, 1, 3}
\* Two logical blocks whose page maps compete for one cache entry.
TwoAndOne == {<<0, 0>>, <<0, 1>>, <<1, 0>>}

\* What tmpBlkErase can hold: 0xffff only, or the number of a block too.
NoStackBlk == {None}
SomeStackBlk == Blk \cup {None}
=============================================================================
