---------------------------- MODULE MCBootCopies ----------------------------
(* Small instances of BootCopies for TLC. *)
EXTENDS BootCopies

\* Images with two copies to a block, with one, and of two blocks.
MixedLen ==
  [v \in Version |-> CASE v = "half" -> 1 [] v = "one" -> PageCnt
                       [] v = "two" -> 2 * PageCnt - 1]

\* Bound: one interruption, no failing block and no page that looks like a bad
\* block mark while an image of two blocks may be in the area.
SmallIfHurt ==
  (worn # {} \/ cuts > 1 \/ \E b \in Blk : blk[b].bad) =>
    \A v \in allowed : OneBlk(v)
=============================================================================
