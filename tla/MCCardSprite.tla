---------------------------- MODULE MCCardSprite ----------------------------
(* Small images for CardSprite: lengths are scaled down, their order is not. *)
EXTENDS CardSprite

Chunks(seq) ==
  LET n == Len(seq)
      InImage(c) == IF c[1] = "raw" THEN c[2] ELSE IF c[1] = "other" THEN 4 ELSE 0
      head[i \in 1 .. n + 1] ==
        IF i = 1 THEN HeadLen ELSE head[i - 1] + ChunkLen + InImage(seq[i - 1])
      dest[i \in 1 .. n + 1] == IF i = 1 THEN 0 ELSE dest[i - 1] + seq[i - 1][2]
  IN [sparse |-> TRUE, total |-> head[n + 1], n |-> n,
      type |-> [i \in 1 .. n |-> seq[i][1]], sized |-> [i \in 1 .. n |-> TRUE],
      len |-> [i \in 1 .. n |-> seq[i][2]], head |-> head, dest |-> dest]
Plain(len) ==
  [sparse |-> FALSE, total |-> len, n |-> 0, type |-> <<>>, sized |-> <<>>,
   len |-> <<>>, head |-> <<HeadLen>>, dest |-> <<0>>]

MCLayout ==
  [system |-> Chunks(<<<<"raw", 4>>, <<"dont_care", 4>>, <<"raw", 24>>,
                       <<"raw", 0>>, <<"raw", 12>>>>),
   data |-> Chunks(<<<<"raw", 8>>, <<"other", 4>>, <<"raw", 4>>>>),
   boot |-> Plain(13), env |-> Plain(8), mbr |-> Plain(4)]
MCImage == DOMAIN MCLayout
Part(i, s, e, v) == [img |-> i, at |-> s, env |-> e, verify |-> v]
MCLists ==
  {<<Part("boot", 50, FALSE, TRUE), Part("system", 4, FALSE, TRUE)>>,
   <<Part("env", 50, TRUE, TRUE), Part("system", 6, FALSE, FALSE)>>}
=============================================================================
