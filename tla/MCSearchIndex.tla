---------------------------- MODULE MCSearchIndex ----------------------------
(* A small instance of SearchIndex; the .cfg gives the rest. *)
EXTENDS SearchIndex

\* A simple product, one with two variations, the second without a price, and
\* one with three, which is more than a page holds.
MCVariations == [p \in Product |-> IF p = "cuff" THEN 3 ELSE IF p = "band" THEN 2 ELSE 0]
MCNoPrice == {<<"band", 2>>}
=============================================================================
