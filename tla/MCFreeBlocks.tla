--------------------------- MODULE MCFreeBlocks ---------------------------
(* Model-checking instance of the free tree: eleven blocks, some of a size. *)
EXTENDS FreeBlocks

Sizes == <<1, 2, 2, 3, 4, 4, 4, 5, 6, 6, 7>>

MCNode == DOMAIN Sizes
==========================================================================
