---------------------------- MODULE MCBlockList ----------------------------
(* Model-checking instance of the allocator's blocks. *)
EXTENDS BlockList

(* One request that rounds up to the smallest block, one that needs no     *)
(* padding and one that does: blocks of 40, 64 and 128 bytes.              *)
SmallAndLarge == {20, 48, 110}
===========================================================================
