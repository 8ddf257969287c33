---------------------------- MODULE MCInodeCache ----------------------------
(***************************************************************************)
(* Two slots for three inodes, two direct pointers, block 0: it is what    *)
(* block_allocate always returns, and what an unwritten slot contains.     *)
(* ref_count and block_count wrap at 3.                                    *)
(***************************************************************************)
EXTENDS InodeCache

MCBlockNums == {0}
=============================================================================
