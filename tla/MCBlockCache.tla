---------------------------- MODULE MCBlockCache ----------------------------
(***************************************************************************)
(* Two cache slots for three blocks, the last of them behind the storage;  *)
(* ref_count wraps at 3.                                                   *)
(***************************************************************************)
EXTENDS BlockCache

MCContents == {"x", "y"}
=============================================================================
