-------------------------------- MODULE MCFs --------------------------------
(***************************************************************************)
(* Three inodes besides the root, two open files: both tables run full.    *)
(* The larger size is the one whose buffer, a byte longer, wraps to zero.  *)
(***************************************************************************)
EXTENDS Fs

MCSizes == {1, 2}
=============================================================================
