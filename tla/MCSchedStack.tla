---------------------------- MODULE MCSchedStack ----------------------------
(***************************************************************************)
(* Two processes with one-word frames on two stacks.                       *)
(***************************************************************************)
EXTENDS SchedStack

CONSTANTS s1, s2

MCStacks == {s1, s2}
=============================================================================
