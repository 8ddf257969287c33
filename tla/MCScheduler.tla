----------------------------- MODULE MCScheduler ----------------------------
(***************************************************************************)
(* Three slots and three stacks: the table and the heap both run full, and *)
(* freed slots and stacks are reused.                                      *)
(***************************************************************************)
EXTENDS Scheduler

CONSTANTS s1, s2, s3

MCStacks == {s1, s2, s3}
=============================================================================
