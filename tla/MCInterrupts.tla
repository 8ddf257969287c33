---------------------------- MODULE MCInterrupts ----------------------------
(***************************************************************************)
(* The timer, the keyboard and one device nobody serves (6, the floppy     *)
(* controller the BIOS may have left active); a divide error and a page    *)
(* fault as exceptions.                                                    *)
(***************************************************************************)
EXTENDS Interrupts

MCLines == {0, 1, 6}

MCFaults == {0, 14}
=============================================================================
