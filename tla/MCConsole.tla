----------------------------- MODULE MCConsole ------------------------------
(***************************************************************************)
(* Two terminals of three rows and two columns, a ring of four lines (one  *)
(* clear_screen saves three), and any MaxCalls calls.                      *)
(***************************************************************************)
EXTENDS Console

CONSTANT MaxCalls   \* bound on the number of calls

VARIABLE calls

MCGraphic == {" ", "x"}

MCInit == Init /\ calls = 0

Call == calls < MaxCalls /\ calls' = calls + 1 /\ Next

\* The bound is reached.
Stop == calls = MaxCalls /\ UNCHANGED <<con, calls>>

MCNext == Call \/ Stop

MCSpec == MCInit /\ [][MCNext]_<<con, calls>>
=============================================================================
