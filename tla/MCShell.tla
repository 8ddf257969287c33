------------------------------ MODULE MCShell -------------------------------
(***************************************************************************)
(* A screen of six rows of three cells, which the banner and a prompt      *)
(* leave two rows of, lines of up to four characters, two commands of      *)
(* history, and any MaxKeys keys.                                          *)
(***************************************************************************)
EXTENDS Shell

CONSTANT MaxKeys    \* bound on the number of keys

VARIABLE keys

MCLetters == {"e", "c", " "}

MCGraphic == MCLetters \cup {"t", ">"}

MCEcho == <<"e">>

MCHelp == <<"c", "c">>

MCClear == <<"c">>

MCInit == Init /\ keys = 0

Key == keys < MaxKeys /\ keys' = keys + 1 /\ Next

\* The bound is reached.
Stop == keys = MaxKeys /\ UNCHANGED <<vars, keys>>

MCNext == Key \/ Stop

MCSpec == MCInit /\ [][MCNext]_<<vars, keys>>
=============================================================================
