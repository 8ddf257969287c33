----------------------------- MODULE MCBootRace -----------------------------
(***************************************************************************)
(* The shell's instance, with one key during shell_init.                   *)
(***************************************************************************)
EXTENDS BootRace

MCLetters == {"e", "c", " "}

MCGraphic == MCLetters \cup {"t", ">"}

MCEcho == <<"e">>

MCHelp == <<"c", "c">>

MCClear == <<"c">>
=============================================================================
