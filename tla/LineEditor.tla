----------------------------- MODULE LineEditor -----------------------------
(***************************************************************************)
(* What the shell's input line promises: a text with a cursor in it, that  *)
(* is edited at the cursor, submitted, and replaced by lines from a log of *)
(* the lines submitted before.                                             *)
(*                                                                         *)
(* The draft is the line that was left for the log.  Two things about it   *)
(* follow the code rather than a wish: a step towards newer lines ends at  *)
(* the draft even when no line was left for the log, and on an empty line  *)
(* the draft may be the beginning of the last line submitted.              *)
(***************************************************************************)
EXTENDS Integers, Sequences, SequencesExt

CONSTANTS
  Letters,
  MaxText,      \* the longest text
  MaxLog        \* the lines the log keeps

VARIABLES text, at, log, draft, last

vars == <<text, at, log, draft, last>>

Init == text = <<>> /\ at = 0 /\ log = <<>> /\ draft = <<>> /\ last = <<>>

Insert(c) ==
  /\ Len(text) < MaxText
  /\ text' = InsertAt(text, at + 1, c)
  /\ at' = at + 1
  /\ UNCHANGED <<log, draft, last>>

EraseBefore ==
  /\ at > 0
  /\ text' = RemoveAt(text, at)
  /\ at' = at - 1
  /\ UNCHANGED <<log, draft, last>>

EraseAt ==
  /\ at < Len(text)
  /\ text' = RemoveAt(text, at + 1)
  /\ UNCHANGED <<at, log, draft, last>>

Move ==
  /\ at' \in 0 .. Len(text)
  /\ UNCHANGED <<text, log, draft, last>>

\* The log with one more line: a repeated line is kept once, and only the
\* newest MaxLog lines stay.
Logged(line) ==
  IF log # <<>> /\ Last(log) = line THEN log
  ELSE LET all == Append(log, line)
       IN  IF Len(all) > MaxLog THEN Tail(all) ELSE all

Submit ==
  /\ text # <<>>
  /\ log' = Logged(text)
  /\ last' = text
  /\ text' = <<>>
  /\ at' = 0
  /\ UNCHANGED draft

Recall ==
  /\ log # <<>>
  /\ \/ text' \in ToSet(log) /\ draft' = draft
     \/ text' \in ToSet(log) /\ draft' = text
     \/ text' \in ToSet(log) /\ text = <<>> /\ draft' \in Prefixes(last)
     \/ text' = draft /\ draft' = draft
  /\ at' = Len(text')
  /\ UNCHANGED <<log, last>>

Next == (\E c \in Letters : Insert(c)) \/ EraseBefore \/ EraseAt \/ Move \/ Submit \/ Recall

Spec == Init /\ [][Next]_vars
=============================================================================
