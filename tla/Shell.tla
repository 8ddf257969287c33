------------------------------- MODULE Shell --------------------------------
(***************************************************************************)
(* The kernel shell of src/src/kernel/shell.c on the console, driven by    *)
(* the keyboard handler of src/src/kernel/keyboard.c.                      *)
(*                                                                         *)
(* Each key is handled inside its interrupt with interrupts off, and once  *)
(* shell_init is through the kernel only halts between interrupts, so one  *)
(* key is one step.  Fixed texts (the banner, the help, the error report)  *)
(* are a cell "t" per line, the prompt a cell ">", and the names of the    *)
(* commands are constants.                                                 *)
(***************************************************************************)
EXTENDS ConsoleState, FiniteSetsExt, SequencesExt

CONSTANTS
  MAX_CMD_LEN, MAX_ARGS, MAX_CMD_HISTORY,
  Letters,                        \* the characters typed, the blank included
  EchoName, HelpName, ClearName   \* the names in commands[]

ASSUME ShellAssumption ==
  /\ MAX_CMD_LEN \in Nat /\ MAX_CMD_LEN >= 2
  /\ MAX_ARGS \in Nat /\ MAX_ARGS >= 2
  /\ MAX_CMD_HISTORY \in Nat \ {0}
  /\ Letters \cup {"t", ">"} \subseteq Graphic
  /\ {EchoName, HelpName, ClearName} \subseteq Seq(Letters \ {Blank})

VARIABLES con, sh

vars == <<con, sh>>

Prompt == <<">">>

Banner == <<"t", "LF", "t", "LF", "t", "LF", "LF">>

HelpText == <<"t", "LF", "t", "LF", "t", "LF", "t", "LF">>

Unknown(word) == <<"t">> \o word \o <<"LF", "t", "LF">>

\* The state after shell_init.
Init ==
  /\ con = print_str(clear_screen(clear_screen(PowerOn)), Banner \o Prompt)
  /\ sh = [cmd_buffer |-> [i \in 0 .. (MAX_CMD_LEN - 1) |-> "nul"],
           cmd_pos |-> 0,
           cursor_pos |-> 0,
           cmd_history |-> <<>>,
           history_current |-> -1,
           saved_cmd |-> <<>>,
           last |-> <<>>,        \* ghost: the last line entered
           argv |-> <<>>]        \* ghost: the arguments it was given

-----------------------------------------------------------------------------
(***************************************************************************)
(* C strings                                                               *)
(***************************************************************************)
\* The string that starts at index i of buf: up to the next NUL.
StringAt(buf, i) ==
  LET end == Min({j \in DOMAIN buf : j >= i /\ buf[j] = "nul"})
  IN  [n \in 1 .. (end - i) |-> buf[i + n - 1]]

\* str_copy(buf, str): the string and its NUL.
str_copy(buf, str) ==
  [i \in DOMAIN buf |-> IF i < Len(str) THEN str[i + 1]
                        ELSE IF i = Len(str) THEN "nul" ELSE buf[i]]

-----------------------------------------------------------------------------
(***************************************************************************)
(* Console calls made in a loop                                            *)
(***************************************************************************)
LeftBy(k, n) ==
  LET after[i \in 0 .. n] == IF i = 0 THEN k ELSE move_cursor_left(after[i - 1])
  IN  after[n]

RightBy(k, n) ==
  LET after[i \in 0 .. n] == IF i = 0 THEN k ELSE move_cursor_right(after[i - 1])
  IN  after[n]

Blanks(n) == [i \in 1 .. n |-> Blank]

\* Mutant of redraw_from_cursor: no blank over the character that is gone.
RedrawNoBlank(k, s) ==
  LET rest == IF s.cursor_pos < s.cmd_pos THEN StringAt(s.cmd_buffer, s.cursor_pos) ELSE <<>>
  IN  LeftBy(print_str(k, rest), s.cmd_pos - s.cursor_pos)

\* The rest of the line of s and a blank, and back.
redraw_from_cursor(k, s) ==
  LET rest == IF s.cursor_pos < s.cmd_pos THEN StringAt(s.cmd_buffer, s.cursor_pos) ELSE <<>>
  IN  LeftBy(print_str(k, rest \o Blanks(1)), s.cmd_pos + 1 - s.cursor_pos)

-----------------------------------------------------------------------------
(***************************************************************************)
(* Editing                                                                 *)
(***************************************************************************)
\* A printable character.  The buffer is shifted from cursor_pos on.
Inserted(s, c) ==
  [s EXCEPT !.cmd_buffer = [i \in DOMAIN @ |->
                              IF i = s.cmd_pos + 1 THEN "nul"
                              ELSE IF i = s.cursor_pos THEN c
                              ELSE IF i \in (s.cursor_pos + 1) .. s.cmd_pos THEN @[i - 1]
                              ELSE @[i]],
            !.cmd_pos = @ + 1,
            !.cursor_pos = @ + 1]

\* Mutant of HasRoom: no room is kept for the NUL.
HasRoomForOne(s) == s.cmd_pos < MAX_CMD_LEN

HasRoom(s) == s.cmd_pos < MAX_CMD_LEN - 1

Type(c) ==
  /\ HasRoom(sh)
  /\ sh' = Inserted(sh, c)
  /\ LET typed == print_char_color(con, c)
     IN  con' = IF sh'.cursor_pos < sh'.cmd_pos THEN redraw_from_cursor(typed, sh') ELSE typed

\* Mutant of Without: the shift starts one character late.
WithoutNext(s, p) ==
  [s EXCEPT !.cmd_buffer = [i \in DOMAIN @ |->
                              IF i = s.cmd_pos - 1 THEN "nul"
                              ELSE IF i \in (p + 1) .. (s.cmd_pos - 2) THEN @[i + 1]
                              ELSE @[i]],
            !.cmd_pos = @ - 1,
            !.cursor_pos = p]

\* The buffer without the character at index p, which is below cmd_pos.
Without(s, p) ==
  [s EXCEPT !.cmd_buffer = [i \in DOMAIN @ |->
                              IF i = s.cmd_pos - 1 THEN "nul"
                              ELSE IF i \in p .. (s.cmd_pos - 2) THEN @[i + 1]
                              ELSE @[i]],
            !.cmd_pos = @ - 1,
            !.cursor_pos = p]

Backspaced ==
  /\ sh.cursor_pos > 0
  /\ sh' = Without(sh, sh.cursor_pos - 1)
  /\ con' = redraw_from_cursor(move_cursor_left(con), sh')

Delete ==
  /\ sh.cursor_pos < sh.cmd_pos
  /\ sh' = Without(sh, sh.cursor_pos)
  /\ con' = redraw_from_cursor(con, sh')

\* KEY_LEFT, KEY_RIGHT, and move_cursor_to for KEY_HOME and KEY_END.
LeftKey ==
  /\ sh.cursor_pos > 0
  /\ sh' = [sh EXCEPT !.cursor_pos = @ - 1]
  /\ con' = move_cursor_left(con)

RightKey ==
  /\ sh.cursor_pos < sh.cmd_pos
  /\ sh' = [sh EXCEPT !.cursor_pos = @ + 1]
  /\ con' = move_cursor_right(con)

Home ==
  /\ sh' = [sh EXCEPT !.cursor_pos = 0]
  /\ con' = LeftBy(con, sh.cursor_pos)

End ==
  /\ sh' = [sh EXCEPT !.cursor_pos = sh.cmd_pos]
  /\ con' = RightBy(con, sh.cmd_pos - sh.cursor_pos)

-----------------------------------------------------------------------------
(***************************************************************************)
(* Command history                                                         *)
(***************************************************************************)
history_add(hist, cmd) ==
  IF hist # <<>> /\ Last(hist) = cmd THEN hist
  ELSE IF Len(hist) >= MAX_CMD_HISTORY THEN Append(Tail(hist), cmd)
  ELSE Append(hist, cmd)

\* The line of s becomes cmd, and the console shows it: back over cmd_pos
\* cells, wherever in the line the cursor is.
ShowCommand(s, cmd) ==
  LET diff == IF Len(cmd) < s.cmd_pos THEN s.cmd_pos - Len(cmd) ELSE 0
  IN  /\ sh' = [s EXCEPT !.cmd_buffer = str_copy(@, cmd),
                         !.cmd_pos = Len(cmd),
                         !.cursor_pos = Len(cmd)]
      /\ con' = LeftBy(print_str(LeftBy(con, s.cmd_pos), cmd \o Blanks(diff)), diff)

\* history_show(1): cmd_history is walked from its oldest entry on.
UpKey ==
  /\ sh.cmd_history # <<>>
  /\ LET index == Least(sh.history_current + 1, Len(sh.cmd_history) - 1)
         saved == IF sh.history_current = -1 THEN StringAt(sh.cmd_buffer, 0) ELSE sh.saved_cmd
     IN  ShowCommand([sh EXCEPT !.history_current = index, !.saved_cmd = saved],
                     sh.cmd_history[index + 1])

\* history_show(-1): below the oldest entry is saved_cmd.
DownKey ==
  /\ sh.cmd_history # <<>>
  /\ LET index == IF sh.history_current > -1 THEN sh.history_current - 1 ELSE -1
     IN  ShowCommand([sh EXCEPT !.history_current = index],
                     IF index = -1 THEN sh.saved_cmd ELSE sh.cmd_history[index + 1])

-----------------------------------------------------------------------------
(***************************************************************************)
(* Running a command                                                       *)
(***************************************************************************)
\* Mutant of ParseStep: an argument is not terminated.
ParseKeepsBlank(p, i) ==
  IF p.buf[i] = "nul" \/ Len(p.argv) >= MAX_ARGS - 1 THEN [p EXCEPT !.done = TRUE]
  ELSE IF p.buf[i] = Blank THEN [p EXCEPT !.in_arg = FALSE]
  ELSE [p EXCEPT !.argv = IF p.in_arg THEN @ ELSE Append(@, i), !.in_arg = TRUE]

\* One turn of the loop of parse_arguments at index i.
ParseStep(p, i) ==
  IF p.buf[i] = "nul" \/ Len(p.argv) >= MAX_ARGS - 1 THEN [p EXCEPT !.done = TRUE]
  ELSE IF p.buf[i] = Blank
  THEN [p EXCEPT !.buf[i] = IF p.in_arg THEN "nul" ELSE @, !.in_arg = FALSE]
  ELSE [p EXCEPT !.argv = IF p.in_arg THEN @ ELSE Append(@, i), !.in_arg = TRUE]

parse_arguments(buf) ==
  LET after[n \in 0 .. MAX_CMD_LEN] ==
        IF n = 0 THEN [buf |-> buf, argv |-> <<>>, in_arg |-> FALSE, done |-> FALSE]
        ELSE IF after[n - 1].done THEN after[n - 1]
        ELSE ParseStep(after[n - 1], n - 1)
  IN  after[MAX_CMD_LEN]

\* The arguments from the second on, with blanks between them.
EchoText(argv) ==
  LET after[n \in 1 .. Len(argv)] ==
        IF n = 1 THEN <<>>
        ELSE after[n - 1] \o argv[n] \o (IF n < Len(argv) THEN <<Blank>> ELSE <<>>)
  IN  after[Len(argv)] \o <<"LF">>

RunCommand(k, argv) ==
  CASE argv[1] = EchoName  -> print_str(k, EchoText(argv))
    [] argv[1] = HelpName  -> print_str(k, HelpText)
    [] argv[1] = ClearName -> clear_screen(k)
    [] OTHER               -> print_str(k, Unknown(argv[1]))

\* Enter on a line with text.  A line of blanks alone has no arguments and
\* returns before the prompt.  cmd_buffer and history_current stay.
Execute ==
  /\ sh.cmd_pos > 0
  /\ LET line == StringAt(sh.cmd_buffer, 0)
         parsed == parse_arguments(sh.cmd_buffer)
         argv == [n \in DOMAIN parsed.argv |-> StringAt(parsed.buf, parsed.argv[n])]
         fresh == print_char_color(con, "LF")
     IN  /\ sh' = [sh EXCEPT !.cmd_buffer = parsed.buf,
                             !.cmd_pos = 0,
                             !.cursor_pos = 0,
                             !.cmd_history = history_add(@, line),
                             !.last = line,
                             !.argv = argv]
         /\ con' = IF argv = <<>> THEN fresh ELSE print_str(RunCommand(fresh, argv), Prompt)

EmptyEnter ==
  /\ sh.cmd_pos = 0
  /\ con' = print_str(con, <<"LF">> \o Prompt)
  /\ UNCHANGED sh

\* F1 to F4: the handler switches terminals before it asks for the shell.
FunctionKey(t) == con' = vt_switch(con, t) /\ UNCHANGED sh

EditKey ==
  \/ \E c \in Letters : Type(c)
  \/ Backspaced \/ Delete \/ LeftKey \/ RightKey \/ Home \/ End

Next ==
  \/ EditKey
  \/ UpKey \/ DownKey \/ Execute \/ EmptyEnter
  \/ \E t \in Ttys : FunctionKey(t)

Spec == Init /\ [][Next]_vars

-----------------------------------------------------------------------------
(***************************************************************************)
(* Properties                                                              *)
(***************************************************************************)
Lines == Seq(Letters)

LineText == [n \in 1 .. sh.cmd_pos |-> sh.cmd_buffer[n - 1]]

\* The cursor stays inside the line and the line, with its NUL, inside the
\* buffer.
TypeOK ==
  /\ sh.cmd_buffer \in [0 .. (MAX_CMD_LEN - 1) -> Letters \cup {"nul"}]
  /\ sh.cmd_pos \in 0 .. (MAX_CMD_LEN - 1)
  /\ sh.cursor_pos \in 0 .. sh.cmd_pos
  /\ sh.cmd_history \in Seq(Lines) /\ Len(sh.cmd_history) <= MAX_CMD_HISTORY
  /\ sh.history_current \in -1 .. (Len(sh.cmd_history) - 1)
  /\ {sh.saved_cmd, sh.last} \subseteq Lines
  /\ sh.argv \in Seq(Lines)

\* The buffer, its positions and the history are a line editor: shifting,
\* terminating and copying the C strings edits exactly the text at the
\* cursor, and the history has the newest lines entered.
Editor ==
  INSTANCE LineEditor WITH
    MaxText <- MAX_CMD_LEN - 1, MaxLog <- MAX_CMD_HISTORY,
    text <- LineText, at <- sh.cursor_pos, log <- sh.cmd_history,
    draft <- sh.saved_cmd, last <- sh.last

EditorSpec == Editor!Spec

\* Where words begin in a line, and the word that begins at i.
WordStarts(line) ==
  {i \in DOMAIN line : line[i] # Blank /\ (i = 1 \/ line[i - 1] = Blank)}

WordAt(line, i) ==
  LET blanks == {j \in DOMAIN line : j > i /\ line[j] = Blank}
  IN  SubSeq(line, i, IF blanks = {} THEN Len(line) ELSE Min(blanks) - 1)

\* How many words begin at or before position i.
WordCount(line, i) == Cardinality({j \in WordStarts(line) : j <= i})

\* argv has the words of the line in their order, but for the last of
\* MAX_ARGS - 1 arguments, which is the rest of the line.
AreArguments(argv, line) ==
  /\ Len(argv) = Least(WordCount(line, Len(line)), MAX_ARGS - 1)
  /\ \A i \in WordStarts(line) :
       LET n == WordCount(line, i)
       IN  n <= Len(argv) =>
             argv[n] = IF n = MAX_ARGS - 1 THEN SubSeq(line, i, Len(line)) ELSE WordAt(line, i)

\* A command is given the words of the line that was entered: cutting the
\* buffer up in place loses none, joins none and ends each where it ended.
ArgvMatches == AreArguments(sh.argv, sh.last)

CellCount == VGA_WIDTH * VGA_HEIGHT

CellAt(k, p) == TBUF(k)[p \div VGA_WIDTH][p % VGA_WIDTH]

Position(k) == k.cursor_row * VGA_WIDTH + k.cursor_col

LineStart == Position(con) - sh.cursor_pos

\* The line is in the active terminal with the cursor at its place in it,
\* and nothing is behind the line.
LineShown ==
  /\ LineStart >= 0 /\ LineStart + sh.cmd_pos <= CellCount
  /\ sh.cursor_pos < sh.cmd_pos => con.cursor_col < VGA_WIDTH
  /\ \A i \in 0 .. (sh.cmd_pos - 1) : CellAt(con, LineStart + i) = sh.cmd_buffer[i]
  /\ \A p \in (LineStart + sh.cmd_pos) .. (CellCount - 1) : CellAt(con, p) \in {Blank, "nul"}

\* A key that leaves the terminal where it is keeps the line that is edited
\* and the line that is seen the same, also over several rows.  The cases
\* in which the code does not: the text would wrap at the bottom of the
\* screen; Up or Down with the cursor inside the line; Enter with the cursor
\* on a row above the line's last one.
LineStaysShown ==
  [][/\ LineShown
     /\ con'.tty_cur = con.tty_cur
     /\ \A n \in {sh.cmd_pos, sh'.cmd_pos} : LineStart + n < CellCount
     /\ UpKey \/ DownKey => sh.cursor_pos = sh.cmd_pos
     /\ Execute => (LineStart + sh.cmd_pos) \div VGA_WIDTH <= con.cursor_row
     => LineShown']_vars
=============================================================================
