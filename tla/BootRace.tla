------------------------------ MODULE BootRace ------------------------------
(***************************************************************************)
(* The window in which the keyboard interrupt meets shell_init:            *)
(* src/src/kernel/kernel.c executes sti and then calls shell_init, which   *)
(* prints and sets the shell's variables with interrupts on.               *)
(*                                                                         *)
(* The handler runs to its end between two machine instructions of         *)
(* shell_init.  print_char_color is taken apart into its loads and stores  *)
(* in the order of the compiled kernel, which keeps the row, the column    *)
(* and tty_cur in registers; scroll_screen and the copy into screen_backup *)
(* remain one step each, so the model has fewer interleavings than the     *)
(* machine and none the machine has not.                                   *)
(***************************************************************************)
EXTENDS Shell

CONSTANT MaxKeys      \* bound on the keys pressed during shell_init

VARIABLES
  main,               \* shell_init: where it is, and its registers
  keys                \* history: the kinds of the keys pressed so far

raceVars == <<vars, main, keys>>

\* The variables shell_init sets, in the order of its stores; the texts are
\* printed before and after them.
Stores == <<"shell_active", "cmd_pos", "cursor_pos", "cmd_buffer", "saved_cmd",
            "history_count", "history_current">>

\* shell_init has cleared the screen; next is the first character.
RaceInit ==
  /\ con = clear_screen(clear_screen(PowerOn))
  /\ sh = [cmd_buffer |-> [i \in 0 .. (MAX_CMD_LEN - 1) |-> "nul"], cmd_pos |-> 0,
           cursor_pos |-> 0, cmd_history |-> <<>>, history_current |-> -1,
           saved_cmd |-> <<>>, last |-> <<>>, argv |-> <<>>]
  /\ main = [pc |-> "row", todo |-> Banner, stored |-> 0, row |-> 0, col |-> 0, tty |-> 0]
  /\ keys = <<>>

At(pc) == main.pc = pc /\ main.todo # <<>> /\ UNCHANGED <<sh, keys>>

LoadRow ==
  /\ At("row")
  /\ con' = IF con.is_viewing_history THEN LeaveView(con) ELSE con
  /\ main' = [main EXCEPT !.row = con.cursor_row, !.pc = "tty"]

LoadTty ==
  /\ At("tty")
  /\ main' = [main EXCEPT !.tty = con.tty_cur, !.pc = "col"]
  /\ UNCHANGED con

\* '\n', or the column and the wrap of a graphic character.
LoadCol ==
  /\ At("col")
  /\ LET newline == Head(main.todo) = "LF"
         wraps == con.cursor_col >= VGA_WIDTH
         row == IF newline \/ wraps THEN main.row + 1 ELSE main.row
     IN  /\ con' = IF row = main.row THEN con ELSE [con EXCEPT !.cursor_row = row]
         /\ main' = [main EXCEPT !.row = row,
                                 !.col = IF newline \/ wraps THEN 0 ELSE con.cursor_col,
                                 !.pc = IF newline THEN "cursor" ELSE "buffer"]

StoreBuffer ==
  /\ At("buffer")
  /\ con' = StoreCell(con, main.tty, main.row, main.col, Head(main.todo))
  /\ main' = [main EXCEPT !.pc = "vga"]

StoreScreen ==
  /\ At("vga")
  /\ con' = StoreVga(con, main.row, main.col, Head(main.todo))
  /\ main' = [main EXCEPT !.col = @ + 1, !.pc = "cursor"]

StoreCursor ==
  /\ At("cursor")
  /\ con' = [con EXCEPT !.cursor_col = main.col]
  /\ main' = [main EXCEPT !.pc = IF main.row >= VGA_HEIGHT THEN "scroll" ELSE "backup"]

\* scroll_screen on the terminal in the register.
Scroll ==
  /\ At("scroll")
  /\ LET moved == MovedUp(con.tty_buf[main.tty])
     IN  con' = [save_line_to_history(con, 0) EXCEPT
                   !.vga = moved, !.tty_buf[main.tty] = moved,
                   !.cursor_row = VGA_HEIGHT - 1, !.cursor_col = 0]
  /\ main' = [main EXCEPT !.pc = "backup"]

Backup ==
  /\ At("backup")
  /\ con' = backup_current_screen(con)
  /\ main' = [main EXCEPT !.todo = Tail(@), !.pc = "row"]

\* One store of shell_init; after the last one the prompt is to be printed.
SetShell ==
  /\ main.todo = <<>> /\ main.stored < Len(Stores)
  /\ LET var == Stores[main.stored + 1]
     IN  sh' = CASE var = "cmd_pos" -> [sh EXCEPT !.cmd_pos = 0]
                 [] var = "cursor_pos" -> [sh EXCEPT !.cursor_pos = 0]
                 [] var = "cmd_buffer" -> [sh EXCEPT !.cmd_buffer[0] = "nul"]
                 [] var = "saved_cmd" -> [sh EXCEPT !.saved_cmd = <<>>]
                 [] var = "history_count" -> [sh EXCEPT !.cmd_history = <<>>]
                 [] var = "history_current" -> [sh EXCEPT !.history_current = -1]
                 [] OTHER -> sh
  /\ main' = [main EXCEPT !.stored = @ + 1,
                          !.todo = IF main.stored + 1 = Len(Stores) THEN Prompt ELSE <<>>]
  /\ UNCHANGED <<con, keys>>

Halted == main.todo = <<>> /\ main.stored = Len(Stores)

\* The handler while shell_active is not set.
RawKey ==
  /\ main.stored = 0
  /\ con' \in {print_char_color(con, c) : c \in Letters \cup {"LF", "TAB"}}
              \cup {Rubout(con), move_cursor_up(con), move_cursor_down(con),
                    move_cursor_left(con), move_cursor_right(con)}
  /\ UNCHANGED sh

\* And while it is.
ShellKey ==
  /\ main.stored > 0
  /\ EditKey \/ UpKey \/ DownKey \/ Execute \/ EmptyEnter

\* F1 to F4 switch terminals before the handler asks for the shell.
KeyInterrupt ==
  /\ ~Halted /\ Len(keys) < MaxKeys
  /\ \/ (\E t \in Ttys : FunctionKey(t)) /\ keys' = Append(keys, "function")
     \/ (RawKey \/ ShellKey) /\ keys' = Append(keys, "other")
  /\ UNCHANGED main

Step ==
  \/ LoadRow \/ LoadTty \/ LoadCol \/ StoreBuffer \/ StoreScreen \/ StoreCursor \/ Scroll
  \/ Backup \/ SetShell

\* The hlt loop of kernel_init.
Halt == Halted /\ UNCHANGED raceVars

RaceNext == Step \/ KeyInterrupt \/ Halt

RaceSpec == RaceInit /\ [][RaceNext]_raceVars

-----------------------------------------------------------------------------
(***************************************************************************)
(* Property                                                                *)
(***************************************************************************)
OnlySwitches == \A i \in DOMAIN keys : keys[i] = "function"

\* The function keys always work: when nothing else was pressed while
\* shell_init ran, the screen has afterwards what the buffer of the terminal
\* switched to has.
SwitchesWork ==
  Halted /\ OnlySwitches /\ ~con.is_viewing_history => con.vga = TBUF(con)
=============================================================================
