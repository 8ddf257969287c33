--------------------------- MODULE ConsoleState ----------------------------
(***************************************************************************)
(* The functions of src/src/kernel/console.c on the console's state: the   *)
(* VGA screen, the buffers and cursors of the virtual terminals, the ring  *)
(* of lines that left the screen, and the view of that ring.               *)
(*                                                                         *)
(* The state is one record, and each C function is an operator from a      *)
(* console to the console it leaves, so that a caller that makes several   *)
(* calls in one step composes them.  A cell is the character in it; colour *)
(* attributes and the position of the hardware cursor are left out.  "LF", *)
(* "CR" and "TAB" stand for the control characters \n, \r and \t.          *)
(***************************************************************************)
EXTENDS Integers, Sequences

CONSTANTS
  VGA_WIDTH, VGA_HEIGHT, TTY_COUNT, HISTORY_SIZE,
  UINT8_MOD,    \* cursor_col is counted modulo this (2^8)
  Graphic       \* the characters that fill a cell, the blank included

\* The character 32, which clears a cell.
Blank == " "

ASSUME ConsoleAssumption ==
  /\ VGA_WIDTH \in Nat \ {0}
  /\ VGA_HEIGHT \in Nat /\ VGA_HEIGHT >= 2
  /\ TTY_COUNT \in Nat \ {0}
  /\ HISTORY_SIZE \in Nat /\ HISTORY_SIZE >= VGA_HEIGHT
  /\ UINT8_MOD \in Nat /\ UINT8_MOD > VGA_WIDTH /\ UINT8_MOD % 4 = 0
  /\ Blank \in Graphic
  /\ Graphic \cap {"nul", "notice", "LF", "CR", "TAB"} = {}

Rows == 0 .. (VGA_HEIGHT - 1)

Cols == 0 .. (VGA_WIDTH - 1)

Ttys == 0 .. (TTY_COUNT - 1)

\* "nul" is a cell of a terminal never written (static storage is zero), and
\* "notice" one of the line "(History View - Press any key to return)".
Cells == Graphic \cup {"nul", "notice"}

Line(cell) == [c \in Cols |-> cell]

Screen(cell) == [r \in Rows |-> Line(cell)]

\* The static variables at boot.  The firmware's screen is taken to be blank.
PowerOn ==
  [vga |-> Screen(Blank),
   tty_buf |-> [t \in Ttys |-> Screen("nul")],
   tty_row |-> [t \in Ttys |-> 0],
   tty_col |-> [t \in Ttys |-> 0],
   tty_cur |-> 0,
   cursor_row |-> 0,
   cursor_col |-> 0,
   screen_backup |-> Screen("nul"),
   simple_history |-> [i \in 0 .. (HISTORY_SIZE - 1) |-> Line("nul")],
   history_write_pos |-> 0,
   history_count |-> 0,
   is_viewing_history |-> FALSE,
   history_view_offset |-> 0,
   past |-> <<>>]    \* ghost: the last HISTORY_SIZE lines saved, oldest first

TBUF(k) == k.tty_buf[k.tty_cur]

Least(m, n) == IF m < n THEN m ELSE n

-----------------------------------------------------------------------------
(***************************************************************************)
(* The scroll-back ring and its view                                       *)
(***************************************************************************)
Newest(lines) ==
  SubSeq(lines, 1 + Len(lines) - Least(Len(lines), HISTORY_SIZE), Len(lines))

\* Mutant of save_line_to_history: the count is not capped.
SaveUncapped(k, row) ==
  [k EXCEPT !.simple_history[k.history_write_pos] = k.vga[row],
            !.history_write_pos = (@ + 1) % HISTORY_SIZE,
            !.history_count = @ + 1,
            !.past = Newest(Append(@, k.vga[row]))]

save_line_to_history(k, row) ==
  [k EXCEPT !.simple_history[k.history_write_pos] = k.vga[row],
            !.history_write_pos = (@ + 1) % HISTORY_SIZE,
            !.history_count = Least(@ + 1, HISTORY_SIZE),
            !.past = Newest(Append(@, k.vga[row]))]

\* Every row of the screen, from the top: the loop of clear_screen.
SaveAllLines(k) ==
  LET after[n \in 0 .. VGA_HEIGHT] ==
        IF n = 0 THEN k ELSE save_line_to_history(after[n - 1], n - 1)
  IN  after[VGA_HEIGHT]

backup_current_screen(k) == [k EXCEPT !.screen_backup = k.vga]

restore_screen_from_backup(k) ==
  [k EXCEPT !.vga = k.screen_backup, !.tty_buf[k.tty_cur] = k.screen_backup]

LinesToShow(k) == Least(VGA_HEIGHT - 1, k.history_count)

\* A character outside 32..126 is shown as a blank.
Shown(line) == [c \in Cols |-> IF line[c] = "nul" THEN Blank ELSE line[c]]

\* Mutant of StartIndex: the offset is counted from the wrong end.
StartIndexForward(k) ==
  (k.history_write_pos - LinesToShow(k) + k.history_view_offset) % HISTORY_SIZE

StartIndex(k) ==
  (k.history_write_pos - LinesToShow(k) - k.history_view_offset) % HISTORY_SIZE

show_history_lines(k) ==
  [k EXCEPT !.vga = [r \in Rows |->
     IF r < LinesToShow(k)
     THEN Shown(k.simple_history[(StartIndex(k) + r) % HISTORY_SIZE])
     ELSE Line(IF r = LinesToShow(k) THEN "notice" ELSE Blank)]]

\* The offset after one more line up: at most what still fills the screen.
FurtherBack(k) ==
  LET most == k.history_count - (VGA_HEIGHT - 1)
      next == Least(k.history_view_offset + 1, most)
  IN  IF next < 0 THEN 0 ELSE next

view_history_up(k) ==
  IF k.history_count = 0 THEN k
  ELSE show_history_lines(
         IF k.is_viewing_history
         THEN [k EXCEPT !.history_view_offset = FurtherBack(k)]
         ELSE [backup_current_screen(k) EXCEPT !.is_viewing_history = TRUE,
                                               !.history_view_offset = 0])

\* Leaving the view: the screen comes back from the backup.
LeaveView(k) ==
  restore_screen_from_backup([k EXCEPT !.is_viewing_history = FALSE,
                                       !.history_view_offset = 0])

view_history_down(k) ==
  IF ~k.is_viewing_history THEN k
  ELSE IF k.history_view_offset = 0 THEN LeaveView(k)
  ELSE show_history_lines([k EXCEPT !.history_view_offset = @ - 1])

-----------------------------------------------------------------------------
(***************************************************************************)
(* Output                                                                  *)
(***************************************************************************)
\* The screen and the active buffer both become the screen s.
Drawn(k, s) == [k EXCEPT !.vga = s, !.tty_buf[k.tty_cur] = s]

MovedUp(s) == [r \in Rows |-> IF r = VGA_HEIGHT - 1 THEN Line(Blank) ELSE s[r + 1]]

MovedDown(s) == [r \in Rows |-> IF r = 0 THEN Line(Blank) ELSE s[r - 1]]

scroll_screen(k) ==
  LET saved == save_line_to_history(k, 0)
  IN  backup_current_screen(
        [Drawn(saved, MovedUp(TBUF(k))) EXCEPT !.cursor_row = VGA_HEIGHT - 1,
                                               !.cursor_col = 0])

\* history_view_offset is left as it is.
clear_screen(k) ==
  backup_current_screen(
    [Drawn(SaveAllLines(k), Screen(Blank)) EXCEPT !.cursor_row = 0,
                                                !.cursor_col = 0,
                                                !.is_viewing_history = FALSE])

\* A cell of the buffer of terminal t.  A row below the last one is in the
\* next terminal's buffer; behind the buffer of the last terminal the linked
\* kernel has the cursor itself, which scroll_screen sets right after.
StoreCell(k, t, row, col, c) ==
  IF row < VGA_HEIGHT THEN [k EXCEPT !.tty_buf[t][row][col] = c]
  ELSE IF t + 1 < TTY_COUNT THEN [k EXCEPT !.tty_buf[t + 1][row - VGA_HEIGHT][col] = c]
  ELSE k

\* A cell of the screen.  The video memory below the last row is not seen.
StoreVga(k, row, col, c) ==
  IF row < VGA_HEIGHT THEN [k EXCEPT !.vga[row][col] = c] ELSE k

\* Mutant of PutCell: a full line starts again in the same row.
PutOverLine(k, c) ==
  LET col == IF k.cursor_col >= VGA_WIDTH THEN 0 ELSE k.cursor_col
      row == k.cursor_row
  IN  [StoreVga(StoreCell(k, k.tty_cur, row, col, c), row, col, c) EXCEPT
         !.cursor_col = col + 1]

\* A character at column VGA_WIDTH or beyond goes to the next row, below the
\* last one too.
PutCell(k, c) ==
  LET wraps == k.cursor_col >= VGA_WIDTH
      row == IF wraps THEN k.cursor_row + 1 ELSE k.cursor_row
      col == IF wraps THEN 0 ELSE k.cursor_col
  IN  [StoreVga(StoreCell(k, k.tty_cur, row, col, c), row, col, c) EXCEPT
         !.cursor_row = row, !.cursor_col = col + 1]

\* The switch of print_char_color; & ~3 clears the low bits.
Put(k, c) ==
  CASE c = "LF"  -> [k EXCEPT !.cursor_row = @ + 1, !.cursor_col = 0]
    [] c = "CR"  -> [k EXCEPT !.cursor_col = 0]
    [] c = "TAB" -> [k EXCEPT !.cursor_col = (4 * ((@ + 4) \div 4)) % UINT8_MOD]
    [] OTHER     -> PutCell(k, c)

print_char_color(k, c) ==
  LET shown == IF k.is_viewing_history THEN LeaveView(k) ELSE k
      put == Put(shown, c)
  IN  backup_current_screen(IF put.cursor_row >= VGA_HEIGHT THEN scroll_screen(put) ELSE put)

print_str(k, str) ==
  LET after[n \in 0 .. Len(str)] ==
        IF n = 0 THEN k ELSE print_char_color(after[n - 1], str[n])
  IN  after[Len(str)]

-----------------------------------------------------------------------------
(***************************************************************************)
(* Virtual terminals and the cursor                                        *)
(***************************************************************************)
vt_render_active(k) == [k EXCEPT !.vga = TBUF(k)]

\* Mutant of Activated: the column of the terminal that is left is lost.
ActivatedForgetsColumn(k, t) ==
  [k EXCEPT !.tty_row[k.tty_cur] = k.cursor_row,
            !.tty_cur = t,
            !.cursor_row = k.tty_row[t],
            !.cursor_col = k.tty_col[t]]

\* The cursor of the active terminal is saved and the one of t taken.
Activated(k, t) ==
  [k EXCEPT !.tty_row[k.tty_cur] = k.cursor_row,
            !.tty_col[k.tty_cur] = k.cursor_col,
            !.tty_cur = t,
            !.cursor_row = k.tty_row[t],
            !.cursor_col = k.tty_col[t]]

\* Mutant of vt_switch: the new screen is not backed up.
SwitchKeepsBackup(k, tty_num) ==
  IF tty_num = k.tty_cur THEN k ELSE vt_render_active(Activated(k, tty_num))

vt_switch(k, tty_num) ==
  IF tty_num = k.tty_cur THEN k
  ELSE backup_current_screen(vt_render_active(Activated(k, tty_num)))

set_cursor_row(k, row) == IF row < VGA_HEIGHT THEN [k EXCEPT !.cursor_row = row] ELSE k

set_cursor_col(k, col) == IF col < VGA_WIDTH THEN [k EXCEPT !.cursor_col = col] ELSE k

\* The keyboard handler's backspace while no shell is active.
Rubout(k) ==
  IF k.cursor_col = 0 THEN k
  ELSE LET col == k.cursor_col - 1
       IN  set_cursor_col(print_char_color(set_cursor_col(k, col), Blank), col)

move_cursor_up(k) ==
  IF k.cursor_row > 0 THEN [k EXCEPT !.cursor_row = @ - 1] ELSE view_history_up(k)

move_cursor_down(k) ==
  IF k.cursor_row < VGA_HEIGHT - 1 THEN [k EXCEPT !.cursor_row = @ + 1]
                                   ELSE view_history_down(k)

move_cursor_left(k) ==
  IF k.cursor_col > 0 THEN [k EXCEPT !.cursor_col = @ - 1]
  ELSE IF k.cursor_row > 0
  THEN [k EXCEPT !.cursor_row = @ - 1, !.cursor_col = VGA_WIDTH - 1]
  ELSE k

move_cursor_right(k) ==
  IF k.cursor_col < VGA_WIDTH - 1 THEN [k EXCEPT !.cursor_col = @ + 1]
  ELSE IF k.cursor_row < VGA_HEIGHT - 1
  THEN [k EXCEPT !.cursor_row = @ + 1, !.cursor_col = 0]
  ELSE k

\* Exported, and called by nobody yet.
scroll_up(k) ==
  backup_current_screen(
    [Drawn(save_line_to_history(k, 0), MovedUp(TBUF(k))) EXCEPT
       !.cursor_row = IF @ > 0 THEN @ - 1 ELSE @])

scroll_down(k) ==
  backup_current_screen(
    [Drawn(save_line_to_history(k, VGA_HEIGHT - 1), MovedDown(TBUF(k))) EXCEPT
       !.cursor_row = IF @ < VGA_HEIGHT - 1 THEN @ + 1 ELSE @])
=============================================================================
