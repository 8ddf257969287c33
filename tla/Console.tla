------------------------------ MODULE Console -------------------------------
(***************************************************************************)
(* The console as its clients meet it: a caller of console.h, or a user    *)
(* whose keys the keyboard handler passes on while no shell is active,     *)
(* makes one call after another.                                           *)
(***************************************************************************)
EXTENDS ConsoleState

VARIABLE con

\* After console_init.
Init == con = clear_screen(PowerOn)

PutChar(c) == con' = print_char_color(con, c)

Clear == con' = clear_screen(con)

Switch(t) == con' = vt_switch(con, t)

Up == con' = move_cursor_up(con)

Down == con' = move_cursor_down(con)

Left == con' = move_cursor_left(con)

Right == con' = move_cursor_right(con)

ScrollUp == con' = scroll_up(con)

ScrollDown == con' = scroll_down(con)

Backspace == con' = Rubout(con)

Render == con' = vt_render_active(con)

SetRow(row) == con' = set_cursor_row(con, row)

SetCol(col) == con' = set_cursor_col(con, col)

Characters == Graphic \cup {"LF", "CR", "TAB"}

Next ==
  \/ \E c \in Characters : PutChar(c)
  \/ \E t \in Ttys : Switch(t)
  \/ \E row \in 0 .. VGA_HEIGHT : SetRow(row)
  \/ \E col \in 0 .. VGA_WIDTH : SetCol(col)
  \/ Clear \/ Up \/ Down \/ Left \/ Right \/ ScrollUp \/ ScrollDown \/ Backspace
  \/ Render

Spec == Init /\ [][Next]_con

-----------------------------------------------------------------------------
(***************************************************************************)
(* Properties                                                              *)
(***************************************************************************)
Screens == [Rows -> [Cols -> Cells]]

\* Between two calls the cursor's row is on the screen, the column, which tabs
\* take past the edge, is a byte, and the positions in the ring are in it.  A
\* print may still address the cell right behind a terminal's buffer.
TypeOK ==
  /\ con.vga \in Screens
  /\ con.screen_backup \in Screens
  /\ con.tty_buf \in [Ttys -> Screens]
  /\ con.tty_row \in [Ttys -> Rows]
  /\ con.tty_col \in [Ttys -> 0 .. (UINT8_MOD - 1)]
  /\ con.tty_cur \in Ttys
  /\ con.cursor_row \in Rows
  /\ con.cursor_col \in 0 .. (UINT8_MOD - 1)
  /\ con.simple_history \in [0 .. (HISTORY_SIZE - 1) -> [Cols -> Cells]]
  /\ con.history_write_pos \in 0 .. (HISTORY_SIZE - 1)
  /\ con.history_count \in 0 .. HISTORY_SIZE
  /\ con.is_viewing_history \in BOOLEAN
  /\ con.history_view_offset \in 0 .. HISTORY_SIZE

\* The backup is always the active terminal's buffer, and so is the screen
\* unless the history is on it.  Leaving the view copies the backup over
\* the buffer: a stale backup would bring old text, or another terminal's,
\* into the terminal.
ScreenMatches ==
  /\ con.screen_backup = TBUF(con)
  /\ ~con.is_viewing_history => con.vga = TBUF(con)

\* The lines n that end off lines before the newest one.
PastLines(n, off) == SubSeq(con.past, 1 + Len(con.past) - off - n, Len(con.past) - off)

\* While the history is viewed the screen has consecutive lines of the past,
\* ending history_view_offset lines before the newest, however often the
\* ring has wrapped; or the active terminal, after vt_switch or a scroll has
\* drawn it over the view.
ViewShowsPast ==
  con.is_viewing_history /\ con.vga # TBUF(con) =>
    LET lines == PastLines(LinesToShow(con), con.history_view_offset)
    IN  /\ Len(lines) = LinesToShow(con)
        /\ \A r \in 1 .. Len(lines) : con.vga[r - 1] = Shown(lines[r])

CursorOf(k, t) == IF t = k.tty_cur THEN <<k.cursor_row, k.cursor_col>>
                                   ELSE <<k.tty_row[t], k.tty_col[t]>>

\* The cell a graphic character printed behind the end of the bottom row of
\* the active terminal goes to, although it is in the buffer of terminal t.
SpillCell(k, t, r, c) ==
  /\ k.cursor_row = VGA_HEIGHT - 1 /\ k.cursor_col >= VGA_WIDTH
  /\ t = k.tty_cur + 1 /\ r = 0 /\ c = 0

\* No call changes the text or the cursor of a terminal that is not active,
\* and a switch changes those of none: each terminal is found as it was left.
\* The one exception is the print that wraps at the bottom, and then it is
\* that one cell.
TtysIsolated ==
  [][\A t \in Ttys :
       t # con.tty_cur \/ con'.tty_cur # con.tty_cur =>
         /\ CursorOf(con', t) = CursorOf(con, t)
         /\ \A r \in Rows, c \in Cols :
              \/ con'.tty_buf[t][r][c] = con.tty_buf[t][r][c]
              \/ SpillCell(con, t, r, c) /\ \E ch \in Graphic : PutChar(ch)]_con

\* A graphic character that is printed is in the active terminal, left of
\* the cursor, which has moved on, and no other cell has changed; the
\* exception is a wrap at the bottom, which scrolls without it.
PrintShows ==
  [][\A ch \in Graphic :
       PutChar(ch) =>
         \/ /\ con'.cursor_row >= con.cursor_row
            /\ con'.cursor_row = con.cursor_row => con'.cursor_col > con.cursor_col
            /\ con'.cursor_col \in 1 .. VGA_WIDTH
            /\ TBUF(con') = [TBUF(con) EXCEPT ![con'.cursor_row][con'.cursor_col - 1] = ch]
         \/ /\ con.cursor_row = VGA_HEIGHT - 1 /\ con.cursor_col >= VGA_WIDTH
            /\ TBUF(con') = MovedUp(TBUF(con))]_con
=============================================================================
