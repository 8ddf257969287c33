---------------------------- MODULE ConsoleProofs ---------------------------
(***************************************************************************)
(* Proofs about the console for every size of the screen and of the ring,  *)
(* any number of terminals, any character set and any width of the column  *)
(* counter.                                                                *)
(*                                                                         *)
(* The console is one record that each C function maps to a record, so the *)
(* proof is a lemma per function on any console k; the steps of Spec only  *)
(* apply them to con.                                                      *)
(***************************************************************************)
EXTENDS Console, SequenceTheorems, WellFoundedInduction, TLAPS

Line1 == [Cols -> Cells]

Ring == 0 .. (HISTORY_SIZE - 1)

Bytes == 0 .. (UINT8_MOD - 1)

\* A console, also in the middle of a call: while a character is printed the
\* cursor may be one row below the screen.
Consoles ==
  [vga : Screens, tty_buf : [Ttys -> Screens], tty_row : [Ttys -> Rows],
   tty_col : [Ttys -> Bytes], tty_cur : Ttys, cursor_row : 0 .. VGA_HEIGHT,
   cursor_col : Bytes, screen_backup : Screens, simple_history : [Ring -> Line1],
   history_write_pos : Ring, history_count : 0 .. HISTORY_SIZE,
   is_viewing_history : BOOLEAN, history_view_offset : 0 .. HISTORY_SIZE,
   past : Seq(Line1)]

\* The slot of the ring that has the i-th of the history_count lines kept.
RingIndex(k, i) == (k.history_write_pos - k.history_count + i - 1) % HISTORY_SIZE

\* The ring has the lines of the past, oldest first.
RingInv(k) ==
  /\ Len(k.past) = k.history_count
  /\ \A i \in 1 .. k.history_count : k.simple_history[RingIndex(k, i)] = k.past[i]

\* The lines that are viewed are lines of the ring.
OffsetInv(k) ==
  k.is_viewing_history => LinesToShow(k) + k.history_view_offset <= k.history_count

Good(k) == k \in Consoles /\ RingInv(k) /\ OffsetInv(k)

Matches(k) ==
  /\ k.screen_backup = TBUF(k)
  /\ ~k.is_viewing_history => k.vga = TBUF(k)

\* The first of the lines that are viewed, as an index into the past.
FirstShown(k) == 1 + k.history_count - k.history_view_offset - LinesToShow(k)

ViewInv(k) ==
  k.is_viewing_history /\ k.vga # TBUF(k) =>
    \A r \in 0 .. (LinesToShow(k) - 1) : k.vga[r] = Shown(k.past[FirstShown(k) + r])

\* The invariant of a console between two calls.
ConsoleInv(k) == Good(k) /\ k.cursor_row \in Rows /\ Matches(k) /\ ViewInv(k)

\* The inductive invariant.
IInv == ConsoleInv(con)

\* Whether a call may write behind the active terminal: printing ch may, if
\* ch is graphic.
NoSpill == FALSE
MaySpill == TRUE
Spills(ch) == ch \in Graphic

\* What a call from console k to console j does to the other terminals; only
\* a call for which spills is true may change the one cell.
Isolated(k, j, spills) ==
  \A t \in Ttys :
    t # k.tty_cur \/ j.tty_cur # k.tty_cur =>
      /\ CursorOf(j, t) = CursorOf(k, t)
      /\ \A r \in Rows, c \in Cols :
           (spills /\ SpillCell(k, t, r, c)) \/ j.tty_buf[t][r][c] = k.tty_buf[t][r][c]

\* j is k but for the ring, which has lines of k and maybe more.
OnlySaved(k, j) ==
  /\ j \in Consoles
  /\ j.vga = k.vga /\ j.tty_buf = k.tty_buf /\ j.screen_backup = k.screen_backup
  /\ j.tty_row = k.tty_row /\ j.tty_col = k.tty_col /\ j.tty_cur = k.tty_cur
  /\ j.cursor_row = k.cursor_row /\ j.cursor_col = k.cursor_col
  /\ j.is_viewing_history = k.is_viewing_history
  /\ j.history_view_offset = k.history_view_offset
  /\ j.history_count >= k.history_count
  /\ RingInv(j)

-----------------------------------------------------------------------------
(***************************************************************************)
(* Arithmetic and induction                                                *)
(***************************************************************************)

\* The sizes, as the provers need them.
LEMMA Sizes ==
  /\ VGA_WIDTH \in Nat \ {0} /\ VGA_HEIGHT \in Nat /\ VGA_HEIGHT >= 2
  /\ HISTORY_SIZE \in Nat \ {0} /\ HISTORY_SIZE >= VGA_HEIGHT
  /\ TTY_COUNT \in Nat \ {0} /\ UINT8_MOD \in Nat \ {0} /\ UINT8_MOD > VGA_WIDTH
BY ConsoleAssumption

\* The remainder by the size of the ring, next to its first turn.
LEMMA RingMod ==
  ASSUME NEW x \in Int
  PROVE  /\ x % HISTORY_SIZE \in Ring
         /\ 0 <= x /\ x < HISTORY_SIZE => x % HISTORY_SIZE = x
         /\ HISTORY_SIZE <= x /\ x < 2 * HISTORY_SIZE =>
              x % HISTORY_SIZE = x - HISTORY_SIZE
         /\ -HISTORY_SIZE <= x /\ x < 0 => x % HISTORY_SIZE = x + HISTORY_SIZE
<1>1. HISTORY_SIZE \in Nat \ {0}
  BY Sizes
<1> QED BY <1>1 DEF Ring

\* Induction, stated of a set: a set of naturals without a least element is
\* empty.
LEMMA SetInduction ==
  ASSUME NEW S, 0 \in S, \A n \in Nat : n \in S => n + 1 \in S
  PROVE  Nat \subseteq S
<1> DEFINE T == Nat \ S
<1> SUFFICES ASSUME T # {} PROVE FALSE
  OBVIOUS
<1>1. PICK x \in T : \A y \in T : ~(<<y, x>> \in OpToRel(<, Nat))
  <2>1. T \subseteq Nat
    OBVIOUS
  <2> HIDE DEF T
  <2> QED BY <2>1, WFMin, NatLessThanWellFounded
<1>2. \A y \in T : ~(y < x)
  BY <1>1 DEF OpToRel
<1>3. x # 0 /\ x - 1 \in Nat /\ x - 1 < x /\ (x - 1) + 1 = x
  OBVIOUS
<1> QED BY <1>2, <1>3

-----------------------------------------------------------------------------
(***************************************************************************)
(* The ring                                                                *)
(***************************************************************************)

\* The past with one more line: the oldest is dropped when the ring is full.
LEMMA NewestLines ==
  ASSUME NEW p \in Seq(Line1), Len(p) <= HISTORY_SIZE, NEW line \in Line1
  PROVE  /\ Newest(Append(p, line)) \in Seq(Line1)
         /\ Len(p) < HISTORY_SIZE =>
              /\ Len(Newest(Append(p, line))) = Len(p) + 1
              /\ \A i \in 1 .. Len(p) : Newest(Append(p, line))[i] = p[i]
              /\ Newest(Append(p, line))[Len(p) + 1] = line
         /\ Len(p) = HISTORY_SIZE =>
              /\ Len(Newest(Append(p, line))) = HISTORY_SIZE
              /\ \A i \in 1 .. (HISTORY_SIZE - 1) : Newest(Append(p, line))[i] = p[i + 1]
              /\ Newest(Append(p, line))[HISTORY_SIZE] = line
<1> DEFINE q == Append(p, line)
           w == Newest(q)
<1>1. /\ q \in Seq(Line1) /\ Len(q) = Len(p) + 1 /\ Len(p) \in Nat
      /\ \A i \in 1 .. Len(p) : q[i] = p[i]
      /\ q[Len(p) + 1] = line
  OBVIOUS
<1> HIDE DEF q
<1>2. CASE Len(p) < HISTORY_SIZE
  <2>1. 1 + Len(q) - Least(Len(q), HISTORY_SIZE) = 1
    BY <1>1, <1>2, Sizes DEF Least
  <2>2. w = SubSeq(q, 1, Len(q))
    BY <2>1 DEF Newest
  <2>3. w = q
    BY <1>1, <2>2, SubSeqFull
  <2> QED BY <1>1, <1>2, <2>3, Sizes DEF q
<1>3. CASE Len(p) = HISTORY_SIZE
  <2>1. 1 + Len(q) - Least(Len(q), HISTORY_SIZE) = 2
    BY <1>1, <1>3, Sizes DEF Least
  <2>2. w = SubSeq(q, 2, Len(q))
    BY <2>1 DEF Newest
  <2>3. /\ w \in Seq(Line1)
        /\ Len(w) = HISTORY_SIZE
        /\ \A i \in 1 .. HISTORY_SIZE : w[i] = q[i + 1]
    BY <1>1, <1>3, <2>2, Sizes
  <2> HIDE DEF w
  <2>4. HISTORY_SIZE \in 1 .. HISTORY_SIZE /\ ~(Len(p) < HISTORY_SIZE)
    BY <1>3, Sizes
  <2>5. \A i \in 1 .. (HISTORY_SIZE - 1) : w[i] = p[i + 1]
    BY <1>1, <1>3, <2>3, Sizes
  <2>6. w[HISTORY_SIZE] = line
    BY <1>1, <1>3, <2>3, <2>4
  <2> QED BY <1>3, <2>3, <2>4, <2>5, <2>6 DEF q, w
<1>4. Len(p) < HISTORY_SIZE \/ Len(p) = HISTORY_SIZE
  BY <1>1, Sizes
<1> QED BY <1>2, <1>3, <1>4

\* The fields save_line_to_history leaves behind.
LEMMA SaveFields ==
  ASSUME NEW k \in Consoles, NEW row \in Rows
  PROVE  LET j == save_line_to_history(k, row)
         IN  /\ j.vga = k.vga /\ j.tty_buf = k.tty_buf /\ j.screen_backup = k.screen_backup
             /\ j.tty_row = k.tty_row /\ j.tty_col = k.tty_col /\ j.tty_cur = k.tty_cur
             /\ j.cursor_row = k.cursor_row /\ j.cursor_col = k.cursor_col
             /\ j.is_viewing_history = k.is_viewing_history
             /\ j.history_view_offset = k.history_view_offset
             /\ j.simple_history = [k.simple_history EXCEPT ![k.history_write_pos] = k.vga[row]]
             /\ j.history_write_pos = (k.history_write_pos + 1) % HISTORY_SIZE
             /\ j.history_count = Least(k.history_count + 1, HISTORY_SIZE)
             /\ j.past = Newest(Append(k.past, k.vga[row]))
BY DEF save_line_to_history, Consoles

\* save_line_to_history keeps the ring and the past the same lines.
LEMMA SaveLine ==
  ASSUME NEW k \in Consoles, RingInv(k), NEW row \in Rows
  PROVE  OnlySaved(k, save_line_to_history(k, row))
<1> DEFINE j == save_line_to_history(k, row)
           line == k.vga[row]
           wp == k.history_write_pos
           n == k.history_count
<1>1. /\ k.vga \in Screens /\ line \in Line1 /\ k.past \in Seq(Line1) /\ Len(k.past) = n
      /\ k.simple_history \in [Ring -> Line1] /\ wp \in Ring /\ n \in 0 .. HISTORY_SIZE
  BY DEF Consoles, Screens, Line1, RingInv
<1>2. /\ j.simple_history = [k.simple_history EXCEPT ![wp] = line]
      /\ j.history_write_pos = (wp + 1) % HISTORY_SIZE
      /\ j.history_count = Least(n + 1, HISTORY_SIZE)
      /\ j.past = Newest(Append(k.past, line))
  BY SaveFields
<1>3. /\ j.history_count \in 0 .. HISTORY_SIZE /\ j.history_count >= n
      /\ j.history_write_pos \in Ring
      /\ j.simple_history \in [Ring -> Line1]
      /\ j.past \in Seq(Line1)
  <2>1. j.history_count \in 0 .. HISTORY_SIZE /\ j.history_count >= n
    BY <1>1, <1>2, Sizes DEF Least
  <2>2. wp + 1 \in Int
    BY <1>1, Sizes DEF Ring
  <2>3. j.history_write_pos \in Ring
    BY <1>2, <2>2, RingMod
  <2>4. j.past \in Seq(Line1)
    BY <1>1, <1>2, NewestLines
  <2> QED BY <1>1, <1>2, <2>1, <2>3, <2>4
<1>4. j \in Consoles
  BY <1>3 DEF save_line_to_history, Consoles
<1>5. RingInv(j)
  <2>1. /\ wp \in Int /\ 0 <= wp /\ wp < HISTORY_SIZE
        /\ n \in Nat /\ HISTORY_SIZE \in Nat \ {0}
        /\ wp + 1 < HISTORY_SIZE => j.history_write_pos = wp + 1
        /\ wp + 1 = HISTORY_SIZE => j.history_write_pos = 0
    <3>1. wp \in Int /\ 0 <= wp /\ wp < HISTORY_SIZE
      BY <1>1, Sizes DEF Ring
    <3>2. wp + 1 \in Int /\ wp + 1 >= 0 /\ HISTORY_SIZE < 2 * HISTORY_SIZE
          /\ HISTORY_SIZE - HISTORY_SIZE = 0 /\ HISTORY_SIZE <= HISTORY_SIZE
      BY <3>1, Sizes
    <3>3. /\ wp + 1 < HISTORY_SIZE => (wp + 1) % HISTORY_SIZE = wp + 1
          /\ wp + 1 = HISTORY_SIZE => (wp + 1) % HISTORY_SIZE = 0
      BY <3>2, RingMod
    <3> QED BY <1>1, <1>2, <3>1, <3>3, Sizes
  <2>2. CASE n < HISTORY_SIZE
    <3>1. /\ j.history_count = n + 1 /\ Len(j.past) = n + 1
          /\ \A i \in 1 .. n : j.past[i] = k.past[i]
          /\ j.past[n + 1] = line
      BY <1>1, <1>2, <2>1, <2>2, NewestLines DEF Least
    <3>2. \A i \in 1 .. (n + 1) : RingIndex(j, i) = (wp - n + i - 1) % HISTORY_SIZE
      <4>1. SUFFICES ASSUME NEW i \in 1 .. (n + 1)
                     PROVE  (j.history_write_pos - (n + 1) + i - 1) % HISTORY_SIZE
                              = (wp - n + i - 1) % HISTORY_SIZE
        BY <3>1 DEF RingIndex
      <4>2. CASE wp + 1 < HISTORY_SIZE
        BY <2>1, <4>2
      <4>3. CASE wp + 1 = HISTORY_SIZE
        <5>1. /\ 0 - (n + 1) + i - 1 \in Int
              /\ -HISTORY_SIZE <= 0 - (n + 1) + i - 1 /\ 0 - (n + 1) + i - 1 < 0
          BY <2>1, <2>2
        <5>2. (0 - (n + 1) + i - 1) % HISTORY_SIZE = 0 - (n + 1) + i - 1 + HISTORY_SIZE
          BY <2>1, <5>1, RingMod
        <5>3. /\ wp - n + i - 1 \in Int
              /\ 0 <= wp - n + i - 1 /\ wp - n + i - 1 < HISTORY_SIZE
              /\ wp - n + i - 1 = 0 - (n + 1) + i - 1 + HISTORY_SIZE
          BY <2>1, <2>2, <4>3
        <5>4. (wp - n + i - 1) % HISTORY_SIZE = wp - n + i - 1
          BY <2>1, <5>3, RingMod
        <5> QED BY <2>1, <4>3, <5>2, <5>3, <5>4
      <4> QED BY <2>1, <4>2, <4>3
    <3>3. ASSUME NEW i \in 1 .. n
          PROVE  j.simple_history[RingIndex(j, i)] = j.past[i]
      <4>1. (wp - n + i - 1) % HISTORY_SIZE \in Ring \ {wp}
        <5>1. wp - n + i - 1 \in Int /\ -HISTORY_SIZE <= wp - n + i - 1
              /\ wp - n + i - 1 < HISTORY_SIZE /\ wp - n + i - 1 < wp
              /\ wp - n + i - 1 + HISTORY_SIZE > wp
          BY <2>1, <2>2
        <5> DEFINE x == wp - n + i - 1
        <5> HIDE DEF x
        <5>2. /\ x % HISTORY_SIZE \in Ring
              /\ 0 <= x => x % HISTORY_SIZE = x
              /\ x < 0 => x % HISTORY_SIZE = x + HISTORY_SIZE
          BY <5>1, RingMod DEF x
        <5> QED BY <2>1, <5>1, <5>2 DEF x
      <4>2. RingIndex(k, i) = (wp - n + i - 1) % HISTORY_SIZE
        BY DEF RingIndex
      <4>3. k.simple_history[RingIndex(k, i)] = k.past[i]
        BY DEF RingInv
      <4>4. i \in 1 .. (n + 1)
        BY <2>1
      <4> QED BY <1>1, <1>2, <3>1, <3>2, <4>1, <4>2, <4>3, <4>4
    <3>4. j.simple_history[RingIndex(j, n + 1)] = j.past[n + 1]
      <4>1. wp - n + (n + 1) - 1 = wp /\ wp % HISTORY_SIZE = wp
        BY <2>1, RingMod
      <4>2. n + 1 \in 1 .. (n + 1)
        BY <2>1
      <4> QED BY <1>1, <1>2, <3>1, <3>2, <4>1, <4>2
    <3>5. \A i \in 1 .. (n + 1) : i \in 1 .. n \/ i = n + 1
      BY <2>1
    <3> HIDE DEF j, n
    <3> QED BY <3>1, <3>3, <3>4, <3>5 DEF RingInv
  <2>3. CASE n = HISTORY_SIZE
    <3> DEFINE size == HISTORY_SIZE
    <3>1. /\ j.history_count = size /\ Len(j.past) = size
          /\ \A i \in 1 .. (size - 1) : j.past[i] = k.past[i + 1]
          /\ j.past[size] = line
      <4>1. Least(size + 1, size) = size
        BY <2>1 DEF Least
      <4>2. j.history_count = size
        BY <1>2, <2>3, <4>1
      <4>3. Len(k.past) <= HISTORY_SIZE /\ Len(k.past) = HISTORY_SIZE
        BY <1>1, <2>1, <2>3
      <4> DEFINE p == k.past
                 w == Newest(Append(p, line))
      <4>4. p \in Seq(Line1) /\ line \in Line1
        BY <1>1
      <4> HIDE DEF p, line
      <4>5. /\ Len(w) = HISTORY_SIZE
            /\ \A i \in 1 .. (HISTORY_SIZE - 1) : w[i] = p[i + 1]
            /\ w[HISTORY_SIZE] = line
        BY <4>3, <4>4, NewestLines DEF p
      <4>6. j.past = w
        BY <1>2 DEF p, line
      <4> HIDE DEF j, w
      <4> QED BY <4>2, <4>5, <4>6 DEF p
    <3>2. \A i \in 1 .. size : RingIndex(j, i) = (wp - size + i) % size
      <4>1. SUFFICES ASSUME NEW i \in 1 .. size
                     PROVE  (j.history_write_pos - size + i - 1) % size
                              = (wp - size + i) % size
        BY <3>1 DEF RingIndex
      <4>2. CASE wp + 1 < size
        <5>1. wp + 1 - size + i - 1 = wp - size + i
          BY <2>1
        <5> QED BY <2>1, <4>2, <5>1
      <4>3. CASE wp + 1 = size
        <5>1. /\ 0 - size + i - 1 \in Int
              /\ -size <= 0 - size + i - 1 /\ 0 - size + i - 1 < 0
          BY <2>1
        <5>2. (0 - size + i - 1) % size = 0 - size + i - 1 + size
          BY <2>1, <5>1, RingMod
        <5>3. /\ wp - size + i \in Int
              /\ 0 <= wp - size + i /\ wp - size + i < size
              /\ wp - size + i = 0 - size + i - 1 + size
          BY <2>1, <4>3
        <5>4. (wp - size + i) % size = wp - size + i
          BY <2>1, <5>3, RingMod
        <5> QED BY <2>1, <4>3, <5>2, <5>3, <5>4
      <4> QED BY <2>1, <4>2, <4>3
    <3>3. ASSUME NEW i \in 1 .. (size - 1)
          PROVE  j.simple_history[RingIndex(j, i)] = j.past[i]
      <4>1. (wp - size + i) % size \in Ring \ {wp}
        <5>1. wp - size + i \in Int /\ -size <= wp - size + i
              /\ wp - size + i < size /\ wp - size + i < wp
              /\ wp - size + i + size > wp
          BY <2>1
        <5> DEFINE x == wp - size + i
        <5> HIDE DEF x
        <5>2. /\ x % size \in Ring
              /\ 0 <= x => x % size = x
              /\ x < 0 => x % size = x + size
          BY <5>1, RingMod DEF x
        <5> QED BY <2>1, <5>1, <5>2 DEF x
      <4>2. RingIndex(k, i + 1) = (wp - size + i) % size
        <5>1. wp - size + (i + 1) - 1 = wp - size + i
          BY <2>1
        <5> QED BY <2>3, <5>1 DEF RingIndex
      <4>3. k.simple_history[RingIndex(k, i + 1)] = k.past[i + 1]
        BY <2>1, <2>3 DEF RingInv
      <4>4. i \in 1 .. size
        BY <2>1
      <4> QED BY <1>1, <1>2, <3>1, <3>2, <4>1, <4>2, <4>3, <4>4
    <3>4. j.simple_history[RingIndex(j, size)] = j.past[size]
      <4>1. wp - size + size = wp /\ wp % size = wp
        BY <2>1, RingMod
      <4>2. size \in 1 .. size
        BY <2>1
      <4> QED BY <1>1, <1>2, <3>1, <3>2, <4>1, <4>2
    <3>5. \A i \in 1 .. size : i \in 1 .. (size - 1) \/ i = size
      BY <2>1
    <3> HIDE DEF j, size
    <3> QED BY <3>1, <3>3, <3>4, <3>5 DEF RingInv
  <2> QED BY <1>1, <2>1, <2>2, <2>3
<1> QED BY <1>3, <1>4, <1>5, SaveFields DEF OnlySaved
\* after is the function that SaveAllLines defines by recursion, up to row m.
SavedTo(k, m, after) ==
  after = [n \in 0 .. m |-> IF n = 0 THEN k ELSE save_line_to_history(after[n - 1], n - 1)]

\* There is such a function.
LEMMA SavedToExists ==
  ASSUME NEW k
  PROVE  \A m \in Nat : \E after : SavedTo(k, m, after)
<1> DEFINE S == {m \in Nat : \E after : SavedTo(k, m, after)}
<1>1. 0 \in S
  <2> DEFINE g == [n \in 0 .. 0 |-> k]
  <2>1. SavedTo(k, 0, g)
    <3>1. \A n \in 0 .. 0 : n = 0
      OBVIOUS
    <3> QED BY <3>1 DEF SavedTo
  <2> QED BY <2>1
<1>2. ASSUME NEW m \in Nat, m \in S
      PROVE  m + 1 \in S
  <2>1. PICK g : SavedTo(k, m, g)
    BY <1>2
  <2> DEFINE h == [n \in 0 .. (m + 1) |-> IF n = 0 THEN k ELSE save_line_to_history(g[n - 1], n - 1)]
  <2>2. \A n \in 0 .. m : h[n] = g[n]
    BY <2>1 DEF SavedTo
  <2>3. \A n \in 0 .. (m + 1) : n # 0 => n - 1 \in 0 .. m
    OBVIOUS
  <2>4. h = [n \in 0 .. (m + 1) |-> IF n = 0 THEN k ELSE save_line_to_history(h[n - 1], n - 1)]
    BY <2>2, <2>3
  <2>5. SavedTo(k, m + 1, h)
    BY <2>4 DEF SavedTo
  <2>6. \E after : SavedTo(k, m + 1, after)
    BY <2>5
  <2> QED BY <2>6
<1> HIDE DEF S
<1>3. Nat \subseteq S
  BY <1>1, <1>2, SetInduction
<1> QED BY <1>3 DEF S

\* What is left of a console is left of it after one more line.
LEMMA SavedMore ==
  ASSUME NEW k, NEW j, OnlySaved(k, j), k \in Consoles, NEW row \in Rows
  PROVE  OnlySaved(k, save_line_to_history(j, row))
<1> DEFINE i == save_line_to_history(j, row)
<1>1. OnlySaved(j, i)
  BY SaveLine DEF OnlySaved
<1>2. /\ k.history_count \in Int /\ j.history_count \in Int /\ i.history_count \in Int
  BY <1>1, Sizes DEF OnlySaved, Consoles
<1> HIDE DEF i
<1>3. i.history_count >= k.history_count
  BY <1>1, <1>2 DEF OnlySaved
<1>4. OnlySaved(k, i)
  BY <1>1, <1>3 DEF OnlySaved
<1> QED BY <1>4 DEF i

\* The loop of clear_screen saves every row and changes nothing else.
LEMMA SaveAll ==
  ASSUME NEW k \in Consoles, RingInv(k)
  PROVE  OnlySaved(k, SaveAllLines(k))
<1> DEFINE g == CHOOSE after : SavedTo(k, VGA_HEIGHT, after)
<1>1. SavedTo(k, VGA_HEIGHT, g)
  <2>1. \E after : SavedTo(k, VGA_HEIGHT, after)
    BY Sizes, SavedToExists
  <2> QED BY <2>1
<1>2. SaveAllLines(k) = g[VGA_HEIGHT]
  BY DEF SaveAllLines, SavedTo
<1> HIDE DEF g
<1> DEFINE S == {n \in Nat : n <= VGA_HEIGHT => OnlySaved(k, g[n])}
<1>3. 0 \in S
  <2>1. g[0] = k
    BY <1>1, Sizes DEF SavedTo
  <2>2. k.history_count >= k.history_count
    BY Sizes DEF Consoles
  <2>3. OnlySaved(k, k)
    BY <2>2 DEF OnlySaved
  <2> QED BY <2>1, <2>3
<1>4. ASSUME NEW n \in Nat, n \in S
      PROVE  n + 1 \in S
  <2>1. SUFFICES ASSUME n + 1 <= VGA_HEIGHT
                 PROVE  OnlySaved(k, g[n + 1])
    OBVIOUS
  <2>2. n <= VGA_HEIGHT /\ n \in Rows /\ n + 1 \in 0 .. VGA_HEIGHT /\ n + 1 # 0 /\ (n + 1) - 1 = n
    BY <2>1, Sizes DEF Rows
  <2>3. OnlySaved(k, g[n])
    BY <1>4, <2>2
  <2>4. g[n + 1] = save_line_to_history(g[n], n)
    BY <1>1, <2>2 DEF SavedTo
  <2> QED BY <2>2, <2>3, <2>4, SavedMore
<1> HIDE DEF S
<1>5. Nat \subseteq S
  BY <1>3, <1>4, SetInduction
<1>6. VGA_HEIGHT \in S /\ VGA_HEIGHT <= VGA_HEIGHT
  BY <1>5, Sizes
<1> QED BY <1>2, <1>6 DEF S
-----------------------------------------------------------------------------
(***************************************************************************)
(* Calls that draw the active terminal, and calls that move its cursor     *)
(***************************************************************************)

\* The cells of the terminals that are not active, but for a spilled one.
OthersKept(k, j, spills) ==
  \A t \in Ttys : t # k.tty_cur =>
    \A r \in Rows, c \in Cols :
      (spills /\ SpillCell(k, t, r, c)) \/ j.tty_buf[t][r][c] = k.tty_buf[t][r][c]

\* A call that leaves the active terminal's buffer on the screen and in the
\* backup keeps the invariant.
LEMMA Redrawn ==
  ASSUME NEW k, Good(k), NEW j \in Consoles, NEW spills, RingInv(j),
         j.history_count >= k.history_count, j.cursor_row \in Rows,
         j.tty_cur = k.tty_cur, j.tty_row = k.tty_row, j.tty_col = k.tty_col,
         \/ ~j.is_viewing_history
         \/ k.is_viewing_history /\ j.history_view_offset = k.history_view_offset,
         j.vga = TBUF(j), j.screen_backup = TBUF(j), OthersKept(k, j, spills)
  PROVE  ConsoleInv(j) /\ Isolated(k, j, spills)
<1>1. OffsetInv(j)
  <2> SUFFICES ASSUME j.is_viewing_history
               PROVE  LinesToShow(j) + j.history_view_offset <= j.history_count
    BY DEF OffsetInv
  <2>1. LinesToShow(k) + k.history_view_offset <= k.history_count
    BY DEF Good, OffsetInv
  <2>2. /\ k.history_count \in Int /\ j.history_count \in Int
        /\ k.history_view_offset \in Int
    BY Sizes DEF Good, Consoles
  <2> QED BY <2>1, <2>2, Sizes DEF LinesToShow, Least
<1>2. Matches(j) /\ ViewInv(j)
  BY DEF Matches, ViewInv
<1>3. Isolated(k, j, spills)
  BY DEF Isolated, OthersKept, CursorOf
<1> QED BY <1>1, <1>2, <1>3 DEF ConsoleInv, Good

\* A call that only moves the cursor keeps the invariant.
LEMMA CursorMoved ==
  ASSUME NEW k, ConsoleInv(k), NEW row \in Rows, NEW col \in Bytes
  PROVE  LET j == [k EXCEPT !.cursor_row = row, !.cursor_col = col]
         IN  ConsoleInv(j) /\ Isolated(k, j, NoSpill)
<1> DEFINE j == [k EXCEPT !.cursor_row = row, !.cursor_col = col]
<1>1. k \in Consoles
  BY DEF ConsoleInv, Good
<1>2. /\ j.vga = k.vga /\ j.tty_buf = k.tty_buf /\ j.screen_backup = k.screen_backup
      /\ j.tty_row = k.tty_row /\ j.tty_col = k.tty_col /\ j.tty_cur = k.tty_cur
      /\ j.cursor_row = row /\ j.cursor_col = col
      /\ j.is_viewing_history = k.is_viewing_history
      /\ j.history_view_offset = k.history_view_offset
      /\ j.history_count = k.history_count /\ j.past = k.past
      /\ j.simple_history = k.simple_history /\ j.history_write_pos = k.history_write_pos
  BY <1>1 DEF Consoles
<1>3. j \in Consoles
  <2>1. row \in 0 .. VGA_HEIGHT
    BY Sizes DEF Rows
  <2> QED BY <1>1, <2>1 DEF Consoles
<1> HIDE DEF j
<1>4. LinesToShow(j) = LinesToShow(k) /\ TBUF(j) = TBUF(k)
  BY <1>2 DEF LinesToShow, TBUF
<1>5. RingInv(j)
  BY <1>2 DEF ConsoleInv, Good, RingInv, RingIndex
<1>6. OffsetInv(j)
  BY <1>2, <1>4 DEF ConsoleInv, Good, OffsetInv
<1>7. Matches(j)
  BY <1>2, <1>4 DEF ConsoleInv, Matches
<1>8. ViewInv(j)
  BY <1>2, <1>4 DEF ConsoleInv, ViewInv, FirstShown
<1>9. Isolated(k, j, NoSpill)
  BY <1>2 DEF Isolated, CursorOf
<1>10. ConsoleInv(j)
  BY <1>2, <1>3, <1>5, <1>6, <1>7, <1>8 DEF ConsoleInv, Good
<1> QED BY <1>9, <1>10 DEF j

\* The calls that set the cursor, or move it left and right.
LEMMA CursorCalls ==
  ASSUME NEW k, ConsoleInv(k)
  PROVE  /\ \A row \in Nat :
              ConsoleInv(set_cursor_row(k, row)) /\ Isolated(k, set_cursor_row(k, row), NoSpill)
         /\ \A col \in Nat :
              ConsoleInv(set_cursor_col(k, col)) /\ Isolated(k, set_cursor_col(k, col), NoSpill)
         /\ ConsoleInv(move_cursor_left(k)) /\ Isolated(k, move_cursor_left(k), NoSpill)
         /\ ConsoleInv(move_cursor_right(k)) /\ Isolated(k, move_cursor_right(k), NoSpill)
<1> DEFINE at(row, col) == [k EXCEPT !.cursor_row = row, !.cursor_col = col]
           Fine(j) == ConsoleInv(j) /\ Isolated(k, j, NoSpill)
<1>1. k \in Consoles /\ k.cursor_row \in Rows /\ k.cursor_col \in Bytes
  BY DEF ConsoleInv, Good, Consoles
<1>2. \A row \in Rows, col \in Bytes : Fine(at(row, col))
  BY CursorMoved
<1>3. k = at(k.cursor_row, k.cursor_col)
  BY <1>1 DEF Consoles
<1>4. Fine(k)
  <2>1. Fine(at(k.cursor_row, k.cursor_col))
    BY <1>1, <1>2
  <2> HIDE DEF Fine, at
  <2> QED BY <2>1, <1>3
<1>5. \A row : [k EXCEPT !.cursor_row = row] = at(row, k.cursor_col)
  BY <1>1 DEF Consoles
<1>6. \A col : [k EXCEPT !.cursor_col = col] = at(k.cursor_row, col)
  BY <1>1 DEF Consoles
<1> HIDE DEF Fine, at
<1>7. ASSUME NEW row \in Nat
      PROVE  Fine(set_cursor_row(k, row))
  <2>1. row < VGA_HEIGHT => row \in Rows
    BY Sizes DEF Rows
  <2> QED BY <1>1, <1>2, <1>4, <1>5, <2>1 DEF set_cursor_row
<1>8. ASSUME NEW col \in Nat
      PROVE  Fine(set_cursor_col(k, col))
  <2>1. col < VGA_WIDTH => col \in Bytes
    BY Sizes DEF Bytes
  <2> QED BY <1>1, <1>2, <1>4, <1>6, <2>1 DEF set_cursor_col
<1>9. Fine(move_cursor_left(k))
  <2>1. /\ k.cursor_col > 0 => k.cursor_col - 1 \in Bytes
        /\ k.cursor_row > 0 => k.cursor_row - 1 \in Rows
        /\ VGA_WIDTH - 1 \in Bytes
    BY <1>1, Sizes DEF Rows, Bytes
  <2>2. [k EXCEPT !.cursor_row = @ - 1, !.cursor_col = VGA_WIDTH - 1]
          = at(k.cursor_row - 1, VGA_WIDTH - 1)
    BY <1>1 DEF Consoles, at
  <2>3. [k EXCEPT !.cursor_col = @ - 1] = at(k.cursor_row, k.cursor_col - 1)
    BY <1>1 DEF Consoles, at
  <2> QED BY <1>1, <1>2, <1>4, <2>1, <2>2, <2>3 DEF move_cursor_left
<1>10. Fine(move_cursor_right(k))
  <2>1. /\ k.cursor_col < VGA_WIDTH - 1 => k.cursor_col + 1 \in Bytes
        /\ k.cursor_row < VGA_HEIGHT - 1 => k.cursor_row + 1 \in Rows
        /\ 0 \in Bytes
    BY <1>1, Sizes DEF Rows, Bytes
  <2>2. [k EXCEPT !.cursor_row = @ + 1, !.cursor_col = 0] = at(k.cursor_row + 1, 0)
    BY <1>1 DEF Consoles, at
  <2>3. [k EXCEPT !.cursor_col = @ + 1] = at(k.cursor_row, k.cursor_col + 1)
    BY <1>1 DEF Consoles, at
  <2> QED BY <1>1, <1>2, <1>4, <2>1, <2>2, <2>3 DEF move_cursor_right
<1> QED BY <1>7, <1>8, <1>9, <1>10 DEF Fine
-----------------------------------------------------------------------------
(***************************************************************************)
(* The view of the ring                                                    *)
(***************************************************************************)

\* A slot counted on from the slot of an index x is the slot of the sum,
\* while that is at most one turn on.
LEMMA SlotAfter ==
  ASSUME NEW x \in Int, NEW r \in Nat, -HISTORY_SIZE <= x, x + r < HISTORY_SIZE
  PROVE  ((x % HISTORY_SIZE) + r) % HISTORY_SIZE = (x + r) % HISTORY_SIZE
<1>1. HISTORY_SIZE \in Nat \ {0}
  BY Sizes
<1>2. CASE 0 <= x
  <2>1. x < HISTORY_SIZE
    BY <1>1
  <2>2. x % HISTORY_SIZE = x
    BY <1>1, <1>2, <2>1, RingMod
  <2> QED BY <2>2
<1>3. CASE x < 0
  <2>1. x % HISTORY_SIZE = x + HISTORY_SIZE
    BY <1>1, <1>3, RingMod
  <2> DEFINE y == x + r
             z == x + HISTORY_SIZE + r
  <2>2. y \in Int /\ z \in Int /\ z = y + HISTORY_SIZE /\ y < HISTORY_SIZE /\ -HISTORY_SIZE <= y
    BY <1>1
  <2> HIDE DEF y, z
  <2>3. CASE 0 <= y
    <3>1. HISTORY_SIZE <= z /\ z < 2 * HISTORY_SIZE
      BY <1>1, <2>2, <2>3
    <3>2. y % HISTORY_SIZE = y
      BY <2>2, <2>3, RingMod
    <3>3. z % HISTORY_SIZE = z - HISTORY_SIZE
      BY <2>2, <3>1, RingMod
    <3>4. z - HISTORY_SIZE = y
      BY <1>1, <2>2
    <3> QED BY <2>1, <3>2, <3>3, <3>4 DEF y, z
  <2>4. CASE y < 0
    <3>1. 0 <= z /\ z < HISTORY_SIZE
      BY <1>1, <2>2, <2>4
    <3>2. y % HISTORY_SIZE = y + HISTORY_SIZE
      BY <2>2, <2>4, RingMod
    <3>3. z % HISTORY_SIZE = z
      BY <2>2, <3>1, RingMod
    <3> QED BY <2>1, <2>2, <3>2, <3>3 DEF y, z
  <2> QED BY <2>2, <2>3, <2>4
<1> QED BY <1>2, <1>3

\* The number of lines the view has.
LEMMA LinesShown ==
  ASSUME NEW k \in Consoles
  PROVE  /\ LinesToShow(k) \in 0 .. (VGA_HEIGHT - 1)
         /\ LinesToShow(k) <= k.history_count /\ k.history_count \in 0 .. HISTORY_SIZE
<1>1. k.history_count \in 0 .. HISTORY_SIZE
  BY DEF Consoles
<1> QED BY <1>1, Sizes DEF LinesToShow, Least

\* show_history_lines draws the lines of the past that the offset selects.
LEMMA ShowLines ==
  ASSUME NEW k, Good(k), k.is_viewing_history, k.screen_backup = TBUF(k),
         k.cursor_row \in Rows
  PROVE  LET j == show_history_lines(k)
         IN  /\ ConsoleInv(j)
             /\ j.tty_buf = k.tty_buf /\ j.tty_cur = k.tty_cur
             /\ j.tty_row = k.tty_row /\ j.tty_col = k.tty_col
             /\ j.cursor_row = k.cursor_row /\ j.cursor_col = k.cursor_col
<1> DEFINE j == show_history_lines(k)
           L == LinesToShow(k)
           off == k.history_view_offset
           wp == k.history_write_pos
           n == k.history_count
           x == wp - L - off
<1>1. k \in Consoles /\ RingInv(k)
  BY DEF Good
<1>2. /\ j.tty_buf = k.tty_buf /\ j.screen_backup = k.screen_backup
      /\ j.tty_row = k.tty_row /\ j.tty_col = k.tty_col /\ j.tty_cur = k.tty_cur
      /\ j.cursor_row = k.cursor_row /\ j.cursor_col = k.cursor_col
      /\ j.is_viewing_history = k.is_viewing_history
      /\ j.history_view_offset = k.history_view_offset
      /\ j.history_count = k.history_count /\ j.past = k.past
      /\ j.simple_history = k.simple_history /\ j.history_write_pos = k.history_write_pos
      /\ j.vga = [r \in Rows |->
           IF r < L THEN Shown(k.simple_history[(StartIndex(k) + r) % HISTORY_SIZE])
           ELSE Line(IF r = L THEN "notice" ELSE Blank)]
  BY <1>1 DEF show_history_lines, Consoles
<1>3. /\ L \in 0 .. (VGA_HEIGHT - 1) /\ L + off <= n /\ n \in 0 .. HISTORY_SIZE
      /\ off \in 0 .. HISTORY_SIZE /\ wp \in 0 .. (HISTORY_SIZE - 1)
  BY <1>1, LinesShown DEF Good, OffsetInv, Consoles, Ring
<1>4. StartIndex(k) = x % HISTORY_SIZE
  BY DEF StartIndex
<1>5. x \in Int /\ -HISTORY_SIZE <= x
  BY <1>3, Sizes
<1> HIDE DEF L
<1>6. ASSUME NEW r \in 0 .. (L - 1)
      PROVE  /\ r \in Rows /\ r < L
             /\ FirstShown(k) + r \in 1 .. n
             /\ (StartIndex(k) + r) % HISTORY_SIZE = RingIndex(k, FirstShown(k) + r)
  <2>1. r \in Rows /\ r < L /\ r \in Nat
    BY <1>3, Sizes DEF Rows
  <2>2. FirstShown(k) = 1 + n - off - L
    BY DEF FirstShown, L
  <2>3. FirstShown(k) + r \in 1 .. n /\ wp - n + (FirstShown(k) + r) - 1 = x + r
    BY <1>3, <2>1, <2>2
  <2>4. x + r < HISTORY_SIZE
    BY <1>3, <2>1, Sizes
  <2>5. ((x % HISTORY_SIZE) + r) % HISTORY_SIZE = (x + r) % HISTORY_SIZE
    BY <1>5, <2>1, <2>4, SlotAfter
  <2> QED BY <1>4, <2>1, <2>3, <2>5 DEF RingIndex
<1>7. j.vga \in Screens
  <2>1. ASSUME NEW line \in Line1
        PROVE  Shown(line) \in Line1
    BY ConsoleAssumption DEF Shown, Line1, Cells
  <2>2. Line("notice") \in Line1 /\ Line(Blank) \in Line1
    BY ConsoleAssumption DEF Line, Line1, Cells
  <2>3. ASSUME NEW r \in Rows
        PROVE  k.simple_history[(StartIndex(k) + r) % HISTORY_SIZE] \in Line1
    <3>1. StartIndex(k) \in Int /\ r \in Int
      BY <1>4, <1>5, RingMod, Sizes DEF Rows, Ring
    <3>2. StartIndex(k) + r \in Int
      BY <3>1
    <3>3. (StartIndex(k) + r) % HISTORY_SIZE \in Ring
      BY <3>2, RingMod
    <3> QED BY <1>1, <3>3 DEF Consoles
  <2> HIDE DEF j
  <2>4. \A r \in Rows : j.vga[r] \in Line1
    BY <1>2, <2>1, <2>2, <2>3
  <2> QED BY <1>2, <2>4 DEF Screens, Line1
<1>8. j \in Consoles
  <2>1. j = [k EXCEPT !.vga = j.vga]
    BY <1>1 DEF show_history_lines, Consoles
  <2> HIDE DEF j
  <2>2. [k EXCEPT !.vga = j.vga] \in Consoles
    BY <1>1, <1>7 DEF Consoles
  <2> QED BY <2>1, <2>2
<1> HIDE DEF j
<1>9. LinesToShow(j) = L /\ FirstShown(j) = FirstShown(k) /\ TBUF(j) = TBUF(k)
  BY <1>2 DEF LinesToShow, FirstShown, TBUF, L
<1>10. RingInv(j) /\ OffsetInv(j) /\ Matches(j)
  <2>1. RingInv(j)
    BY <1>1, <1>2 DEF RingInv, RingIndex
  <2>2. OffsetInv(j)
    BY <1>2, <1>3, <1>9 DEF OffsetInv
  <2> QED BY <2>1, <2>2, <1>2, <1>9 DEF Matches
<1>11. ViewInv(j)
  <2> SUFFICES ASSUME NEW r \in 0 .. (L - 1)
               PROVE  j.vga[r] = Shown(j.past[FirstShown(k) + r])
    BY <1>9 DEF ViewInv
  <2>1. j.vga[r] = Shown(k.simple_history[(StartIndex(k) + r) % HISTORY_SIZE])
    BY <1>2, <1>6
  <2>2. k.simple_history[RingIndex(k, FirstShown(k) + r)] = k.past[FirstShown(k) + r]
    BY <1>1, <1>6 DEF RingInv
  <2> QED BY <1>2, <1>6, <2>1, <2>2
<1>12. ConsoleInv(j)
  BY <1>2, <1>8, <1>10, <1>11 DEF ConsoleInv, Good
<1> QED BY <1>2, <1>12 DEF j
\* Consoles whose terminals are the same.
SameTtys(k, j) ==
  /\ j.tty_buf = k.tty_buf /\ j.tty_cur = k.tty_cur
  /\ j.tty_row = k.tty_row /\ j.tty_col = k.tty_col
  /\ j.cursor_row = k.cursor_row /\ j.cursor_col = k.cursor_col

\* A call that leaves the terminals as they are isolates them.
LEMMA SameIsolated ==
  ASSUME NEW k, NEW j, SameTtys(k, j)
  PROVE  Isolated(k, j, NoSpill)
BY DEF SameTtys, Isolated, CursorOf

\* Leaving the view brings the active terminal's buffer back, and nothing
\* else changes: the backup is that buffer.
LEMMA ViewLeft ==
  ASSUME NEW k, ConsoleInv(k)
  PROVE  /\ ConsoleInv(LeaveView(k)) /\ SameTtys(k, LeaveView(k))
         /\ ~LeaveView(k).is_viewing_history
<1> DEFINE j == LeaveView(k)
<1>1. k \in Consoles /\ RingInv(k) /\ k.screen_backup = TBUF(k) /\ k.cursor_row \in Rows
  BY DEF ConsoleInv, Good, Matches
<1>2. /\ k.tty_cur \in Ttys /\ k.tty_buf \in [Ttys -> Screens] /\ k.screen_backup \in Screens
      /\ [k.tty_buf EXCEPT ![k.tty_cur] = k.screen_backup] = k.tty_buf
  BY <1>1 DEF Consoles, TBUF
<1>3. /\ j.vga = k.screen_backup /\ j.screen_backup = k.screen_backup
      /\ j.tty_buf = [k.tty_buf EXCEPT ![k.tty_cur] = k.screen_backup]
      /\ j.tty_row = k.tty_row /\ j.tty_col = k.tty_col /\ j.tty_cur = k.tty_cur
      /\ j.cursor_row = k.cursor_row /\ j.cursor_col = k.cursor_col
      /\ ~j.is_viewing_history
      /\ j.history_count = k.history_count /\ j.past = k.past
      /\ j.simple_history = k.simple_history /\ j.history_write_pos = k.history_write_pos
  BY <1>1 DEF LeaveView, restore_screen_from_backup, Consoles
<1>4. j \in Consoles
  <2>1. FALSE \in BOOLEAN /\ 0 \in 0 .. HISTORY_SIZE
    BY Sizes
  <2>2. [k.tty_buf EXCEPT ![k.tty_cur] = k.screen_backup] \in [Ttys -> Screens]
    BY <1>2
  <2> QED BY <1>1, <2>1, <2>2 DEF LeaveView, restore_screen_from_backup, Consoles
<1> HIDE DEF j
<1>5. j.tty_buf = k.tty_buf /\ TBUF(j) = TBUF(k) /\ SameTtys(k, j)
  BY <1>2, <1>3 DEF TBUF, SameTtys
<1>6. RingInv(j)
  BY <1>1, <1>3 DEF RingInv, RingIndex
<1>7. OffsetInv(j) /\ Matches(j) /\ ViewInv(j)
  BY <1>1, <1>3, <1>5 DEF OffsetInv, Matches, ViewInv
<1>8. ConsoleInv(j)
  BY <1>1, <1>3, <1>4, <1>6, <1>7 DEF ConsoleInv, Good
<1> QED BY <1>3, <1>5, <1>8 DEF j

\* The view at another offset.
LEMMA OffsetSet ==
  ASSUME NEW k, ConsoleInv(k), NEW off \in 0 .. HISTORY_SIZE,
         LinesToShow(k) + off <= k.history_count, k.is_viewing_history
  PROVE  LET j == show_history_lines([k EXCEPT !.history_view_offset = off])
         IN  ConsoleInv(j) /\ SameTtys(k, j)
<1> DEFINE i == [k EXCEPT !.history_view_offset = off]
<1>1. k \in Consoles /\ RingInv(k) /\ k.screen_backup = TBUF(k) /\ k.cursor_row \in Rows
  BY DEF ConsoleInv, Good, Matches
<1>2. /\ i.vga = k.vga /\ i.tty_buf = k.tty_buf /\ i.screen_backup = k.screen_backup
      /\ i.tty_row = k.tty_row /\ i.tty_col = k.tty_col /\ i.tty_cur = k.tty_cur
      /\ i.cursor_row = k.cursor_row /\ i.cursor_col = k.cursor_col
      /\ i.is_viewing_history = k.is_viewing_history
      /\ i.history_view_offset = off
      /\ i.history_count = k.history_count /\ i.past = k.past
      /\ i.simple_history = k.simple_history /\ i.history_write_pos = k.history_write_pos
  BY <1>1 DEF Consoles
<1>3. i \in Consoles
  BY <1>1 DEF Consoles
<1> HIDE DEF i
<1>4. RingInv(i)
  BY <1>1, <1>2 DEF RingInv, RingIndex
<1>5. OffsetInv(i) /\ TBUF(i) = TBUF(k)
  BY <1>2 DEF OffsetInv, LinesToShow, TBUF
<1>6. Good(i) /\ i.is_viewing_history /\ i.screen_backup = TBUF(i) /\ i.cursor_row \in Rows
  BY <1>1, <1>2, <1>3, <1>4, <1>5 DEF Good
<1> DEFINE j == show_history_lines(i)
<1>7. /\ ConsoleInv(j)
      /\ j.tty_buf = i.tty_buf /\ j.tty_cur = i.tty_cur
      /\ j.tty_row = i.tty_row /\ j.tty_col = i.tty_col
      /\ j.cursor_row = i.cursor_row /\ j.cursor_col = i.cursor_col
  BY <1>6, ShowLines
<1> HIDE DEF j
<1>8. SameTtys(k, j)
  BY <1>2, <1>7 DEF SameTtys
<1> QED BY <1>7, <1>8 DEF i, j

\* The view when it is entered: the screen is backed up first.
LEMMA Entered ==
  ASSUME NEW k, ConsoleInv(k), ~k.is_viewing_history
  PROVE  LET j == show_history_lines(
                    [backup_current_screen(k) EXCEPT !.is_viewing_history = TRUE,
                                                     !.history_view_offset = 0])
         IN  ConsoleInv(j) /\ SameTtys(k, j)
<1> DEFINE i == [backup_current_screen(k) EXCEPT !.is_viewing_history = TRUE,
                                                 !.history_view_offset = 0]
<1>1. k \in Consoles /\ RingInv(k) /\ k.vga = TBUF(k) /\ k.cursor_row \in Rows
  BY DEF ConsoleInv, Good, Matches
<1>2. /\ i.tty_buf = k.tty_buf /\ i.screen_backup = k.vga
      /\ i.tty_row = k.tty_row /\ i.tty_col = k.tty_col /\ i.tty_cur = k.tty_cur
      /\ i.cursor_row = k.cursor_row /\ i.cursor_col = k.cursor_col
      /\ i.is_viewing_history
      /\ i.history_view_offset = 0
      /\ i.history_count = k.history_count /\ i.past = k.past
      /\ i.simple_history = k.simple_history /\ i.history_write_pos = k.history_write_pos
  BY <1>1 DEF Consoles, backup_current_screen
<1>3. i \in Consoles
  <2>1. TRUE \in BOOLEAN /\ 0 \in 0 .. HISTORY_SIZE
    BY Sizes
  <2> QED BY <1>1, <2>1 DEF Consoles, backup_current_screen
<1> HIDE DEF i
<1>4. RingInv(i)
  BY <1>1, <1>2 DEF RingInv, RingIndex
<1>5. OffsetInv(i) /\ TBUF(i) = TBUF(k)
  <2>1. LinesToShow(i) \in Int /\ LinesToShow(i) <= i.history_count
    BY <1>3, LinesShown, Sizes
  <2> QED BY <1>2, <2>1 DEF OffsetInv, TBUF
<1>6. Good(i) /\ i.is_viewing_history /\ i.screen_backup = TBUF(i) /\ i.cursor_row \in Rows
  BY <1>1, <1>2, <1>3, <1>4, <1>5 DEF Good
<1> DEFINE j == show_history_lines(i)
<1>7. /\ ConsoleInv(j)
      /\ j.tty_buf = i.tty_buf /\ j.tty_cur = i.tty_cur
      /\ j.tty_row = i.tty_row /\ j.tty_col = i.tty_col
      /\ j.cursor_row = i.cursor_row /\ j.cursor_col = i.cursor_col
  BY <1>6, ShowLines
<1> HIDE DEF j
<1>8. SameTtys(k, j)
  BY <1>2, <1>7 DEF SameTtys
<1> QED BY <1>7, <1>8 DEF i, j
\* The keys up and down, which move the cursor and, at the edges, the view.
LEMMA ViewUp ==
  ASSUME NEW k, ConsoleInv(k)
  PROVE  ConsoleInv(view_history_up(k)) /\ SameTtys(k, view_history_up(k))
<1>1. k \in Consoles /\ SameTtys(k, k)
  BY DEF ConsoleInv, Good, SameTtys
<1>2. CASE k.history_count = 0
  BY <1>1, <1>2 DEF view_history_up
<1>3. CASE k.history_count # 0 /\ k.is_viewing_history
  <2> DEFINE most == k.history_count - (VGA_HEIGHT - 1)
             next == Least(k.history_view_offset + 1, most)
             off == FurtherBack(k)
  <2>1. off = IF next < 0 THEN 0 ELSE next
    BY DEF FurtherBack
  <2>2. /\ k.history_count \in 0 .. HISTORY_SIZE
        /\ k.history_view_offset \in 0 .. HISTORY_SIZE
    BY <1>1 DEF Consoles
  <2>3. off \in 0 .. HISTORY_SIZE /\ LinesToShow(k) + off <= k.history_count
    BY <2>1, <2>2, Sizes DEF LinesToShow, Least
  <2> HIDE DEF off
  <2>4. view_history_up(k) = show_history_lines([k EXCEPT !.history_view_offset = off])
    BY <1>3 DEF view_history_up, off
  <2> QED BY <1>3, <2>3, <2>4, OffsetSet
<1>4. CASE k.history_count # 0 /\ ~k.is_viewing_history
  BY <1>4, Entered DEF view_history_up
<1> QED BY <1>2, <1>3, <1>4

\* The same of view_history_down.
LEMMA ViewDown ==
  ASSUME NEW k, ConsoleInv(k)
  PROVE  ConsoleInv(view_history_down(k)) /\ SameTtys(k, view_history_down(k))
<1>1. k \in Consoles /\ SameTtys(k, k)
  BY DEF ConsoleInv, Good, SameTtys
<1>2. CASE ~k.is_viewing_history
  BY <1>1, <1>2 DEF view_history_down
<1>3. CASE k.is_viewing_history /\ k.history_view_offset = 0
  BY <1>3, ViewLeft DEF view_history_down
<1>4. CASE k.is_viewing_history /\ k.history_view_offset # 0
  <2> DEFINE off == k.history_view_offset - 1
  <2>1. /\ k.history_view_offset \in 0 .. HISTORY_SIZE
        /\ LinesToShow(k) + k.history_view_offset <= k.history_count
        /\ LinesToShow(k) \in Int /\ k.history_count \in Int
    BY <1>1, <1>4, LinesShown, Sizes DEF Consoles, ConsoleInv, Good, OffsetInv
  <2>2. off \in 0 .. HISTORY_SIZE /\ LinesToShow(k) + off <= k.history_count
    BY <1>4, <2>1, Sizes
  <2>3. view_history_down(k) = show_history_lines([k EXCEPT !.history_view_offset = off])
    BY <1>4 DEF view_history_down
  <2> HIDE DEF off
  <2> QED BY <1>4, <2>2, <2>3, OffsetSet
<1> QED BY <1>2, <1>3, <1>4

\* The cursor keys up and down.
LEMMA UpDown ==
  ASSUME NEW k, ConsoleInv(k)
  PROVE  /\ ConsoleInv(move_cursor_up(k)) /\ Isolated(k, move_cursor_up(k), NoSpill)
         /\ ConsoleInv(move_cursor_down(k)) /\ Isolated(k, move_cursor_down(k), NoSpill)
<1> DEFINE at(row, col) == [k EXCEPT !.cursor_row = row, !.cursor_col = col]
           Fine(j) == ConsoleInv(j) /\ Isolated(k, j, NoSpill)
<1>1. k \in Consoles /\ k.cursor_row \in Rows /\ k.cursor_col \in Bytes
  BY DEF ConsoleInv, Good, Consoles
<1>2. \A row \in Rows : Fine(at(row, k.cursor_col))
  BY <1>1, CursorMoved
<1>3. /\ k.cursor_row > 0 => k.cursor_row - 1 \in Rows
      /\ k.cursor_row < VGA_HEIGHT - 1 => k.cursor_row + 1 \in Rows
  BY <1>1, Sizes DEF Rows
<1>4. /\ [k EXCEPT !.cursor_row = @ - 1] = at(k.cursor_row - 1, k.cursor_col)
      /\ [k EXCEPT !.cursor_row = @ + 1] = at(k.cursor_row + 1, k.cursor_col)
  BY <1>1 DEF Consoles
<1>5. Fine(view_history_up(k)) /\ Fine(view_history_down(k))
  BY ViewUp, ViewDown, SameIsolated
<1> HIDE DEF Fine, at
<1>6. Fine(move_cursor_up(k))
  BY <1>2, <1>3, <1>4, <1>5 DEF move_cursor_up
<1>7. Fine(move_cursor_down(k))
  BY <1>2, <1>3, <1>4, <1>5 DEF move_cursor_down
<1> QED BY <1>6, <1>7 DEF Fine

-----------------------------------------------------------------------------
(***************************************************************************)
(* Scrolling, clearing and switching                                       *)
(***************************************************************************)

\* The screens the output functions draw.
LEMMA ScreensDrawn ==
  /\ \A cell \in Cells : Screen(cell) \in Screens /\ Line(cell) \in [Cols -> Cells]
  /\ \A s \in Screens : MovedUp(s) \in Screens /\ MovedDown(s) \in Screens
<1>1. \A cell \in Cells : Line(cell) \in [Cols -> Cells]
  BY DEF Line
<1>2. \A cell \in Cells : Screen(cell) \in Screens
  BY <1>1 DEF Screen, Screens
<1>3. Line(Blank) \in [Cols -> Cells]
  BY <1>1, ConsoleAssumption DEF Cells
<1>4. \A r \in Rows : (r # VGA_HEIGHT - 1 => r + 1 \in Rows) /\ (r # 0 => r - 1 \in Rows)
  BY Sizes DEF Rows
<1>5. ASSUME NEW s \in Screens
      PROVE  MovedUp(s) \in Screens /\ MovedDown(s) \in Screens
  BY <1>3, <1>4 DEF MovedUp, MovedDown, Screens
<1> QED BY <1>1, <1>2, <1>5

\* The end of scroll_screen, scroll_up, scroll_down and clear_screen, after
\* they have saved lines: the screen s is drawn and backed up.
DrawAndBackup(i, s, row, col, viewing) ==
  backup_current_screen(
    [Drawn(i, s) EXCEPT !.cursor_row = row, !.cursor_col = col,
                        !.is_viewing_history = viewing])

\* What that leaves of the console i.
LEMMA DrawnOn ==
  ASSUME NEW i \in Consoles, NEW s \in Screens, NEW row \in Rows, NEW col \in Bytes,
         NEW viewing \in BOOLEAN
  PROVE  LET j == DrawAndBackup(i, s, row, col, viewing)
         IN  /\ j \in Consoles
             /\ j.vga = s /\ j.screen_backup = s /\ TBUF(j) = s
             /\ j.tty_buf = [i.tty_buf EXCEPT ![i.tty_cur] = s]
             /\ j.tty_row = i.tty_row /\ j.tty_col = i.tty_col /\ j.tty_cur = i.tty_cur
             /\ j.cursor_row = row /\ j.cursor_col = col
             /\ j.is_viewing_history = viewing
             /\ j.history_view_offset = i.history_view_offset
             /\ j.history_count = i.history_count /\ j.past = i.past
             /\ j.simple_history = i.simple_history
             /\ j.history_write_pos = i.history_write_pos
<1> DEFINE j == DrawAndBackup(i, s, row, col, viewing)
<1>1. /\ j.vga = s /\ j.screen_backup = s
      /\ j.tty_buf = [i.tty_buf EXCEPT ![i.tty_cur] = s]
      /\ j.tty_row = i.tty_row /\ j.tty_col = i.tty_col /\ j.tty_cur = i.tty_cur
      /\ j.cursor_row = row /\ j.cursor_col = col
      /\ j.is_viewing_history = viewing
      /\ j.history_view_offset = i.history_view_offset
      /\ j.history_count = i.history_count /\ j.past = i.past
      /\ j.simple_history = i.simple_history
      /\ j.history_write_pos = i.history_write_pos
  BY DEF DrawAndBackup, backup_current_screen, Drawn, Consoles
<1>2. i.tty_cur \in Ttys /\ i.tty_buf \in [Ttys -> Screens]
  BY DEF Consoles
<1>3. row \in 0 .. VGA_HEIGHT /\ [i.tty_buf EXCEPT ![i.tty_cur] = s] \in [Ttys -> Screens]
  BY <1>2, Sizes DEF Rows
<1>4. j \in Consoles
  BY <1>3 DEF DrawAndBackup, backup_current_screen, Drawn, Consoles
<1> HIDE DEF j
<1>5. TBUF(j) = s
  BY <1>1, <1>2 DEF TBUF
<1> QED BY <1>1, <1>4, <1>5 DEF j
\* Such a call changes nothing but the active terminal and the ring.
LEMMA SavedAndDrawn ==
  ASSUME NEW k \in Consoles, NEW i, OnlySaved(k, i), NEW s \in Screens,
         NEW row \in Rows, NEW col \in Bytes, NEW viewing \in BOOLEAN
  PROVE  LET j == DrawAndBackup(i, s, row, col, viewing)
         IN  /\ j \in Consoles /\ RingInv(j) /\ j.history_count >= k.history_count
             /\ j.cursor_row = row /\ j.cursor_col = col
             /\ j.tty_cur = k.tty_cur /\ j.tty_row = k.tty_row /\ j.tty_col = k.tty_col
             /\ j.is_viewing_history = viewing
             /\ j.history_view_offset = k.history_view_offset
             /\ j.vga = s /\ TBUF(j) = s /\ j.screen_backup = s
             /\ j.tty_buf = [k.tty_buf EXCEPT ![k.tty_cur] = s]
             /\ OthersKept(k, j, NoSpill)
<1> DEFINE j == DrawAndBackup(i, s, row, col, viewing)
<1>1. i \in Consoles /\ RingInv(i) /\ i.history_count >= k.history_count
      /\ i.tty_buf = k.tty_buf /\ i.tty_cur = k.tty_cur
      /\ i.tty_row = k.tty_row /\ i.tty_col = k.tty_col
      /\ i.history_view_offset = k.history_view_offset
  BY DEF OnlySaved
<1>2. /\ j \in Consoles
      /\ j.vga = s /\ j.screen_backup = s /\ TBUF(j) = s
      /\ j.tty_buf = [i.tty_buf EXCEPT ![i.tty_cur] = s]
      /\ j.tty_row = i.tty_row /\ j.tty_col = i.tty_col /\ j.tty_cur = i.tty_cur
      /\ j.cursor_row = row /\ j.cursor_col = col
      /\ j.is_viewing_history = viewing
      /\ j.history_view_offset = i.history_view_offset
      /\ j.history_count = i.history_count /\ j.past = i.past
      /\ j.simple_history = i.simple_history
      /\ j.history_write_pos = i.history_write_pos
  BY <1>1, DrawnOn
<1> HIDE DEF j
<1>3. RingInv(j)
  BY <1>1, <1>2 DEF RingInv, RingIndex
<1>4. k.tty_cur \in Ttys /\ k.tty_buf \in [Ttys -> Screens]
  BY DEF Consoles
<1>5. j.tty_buf = [k.tty_buf EXCEPT ![k.tty_cur] = s]
  BY <1>1, <1>2
<1>6. \A t \in Ttys : t # k.tty_cur => j.tty_buf[t] = k.tty_buf[t]
  BY <1>4, <1>5
<1>7. OthersKept(k, j, NoSpill)
  BY <1>6 DEF OthersKept
<1> QED BY <1>1, <1>2, <1>3, <1>5, <1>7 DEF j

\* So it keeps the invariant, if it leaves the view or stays in it.
LEMMA DrawnKeeps ==
  ASSUME NEW k, Good(k), NEW i, OnlySaved(k, i), NEW s \in Screens,
         NEW row \in Rows, NEW col \in Bytes, NEW viewing \in BOOLEAN,
         viewing => k.is_viewing_history
  PROVE  LET j == DrawAndBackup(i, s, row, col, viewing)
         IN  ConsoleInv(j) /\ Isolated(k, j, NoSpill)
<1> DEFINE j == DrawAndBackup(i, s, row, col, viewing)
<1>1. k \in Consoles
  BY DEF Good
<1>2. /\ j \in Consoles /\ RingInv(j) /\ j.history_count >= k.history_count
      /\ j.cursor_row = row /\ j.cursor_col = col
      /\ j.tty_cur = k.tty_cur /\ j.tty_row = k.tty_row /\ j.tty_col = k.tty_col
      /\ j.is_viewing_history = viewing
      /\ j.history_view_offset = k.history_view_offset
      /\ j.vga = s /\ TBUF(j) = s /\ j.screen_backup = s
      /\ j.tty_buf = [k.tty_buf EXCEPT ![k.tty_cur] = s]
      /\ OthersKept(k, j, NoSpill)
  BY <1>1, SavedAndDrawn
<1> HIDE DEF j
<1>3. ConsoleInv(j) /\ Isolated(k, j, NoSpill)
  BY <1>2, Redrawn
<1> QED BY <1>3 DEF j

\* scroll_screen, also of a console in the middle of print_char_color.
LEMMA Scrolled ==
  ASSUME NEW k \in Consoles, RingInv(k)
  PROVE  /\ OnlySaved(k, save_line_to_history(k, 0))
         /\ MovedUp(TBUF(k)) \in Screens
         /\ VGA_HEIGHT - 1 \in Rows /\ 0 \in Bytes /\ k.is_viewing_history \in BOOLEAN
         /\ scroll_screen(k) = DrawAndBackup(save_line_to_history(k, 0), MovedUp(TBUF(k)),
                                             VGA_HEIGHT - 1, 0, k.is_viewing_history)
<1>1. 0 \in Rows /\ VGA_HEIGHT - 1 \in Rows /\ 0 \in Bytes
  BY Sizes DEF Rows, Bytes
<1>2. OnlySaved(k, save_line_to_history(k, 0))
  BY <1>1, SaveLine
<1>3. TBUF(k) \in Screens /\ k.is_viewing_history \in BOOLEAN
  BY DEF Consoles, TBUF
<1>4. MovedUp(TBUF(k)) \in Screens
  BY <1>3, ScreensDrawn
<1> DEFINE i == save_line_to_history(k, 0)
           s == MovedUp(TBUF(k))
           v == k.is_viewing_history
<1>5. i \in Consoles /\ i.is_viewing_history = v
  BY <1>2 DEF OnlySaved
<1>6. scroll_screen(k)
        = backup_current_screen([Drawn(i, s) EXCEPT !.cursor_row = VGA_HEIGHT - 1,
                                                    !.cursor_col = 0])
  BY DEF scroll_screen
<1> HIDE DEF i, s, v
<1>7. [Drawn(i, s) EXCEPT !.cursor_row = VGA_HEIGHT - 1, !.cursor_col = 0]
        = [Drawn(i, s) EXCEPT !.cursor_row = VGA_HEIGHT - 1, !.cursor_col = 0,
                              !.is_viewing_history = v]
  BY <1>5 DEF Drawn, Consoles
<1>8. scroll_screen(k) = DrawAndBackup(i, s, VGA_HEIGHT - 1, 0, v)
  BY <1>6, <1>7 DEF DrawAndBackup
<1> QED BY <1>1, <1>2, <1>3, <1>4, <1>8 DEF i, s, v

\* scroll_up and scroll_down keep the invariant.
LEMMA ScrollCalls ==
  ASSUME NEW k, ConsoleInv(k)
  PROVE  /\ ConsoleInv(scroll_up(k)) /\ Isolated(k, scroll_up(k), NoSpill)
         /\ ConsoleInv(scroll_down(k)) /\ Isolated(k, scroll_down(k), NoSpill)
<1> DEFINE v == k.is_viewing_history
           col == k.cursor_col
           up == IF k.cursor_row > 0 THEN k.cursor_row - 1 ELSE k.cursor_row
           down == IF k.cursor_row < VGA_HEIGHT - 1 THEN k.cursor_row + 1 ELSE k.cursor_row
<1>1. /\ k \in Consoles /\ Good(k) /\ RingInv(k) /\ k.cursor_row \in Rows
      /\ TBUF(k) \in Screens /\ col \in Bytes /\ v \in BOOLEAN
  BY DEF ConsoleInv, Good, Consoles, TBUF
<1>2. 0 \in Rows /\ VGA_HEIGHT - 1 \in Rows /\ up \in Rows /\ down \in Rows
  BY <1>1, Sizes DEF Rows
<1>3. ASSUME NEW row \in Rows, NEW s \in Screens, NEW to \in Rows
      PROVE  LET i == save_line_to_history(k, row)
                 j == DrawAndBackup(i, s, to, col, v)
             IN  /\ j = backup_current_screen([Drawn(i, s) EXCEPT !.cursor_row = to])
                 /\ ConsoleInv(j) /\ Isolated(k, j, NoSpill)
  <2> DEFINE i == save_line_to_history(k, row)
             j == DrawAndBackup(i, s, to, col, v)
  <2>1. OnlySaved(k, i)
    BY <1>1, SaveLine
  <2> HIDE DEF i
  <2>2. ConsoleInv(j) /\ Isolated(k, j, NoSpill)
    BY <1>1, <2>1, DrawnKeeps
  <2>3. i \in Consoles /\ i.is_viewing_history = v /\ i.cursor_col = col
    BY <2>1 DEF OnlySaved
  <2>4. [Drawn(i, s) EXCEPT !.cursor_row = to]
          = [Drawn(i, s) EXCEPT !.cursor_row = to, !.cursor_col = col,
                                !.is_viewing_history = v]
    BY <2>3 DEF Drawn, Consoles
  <2>5. j = backup_current_screen([Drawn(i, s) EXCEPT !.cursor_row = to])
    BY <2>4 DEF DrawAndBackup
  <2> QED BY <2>2, <2>5 DEF i
<1>4. MovedUp(TBUF(k)) \in Screens /\ MovedDown(TBUF(k)) \in Screens
  BY <1>1, ScreensDrawn
<1>5. ASSUME NEW row \in Rows, NEW s \in Screens
      PROVE  Drawn(save_line_to_history(k, row), s).cursor_row = k.cursor_row
  <2>1. OnlySaved(k, save_line_to_history(k, row))
    BY <1>1, SaveLine
  <2> QED BY <2>1 DEF OnlySaved, Drawn, Consoles
<1>6. scroll_up(k) = backup_current_screen(
        [Drawn(save_line_to_history(k, 0), MovedUp(TBUF(k))) EXCEPT !.cursor_row = up])
  BY <1>2, <1>4, <1>5 DEF scroll_up
<1>7. scroll_down(k) = backup_current_screen(
        [Drawn(save_line_to_history(k, VGA_HEIGHT - 1), MovedDown(TBUF(k))) EXCEPT
           !.cursor_row = down])
  BY <1>2, <1>4, <1>5 DEF scroll_down
<1> HIDE DEF up, down
<1> QED BY <1>2, <1>3, <1>4, <1>6, <1>7

\* clear_screen leaves a console as it is between two calls, whatever was on
\* the screen before.
LEMMA Cleared ==
  ASSUME NEW k, Good(k)
  PROVE  ConsoleInv(clear_screen(k)) /\ Isolated(k, clear_screen(k), NoSpill)
<1> DEFINE i == SaveAllLines(k)
<1>1. OnlySaved(k, i)
  BY SaveAll DEF Good
<1> HIDE DEF i
<1>2. 0 \in Rows /\ 0 \in Bytes /\ FALSE \in BOOLEAN /\ Screen(Blank) \in Screens
  BY ScreensDrawn, ConsoleAssumption, Sizes DEF Rows, Bytes, Cells
<1>3. clear_screen(k) = DrawAndBackup(i, Screen(Blank), 0, 0, FALSE)
  BY DEF clear_screen, DrawAndBackup, i
<1> QED BY <1>1, <1>2, <1>3, DrawnKeeps
\* vt_render_active draws the active terminal over whatever was shown.
LEMMA Rendered ==
  ASSUME NEW k, ConsoleInv(k)
  PROVE  ConsoleInv(vt_render_active(k)) /\ Isolated(k, vt_render_active(k), NoSpill)
<1> DEFINE j == vt_render_active(k)
<1>1. /\ k \in Consoles /\ Good(k) /\ RingInv(k) /\ k.cursor_row \in Rows
      /\ k.screen_backup = TBUF(k) /\ k.history_count \in Int
  BY Sizes DEF ConsoleInv, Good, Matches, Consoles
<1>2. /\ j.vga = TBUF(k) /\ j.tty_buf = k.tty_buf /\ j.screen_backup = k.screen_backup
      /\ j.tty_row = k.tty_row /\ j.tty_col = k.tty_col /\ j.tty_cur = k.tty_cur
      /\ j.cursor_row = k.cursor_row /\ j.cursor_col = k.cursor_col
      /\ j.is_viewing_history = k.is_viewing_history
      /\ j.history_view_offset = k.history_view_offset
      /\ j.history_count = k.history_count /\ j.past = k.past
      /\ j.simple_history = k.simple_history /\ j.history_write_pos = k.history_write_pos
  BY <1>1 DEF vt_render_active, Consoles
<1>3. j \in Consoles
  <2>1. TBUF(k) \in Screens
    BY <1>1 DEF TBUF, Consoles
  <2> QED BY <1>1, <2>1 DEF vt_render_active, Consoles
<1> HIDE DEF j
<1>4. RingInv(j)
  BY <1>1, <1>2 DEF RingInv, RingIndex
<1>5. TBUF(j) = TBUF(k) /\ OthersKept(k, j, NoSpill)
  BY <1>2 DEF TBUF, OthersKept
<1>6. j.history_count >= k.history_count
  BY <1>1, <1>2
<1>7. ConsoleInv(j) /\ Isolated(k, j, NoSpill)
  BY <1>1, <1>2, <1>3, <1>4, <1>5, <1>6, Redrawn
<1> QED BY <1>7 DEF j

\* vt_switch exchanges the terminals: each is found as it was left.
LEMMA Switched ==
  ASSUME NEW k, ConsoleInv(k), NEW t \in Ttys
  PROVE  ConsoleInv(vt_switch(k, t)) /\ Isolated(k, vt_switch(k, t), NoSpill)
<1>1. CASE t = k.tty_cur
  <2>1. SameTtys(k, k)
    BY DEF SameTtys
  <2> QED BY <1>1, <2>1, SameIsolated DEF vt_switch
<1>2. CASE t # k.tty_cur
  <2> DEFINE j == vt_switch(k, t)
  <2>1. k \in Consoles /\ RingInv(k) /\ OffsetInv(k) /\ k.cursor_row \in Rows
    BY DEF ConsoleInv, Good
  <2>2. /\ k.tty_cur \in Ttys /\ k.tty_buf \in [Ttys -> Screens]
        /\ k.tty_row \in [Ttys -> Rows] /\ k.tty_col \in [Ttys -> Bytes]
        /\ k.cursor_col \in Bytes
    BY <2>1 DEF Consoles
  <2>3. /\ j.vga = k.tty_buf[t] /\ j.tty_buf = k.tty_buf /\ j.screen_backup = k.tty_buf[t]
        /\ j.tty_row = [k.tty_row EXCEPT ![k.tty_cur] = k.cursor_row]
        /\ j.tty_col = [k.tty_col EXCEPT ![k.tty_cur] = k.cursor_col]
        /\ j.tty_cur = t /\ j.cursor_row = k.tty_row[t] /\ j.cursor_col = k.tty_col[t]
        /\ j.is_viewing_history = k.is_viewing_history
        /\ j.history_view_offset = k.history_view_offset
        /\ j.history_count = k.history_count /\ j.past = k.past
        /\ j.simple_history = k.simple_history /\ j.history_write_pos = k.history_write_pos
    BY <1>2, <2>1 DEF vt_switch, Activated, vt_render_active, backup_current_screen, TBUF, Consoles
  <2>4. j \in Consoles
    <3>1. /\ [k.tty_row EXCEPT ![k.tty_cur] = k.cursor_row] \in [Ttys -> Rows]
          /\ [k.tty_col EXCEPT ![k.tty_cur] = k.cursor_col] \in [Ttys -> Bytes]
          /\ k.tty_buf[t] \in Screens /\ k.tty_row[t] \in Rows /\ k.tty_col[t] \in Bytes
      BY <2>1, <2>2
    <3>2. Rows \subseteq 0 .. VGA_HEIGHT
      BY Sizes DEF Rows
    <3> QED BY <1>2, <2>1, <3>1, <3>2
            DEF vt_switch, Activated, vt_render_active, backup_current_screen, TBUF, Consoles
  <2> HIDE DEF j
  <2>5. TBUF(j) = k.tty_buf[t] /\ LinesToShow(j) = LinesToShow(k) /\ j.cursor_row \in Rows
    BY <2>2, <2>3 DEF TBUF, LinesToShow
  <2>6. RingInv(j)
    BY <2>1, <2>3 DEF RingInv, RingIndex
  <2>7. OffsetInv(j) /\ Matches(j) /\ ViewInv(j)
    BY <2>1, <2>3, <2>5 DEF OffsetInv, Matches, ViewInv
  <2>8. ConsoleInv(j)
    BY <2>4, <2>5, <2>6, <2>7 DEF ConsoleInv, Good
  <2>9. \A u \in Ttys : CursorOf(j, u) = CursorOf(k, u)
    BY <1>2, <2>2, <2>3 DEF CursorOf
  <2>10. Isolated(k, j, NoSpill)
    BY <2>3, <2>9 DEF Isolated
  <2> QED BY <2>8, <2>10 DEF j
<1> QED BY <1>1, <1>2

-----------------------------------------------------------------------------
(***************************************************************************)
(* Output of a character                                                   *)
(***************************************************************************)

\* Consoles whose ring and view are the same.
SameRing(k, j) ==
  /\ j.is_viewing_history = k.is_viewing_history
  /\ j.history_view_offset = k.history_view_offset
  /\ j.history_count = k.history_count /\ j.past = k.past
  /\ j.simple_history = k.simple_history /\ j.history_write_pos = k.history_write_pos

\* Where a character goes.
CellRow(k) == IF k.cursor_col >= VGA_WIDTH THEN k.cursor_row + 1 ELSE k.cursor_row

CellCol(k) == IF k.cursor_col >= VGA_WIDTH THEN 0 ELSE k.cursor_col

\* The active terminal with the character in its place.
WithCell(k, ch) == [TBUF(k) EXCEPT ![CellRow(k)][CellCol(k)] = ch]

\* The cell is on the screen, or the first one right below it.
LEMMA CellPlace ==
  ASSUME NEW k, ConsoleInv(k)
  PROVE  /\ CellRow(k) \in 0 .. VGA_HEIGHT /\ CellCol(k) \in Cols
         /\ CellCol(k) + 1 \in Bytes /\ CellCol(k) + 1 \in 1 .. VGA_WIDTH
         /\ CellRow(k) < VGA_HEIGHT => CellRow(k) \in Rows
         /\ ~(CellRow(k) < VGA_HEIGHT) =>
              CellRow(k) = VGA_HEIGHT /\ CellRow(k) - VGA_HEIGHT = 0
              /\ k.cursor_row = VGA_HEIGHT - 1 /\ k.cursor_col >= VGA_WIDTH /\ CellCol(k) = 0
         /\ CellRow(k) >= k.cursor_row
         /\ CellRow(k) = k.cursor_row => CellCol(k) + 1 > k.cursor_col
<1>1. k.cursor_row \in 0 .. (VGA_HEIGHT - 1) /\ k.cursor_col \in 0 .. (UINT8_MOD - 1)
  BY DEF ConsoleInv, Good, Consoles, Rows, Bytes
<1> QED BY <1>1, Sizes DEF CellRow, CellCol, Rows, Cols, Bytes

\* PutCell when the cell is on the screen: it is in the buffer as well.
LEMMA PutOnScreen ==
  ASSUME NEW k, ConsoleInv(k), ~k.is_viewing_history, NEW ch \in Cells,
         CellRow(k) < VGA_HEIGHT
  PROVE  LET j == PutCell(k, ch)
         IN  /\ j \in Consoles /\ SameRing(k, j)
             /\ j.tty_row = k.tty_row /\ j.tty_col = k.tty_col /\ j.tty_cur = k.tty_cur
             /\ j.cursor_row = CellRow(k) /\ j.cursor_col = CellCol(k) + 1
             /\ j.vga = WithCell(k, ch) /\ TBUF(j) = WithCell(k, ch) /\ OthersKept(k, j, MaySpill)
<1> DEFINE row == CellRow(k)
           col == CellCol(k)
           t == k.tty_cur
           s == [TBUF(k) EXCEPT ![row][col] = ch]
           j == PutCell(k, ch)
           b == [k.tty_buf EXCEPT ![t][row][col] = ch]
<1>1. k \in Consoles /\ k.vga = TBUF(k)
  BY DEF ConsoleInv, Good, Matches
<1>2. /\ row \in 0 .. VGA_HEIGHT /\ row \in Rows /\ col \in Cols /\ col + 1 \in Bytes
      /\ t \in Ttys /\ k.tty_buf \in [Ttys -> Screens] /\ k.tty_buf[t] \in [Rows -> [Cols -> Cells]]
      /\ TBUF(k) = k.tty_buf[t]
  BY <1>1, CellPlace DEF Consoles, TBUF, Screens
<1>3. j = [k EXCEPT !.tty_buf[t][row][col] = ch, !.vga[row][col] = ch,
                    !.cursor_row = row, !.cursor_col = col + 1]
  BY <1>1 DEF PutCell, StoreVga, StoreCell, CellRow, CellCol, Consoles
<1> HIDE DEF row, col
<1>4. /\ j.tty_row = k.tty_row /\ j.tty_col = k.tty_col /\ j.tty_cur = k.tty_cur
      /\ j.cursor_row = row /\ j.cursor_col = col + 1
      /\ j.tty_buf = b
      /\ j.vga = [k.vga EXCEPT ![row][col] = ch]
      /\ SameRing(k, j)
  BY <1>1, <1>3 DEF Consoles, SameRing
<1>5. j.vga = s
  BY <1>1, <1>4
<1>6. s \in Screens
  BY <1>2 DEF Screens
<1>7. b[t] = s /\ b \in [Ttys -> Screens] /\ \A u \in Ttys : u # t => b[u] = k.tty_buf[u]
  BY <1>2, <1>6
<1>8. j \in Consoles
  <2>1. [k.vga EXCEPT ![row][col] = ch] \in Screens
    BY <1>1, <1>6
  <2> QED BY <1>1, <1>2, <1>3, <1>7, <2>1 DEF Consoles
<1> HIDE DEF j, b, s
<1>9. TBUF(j) = s /\ OthersKept(k, j, MaySpill)
  BY <1>2, <1>4, <1>7 DEF TBUF, OthersKept
<1> QED BY <1>4, <1>5, <1>8, <1>9 DEF WithCell, j, s, row, col
\* PutCell when the cell is below the screen: it is the first cell of the
\* next terminal, or of nothing, and the active terminal is as before.
LEMMA PutBelow ==
  ASSUME NEW k, ConsoleInv(k), NEW ch \in Cells, ~(CellRow(k) < VGA_HEIGHT)
  PROVE  LET j == PutCell(k, ch)
         IN  /\ j \in Consoles /\ SameRing(k, j)
             /\ j.tty_row = k.tty_row /\ j.tty_col = k.tty_col /\ j.tty_cur = k.tty_cur
             /\ j.cursor_row = VGA_HEIGHT /\ j.cursor_col = CellCol(k) + 1
             /\ TBUF(j) = TBUF(k) /\ OthersKept(k, j, MaySpill)
<1> DEFINE col == CellCol(k)
           t == k.tty_cur
           j == PutCell(k, ch)
           b == IF t + 1 < TTY_COUNT THEN [k.tty_buf EXCEPT ![t + 1][0][0] = ch] ELSE k.tty_buf
<1>1. k \in Consoles
  BY DEF ConsoleInv, Good
<1>2. /\ CellRow(k) = VGA_HEIGHT /\ CellRow(k) - VGA_HEIGHT = 0 /\ col = 0
      /\ VGA_HEIGHT \in 0 .. VGA_HEIGHT /\ col + 1 \in Bytes
      /\ t \in Ttys /\ k.tty_buf \in [Ttys -> Screens] /\ 0 \in Rows /\ 0 \in Cols
  BY <1>1, CellPlace, Sizes DEF Consoles, Rows, Cols
<1>3. /\ t + 1 < TTY_COUNT => t + 1 \in Ttys
      /\ t + 1 # t
  BY <1>2, Sizes DEF Ttys
<1>4. j = [k EXCEPT !.tty_buf = b, !.cursor_row = VGA_HEIGHT, !.cursor_col = col + 1]
  <2>1. StoreCell(k, t, VGA_HEIGHT, 0, ch) = [k EXCEPT !.tty_buf = b]
    <3>1. ~(VGA_HEIGHT < VGA_HEIGHT) /\ VGA_HEIGHT - VGA_HEIGHT = 0
      BY Sizes
    <3>2. k = [k EXCEPT !.tty_buf = k.tty_buf]
      BY <1>1 DEF Consoles
    <3> QED BY <1>1, <3>1, <3>2 DEF StoreCell, Consoles
  <2>2. j = [StoreCell(k, t, VGA_HEIGHT, 0, ch) EXCEPT !.cursor_row = VGA_HEIGHT,
                                                     !.cursor_col = col + 1]
    <3>1. ~(VGA_HEIGHT < VGA_HEIGHT)
      BY Sizes
    <3> QED BY <1>2, <3>1 DEF PutCell, StoreVga, CellRow, CellCol
  <2> HIDE DEF b, j
  <2> QED BY <1>1, <2>1, <2>2 DEF Consoles
<1> HIDE DEF col
<1>5. /\ b \in [Ttys -> Screens] /\ b[t] = k.tty_buf[t]
      /\ \A u \in Ttys, r \in Rows, c \in Cols :
           (TRUE /\ SpillCell(k, u, r, c)) \/ b[u][r][c] = k.tty_buf[u][r][c]
  <2>1. CASE t + 1 < TTY_COUNT
    <3> DEFINE u == t + 1
               m == [k.tty_buf[u] EXCEPT ![0][0] = ch]
    <3>1. u \in Ttys /\ u # t /\ k.tty_buf[u] \in [Rows -> [Cols -> Cells]]
      BY <1>2, <1>3, <2>1 DEF Screens
    <3>2. b = [k.tty_buf EXCEPT ![u] = m]
      BY <1>2, <2>1
    <3>3. /\ m \in Screens
          /\ \A r \in Rows, c \in Cols : (r = 0 /\ c = 0) \/ m[r][c] = k.tty_buf[u][r][c]
      BY <1>2, <3>1 DEF Screens
    <3>4. \A r, c : SpillCell(k, u, r, c) <=> r = 0 /\ c = 0
      BY CellPlace DEF SpillCell
    <3> HIDE DEF m, b, u
    <3> QED BY <1>2, <3>1, <3>2, <3>3, <3>4
  <2>2. CASE ~(t + 1 < TTY_COUNT)
    BY <1>2, <2>2
  <2> QED BY <2>1, <2>2
<1> HIDE DEF b
<1>6. /\ j.tty_row = k.tty_row /\ j.tty_col = k.tty_col /\ j.tty_cur = k.tty_cur
      /\ j.cursor_row = VGA_HEIGHT /\ j.cursor_col = col + 1 /\ j.tty_buf = b
      /\ SameRing(k, j)
  BY <1>1, <1>4 DEF Consoles, SameRing
<1>7. j \in Consoles
  BY <1>1, <1>2, <1>4, <1>5 DEF Consoles
<1> HIDE DEF j
<1>8. TBUF(j) = TBUF(k) /\ OthersKept(k, j, MaySpill)
  BY <1>5, <1>6 DEF TBUF, OthersKept, MaySpill
<1> QED BY <1>6, <1>7, <1>8 DEF j, col

\* What a character that is put in front of the cursor leaves.
PutLeaves(k, j, spills) ==
  /\ j \in Consoles /\ SameRing(k, j)
  /\ j.tty_row = k.tty_row /\ j.tty_col = k.tty_col /\ j.tty_cur = k.tty_cur
  /\ OthersKept(k, j, spills)
  /\ j.cursor_row < VGA_HEIGHT => j.vga = TBUF(j)

\* The control characters move the cursor only.
LEMMA PutControl ==
  ASSUME NEW k, ConsoleInv(k), ~k.is_viewing_history, NEW ch \in {"LF", "CR", "TAB"}
  PROVE  PutLeaves(k, Put(k, ch), NoSpill)
<1>1. k \in Consoles /\ k.vga = TBUF(k) /\ k.cursor_row \in Rows /\ k.cursor_col \in Bytes
  BY DEF ConsoleInv, Good, Matches, Consoles
<1>2. ASSUME NEW row \in 0 .. VGA_HEIGHT, NEW col \in Bytes
      PROVE  PutLeaves(k, [k EXCEPT !.cursor_row = row, !.cursor_col = col], NoSpill)
  <2> DEFINE j == [k EXCEPT !.cursor_row = row, !.cursor_col = col]
  <2>1. /\ j \in Consoles /\ SameRing(k, j)
        /\ j.tty_row = k.tty_row /\ j.tty_col = k.tty_col /\ j.tty_cur = k.tty_cur
        /\ j.vga = k.vga /\ j.tty_buf = k.tty_buf
    BY <1>1 DEF Consoles, SameRing
  <2> HIDE DEF j
  <2>2. OthersKept(k, j, NoSpill) /\ TBUF(j) = TBUF(k)
    BY <2>1 DEF OthersKept, TBUF
  <2>3. PutLeaves(k, j, NoSpill)
    BY <1>1, <2>1, <2>2 DEF PutLeaves
  <2> QED BY <2>3 DEF j
<1>3. CASE ch = "LF"
  <2>1. k.cursor_row + 1 \in 0 .. VGA_HEIGHT /\ 0 \in Bytes
    BY <1>1, Sizes DEF Rows, Bytes
  <2>2. Put(k, ch) = [k EXCEPT !.cursor_row = k.cursor_row + 1, !.cursor_col = 0]
    BY <1>3 DEF Put
  <2> QED BY <1>2, <2>1, <2>2
<1>4. CASE ch = "CR"
  <2>1. k.cursor_row \in 0 .. VGA_HEIGHT /\ 0 \in Bytes
    BY <1>1, Sizes DEF Rows, Bytes
  <2>2. Put(k, ch) = [k EXCEPT !.cursor_col = 0]
    BY <1>4 DEF Put
  <2>3. [k EXCEPT !.cursor_col = 0] = [k EXCEPT !.cursor_row = k.cursor_row, !.cursor_col = 0]
    BY <1>1 DEF Consoles
  <2> QED BY <1>2, <2>1, <2>2, <2>3
<1>5. CASE ch = "TAB"
  <2> DEFINE col == (4 * ((k.cursor_col + 4) \div 4)) % UINT8_MOD
  <2>1. k.cursor_row \in 0 .. VGA_HEIGHT /\ col \in Bytes
    <3>1. k.cursor_col + 4 \in Nat /\ k.cursor_row \in 0 .. VGA_HEIGHT
      BY <1>1, Sizes DEF Rows, Bytes
    <3>2. 4 * ((k.cursor_col + 4) \div 4) \in Int
      BY <3>1
    <3> QED BY <3>1, <3>2, Sizes DEF Bytes
  <2>2. Put(k, ch) = [k EXCEPT !.cursor_col = col]
    BY <1>5 DEF Put
  <2> HIDE DEF col
  <2>3. [k EXCEPT !.cursor_col = col] = [k EXCEPT !.cursor_row = k.cursor_row, !.cursor_col = col]
    BY <1>1 DEF Consoles
  <2> QED BY <1>2, <2>1, <2>2, <2>3
<1> QED BY <1>3, <1>4, <1>5

\* backup_current_screen of a console whose active terminal is shown.
LEMMA BackedUp ==
  ASSUME NEW k, ConsoleInv(k), NEW i, NEW spills, PutLeaves(k, i, spills), ~k.is_viewing_history
  PROVE  LET j == backup_current_screen(i)
         IN  i.cursor_row < VGA_HEIGHT =>
               /\ ConsoleInv(j) /\ Isolated(k, j, spills)
               /\ TBUF(j) = TBUF(i) /\ j.tty_cur = i.tty_cur
               /\ j.cursor_row = i.cursor_row /\ j.cursor_col = i.cursor_col
<1> SUFFICES ASSUME i.cursor_row < VGA_HEIGHT
             PROVE  LET j == backup_current_screen(i)
                    IN  /\ ConsoleInv(j) /\ Isolated(k, j, spills)
                        /\ TBUF(j) = TBUF(i) /\ j.tty_cur = i.tty_cur
                        /\ j.cursor_row = i.cursor_row /\ j.cursor_col = i.cursor_col
  OBVIOUS
<1> DEFINE j == backup_current_screen(i)
<1>1. /\ i \in Consoles /\ SameRing(k, i) /\ i.vga = TBUF(i)
      /\ i.tty_row = k.tty_row /\ i.tty_col = k.tty_col /\ i.tty_cur = k.tty_cur
      /\ OthersKept(k, i, spills) /\ Good(k) /\ RingInv(k) /\ k.history_count \in Int
  BY Sizes DEF PutLeaves, ConsoleInv, Good, Consoles
<1>2. /\ j.vga = i.vga /\ j.screen_backup = i.vga /\ j.tty_buf = i.tty_buf
      /\ j.tty_row = i.tty_row /\ j.tty_col = i.tty_col /\ j.tty_cur = i.tty_cur
      /\ j.cursor_row = i.cursor_row /\ j.cursor_col = i.cursor_col
      /\ SameRing(i, j)
  BY <1>1 DEF backup_current_screen, Consoles, SameRing
<1>3. j \in Consoles
  BY <1>1 DEF backup_current_screen, Consoles
<1> HIDE DEF j
<1>4. j.cursor_row \in Rows
  <2>1. i.cursor_row \in 0 .. VGA_HEIGHT
    BY <1>1 DEF Consoles
  <2> QED BY <1>2, <2>1, Sizes DEF Rows
<1>5. TBUF(j) = TBUF(i) /\ OthersKept(k, j, spills)
  BY <1>1, <1>2 DEF TBUF, OthersKept
<1>6. RingInv(j) /\ j.history_count >= k.history_count /\ ~j.is_viewing_history
  <2>1. j.history_count = k.history_count
    BY <1>1, <1>2 DEF SameRing
  <2>2. RingInv(j)
    BY <1>1, <1>2 DEF SameRing, RingInv, RingIndex
  <2>3. ~j.is_viewing_history
    BY <1>1, <1>2 DEF SameRing
  <2> QED BY <1>1, <2>1, <2>2, <2>3
<1>7. ConsoleInv(j) /\ Isolated(k, j, spills)
  BY <1>1, <1>2, <1>3, <1>4, <1>5, <1>6, Redrawn
<1> QED BY <1>2, <1>5, <1>7 DEF j
\* The same when the cursor is below the screen, which scrolls first.
LEMMA ScrolledAfter ==
  ASSUME NEW k, ConsoleInv(k), NEW i, NEW spills, PutLeaves(k, i, spills), ~k.is_viewing_history
  PROVE  LET j == backup_current_screen(scroll_screen(i))
         IN  /\ ConsoleInv(j) /\ Isolated(k, j, spills)
             /\ TBUF(j) = MovedUp(TBUF(i)) /\ j.tty_cur = k.tty_cur
<1> DEFINE j == scroll_screen(i)
           l == save_line_to_history(i, 0)
           s == MovedUp(TBUF(i))
           v == i.is_viewing_history
<1>1. /\ i \in Consoles /\ SameRing(k, i)
      /\ i.tty_row = k.tty_row /\ i.tty_col = k.tty_col /\ i.tty_cur = k.tty_cur
      /\ OthersKept(k, i, spills) /\ Good(k) /\ RingInv(k) /\ k.tty_cur \in Ttys
  BY DEF PutLeaves, ConsoleInv, Good, Consoles
<1>2. RingInv(i)
  BY <1>1 DEF SameRing, RingInv, RingIndex
<1>3. /\ OnlySaved(i, l) /\ s \in Screens
      /\ VGA_HEIGHT - 1 \in Rows /\ 0 \in Bytes /\ v \in BOOLEAN
      /\ j = DrawAndBackup(l, s, VGA_HEIGHT - 1, 0, v)
  BY <1>1, <1>2, Scrolled
<1> HIDE DEF j, l, s, v
<1>4. /\ j \in Consoles /\ RingInv(j) /\ j.history_count >= i.history_count
      /\ j.cursor_row = VGA_HEIGHT - 1 /\ j.cursor_col = 0
      /\ j.tty_cur = i.tty_cur /\ j.tty_row = i.tty_row /\ j.tty_col = i.tty_col
      /\ j.is_viewing_history = v
      /\ j.history_view_offset = i.history_view_offset
      /\ j.vga = s /\ TBUF(j) = s /\ j.screen_backup = s
      /\ j.tty_buf = [i.tty_buf EXCEPT ![i.tty_cur] = s]
      /\ OthersKept(i, j, NoSpill)
  BY <1>1, <1>3, SavedAndDrawn
<1>5. OthersKept(k, j, spills)
  BY <1>1, <1>4 DEF OthersKept, NoSpill
<1>6. j.cursor_row \in Rows /\ ~j.is_viewing_history /\ j.history_count >= k.history_count
  BY <1>1, <1>3, <1>4 DEF SameRing, v
<1>7. ConsoleInv(j) /\ Isolated(k, j, spills)
  BY <1>1, <1>4, <1>5, <1>6, Redrawn
<1>8. backup_current_screen(j) = j
  BY <1>4 DEF backup_current_screen, Consoles
<1> QED BY <1>1, <1>4, <1>7, <1>8 DEF j, s

\* A character that is printed: what PrintShows says of one call.
Prints(k, j, ch) ==
  \/ /\ j.cursor_row >= k.cursor_row
     /\ j.cursor_row = k.cursor_row => j.cursor_col > k.cursor_col
     /\ j.cursor_col \in 1 .. VGA_WIDTH
     /\ TBUF(j) = [TBUF(k) EXCEPT ![j.cursor_row][j.cursor_col - 1] = ch]
  \/ /\ k.cursor_row = VGA_HEIGHT - 1 /\ k.cursor_col >= VGA_WIDTH
     /\ TBUF(j) = MovedUp(TBUF(k))

\* The body of print_char_color after the view has been left.
LEMMA PrintedUnviewed ==
  ASSUME NEW k, ConsoleInv(k), ~k.is_viewing_history, NEW ch \in Characters
  PROVE  LET put == Put(k, ch)
             j == backup_current_screen(
                    IF put.cursor_row >= VGA_HEIGHT THEN scroll_screen(put) ELSE put)
         IN  /\ ConsoleInv(j) /\ Isolated(k, j, Spills(ch)) /\ j.tty_cur = k.tty_cur
             /\ ch \in Graphic => Prints(k, j, ch)
<1> DEFINE put == Put(k, ch)
           j == backup_current_screen(
                  IF put.cursor_row >= VGA_HEIGHT THEN scroll_screen(put) ELSE put)
<1>1. /\ ch \in Graphic => put = PutCell(k, ch) /\ ch \in Cells
      /\ ch \in Graphic \/ ch \in {"LF", "CR", "TAB"}
  BY ConsoleAssumption DEF Characters, Put, Cells
<1>2. PutLeaves(k, put, Spills(ch))
  <2>1. CASE ch \in Graphic /\ CellRow(k) < VGA_HEIGHT
    <3>1. Spills(ch) = MaySpill
      BY <2>1 DEF Spills, MaySpill
    <3> QED BY <1>1, <2>1, <3>1, PutOnScreen DEF PutLeaves
  <2>2. CASE ch \in Graphic /\ ~(CellRow(k) < VGA_HEIGHT)
    <3>1. ~(VGA_HEIGHT < VGA_HEIGHT)
      BY Sizes
    <3>2. Spills(ch) = MaySpill
      BY <2>2 DEF Spills, MaySpill
    <3> QED BY <1>1, <2>2, <3>1, <3>2, PutBelow DEF PutLeaves
  <2>3. CASE ch \in {"LF", "CR", "TAB"}
    <3>1. Spills(ch) = NoSpill
      BY <2>3, ConsoleAssumption DEF Spills, NoSpill
    <3> QED BY <2>3, <3>1, PutControl
  <2> QED BY <1>1, <2>1, <2>2, <2>3
<1> HIDE DEF put
<1>3. put.cursor_row \in 0 .. VGA_HEIGHT
  BY <1>2 DEF PutLeaves, Consoles
<1>4. CASE put.cursor_row < VGA_HEIGHT
  <2>1. ~(put.cursor_row >= VGA_HEIGHT)
    BY <1>3, <1>4, Sizes
  <2>2. j = backup_current_screen(put)
    BY <2>1
  <2> HIDE DEF j
  <2>3. /\ ConsoleInv(j) /\ Isolated(k, j, Spills(ch))
        /\ TBUF(j) = TBUF(put) /\ j.tty_cur = put.tty_cur
        /\ j.cursor_row = put.cursor_row /\ j.cursor_col = put.cursor_col
    BY <1>2, <1>4, <2>2, BackedUp
  <2>4. j.tty_cur = k.tty_cur
    BY <1>2, <2>3 DEF PutLeaves
  <2>5. ASSUME ch \in Graphic
        PROVE  Prints(k, j, ch)
    <3>1. CellRow(k) < VGA_HEIGHT
      <4> SUFFICES ASSUME ~(CellRow(k) < VGA_HEIGHT) PROVE FALSE
        OBVIOUS
      <4>1. put.cursor_row = VGA_HEIGHT
        BY <1>1, <2>5, PutBelow
      <4> QED BY <1>4, <4>1, Sizes
    <3>2. /\ put.cursor_row = CellRow(k) /\ put.cursor_col = CellCol(k) + 1
          /\ TBUF(put) = WithCell(k, ch)
      BY <1>1, <2>5, <3>1, PutOnScreen
    <3>3. /\ CellRow(k) >= k.cursor_row
          /\ CellRow(k) = k.cursor_row => CellCol(k) + 1 > k.cursor_col
          /\ CellCol(k) + 1 \in 1 .. VGA_WIDTH
      BY CellPlace
    <3>4. (CellCol(k) + 1) - 1 = CellCol(k)
      <4>1. CellCol(k) \in Int
        BY CellPlace, Sizes DEF Cols
      <4> QED BY <4>1
    <3> QED BY <2>3, <3>2, <3>3, <3>4 DEF Prints, WithCell
  <2> QED BY <2>3, <2>4, <2>5 DEF j, put
<1>5. CASE put.cursor_row = VGA_HEIGHT
  <2>1. put.cursor_row >= VGA_HEIGHT
    BY <1>5, Sizes
  <2>2. j = backup_current_screen(scroll_screen(put))
    BY <2>1
  <2> HIDE DEF j
  <2>3. /\ ConsoleInv(j) /\ Isolated(k, j, Spills(ch))
        /\ TBUF(j) = MovedUp(TBUF(put)) /\ j.tty_cur = k.tty_cur
    BY <1>2, <2>2, ScrolledAfter
  <2>4. ASSUME ch \in Graphic
        PROVE  Prints(k, j, ch)
    <3>1. ~(CellRow(k) < VGA_HEIGHT)
      <4> SUFFICES ASSUME CellRow(k) < VGA_HEIGHT PROVE FALSE
        OBVIOUS
      <4>1. put.cursor_row = CellRow(k)
        BY <1>1, <2>4, PutOnScreen
      <4> QED BY <1>5, <4>1, Sizes
    <3>2. TBUF(put) = TBUF(k)
      BY <1>1, <2>4, <3>1, PutBelow
    <3>3. k.cursor_row = VGA_HEIGHT - 1 /\ k.cursor_col >= VGA_WIDTH
      BY <3>1, CellPlace
    <3> QED BY <2>3, <3>2, <3>3 DEF Prints
  <2> QED BY <2>3, <2>4 DEF j, put
<1> QED BY <1>3, <1>4, <1>5, Sizes

\* print_char_color keeps the invariant and shows the character.
LEMMA Printed ==
  ASSUME NEW k, ConsoleInv(k), NEW ch \in Characters
  PROVE  LET j == print_char_color(k, ch)
         IN  /\ ConsoleInv(j) /\ Isolated(k, j, Spills(ch)) /\ j.tty_cur = k.tty_cur
             /\ ch \in Graphic => Prints(k, j, ch)
<1> DEFINE i == IF k.is_viewing_history THEN LeaveView(k) ELSE k
           j == print_char_color(k, ch)
<1>1. ConsoleInv(i) /\ SameTtys(k, i) /\ ~i.is_viewing_history
  <2>1. SameTtys(k, k)
    BY DEF SameTtys
  <2> QED BY <2>1, ViewLeft
<1>2. j = backup_current_screen(
            IF Put(i, ch).cursor_row >= VGA_HEIGHT THEN scroll_screen(Put(i, ch)) ELSE Put(i, ch))
  BY DEF print_char_color
<1> HIDE DEF i, j
<1>3. /\ ConsoleInv(j) /\ Isolated(i, j, Spills(ch)) /\ j.tty_cur = i.tty_cur
      /\ ch \in Graphic => Prints(i, j, ch)
  BY <1>1, <1>2, PrintedUnviewed
<1>4. Isolated(k, j, Spills(ch))
  BY <1>1, <1>3 DEF SameTtys, Isolated, CursorOf, SpillCell
<1>5. ch \in Graphic => Prints(k, j, ch)
  BY <1>1, <1>3 DEF SameTtys, Prints, TBUF
<1>6. j.tty_cur = k.tty_cur
  BY <1>1, <1>3 DEF SameTtys
<1> QED BY <1>3, <1>4, <1>5, <1>6 DEF j
\* Calls that stay in a terminal and isolate the others do so together.
LEMMA IsolatedTwice ==
  ASSUME NEW k, NEW i, NEW j, Isolated(k, i, NoSpill), Isolated(i, j, NoSpill),
         i.tty_cur = k.tty_cur, j.tty_cur = i.tty_cur
  PROVE  Isolated(k, j, NoSpill)
BY DEF Isolated, NoSpill

\* A call that spills does so only from the end of the bottom row.
LEMMA SpillsAtEdge ==
  ASSUME NEW k, NEW j, NEW spills, Isolated(k, j, spills), ~(k.cursor_col >= VGA_WIDTH)
  PROVE  Isolated(k, j, NoSpill)
BY DEF Isolated, SpillCell, NoSpill

\* The backspace of the keyboard handler keeps the invariant.  From a column
\* that tabs took past the edge it is a blank that is printed.
LEMMA RubbedOut ==
  ASSUME NEW k, ConsoleInv(k)
  PROVE  /\ ConsoleInv(Rubout(k))
         /\ \/ Isolated(k, Rubout(k), NoSpill)
            \/ Isolated(k, Rubout(k), MaySpill) /\ Rubout(k) = print_char_color(k, Blank)
<1>1. CASE k.cursor_col = 0
  <2>1. SameTtys(k, k)
    BY DEF SameTtys
  <2> QED BY <1>1, <2>1, SameIsolated DEF Rubout
<1>2. CASE k.cursor_col # 0
  <2> DEFINE col == k.cursor_col - 1
             i == set_cursor_col(k, col)
             l == print_char_color(i, Blank)
             j == set_cursor_col(l, col)
  <2>1. col \in Nat
    <3>1. k.cursor_col \in 0 .. (UINT8_MOD - 1)
      BY DEF ConsoleInv, Good, Consoles, Bytes
    <3> QED BY <1>2, <3>1, Sizes
  <2>2. Rubout(k) = j
    BY <1>2 DEF Rubout
  <2> HIDE DEF col
  <2>3. \A m : ConsoleInv(m) => set_cursor_col(m, col).tty_cur = m.tty_cur
    BY DEF ConsoleInv, Good, Consoles, set_cursor_col
  <2>4. ConsoleInv(i) /\ Isolated(k, i, NoSpill) /\ i.tty_cur = k.tty_cur
    BY <2>1, <2>3, CursorCalls
  <2>5. Blank \in Characters /\ Spills(Blank) = MaySpill
    BY ConsoleAssumption DEF Characters, Spills, MaySpill
  <2>6. ConsoleInv(l) /\ Isolated(i, l, MaySpill) /\ l.tty_cur = i.tty_cur
    <3> HIDE DEF i
    <3> QED BY <2>4, <2>5, Printed
  <2>7. CASE col < VGA_WIDTH
    <3>1. i.cursor_col = col
      BY <2>7 DEF set_cursor_col, ConsoleInv, Good, Consoles
    <3> HIDE DEF i
    <3>2. Isolated(i, l, NoSpill)
      <4>1. ~(i.cursor_col >= VGA_WIDTH)
        BY <2>1, <2>7, <3>1, Sizes
      <4> QED BY <2>6, <4>1, SpillsAtEdge
    <3> HIDE DEF l
    <3>3. ConsoleInv(j) /\ Isolated(l, j, NoSpill) /\ j.tty_cur = l.tty_cur
      BY <2>1, <2>3, <2>6, CursorCalls
    <3> HIDE DEF j
    <3>4. Isolated(k, l, NoSpill) /\ l.tty_cur = k.tty_cur
      BY <2>4, <2>6, <3>2, IsolatedTwice
    <3>5. Isolated(k, j, NoSpill)
      BY <3>3, <3>4, IsolatedTwice
    <3> QED BY <2>2, <3>3, <3>5
  <2>8. CASE ~(col < VGA_WIDTH)
    <3>1. i = k /\ j = l
      BY <2>8 DEF set_cursor_col
    <3> QED BY <2>2, <2>6, <3>1
  <2> QED BY <2>7, <2>8
<1> QED BY <1>1, <1>2

-----------------------------------------------------------------------------
(***************************************************************************)
(* The specification                                                       *)
(***************************************************************************)

\* console_init clears the screen of the power-on console.
LEMMA InitIInv ==
  Init => IInv
<1>1. PowerOn \in Consoles
  <2>1. /\ "nul" \in Cells /\ Blank \in Cells
    BY ConsoleAssumption DEF Cells
  <2>2. /\ Screen(Blank) \in Screens /\ Screen("nul") \in Screens
        /\ Line("nul") \in Line1
    BY <2>1, ScreensDrawn DEF Line1
  <2>3. /\ 0 \in Rows /\ 0 \in Ttys /\ 0 \in Bytes /\ 0 \in Ring /\ 0 \in 0 .. VGA_HEIGHT
        /\ 0 \in 0 .. HISTORY_SIZE
    BY Sizes DEF Rows, Ttys, Bytes, Ring
  <2>4. /\ FALSE \in BOOLEAN /\ <<>> \in Seq(Line1)
    OBVIOUS
  <2> QED BY <2>2, <2>3, <2>4 DEF PowerOn, Consoles, Ring
<1>2. RingInv(PowerOn) /\ OffsetInv(PowerOn)
  <2>1. PowerOn.history_count = 0 /\ PowerOn.past = <<>> /\ ~PowerOn.is_viewing_history
    BY DEF PowerOn
  <2> QED BY <2>1 DEF RingInv, OffsetInv
<1>3. ConsoleInv(clear_screen(PowerOn))
  BY <1>1, <1>2, Cleared DEF Good
<1> QED BY <1>3 DEF Init, IInv

\* A call spills only when it prints a graphic character.
Kept ==
  \/ Isolated(con, con', NoSpill)
  \/ Isolated(con, con', MaySpill) /\ \E ch \in Graphic : PutChar(ch)

\* Every call keeps the invariant and isolates the terminals.
LEMMA NextIInv ==
  ASSUME IInv, Next
  PROVE  IInv' /\ Kept
<1>1. ConsoleInv(con)
  BY DEF IInv
<1> SUFFICES ConsoleInv(con') /\ Kept
  BY DEF IInv
<1>2. ASSUME NEW c \in Characters, PutChar(c)
      PROVE  ConsoleInv(con') /\ Kept
  <2>1. ConsoleInv(con') /\ Isolated(con, con', Spills(c))
    BY <1>1, <1>2, Printed DEF PutChar
  <2>2. CASE c \in Graphic
    <3>1. Spills(c) = MaySpill
      BY <2>2 DEF Spills, MaySpill
    <3> QED BY <1>2, <2>1, <2>2, <3>1 DEF Kept
  <2>3. CASE c \notin Graphic
    <3>1. Spills(c) = NoSpill
      BY <2>3 DEF Spills, NoSpill
    <3> QED BY <2>1, <3>1 DEF Kept
  <2> QED BY <2>2, <2>3
<1>3. ASSUME NEW t \in Ttys, Switch(t)
      PROVE  ConsoleInv(con') /\ Kept
  BY <1>1, <1>3, Switched DEF Switch, Kept
<1>4. ASSUME NEW row \in 0 .. VGA_HEIGHT, SetRow(row)
      PROVE  ConsoleInv(con') /\ Kept
  <2>1. row \in Nat
    BY Sizes
  <2> QED BY <1>1, <1>4, <2>1, CursorCalls DEF SetRow, Kept
<1>5. ASSUME NEW col \in 0 .. VGA_WIDTH, SetCol(col)
      PROVE  ConsoleInv(con') /\ Kept
  <2>1. col \in Nat
    BY Sizes
  <2> QED BY <1>1, <1>5, <2>1, CursorCalls DEF SetCol, Kept
<1>6. CASE Clear
  BY <1>1, <1>6, Cleared DEF Clear, ConsoleInv, Kept
<1>7. CASE Up
  BY <1>1, <1>7, UpDown DEF Up, Kept
<1>8. CASE Down
  BY <1>1, <1>8, UpDown DEF Down, Kept
<1>9. CASE Left
  BY <1>1, <1>9, CursorCalls DEF Left, Kept
<1>10. CASE Right
  BY <1>1, <1>10, CursorCalls DEF Right, Kept
<1>11. CASE ScrollUp
  BY <1>1, <1>11, ScrollCalls DEF ScrollUp, Kept
<1>12. CASE ScrollDown
  BY <1>1, <1>12, ScrollCalls DEF ScrollDown, Kept
<1>13. CASE Backspace
  BY <1>1, <1>13, RubbedOut, ConsoleAssumption DEF Backspace, PutChar, Kept
<1>14. CASE Render
  BY <1>1, <1>14, Rendered DEF Render, Kept
<1> QED BY <1>2, <1>3, <1>4, <1>5, <1>6, <1>7, <1>8, <1>9, <1>10, <1>11, <1>12, <1>13, <1>14
        DEF Next

\* The invariant holds throughout.
THEOREM SpecIInv ==
  Spec => []IInv
<1>1. Init => IInv
  BY InitIInv
<1>2. IInv /\ [Next]_con => IInv'
  BY NextIInv DEF IInv
<1> QED BY <1>1, <1>2, PTL DEF Spec

\* Between two calls the cursor's row is on the screen, its column is a byte
\* and the positions in the ring and the offset of the view are in range.  The
\* theorem says nothing of the store a wrap at the bottom makes behind the
\* last terminal's buffer, which is not part of the model.
THEOREM ConsoleTypeOK ==
  Spec => []TypeOK
<1>1. IInv => TypeOK
  BY DEF IInv, ConsoleInv, Good, Consoles, TypeOK, Ring, Bytes, Line1
<1> QED BY <1>1, SpecIInv, PTL

\* The backup is the active terminal, so leaving the view restores the
\* terminal that was left, whatever was switched, scrolled or cleared.
THEOREM ConsoleScreenMatches ==
  Spec => []ScreenMatches
<1>1. IInv => ScreenMatches
  BY DEF IInv, ConsoleInv, Matches, ScreenMatches
<1> QED BY <1>1, SpecIInv, PTL

\* The view shows consecutive lines of the past at the offset, however
\* often the ring has wrapped.
THEOREM ConsoleViewShowsPast ==
  Spec => []ViewShowsPast
<1>1. IInv => ViewShowsPast
  <2> SUFFICES ASSUME IInv, con.is_viewing_history, con.vga # TBUF(con)
               PROVE  LET lines == PastLines(LinesToShow(con), con.history_view_offset)
                      IN  /\ Len(lines) = LinesToShow(con)
                          /\ \A r \in 1 .. Len(lines) : con.vga[r - 1] = Shown(lines[r])
    BY DEF ViewShowsPast
  <2> DEFINE L == LinesToShow(con)
             off == con.history_view_offset
             n == con.history_count
             a == 1 + n - off - L
             lines == SubSeq(con.past, a, n - off)
  <2>1. /\ con \in Consoles /\ con.past \in Seq(Line1) /\ Len(con.past) = n
        /\ off \in Nat /\ n \in Nat /\ L + off <= n
    BY Sizes DEF IInv, ConsoleInv, Good, RingInv, OffsetInv, Consoles
  <2>2. L \in Nat
    BY <2>1, LinesShown, Sizes
  <2>3. PastLines(L, off) = lines
    BY <2>1 DEF PastLines
  <2>4. \A r \in 0 .. (L - 1) : con.vga[r] = Shown(con.past[FirstShown(con) + r])
    BY DEF IInv, ConsoleInv, ViewInv
  <2>5. FirstShown(con) = a
    BY DEF FirstShown
  <2> HIDE DEF L, off, n
  <2>6. Len(lines) = L /\ \A r \in 1 .. L : lines[r] = con.past[a + r - 1]
    BY <2>1, <2>2
  <2>7. ASSUME NEW r \in 1 .. L
        PROVE  con.vga[r - 1] = Shown(lines[r])
    <3>1. r - 1 \in 0 .. (L - 1) /\ a + (r - 1) = a + r - 1
      BY <2>1, <2>2
    <3> HIDE DEF lines, a
    <3> QED BY <2>4, <2>5, <2>6, <3>1
  <2> HIDE DEF lines
  <2> QED BY <2>3, <2>6, <2>7 DEF L, off
<1> QED BY <1>1, SpecIInv, PTL

\* No call changes the text or the cursor of a terminal that is not active,
\* but for the one cell that a character printed behind the end of the bottom
\* row spills into.
THEOREM ConsoleTtysIsolated ==
  Spec => TtysIsolated
<1> DEFINE Others ==
             \A t \in Ttys :
               t # con.tty_cur \/ con'.tty_cur # con.tty_cur =>
                 /\ CursorOf(con', t) = CursorOf(con, t)
                 /\ \A r \in Rows, c \in Cols :
                      \/ con'.tty_buf[t][r][c] = con.tty_buf[t][r][c]
                      \/ SpillCell(con, t, r, c) /\ \E ch \in Graphic : PutChar(ch)
<1>1. Kept => Others
  BY DEF Kept, Isolated, NoSpill, MaySpill
<1>2. IInv /\ [Next]_con => [Others]_con
  BY <1>1, NextIInv
<1>3. [][Others]_con <=> TtysIsolated
  BY DEF TtysIsolated
<1> HIDE DEF Others
<1> QED BY <1>2, <1>3, SpecIInv, PTL DEF Spec

\* A graphic character that is printed is in the active terminal, left of
\* the cursor, and is the only change there, unless the screen scrolls.
THEOREM ConsolePrintShows ==
  Spec => PrintShows
<1> DEFINE Shows == \A ch \in Graphic : PutChar(ch) => Prints(con, con', ch)
<1>1. IInv => Shows
  <2> SUFFICES ASSUME IInv, NEW ch \in Graphic, PutChar(ch)
               PROVE  Prints(con, con', ch)
    OBVIOUS
  <2>1. ch \in Characters /\ ConsoleInv(con)
    BY DEF Characters, IInv
  <2> QED BY <2>1, Printed DEF PutChar
<1>2. IInv => [Shows]_con
  BY <1>1
<1> QED BY <1>2, SpecIInv, PTL DEF PrintShows, Prints
=============================================================================
