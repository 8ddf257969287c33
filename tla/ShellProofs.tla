---------------------------- MODULE ShellProofs -----------------------------
(***************************************************************************)
(* Proofs about the shell's input line for every length of the buffer and  *)
(* of the history, any number of arguments and any character set: the C    *)
(* strings of shell.c implement the line editor of LineEditor.             *)
(*                                                                         *)
(* The first half is about the shell's record s; the console is drawn from *)
(* it and never read back.  The second half is about the console: a line   *)
(* that is seen is a run of positions of the active terminal, and the      *)
(* calls of shell.c move the cursor over exactly those.                    *)
(***************************************************************************)
EXTENDS Shell, FiniteSetTheorems, SequenceTheorems, WellFoundedInduction, TLAPS

Indices == 0 .. (MAX_CMD_LEN - 1)

Buffers == [Indices -> Letters \cup {"nul"}]

\* The lines that fit into the buffer with their NUL.
Short == {line \in Seq(Letters) : Len(line) <= MAX_CMD_LEN - 1}

Shells ==
  [cmd_buffer : Buffers, cmd_pos : Indices, cursor_pos : Indices,
   cmd_history : Seq(Short), history_current : Int, saved_cmd : Short,
   last : Short, argv : Seq(Lines)]

\* The string at index i of buf ends at index e.
EndsAt(buf, i, e) == buf[e] = "nul" /\ \A j \in i .. (e - 1) : buf[j] # "nul"

\* The buffer has a string: the line that is edited, or, when that is empty,
\* a beginning of the line that was entered last.
StringInv(s) ==
  \E e \in Indices :
    /\ EndsAt(s.cmd_buffer, 0, e)
    /\ s.cmd_pos > 0 => e = s.cmd_pos
    /\ s.cmd_pos = 0 =>
         e <= Len(s.last) /\ \A i \in 0 .. (e - 1) : s.cmd_buffer[i] = s.last[i + 1]

ShellInv(s) ==
  /\ s \in Shells
  /\ s.cursor_pos <= s.cmd_pos
  /\ Len(s.cmd_history) <= MAX_CMD_HISTORY
  /\ s.history_current \in -1 .. (Len(s.cmd_history) - 1)
  /\ StringInv(s)

\* The inductive invariant.
IInv == ShellInv(sh)

-----------------------------------------------------------------------------
(***************************************************************************)
(* Sizes, least elements and induction                                     *)
(***************************************************************************)

\* The constants, as the provers need them.
LEMMA Sizes ==
  /\ MAX_CMD_LEN \in Nat /\ MAX_CMD_LEN >= 2 /\ MAX_ARGS \in Nat /\ MAX_ARGS >= 2
  /\ MAX_CMD_HISTORY \in Nat \ {0}
  /\ "nul" \notin Letters
BY ShellAssumption, ConsoleAssumption

\* A set of naturals that is not empty has a least element.
LEMMA LeastElement ==
  ASSUME NEW T, T \subseteq Nat, T # {}
  PROVE  \E x \in T : \A y \in T : ~(y < x)
<1>1. PICK x \in T : \A y \in T : ~(<<y, x>> \in OpToRel(<, Nat))
  BY WFMin, NatLessThanWellFounded
<1>2. \A y \in T : ~(y < x)
  BY <1>1 DEF OpToRel
<1> QED BY <1>2

\* Induction, stated of a set.
LEMMA SetInduction ==
  ASSUME NEW S, 0 \in S, \A n \in Nat : n \in S => n + 1 \in S
  PROVE  Nat \subseteq S
<1> DEFINE T == Nat \ S
<1> SUFFICES ASSUME T # {} PROVE FALSE
  OBVIOUS
<1>1. PICK x \in T : \A y \in T : ~(y < x)
  <2>1. T \subseteq Nat
    OBVIOUS
  <2> HIDE DEF T
  <2> QED BY <2>1, LeastElement
<1>2. x # 0 /\ x - 1 \in Nat /\ x - 1 < x /\ (x - 1) + 1 = x
  OBVIOUS
<1> QED BY <1>1, <1>2

-----------------------------------------------------------------------------
(***************************************************************************)
(* Strings in a buffer                                                     *)
(***************************************************************************)

\* A NUL at or behind index i ends the string at i, or another one before
\* it does.
LEMMA StringEnds ==
  ASSUME NEW buf \in Buffers, NEW i \in Indices, NEW n \in Indices, i <= n, buf[n] = "nul"
  PROVE  \E e \in Indices : i <= e /\ e <= n /\ EndsAt(buf, i, e)
<1> DEFINE T == {j \in Indices : i <= j /\ buf[j] = "nul"}
<1>1. T \subseteq Nat /\ T # {} /\ n \in T
  BY Sizes DEF Indices
<1>2. PICK e \in T : \A y \in T : ~(y < e)
  <2> HIDE DEF T
  <2> QED BY <1>1, LeastElement
<1>3. e <= n
  BY <1>1, <1>2, Sizes DEF Indices
<1>4. ASSUME NEW j \in i .. (e - 1)
      PROVE  buf[j] # "nul"
  <2>1. j \in Indices /\ i <= j /\ j < e
    BY <1>2, Sizes DEF Indices
  <2> QED BY <1>2, <2>1
<1> QED BY <1>2, <1>3, <1>4 DEF EndsAt

\* What StringAt reads.
LEMMA StringRead ==
  ASSUME NEW buf \in Buffers, NEW i \in Indices, NEW e \in Indices, i <= e, EndsAt(buf, i, e)
  PROVE  /\ StringAt(buf, i) = [n \in 1 .. (e - i) |-> buf[i + n - 1]]
         /\ StringAt(buf, i) \in Short
         /\ Len(StringAt(buf, i)) = e - i
<1> DEFINE T == {j \in DOMAIN buf : j >= i /\ buf[j] = "nul"}
           str == [n \in 1 .. (e - i) |-> buf[i + n - 1]]
<1>1. DOMAIN buf = Indices /\ i \in Nat /\ e \in Nat /\ e <= MAX_CMD_LEN - 1
  BY Sizes DEF Buffers, Indices
<1>2. e \in T
  BY <1>1 DEF EndsAt
<1>3. ASSUME NEW j \in T
      PROVE  e <= j
  <2> SUFFICES ASSUME j < e PROVE FALSE
    BY <1>1, <1>3, Sizes DEF Indices
  <2>1. j \in i .. (e - 1)
    BY <1>1, <1>3, Sizes DEF Indices
  <2> QED BY <2>1, <1>3 DEF EndsAt
<1>4. Min(T) = e
  <2>1. \A j \in T : j \in Int
    BY <1>1, Sizes DEF Indices
  <2> HIDE DEF T
  <2>2. \E x \in T : \A y \in T : x <= y
    BY <1>2, <1>3
  <2>3. Min(T) \in T /\ \A y \in T : Min(T) <= y
    BY <2>2 DEF Min
  <2>4. Min(T) <= e /\ e <= Min(T)
    BY <1>2, <1>3, <2>3
  <2> QED BY <1>1, <2>1, <2>3, <2>4
<1>5. StringAt(buf, i) = str
  BY <1>4 DEF StringAt
<1>6. \A n \in 1 .. (e - i) : str[n] \in Letters
  <2> SUFFICES ASSUME NEW n \in 1 .. (e - i)
               PROVE  buf[i + n - 1] \in Letters
    OBVIOUS
  <2>1. i + n - 1 \in i .. (e - 1) /\ i + n - 1 \in Indices
    BY <1>1, Sizes DEF Indices
  <2> QED BY <2>1 DEF EndsAt, Buffers
<1>7. e - i \in Nat /\ e - i <= MAX_CMD_LEN - 1
  BY <1>1, Sizes
<1>8. str \in Seq(Letters) /\ Len(str) = e - i
  <2>1. str \in [1 .. (e - i) -> Letters]
    BY <1>6
  <2> HIDE DEF str
  <2> QED BY <1>7, <2>1, LenProperties, SeqDef
<1> HIDE DEF str
<1> QED BY <1>5, <1>7, <1>8 DEF Short, str

\* The line that is edited.
Text(s) == [n \in 1 .. s.cmd_pos |-> s.cmd_buffer[n - 1]]

\* A sequence given by its length and its elements.
LEMMA SequenceIs ==
  ASSUME NEW n \in Nat, NEW str, NEW S, str \in [1 .. n -> S]
  PROVE  str \in Seq(S) /\ Len(str) = n
BY LenProperties, SeqDef

\* The line and the string in the buffer.
LEMMA LineString ==
  ASSUME NEW s, ShellInv(s)
  PROVE  /\ \A i \in 0 .. (s.cmd_pos - 1) : s.cmd_buffer[i] \in Letters
         /\ Text(s) \in Short /\ Text(s) \in Seq(Letters) /\ Len(Text(s)) = s.cmd_pos
         /\ s.cmd_pos > 0 => s.cmd_buffer[s.cmd_pos] = "nul"
         /\ StringAt(s.cmd_buffer, 0) \in Short
         /\ s.cmd_pos > 0 => StringAt(s.cmd_buffer, 0) = Text(s)
         /\ s.cmd_pos = 0 =>
              Text(s) = <<>> /\ StringAt(s.cmd_buffer, 0) \in Prefixes(s.last)
<1> DEFINE buf == s.cmd_buffer
           n == s.cmd_pos
           str == StringAt(buf, 0)
<1>1. buf \in Buffers /\ n \in Indices /\ s.last \in Short /\ 0 \in Indices
  BY Sizes DEF ShellInv, Shells, Indices
<1>2. PICK e \in Indices :
        /\ EndsAt(buf, 0, e)
        /\ n > 0 => e = n
        /\ n = 0 => e <= Len(s.last) /\ \A i \in 0 .. (e - 1) : buf[i] = s.last[i + 1]
  BY DEF ShellInv, StringInv
<1>3. n \in Nat /\ n <= MAX_CMD_LEN - 1 /\ e \in Nat /\ 0 <= e /\ e - 0 = e
  BY <1>1, Sizes DEF Indices
<1>4. str = [i \in 1 .. e |-> buf[0 + i - 1]] /\ str \in Short /\ Len(str) = e
  BY <1>1, <1>2, <1>3, StringRead
<1>5. \A i \in 0 .. (n - 1) : buf[i] \in Letters
  <2> SUFFICES ASSUME NEW i \in 0 .. (n - 1)
               PROVE  buf[i] \in Letters
    OBVIOUS
  <2>1. n > 0 /\ i \in Indices
    BY <1>3, Sizes DEF Indices
  <2>2. buf[i] # "nul"
    BY <1>2, <2>1 DEF EndsAt
  <2> QED BY <1>1, <2>1, <2>2 DEF Buffers
<1>6. Text(s) \in Seq(Letters) /\ Len(Text(s)) = n
  <2>1. \A i \in 1 .. n : i - 1 \in 0 .. (n - 1)
    BY <1>3
  <2>2. Text(s) \in [1 .. n -> Letters]
    BY <1>5, <2>1 DEF Text
  <2> HIDE DEF n
  <2> QED BY <1>3, <2>2, SequenceIs
<1>7. Text(s) \in Short
  BY <1>3, <1>6 DEF Short
<1>8. ASSUME n > 0
      PROVE  buf[n] = "nul" /\ str = Text(s)
  <2>1. \A i \in 1 .. n : 0 + i - 1 = i - 1
    BY <1>3
  <2> QED BY <1>2, <1>4, <1>8, <2>1 DEF EndsAt, Text
<1>9. ASSUME n = 0
      PROVE  Text(s) = <<>> /\ str \in Prefixes(s.last)
  <2>1. Text(s) = <<>>
    BY <1>6, <1>9
  <2> DEFINE l == s.last
             pre == SubSeq(l, 1, e)
  <2>2. l \in Seq(Letters) /\ Len(l) \in Nat /\ e <= Len(l)
    BY <1>1, <1>2, <1>9 DEF Short
  <2>3. pre \in Seq(Letters) /\ Len(pre) = e /\ \A i \in 1 .. e : pre[i] = l[i]
    BY <1>3, <2>2
  <2>4. \A i \in 1 .. e : str[i] = l[i]
    <3> SUFFICES ASSUME NEW i \in 1 .. e
                 PROVE  str[i] = l[i]
      OBVIOUS
    <3>1. 0 + i - 1 = i - 1 /\ i - 1 \in 0 .. (e - 1) /\ (i - 1) + 1 = i
      BY <1>3
    <3>2. str[i] = buf[i - 1]
      BY <1>4, <3>1
    <3>3. buf[i - 1] = l[i]
      BY <1>2, <1>9, <3>1
    <3> QED BY <3>2, <3>3
  <2>5. str \in Seq(Letters)
    BY <1>4 DEF Short
  <2> HIDE DEF str, pre
  <2>6. str = pre
    BY <1>4, <2>3, <2>4, <2>5, SeqEqual
  <2>7. e \in 0 .. Len(l)
    BY <1>3, <2>2
  <2> QED BY <2>1, <2>6, <2>7 DEF Prefixes, pre
<1> QED BY <1>4, <1>5, <1>6, <1>7, <1>8, <1>9

\* A line with a character more.
LEMMA InsertedAt ==
  ASSUME NEW t \in Seq(Letters), NEW p \in 0 .. Len(t), NEW c \in Letters
  PROVE  /\ InsertAt(t, p + 1, c) \in Seq(Letters)
         /\ Len(InsertAt(t, p + 1, c)) = Len(t) + 1
         /\ \A i \in 1 .. p : InsertAt(t, p + 1, c)[i] = t[i]
         /\ InsertAt(t, p + 1, c)[p + 1] = c
         /\ \A i \in (p + 2) .. (Len(t) + 1) : InsertAt(t, p + 1, c)[i] = t[i - 1]
<1> DEFINE a == SubSeq(t, 1, (p + 1) - 1)
           m == <<c>>
           z == SubSeq(t, p + 1, Len(t))
           am == a \o m
           r == am \o z
<1>1. p \in Nat /\ Len(t) \in Nat /\ p <= Len(t) /\ (p + 1) - 1 = p
  OBVIOUS
<1>2. a \in Seq(Letters) /\ Len(a) = p /\ \A i \in 1 .. p : a[i] = t[i]
  BY <1>1
<1>3. /\ z \in Seq(Letters) /\ Len(z) = Len(t) - p
      /\ \A i \in 1 .. (Len(t) - p) : z[i] = t[p + i]
  BY <1>1
<1>4. m \in Seq(Letters) /\ Len(m) = 1 /\ m[1] = c
  OBVIOUS
<1>5. InsertAt(t, p + 1, c) = r
  BY DEF InsertAt
<1> HIDE DEF a, m, z
<1>6. /\ am \in Seq(Letters) /\ Len(am) = p + 1
      /\ \A i \in 1 .. (p + 1) : am[i] = IF i <= p THEN a[i] ELSE m[i - p]
  <2>1. /\ am \in Seq(Letters) /\ Len(am) = Len(a) + Len(m)
        /\ \A i \in 1 .. Len(a) + Len(m) : am[i] = IF i <= Len(a) THEN a[i] ELSE m[i - Len(a)]
    BY <1>2, <1>4, ConcatProperties
  <2> HIDE DEF am
  <2> QED BY <1>2, <1>4, <2>1
<1> HIDE DEF am
<1>7. /\ r \in Seq(Letters) /\ Len(r) = Len(t) + 1
      /\ \A i \in 1 .. (Len(t) + 1) : r[i] = IF i <= p + 1 THEN am[i] ELSE z[i - (p + 1)]
  <2>1. (p + 1) + (Len(t) - p) = Len(t) + 1
    BY <1>1
  <2> QED BY <1>3, <1>6, <2>1, ConcatProperties
<1> HIDE DEF r
<1>8. \A i \in 1 .. p : r[i] = t[i]
  BY <1>1, <1>2, <1>6, <1>7
<1>9. r[p + 1] = c
  <2>1. (p + 1) - p = 1 /\ ~(p + 1 <= p) /\ p + 1 \in 1 .. (p + 1) /\ p + 1 \in 1 .. (Len(t) + 1)
        /\ p + 1 <= p + 1
    BY <1>1
  <2> QED BY <1>4, <1>6, <1>7, <2>1
<1>10. ASSUME NEW i \in (p + 2) .. (Len(t) + 1)
       PROVE  r[i] = t[i - 1]
  <2>1. /\ i \in 1 .. (Len(t) + 1) /\ ~(i <= p + 1) /\ i - (p + 1) \in 1 .. (Len(t) - p)
        /\ p + (i - (p + 1)) = i - 1
    BY <1>1
  <2> QED BY <1>3, <1>7, <2>1
<1> QED BY <1>5, <1>7, <1>8, <1>9, <1>10

\* A line with a character less.
LEMMA RemovedAt ==
  ASSUME NEW t \in Seq(Letters), NEW p \in 1 .. Len(t)
  PROVE  /\ RemoveAt(t, p) \in Seq(Letters)
         /\ Len(RemoveAt(t, p)) = Len(t) - 1
         /\ \A i \in 1 .. (p - 1) : RemoveAt(t, p)[i] = t[i]
         /\ \A i \in p .. (Len(t) - 1) : RemoveAt(t, p)[i] = t[i + 1]
<1> DEFINE a == SubSeq(t, 1, p - 1)
           z == SubSeq(t, p + 1, Len(t))
           r == a \o z
<1>1. p \in Nat /\ Len(t) \in Nat /\ p <= Len(t) /\ 1 <= p
  OBVIOUS
<1>2. a \in Seq(Letters) /\ Len(a) = p - 1 /\ \A i \in 1 .. (p - 1) : a[i] = t[i]
  BY <1>1
<1>3. /\ z \in Seq(Letters) /\ Len(z) = Len(t) - p
      /\ \A i \in 1 .. (Len(t) - p) : z[i] = t[p + i]
  BY <1>1
<1>4. RemoveAt(t, p) = r
  BY DEF RemoveAt
<1> HIDE DEF a, z
<1>5. /\ r \in Seq(Letters) /\ Len(r) = Len(t) - 1
      /\ \A i \in 1 .. (Len(t) - 1) : r[i] = IF i <= p - 1 THEN a[i] ELSE z[i - (p - 1)]
  <2>1. (p - 1) + (Len(t) - p) = Len(t) - 1
    BY <1>1
  <2>2. /\ r \in Seq(Letters) /\ Len(r) = Len(a) + Len(z)
        /\ \A i \in 1 .. Len(a) + Len(z) : r[i] = IF i <= Len(a) THEN a[i] ELSE z[i - Len(a)]
    BY <1>2, <1>3, ConcatProperties
  <2> HIDE DEF r
  <2> QED BY <1>2, <1>3, <2>1, <2>2
<1> HIDE DEF r
<1>6. \A i \in 1 .. (p - 1) : r[i] = t[i]
  BY <1>1, <1>2, <1>5
<1>7. ASSUME NEW i \in p .. (Len(t) - 1)
      PROVE  r[i] = t[i + 1]
  <2>1. /\ i \in 1 .. (Len(t) - 1) /\ ~(i <= p - 1) /\ i - (p - 1) \in 1 .. (Len(t) - p)
        /\ p + (i - (p - 1)) = i + 1
    BY <1>1
  <2> QED BY <1>3, <1>5, <2>1
<1> QED BY <1>4, <1>5, <1>6, <1>7
-----------------------------------------------------------------------------
(***************************************************************************)
(* Editing                                                                 *)
(***************************************************************************)

\* The fields that editing leaves alone.
SameLog(s, j) ==
  /\ j.cmd_history = s.cmd_history /\ j.history_current = s.history_current
  /\ j.saved_cmd = s.saved_cmd /\ j.last = s.last /\ j.argv = s.argv

\* A buffer whose first n characters are not NUL, and the next one is.
LEMMA LineInBuffer ==
  ASSUME NEW s \in Shells, NEW j \in Shells, SameLog(s, j), ShellInv(s),
         j.cursor_pos <= j.cmd_pos, EndsAt(j.cmd_buffer, 0, j.cmd_pos)
  PROVE  ShellInv(j)
<1>1. j.cmd_pos \in Indices /\ j.last \in Short
  BY DEF Shells
<1>2. j.cmd_pos = 0 => j.cmd_pos <= Len(j.last) /\ \A i \in 0 .. (j.cmd_pos - 1) : FALSE
  BY <1>1 DEF Short
<1>3. StringInv(j)
  BY <1>1, <1>2 DEF StringInv
<1> QED BY <1>3 DEF ShellInv, SameLog

\* Inserting a character shifts the rest of the line and its NUL.
LEMMA InsertedKeeps ==
  ASSUME NEW s, ShellInv(s), HasRoom(s), NEW c \in Letters
  PROVE  LET j == Inserted(s, c)
         IN  /\ ShellInv(j) /\ SameLog(s, j)
             /\ Text(j) = InsertAt(Text(s), s.cursor_pos + 1, c)
             /\ j.cursor_pos = s.cursor_pos + 1 /\ j.cmd_pos = s.cmd_pos + 1
             /\ j.cmd_buffer[s.cursor_pos] = c
             /\ \A i \in 0 .. (s.cursor_pos - 1) : j.cmd_buffer[i] = s.cmd_buffer[i]
<1> DEFINE j == Inserted(s, c)
           n == s.cmd_pos
           at == s.cursor_pos
           buf == s.cmd_buffer
           new == [i \in DOMAIN buf |->
                     IF i = n + 1 THEN "nul"
                     ELSE IF i = at THEN c
                     ELSE IF i \in (at + 1) .. n THEN buf[i - 1] ELSE buf[i]]
<1>1. s \in Shells /\ buf \in Buffers /\ DOMAIN buf = Indices
  BY DEF ShellInv, Shells, Buffers
<1>2. /\ n \in Nat /\ at \in Nat /\ at <= n /\ n < MAX_CMD_LEN - 1 /\ MAX_CMD_LEN \in Nat
      /\ \A i \in Int : i \in Indices <=> 0 <= i /\ i <= MAX_CMD_LEN - 1
  BY <1>1, Sizes DEF ShellInv, Shells, Indices, HasRoom
<1>3. /\ \A i \in 0 .. (n - 1) : buf[i] \in Letters
      /\ Text(s) \in Seq(Letters) /\ Len(Text(s)) = n
  BY LineString
<1>4. /\ j.cmd_buffer = new /\ j.cmd_pos = n + 1 /\ j.cursor_pos = at + 1
      /\ SameLog(s, j)
  BY <1>1 DEF Inserted, Shells, SameLog
<1>5. /\ new[n + 1] = "nul"
      /\ new[at] = c
      /\ \A i \in 0 .. (at - 1) : new[i] = buf[i]
      /\ \A i \in (at + 1) .. n : new[i] = buf[i - 1]
  <2>1. n + 1 \in Indices /\ at \in Indices /\ at # n + 1
    BY <1>2
  <2>2. \A i \in 0 .. (at - 1) : i \in Indices /\ i # n + 1 /\ i # at /\ i \notin (at + 1) .. n
    BY <1>2
  <2>3. \A i \in (at + 1) .. n : i \in Indices /\ i # n + 1 /\ i # at
    BY <1>2
  <2> QED BY <1>1, <2>1, <2>2, <2>3
<1>6. \A i \in 0 .. n : new[i] \in Letters
  <2> SUFFICES ASSUME NEW i \in 0 .. n
               PROVE  new[i] \in Letters
    OBVIOUS
  <2>1. CASE i = at
    BY <1>5, <2>1
  <2>2. CASE i < at
    <3>1. i \in 0 .. (at - 1) /\ i \in 0 .. (n - 1)
      BY <1>2, <2>2
    <3> QED BY <1>3, <1>5, <3>1
  <2>3. CASE i > at
    <3>1. i \in (at + 1) .. n /\ i - 1 \in 0 .. (n - 1)
      BY <1>2, <2>3
    <3> QED BY <1>3, <1>5, <3>1
  <2> QED BY <1>2, <2>1, <2>2, <2>3
<1>7. new \in Buffers
  <2>1. ASSUME NEW i \in Indices
        PROVE  new[i] \in Letters \cup {"nul"}
    <3>1. i \in (at + 1) .. n => i - 1 \in 0 .. (n - 1)
      BY <1>2
    <3> QED BY <1>1, <1>3, <3>1 DEF Buffers
  <2> QED BY <1>1, <2>1 DEF Buffers
<1>8. j \in Shells
  <2>1. n + 1 \in Indices /\ at + 1 \in Indices
    BY <1>2
  <2> HIDE DEF new
  <2>2. j = [s EXCEPT !.cmd_buffer = new, !.cmd_pos = n + 1, !.cursor_pos = at + 1]
    BY <1>1 DEF Inserted, Shells, new
  <2> QED BY <1>1, <1>7, <2>1, <2>2 DEF Shells
<1> HIDE DEF j, new
<1>9. ShellInv(j)
  <2>1. EndsAt(new, 0, n + 1)
    <3>1. (n + 1) - 1 = n
      BY <1>2
    <3> QED BY <1>5, <1>6, <3>1, Sizes DEF EndsAt
  <2>2. at + 1 <= n + 1
    BY <1>2
  <2> QED BY <1>1, <1>4, <1>8, <2>1, <2>2, LineInBuffer
<1>10. Text(j) = InsertAt(Text(s), at + 1, c)
  <2> DEFINE t == Text(s)
             r == InsertAt(t, at + 1, c)
  <2>1. \A i \in 1 .. n : t[i] = buf[i - 1]
    BY DEF Text
  <2>2. /\ Text(j) \in Seq(Letters) /\ Len(Text(j)) = n + 1
        /\ \A i \in 1 .. (n + 1) : Text(j)[i] = new[i - 1]
    BY <1>4, <1>9, LineString DEF Text
  <2>3. t \in Seq(Letters) /\ Len(t) = n /\ at \in 0 .. Len(t)
    BY <1>2, <1>3
  <2>4. /\ r \in Seq(Letters) /\ Len(r) = n + 1
        /\ \A i \in 1 .. at : r[i] = t[i]
        /\ r[at + 1] = c
        /\ \A i \in (at + 2) .. (n + 1) : r[i] = t[i - 1]
    <3> HIDE DEF t, n, at
    <3> QED BY <2>3, InsertedAt
  <2> HIDE DEF t, r, n, at, buf
  <2>5. ASSUME NEW i \in 1 .. (n + 1)
        PROVE  Text(j)[i] = r[i]
    <3>1. CASE i <= at
      <4>1. i \in 1 .. at /\ i \in 1 .. n /\ i - 1 \in 0 .. (at - 1)
        BY <1>2, <3>1
      <4> QED BY <1>5, <2>1, <2>2, <2>4, <4>1
    <3>2. CASE i = at + 1
      <4>1. i - 1 = at
        BY <1>2, <3>2
      <4> QED BY <1>5, <2>2, <2>4, <3>2, <4>1
    <3>3. CASE i > at + 1
      <4>1. i \in (at + 2) .. (n + 1) /\ i - 1 \in (at + 1) .. n /\ i - 1 \in 1 .. n
        BY <1>2, <3>3
      <4> QED BY <1>5, <2>1, <2>2, <2>4, <4>1
    <3> QED BY <1>2, <3>1, <3>2, <3>3
  <2>6. Text(j) = r
    BY <2>2, <2>4, <2>5, SeqEqual
  <2> QED BY <2>6 DEF r, t
<1> QED BY <1>4, <1>5, <1>9, <1>10 DEF j

\* Removing a character shifts the rest of the line back and ends it.
LEMMA WithoutKeeps ==
  ASSUME NEW s, ShellInv(s), NEW p \in Nat, p < s.cmd_pos
  PROVE  LET j == Without(s, p)
         IN  /\ ShellInv(j) /\ SameLog(s, j)
             /\ Text(j) = RemoveAt(Text(s), p + 1)
             /\ j.cursor_pos = p /\ j.cmd_pos = s.cmd_pos - 1
             /\ \A i \in 0 .. (p - 1) : j.cmd_buffer[i] = s.cmd_buffer[i]
<1> DEFINE j == Without(s, p)
           n == s.cmd_pos
           buf == s.cmd_buffer
           new == [i \in DOMAIN buf |->
                     IF i = n - 1 THEN "nul"
                     ELSE IF i \in p .. (n - 2) THEN buf[i + 1] ELSE buf[i]]
<1>1. s \in Shells /\ buf \in Buffers /\ DOMAIN buf = Indices
  BY DEF ShellInv, Shells, Buffers
<1>2. /\ n \in Nat /\ p < n /\ n <= MAX_CMD_LEN - 1 /\ MAX_CMD_LEN \in Nat
      /\ \A i \in Int : i \in Indices <=> 0 <= i /\ i <= MAX_CMD_LEN - 1
  BY <1>1, Sizes DEF ShellInv, Shells, Indices
<1>3. /\ \A i \in 0 .. (n - 1) : buf[i] \in Letters
      /\ Text(s) \in Seq(Letters) /\ Len(Text(s)) = n
  BY LineString
<1>4. /\ j.cmd_buffer = new /\ j.cmd_pos = n - 1 /\ j.cursor_pos = p
      /\ SameLog(s, j)
  BY <1>1 DEF Without, Shells, SameLog
<1>5. /\ new[n - 1] = "nul"
      /\ \A i \in 0 .. (p - 1) : new[i] = buf[i]
      /\ \A i \in p .. (n - 2) : new[i] = buf[i + 1]
  <2>1. n - 1 \in Indices
    BY <1>2
  <2>2. \A i \in 0 .. (p - 1) : i \in Indices /\ i # n - 1 /\ i \notin p .. (n - 2)
    BY <1>2
  <2>3. \A i \in p .. (n - 2) : i \in Indices /\ i # n - 1
    BY <1>2
  <2> QED BY <1>1, <2>1, <2>2, <2>3
<1>6. \A i \in 0 .. (n - 2) : new[i] \in Letters
  <2> SUFFICES ASSUME NEW i \in 0 .. (n - 2)
               PROVE  new[i] \in Letters
    OBVIOUS
  <2>1. CASE i < p
    <3>1. i \in 0 .. (p - 1) /\ i \in 0 .. (n - 1)
      BY <1>2, <2>1
    <3> QED BY <1>3, <1>5, <3>1
  <2>2. CASE i >= p
    <3>1. i \in p .. (n - 2) /\ i + 1 \in 0 .. (n - 1)
      BY <1>2, <2>2
    <3> QED BY <1>3, <1>5, <3>1
  <2> QED BY <1>2, <2>1, <2>2
<1>7. new \in Buffers
  <2>1. ASSUME NEW i \in Indices
        PROVE  new[i] \in Letters \cup {"nul"}
    <3>1. i \in p .. (n - 2) => i + 1 \in 0 .. (n - 1)
      BY <1>2
    <3> QED BY <1>1, <1>3, <3>1 DEF Buffers
  <2> QED BY <1>1, <2>1 DEF Buffers
<1>8. j \in Shells
  <2>1. n - 1 \in Indices /\ p \in Indices
    BY <1>2
  <2> HIDE DEF new
  <2>2. j = [s EXCEPT !.cmd_buffer = new, !.cmd_pos = n - 1, !.cursor_pos = p]
    BY <1>1 DEF Without, Shells, new
  <2> QED BY <1>1, <1>7, <2>1, <2>2 DEF Shells
<1> HIDE DEF j, new
<1>9. ShellInv(j)
  <2>1. EndsAt(new, 0, n - 1)
    <3>1. (n - 1) - 1 = n - 2
      BY <1>2
    <3> QED BY <1>5, <1>6, <3>1, Sizes DEF EndsAt
  <2>2. p <= n - 1
    BY <1>2
  <2> QED BY <1>1, <1>4, <1>8, <2>1, <2>2, LineInBuffer
<1>10. Text(j) = RemoveAt(Text(s), p + 1)
  <2> DEFINE t == Text(s)
             r == RemoveAt(t, p + 1)
  <2>1. \A i \in 1 .. n : t[i] = buf[i - 1]
    BY DEF Text
  <2>2. /\ Text(j) \in Seq(Letters) /\ Len(Text(j)) = n - 1
        /\ \A i \in 1 .. (n - 1) : Text(j)[i] = new[i - 1]
    BY <1>4, <1>9, LineString DEF Text
  <2>3. t \in Seq(Letters) /\ Len(t) = n /\ p + 1 \in 1 .. Len(t) /\ (p + 1) - 1 = p
    BY <1>2, <1>3
  <2>4. /\ r \in Seq(Letters) /\ Len(r) = n - 1
        /\ \A i \in 1 .. p : r[i] = t[i]
        /\ \A i \in (p + 1) .. (n - 1) : r[i] = t[i + 1]
    <3> DEFINE q == p + 1
    <3>1. q - 1 = p
      BY <2>3
    <3>2. q \in 1 .. Len(t)
      BY <2>3
    <3> HIDE DEF t, n, q
    <3>3. /\ RemoveAt(t, q) \in Seq(Letters) /\ Len(RemoveAt(t, q)) = Len(t) - 1
          /\ \A i \in 1 .. (q - 1) : RemoveAt(t, q)[i] = t[i]
          /\ \A i \in q .. (Len(t) - 1) : RemoveAt(t, q)[i] = t[i + 1]
      BY <2>3, <3>2, RemovedAt
    <3> QED BY <2>3, <3>1, <3>3 DEF q
  <2> HIDE DEF t, r, n, buf
  <2>5. ASSUME NEW i \in 1 .. (n - 1)
        PROVE  Text(j)[i] = r[i]
    <3>1. CASE i <= p
      <4>1. i \in 1 .. p /\ i \in 1 .. n /\ i - 1 \in 0 .. (p - 1)
        BY <1>2, <3>1
      <4> QED BY <1>5, <2>1, <2>2, <2>4, <4>1
    <3>2. CASE i > p
      <4>1. /\ i \in (p + 1) .. (n - 1) /\ i - 1 \in p .. (n - 2) /\ i + 1 \in 1 .. n
            /\ (i - 1) + 1 = i /\ (i + 1) - 1 = i
        BY <1>2, <3>2
      <4> QED BY <1>5, <2>1, <2>2, <2>4, <4>1
    <3> QED BY <1>2, <3>1, <3>2
  <2>6. Text(j) = r
    BY <2>2, <2>4, <2>5, SeqEqual
  <2> QED BY <2>6 DEF r, t
<1> QED BY <1>4, <1>5, <1>9, <1>10 DEF j

\* Moving the cursor inside the line.
LEMMA CursorSet ==
  ASSUME NEW s, ShellInv(s), NEW p \in 0 .. s.cmd_pos
  PROVE  LET j == [s EXCEPT !.cursor_pos = p]
         IN  /\ ShellInv(j) /\ SameLog(s, j) /\ Text(j) = Text(s) /\ j.cursor_pos = p
<1> DEFINE j == [s EXCEPT !.cursor_pos = p]
<1>1. s \in Shells /\ s.cmd_pos \in Indices
  BY DEF ShellInv, Shells
<1>2. p \in Indices /\ p <= s.cmd_pos
  BY <1>1, Sizes DEF Indices
<1>3. /\ j.cmd_buffer = s.cmd_buffer /\ j.cmd_pos = s.cmd_pos /\ j.cursor_pos = p
      /\ SameLog(s, j)
  BY <1>1 DEF Shells, SameLog
<1>4. j \in Shells
  BY <1>1, <1>2 DEF Shells
<1> HIDE DEF j
<1>5. StringInv(j)
  BY <1>3 DEF ShellInv, StringInv, SameLog
<1>6. ShellInv(j)
  BY <1>2, <1>3, <1>4, <1>5 DEF ShellInv, SameLog
<1>7. Text(j) = Text(s)
  BY <1>3 DEF Text
<1> QED BY <1>3, <1>6, <1>7 DEF j

-----------------------------------------------------------------------------
(***************************************************************************)
(* Lines from the history                                                  *)
(***************************************************************************)

\* The line becomes a command of the history, or the one that was saved.
LEMMA CommandShown ==
  ASSUME NEW s, ShellInv(s), NEW cmd \in Short
  PROVE  LET j == [s EXCEPT !.cmd_buffer = str_copy(@, cmd), !.cmd_pos = Len(cmd),
                            !.cursor_pos = Len(cmd)]
         IN  /\ ShellInv(j) /\ SameLog(s, j) /\ Text(j) = cmd /\ j.cursor_pos = Len(cmd)
<1> DEFINE j == [s EXCEPT !.cmd_buffer = str_copy(@, cmd), !.cmd_pos = Len(cmd),
                          !.cursor_pos = Len(cmd)]
           buf == s.cmd_buffer
           n == Len(cmd)
           new == str_copy(buf, cmd)
<1>1. s \in Shells /\ buf \in Buffers /\ DOMAIN buf = Indices
  BY DEF ShellInv, Shells, Buffers
<1>2. cmd \in Seq(Letters) /\ n \in Nat /\ n <= MAX_CMD_LEN - 1
  BY DEF Short
<1>3. n \in Indices /\ n <= n
  BY <1>2, Sizes DEF Indices
<1>4. j.cmd_buffer = new /\ j.cmd_pos = n /\ j.cursor_pos = n /\ SameLog(s, j)
  BY <1>1 DEF Shells, SameLog
<1>5. /\ new = [i \in Indices |-> IF i < n THEN cmd[i + 1] ELSE IF i = n THEN "nul" ELSE buf[i]]
  BY <1>1 DEF str_copy
<1>6. \A i \in 0 .. (n - 1) : i \in Indices /\ i < n /\ i + 1 \in 1 .. n
  BY <1>2, Sizes DEF Indices
<1>7. /\ \A i \in 0 .. (n - 1) : new[i] = cmd[i + 1] /\ cmd[i + 1] \in Letters
      /\ new[n] = "nul"
  <2>1. ~(n < n)
    BY <1>2
  <2> HIDE DEF n, new
  <2>2. \A i \in 1 .. n : cmd[i] \in Letters
    BY <1>2 DEF n
  <2> QED BY <1>2, <1>3, <1>5, <1>6, <2>1, <2>2
<1>8. new \in Buffers
  <2>1. ASSUME NEW i \in Indices
        PROVE  new[i] \in Letters \cup {"nul"}
    <3>1. i < n => i \in 0 .. (n - 1)
      BY <1>2, Sizes DEF Indices
    <3>2. i < n => new[i] \in Letters
      BY <1>7, <3>1
    <3>3. ~(i < n) => new[i] \in {"nul", buf[i]}
      BY <1>5
    <3> QED BY <1>1, <3>2, <3>3 DEF Buffers
  <2> HIDE DEF new, n
  <2> QED BY <1>5, <2>1 DEF Buffers
<1>9. j \in Shells
  <2>1. j = [s EXCEPT !.cmd_buffer = new, !.cmd_pos = n, !.cursor_pos = n]
    BY <1>1 DEF Shells
  <2> HIDE DEF j, new, n
  <2> QED BY <1>1, <1>3, <1>8, <2>1 DEF Shells
<1> HIDE DEF j, new
<1>10. ShellInv(j)
  <2>1. EndsAt(new, 0, n)
    BY <1>7, Sizes DEF EndsAt
  <2> QED BY <1>1, <1>3, <1>4, <1>9, <2>1, LineInBuffer
<1>11. Text(j) = cmd
  <2>1. Text(j) \in Seq(Letters) /\ Len(Text(j)) = n
    BY <1>4, <1>10, LineString
  <2>2. ASSUME NEW i \in 1 .. n
        PROVE  Text(j)[i] = cmd[i]
    <3>1. i - 1 \in 0 .. (n - 1) /\ (i - 1) + 1 = i
      BY <1>2
    <3>2. Text(j)[i] = new[i - 1]
      BY <1>4 DEF Text
    <3> QED BY <1>7, <3>1, <3>2
  <2> QED BY <1>2, <2>1, <2>2, SeqEqual
<1> QED BY <1>4, <1>10, <1>11 DEF j

\* The position in the history and the saved line, before the line changes.
LEMMA HistoryMoved ==
  ASSUME NEW s, ShellInv(s), NEW index \in -1 .. (Len(s.cmd_history) - 1), NEW saved \in Short
  PROVE  ShellInv([s EXCEPT !.history_current = index, !.saved_cmd = saved])
<1> DEFINE j == [s EXCEPT !.history_current = index, !.saved_cmd = saved]
<1>1. s \in Shells /\ Len(s.cmd_history) \in Nat
  BY DEF ShellInv, Shells
<1>2. /\ j.cmd_buffer = s.cmd_buffer /\ j.cmd_pos = s.cmd_pos /\ j.cursor_pos = s.cursor_pos
      /\ j.cmd_history = s.cmd_history /\ j.last = s.last /\ j.history_current = index
  BY <1>1 DEF Shells
<1>3. j \in Shells
  <2>1. index \in Int
    BY <1>1
  <2> QED BY <1>1, <2>1 DEF Shells
<1> HIDE DEF j
<1>4. StringInv(j)
  BY <1>2 DEF ShellInv, StringInv
<1>5. ShellInv(j)
  BY <1>2, <1>3, <1>4 DEF ShellInv
<1> QED BY <1>5 DEF j

-----------------------------------------------------------------------------
(***************************************************************************)
(* Running a command                                                       *)
(***************************************************************************)

\* parse_arguments after n turns of its loop, on a buffer whose line ends at
\* index m: the arguments begin inside the line, and a character is still
\* what it was, or is NUL.
Parsing(buf, m, n, p) ==
  /\ p \in [buf : Buffers, argv : Seq(0 .. (m - 1)), in_arg : BOOLEAN, done : BOOLEAN]
  /\ \A i \in Indices : p.buf[i] = buf[i] \/ p.buf[i] = "nul"
  /\ ~p.done => n <= m /\ \A i \in Indices : i >= n => p.buf[i] = buf[i]

\* One turn of the loop.
LEMMA ParseTurn ==
  ASSUME NEW buf \in Buffers, NEW m \in Indices, EndsAt(buf, 0, m),
         NEW n \in Nat, NEW p, Parsing(buf, m, n, p)
  PROVE  Parsing(buf, m, n + 1, IF p.done THEN p ELSE ParseStep(p, n))
<1>1. /\ p.buf \in Buffers /\ p.argv \in Seq(0 .. (m - 1)) /\ p.in_arg \in BOOLEAN
      /\ \A i \in Indices : p.buf[i] = buf[i] \/ p.buf[i] = "nul"
      /\ p \in [buf : Buffers, argv : Seq(0 .. (m - 1)), in_arg : BOOLEAN, done : BOOLEAN]
  BY DEF Parsing
<1>2. CASE p.done
  BY <1>1, <1>2 DEF Parsing
<1>3. CASE ~p.done
  <2> DEFINE q == ParseStep(p, n)
  <2>1. /\ n <= m /\ \A i \in Indices : i >= n => p.buf[i] = buf[i]
        /\ m \in Nat /\ n \in Indices /\ \A i \in Indices : i \in Int
    BY <1>3, Sizes DEF Parsing, Indices
  <2>2. TRUE \in BOOLEAN /\ FALSE \in BOOLEAN
    OBVIOUS
  <2>3. CASE p.buf[n] = "nul" \/ Len(p.argv) >= MAX_ARGS - 1
    <3>1. q = [p EXCEPT !.done = TRUE]
      BY <2>3 DEF ParseStep
    <3> HIDE DEF q
    <3>2. q.buf = p.buf /\ q.done
      BY <1>1, <3>1
    <3>3. q \in [buf : Buffers, argv : Seq(0 .. (m - 1)), in_arg : BOOLEAN, done : BOOLEAN]
      BY <1>1, <2>2, <3>1
    <3>4. Parsing(buf, m, n + 1, q)
      BY <1>1, <3>2, <3>3 DEF Parsing
    <3> QED BY <1>3, <3>4 DEF q
  <2>4. CASE ~(p.buf[n] = "nul" \/ Len(p.argv) >= MAX_ARGS - 1)
    <3>1. n # m /\ n + 1 <= m /\ n \in 0 .. (m - 1)
      BY <2>1, <2>4 DEF EndsAt
    <3>2. \A i \in Indices : i >= n + 1 => i >= n /\ i # n
      BY <2>1
    <3>3. CASE p.buf[n] = Blank
      <4> DEFINE c == IF p.in_arg THEN "nul" ELSE p.buf[n]
                 new == [p.buf EXCEPT ![n] = c]
      <4>1. q = [p EXCEPT !.buf = new, !.in_arg = FALSE]
        BY <1>1, <2>4, <3>3 DEF ParseStep
      <4>2. /\ new \in Buffers
            /\ \A i \in Indices : new[i] = p.buf[i] \/ new[i] = "nul"
            /\ \A i \in Indices : i # n => new[i] = p.buf[i]
        BY <1>1, <2>1 DEF Buffers
      <4> HIDE DEF q, new
      <4>3. q.buf = new /\ q.done = p.done
        BY <1>1, <4>1
      <4>4. q \in [buf : Buffers, argv : Seq(0 .. (m - 1)), in_arg : BOOLEAN, done : BOOLEAN]
        BY <1>1, <2>2, <4>1, <4>2
      <4>5. \A i \in Indices : q.buf[i] = buf[i] \/ q.buf[i] = "nul"
        BY <1>1, <4>2, <4>3
      <4>6. \A i \in Indices : i >= n + 1 => q.buf[i] = buf[i]
        BY <2>1, <3>2, <4>2, <4>3
      <4>7. Parsing(buf, m, n + 1, q)
        BY <3>1, <4>4, <4>5, <4>6 DEF Parsing
      <4> QED BY <1>3, <4>7 DEF q
    <3>4. CASE p.buf[n] # Blank
      <4> DEFINE args == IF p.in_arg THEN p.argv ELSE Append(p.argv, n)
      <4>1. q = [p EXCEPT !.argv = args, !.in_arg = TRUE]
        BY <1>1, <2>4, <3>4 DEF ParseStep
      <4>2. args \in Seq(0 .. (m - 1))
        <5>1. Append(p.argv, n) \in Seq(0 .. (m - 1))
          BY <1>1, <3>1, AppendProperties
        <5> QED BY <1>1, <5>1
      <4> HIDE DEF q, args
      <4>3. q.buf = p.buf /\ q.done = p.done
        BY <1>1, <4>1
      <4>4. q \in [buf : Buffers, argv : Seq(0 .. (m - 1)), in_arg : BOOLEAN, done : BOOLEAN]
        BY <1>1, <2>2, <4>1, <4>2
      <4>5. \A i \in Indices : i >= n + 1 => q.buf[i] = buf[i]
        BY <2>1, <3>2, <4>3
      <4>6. Parsing(buf, m, n + 1, q)
        BY <1>1, <3>1, <4>3, <4>4, <4>5 DEF Parsing
      <4> QED BY <1>3, <4>6 DEF q
    <3> QED BY <3>3, <3>4
  <2> QED BY <2>3, <2>4
<1> QED BY <1>2, <1>3

\* Where the loop begins.
Unparsed(buf) == [buf |-> buf, argv |-> <<>>, in_arg |-> FALSE, done |-> FALSE]

\* after is the function that parse_arguments defines by recursion, up to
\* turn m.
ParsedTo(buf, m, after) ==
  after = [n \in 0 .. m |->
             IF n = 0 THEN Unparsed(buf)
             ELSE IF after[n - 1].done THEN after[n - 1]
             ELSE ParseStep(after[n - 1], n - 1)]

\* There is such a function.
LEMMA ParsedToExists ==
  ASSUME NEW buf
  PROVE  \A m \in Nat : \E after : ParsedTo(buf, m, after)
<1> DEFINE S == {m \in Nat : \E after : ParsedTo(buf, m, after)}
           k == Unparsed(buf)
<1>1. 0 \in S
  <2> DEFINE g == [n \in 0 .. 0 |-> k]
  <2>1. \A n \in 0 .. 0 : n = 0
    OBVIOUS
  <2>2. ParsedTo(buf, 0, g)
    BY <2>1 DEF ParsedTo
  <2> QED BY <2>2
<1>2. ASSUME NEW m \in Nat, m \in S
      PROVE  m + 1 \in S
  <2>1. PICK g : ParsedTo(buf, m, g)
    BY <1>2
  <2> DEFINE Turn(f, n) == IF n = 0 THEN k
                           ELSE IF f[n - 1].done THEN f[n - 1] ELSE ParseStep(f[n - 1], n - 1)
             h == [n \in 0 .. (m + 1) |-> Turn(g, n)]
  <2>2. \A n \in 0 .. m : h[n] = g[n]
    <3>1. \A n \in 0 .. m : n \in 0 .. (m + 1)
      OBVIOUS
    <3>2. g = [n \in 0 .. m |-> Turn(g, n)]
      BY <2>1 DEF ParsedTo
    <3> HIDE DEF Turn
    <3> QED BY <3>1, <3>2
  <2>3. \A n \in 0 .. (m + 1) : n # 0 => n - 1 \in 0 .. m
    OBVIOUS
  <2>4. \A n \in 0 .. (m + 1) : Turn(h, n) = Turn(g, n)
    <3>1. \A n \in 0 .. (m + 1) : n # 0 => h[n - 1] = g[n - 1]
      BY <2>2, <2>3
    <3> HIDE DEF h
    <3> QED BY <3>1, Zenon
  <2>5. h = [n \in 0 .. (m + 1) |-> Turn(h, n)]
    <3> HIDE DEF Turn
    <3> QED BY <2>4
  <2>6. ParsedTo(buf, m + 1, h)
    BY <2>5 DEF ParsedTo
  <2>7. \E after : ParsedTo(buf, m + 1, after)
    BY <2>6
  <2> QED BY <2>7
<1> HIDE DEF S
<1>3. Nat \subseteq S
  BY <1>1, <1>2, SetInduction
<1> QED BY <1>3 DEF S

\* What parse_arguments leaves of a buffer whose line ends at index m.
LEMMA Parsed ==
  ASSUME NEW buf \in Buffers, NEW m \in Indices, EndsAt(buf, 0, m)
  PROVE  LET p == parse_arguments(buf)
         IN  /\ p.buf \in Buffers /\ p.argv \in Seq(0 .. (m - 1))
             /\ \A i \in Indices : p.buf[i] = buf[i] \/ p.buf[i] = "nul"
<1> DEFINE g == CHOOSE after : ParsedTo(buf, MAX_CMD_LEN, after)
<1>1. ParsedTo(buf, MAX_CMD_LEN, g)
  <2>1. \E after : ParsedTo(buf, MAX_CMD_LEN, after)
    BY Sizes, ParsedToExists
  <2> QED BY <2>1
<1>2. parse_arguments(buf) = g[MAX_CMD_LEN]
  BY DEF parse_arguments, ParsedTo, Unparsed
<1> HIDE DEF g
<1> DEFINE S == {n \in Nat : n <= MAX_CMD_LEN => Parsing(buf, m, n, g[n])}
<1>3. 0 \in S
  <2> DEFINE k == Unparsed(buf)
  <2>1. g[0] = k
    BY <1>1, Sizes DEF ParsedTo
  <2>2. FALSE \in BOOLEAN /\ <<>> \in Seq(0 .. (m - 1)) /\ 0 <= m
    BY Sizes DEF Indices
  <2>3. k \in [buf : Buffers, argv : Seq(0 .. (m - 1)), in_arg : BOOLEAN, done : BOOLEAN]
    BY <2>2 DEF Unparsed
  <2>4. k.buf = buf
    BY DEF Unparsed
  <2> HIDE DEF k
  <2>5. Parsing(buf, m, 0, k)
    BY <2>2, <2>3, <2>4 DEF Parsing
  <2> QED BY <2>1, <2>5
<1>4. ASSUME NEW n \in Nat, n \in S
      PROVE  n + 1 \in S
  <2>1. SUFFICES ASSUME n + 1 <= MAX_CMD_LEN
                 PROVE  Parsing(buf, m, n + 1, g[n + 1])
    OBVIOUS
  <2>2. n <= MAX_CMD_LEN /\ n + 1 \in 0 .. MAX_CMD_LEN /\ n + 1 # 0 /\ (n + 1) - 1 = n
    BY <2>1, Sizes
  <2>3. Parsing(buf, m, n, g[n])
    BY <1>4, <2>2
  <2>4. g[n + 1] = IF g[n].done THEN g[n] ELSE ParseStep(g[n], n)
    BY <1>1, <2>2 DEF ParsedTo
  <2> QED BY <2>3, <2>4, ParseTurn
<1> HIDE DEF S
<1>5. Nat \subseteq S
  BY <1>3, <1>4, SetInduction
<1>6. MAX_CMD_LEN \in S /\ MAX_CMD_LEN <= MAX_CMD_LEN
  BY <1>5, Sizes
<1>7. Parsing(buf, m, MAX_CMD_LEN, g[MAX_CMD_LEN])
  BY <1>6 DEF S
<1> QED BY <1>2, <1>7 DEF Parsing

\* The history keeps the newest commands, at most MAX_CMD_HISTORY of them.
LEMMA HistoryAdded ==
  ASSUME NEW hist \in Seq(Short), Len(hist) <= MAX_CMD_HISTORY, NEW cmd \in Short
  PROVE  /\ history_add(hist, cmd) \in Seq(Short)
         /\ Len(history_add(hist, cmd)) <= MAX_CMD_HISTORY
         /\ Len(history_add(hist, cmd)) >= Len(hist)
<1>1. Len(hist) \in Nat /\ MAX_CMD_HISTORY \in Nat \ {0}
  BY Sizes
<1>2. CASE Len(hist) >= MAX_CMD_HISTORY
  <2>1. hist # <<>> /\ Tail(hist) \in Seq(Short) /\ Len(Tail(hist)) = Len(hist) - 1
    BY <1>1, <1>2
  <2>2. /\ Append(Tail(hist), cmd) \in Seq(Short)
        /\ Len(Append(Tail(hist), cmd)) = Len(hist)
    BY <1>1, <2>1
  <2> QED BY <1>1, <1>2, <2>2 DEF history_add
<1>3. CASE ~(Len(hist) >= MAX_CMD_HISTORY)
  <2>1. Append(hist, cmd) \in Seq(Short) /\ Len(Append(hist, cmd)) = Len(hist) + 1
    OBVIOUS
  <2> QED BY <1>1, <1>3, <2>1 DEF history_add
<1> QED BY <1>2, <1>3

\* The arguments that the command of s is given.
ArgvOf(s) ==
  LET parsed == parse_arguments(s.cmd_buffer)
  IN  [n \in DOMAIN parsed.argv |-> StringAt(parsed.buf, parsed.argv[n])]

Executed(s) ==
  [s EXCEPT !.cmd_buffer = parse_arguments(s.cmd_buffer).buf,
            !.cmd_pos = 0,
            !.cursor_pos = 0,
            !.cmd_history = history_add(@, StringAt(s.cmd_buffer, 0)),
            !.last = StringAt(s.cmd_buffer, 0),
            !.argv = ArgvOf(s)]

\* Entering a line: it goes to the history, and what is left in the buffer
\* is a beginning of it.
LEMMA ExecutedKeeps ==
  ASSUME NEW s, ShellInv(s), s.cmd_pos > 0
  PROVE  LET j == Executed(s)
         IN  /\ ShellInv(j) /\ j.cmd_pos = 0 /\ j.cursor_pos = 0
             /\ j.cmd_history = history_add(s.cmd_history, Text(s)) /\ j.last = Text(s)
             /\ j.saved_cmd = s.saved_cmd
<1> DEFINE j == Executed(s)
           m == s.cmd_pos
           buf == s.cmd_buffer
           line == StringAt(buf, 0)
           new == parse_arguments(buf).buf
           args == parse_arguments(buf).argv
           hist == history_add(s.cmd_history, line)
           argv == ArgvOf(s)
<1>1. s \in Shells /\ buf \in Buffers /\ m \in Indices /\ 0 \in Indices /\ m \in Nat /\ m > 0
  BY Sizes DEF ShellInv, Shells, Indices
<1>2. EndsAt(buf, 0, m)
  BY <1>1 DEF ShellInv, StringInv
<1>3. line = Text(s) /\ line \in Short /\ Len(line) = m
  BY LineString
<1>4. \A i \in 0 .. (m - 1) : buf[i] = line[i + 1]
  <2>1. \A i \in 0 .. (m - 1) : i + 1 \in 1 .. m /\ (i + 1) - 1 = i
    BY <1>1
  <2> QED BY <1>3, <2>1 DEF Text
<1>5. /\ new \in Buffers /\ args \in Seq(0 .. (m - 1))
      /\ \A i \in Indices : new[i] = buf[i] \/ new[i] = "nul"
  BY <1>1, <1>2, Parsed
<1>6. new[m] = "nul"
  BY <1>1, <1>2, <1>5 DEF EndsAt
<1>7. /\ hist \in Seq(Short) /\ Len(hist) <= MAX_CMD_HISTORY
      /\ Len(hist) >= Len(s.cmd_history)
  BY <1>1, <1>3, HistoryAdded DEF ShellInv, Shells
<1>8. argv \in Seq(Lines)
  <2> DEFINE l == Len(args)
  <2>1. l \in Nat /\ DOMAIN args = 1 .. l /\ \A n \in 1 .. l : args[n] \in 0 .. (m - 1)
    <3>1. args \in Seq(0 .. (m - 1))
      BY <1>5
    <3> DEFINE D == 0 .. (m - 1)
    <3> HIDE DEF args, D
    <3>2. args \in Seq(D)
      BY <3>1 DEF D
    <3>3. l \in Nat /\ DOMAIN args = 1 .. l
      BY <3>2, LenProperties
    <3>4. \A n \in 1 .. l : args[n] \in D
      BY <3>2, ElementOfSeq
    <3> QED BY <3>3, <3>4 DEF D
  <2>2. argv = [n \in 1 .. l |-> StringAt(new, args[n])]
    BY <2>1 DEF ArgvOf
  <2> HIDE DEF new, args, l, argv
  <2>3. ASSUME NEW n \in 1 .. l
        PROVE  StringAt(new, args[n]) \in Lines
    <3> DEFINE i == args[n]
    <3>1. i \in Indices /\ i <= m
      BY <1>1, <2>1, Sizes DEF Indices
    <3> HIDE DEF i
    <3>2. PICK e \in Indices : i <= e /\ EndsAt(new, i, e)
      BY <1>1, <1>5, <1>6, <3>1, StringEnds
    <3>3. StringAt(new, i) \in Short
      BY <1>5, <3>1, <3>2, StringRead
    <3> QED BY <3>3 DEF Short, Lines, i
  <2>4. argv \in [1 .. l -> Lines]
    BY <2>2, <2>3
  <2> QED BY <2>1, <2>4, SequenceIs
<1>9. /\ j.cmd_buffer = new /\ j.cmd_pos = 0 /\ j.cursor_pos = 0 /\ j.cmd_history = hist
      /\ j.last = line /\ j.saved_cmd = s.saved_cmd /\ j.history_current = s.history_current
  BY <1>1 DEF Executed, Shells
<1>10. j \in Shells
  <2> HIDE DEF new, hist, line, argv
  <2>1. j = [s EXCEPT !.cmd_buffer = new, !.cmd_pos = 0, !.cursor_pos = 0,
                      !.cmd_history = hist, !.last = line, !.argv = argv]
    BY <1>1 DEF Executed, Shells, new, hist, line, argv
  <2> HIDE DEF j
  <2> QED BY <1>1, <1>3, <1>5, <1>7, <1>8, <2>1 DEF Shells
<1> HIDE DEF j, new, hist, line, args, argv
<1>11. StringInv(j)
  <2>1. PICK e \in Indices : 0 <= e /\ e <= m /\ EndsAt(new, 0, e)
    <3>1. 0 <= m
      BY <1>1
    <3> QED BY <1>1, <1>5, <1>6, <3>1, StringEnds
  <2>2. ASSUME NEW i \in 0 .. (e - 1)
        PROVE  new[i] = line[i + 1]
    <3>1. i \in Indices /\ i \in 0 .. (m - 1)
      BY <1>1, <2>1, Sizes DEF Indices
    <3>2. new[i] # "nul"
      BY <2>1 DEF EndsAt
    <3> QED BY <1>4, <1>5, <3>1, <3>2
  <2>3. ~(0 > 0)
    OBVIOUS
  <2> QED BY <1>3, <1>9, <2>1, <2>2, <2>3 DEF StringInv
<1>12. ShellInv(j)
  <2>1. s.history_current \in -1 .. (Len(hist) - 1)
    <3>1. s.history_current \in -1 .. (Len(s.cmd_history) - 1) /\ Len(s.cmd_history) \in Nat
      BY <1>1 DEF ShellInv, Shells
    <3>2. Len(hist) \in Nat
      BY <1>7
    <3> QED BY <1>7, <3>1, <3>2
  <2>2. 0 <= 0
    OBVIOUS
  <2> QED BY <1>7, <1>9, <1>10, <1>11, <2>1, <2>2 DEF ShellInv
<1> QED BY <1>3, <1>9, <1>12 DEF j, hist

-----------------------------------------------------------------------------
(***************************************************************************)
(* The arguments of a command                                              *)
(***************************************************************************)

\* Counting the words of a line from left to right.
LEMMA WordsCounted ==
  ASSUME NEW line \in Seq(Letters)
  PROVE  /\ \A n \in 0 .. Len(line) : WordCount(line, n) \in Nat
         /\ WordCount(line, 0) = 0
         /\ \A n \in 0 .. (Len(line) - 1) :
              WordCount(line, n + 1) =
                IF n + 1 \in WordStarts(line) THEN WordCount(line, n) + 1 ELSE WordCount(line, n)
         /\ \A a, b \in 0 .. Len(line) : a <= b => WordCount(line, a) <= WordCount(line, b)
<1> DEFINE W == WordStarts(line)
           m == Len(line)
           Upto(n) == {j \in W : j <= n}
<1>1. m \in Nat /\ W \subseteq 1 .. m /\ \A j \in W : j \in Int /\ j >= 1
  BY DEF WordStarts
<1> HIDE DEF W, m
<1>2. \A n : WordCount(line, n) = Cardinality(Upto(n))
  BY DEF WordCount, W
<1>3. ASSUME NEW n \in 0 .. m
      PROVE  IsFiniteSet(Upto(n)) /\ Cardinality(Upto(n)) \in Nat
  <2>1. Upto(n) \subseteq 1 .. m
    BY <1>1
  <2>2. IsFiniteSet(1 .. m)
    BY <1>1, FS_Interval
  <2> HIDE DEF Upto
  <2>3. IsFiniteSet(Upto(n))
    BY <2>1, <2>2, FS_Subset
  <2> QED BY <2>3, FS_CardinalityType
<1>4. Cardinality(Upto(0)) = 0
  <2>1. \A j \in W : ~(j <= 0)
    BY <1>1
  <2>2. Upto(0) = {}
    BY <2>1, Zenon
  <2> QED BY <2>2, FS_EmptySet
<1>5. ASSUME NEW n \in 0 .. (m - 1)
      PROVE  Cardinality(Upto(n + 1)) =
               IF n + 1 \in W THEN Cardinality(Upto(n)) + 1 ELSE Cardinality(Upto(n))
  <2>0. n \in 0 .. m /\ ~(n + 1 <= n) /\ \A j \in W : j <= n + 1 <=> (j <= n \/ j = n + 1)
    BY <1>1
  <2>1. CASE n + 1 \in W
    <3>1. Upto(n + 1) = Upto(n) \cup {n + 1} /\ n + 1 \notin Upto(n)
      BY <2>0, <2>1, Zenon
    <3>2. IsFiniteSet(Upto(n))
      BY <1>3, <2>0
    <3> HIDE DEF Upto
    <3> QED BY <2>1, <3>1, <3>2, FS_AddElement
  <2>2. CASE n + 1 \notin W
    <3>1. Upto(n + 1) = Upto(n)
      BY <2>0, <2>2, Zenon
    <3> QED BY <2>2, <3>1
  <2> QED BY <2>1, <2>2
<1>6. ASSUME NEW a \in 0 .. m, NEW b \in 0 .. m, a <= b
      PROVE  Cardinality(Upto(a)) <= Cardinality(Upto(b))
  <2>1. \A j \in W : j <= a => j <= b
    BY <1>1, <1>6
  <2>2. Upto(a) \subseteq Upto(b)
    BY <2>1, Zenon
  <2>3. IsFiniteSet(Upto(b))
    BY <1>3
  <2> HIDE DEF Upto
  <2> QED BY <2>2, <2>3, FS_Subset
<1> HIDE DEF Upto
<1> QED BY <1>2, <1>3, <1>4, <1>5, <1>6 DEF m, W

\* Words are counted from one, and a later word has a higher number.
LEMMA WordsNumbered ==
  ASSUME NEW line \in Seq(Letters), NEW i \in WordStarts(line)
  PROVE  /\ i \in 1 .. Len(line) /\ i \in 0 .. Len(line) /\ WordCount(line, i) \in Nat
         /\ WordCount(line, i) >= 1 /\ WordCount(line, i) <= WordCount(line, Len(line))
         /\ \A k \in 0 .. Len(line) : k < i => WordCount(line, k) < WordCount(line, i)
<1> DEFINE m == Len(line)
           C(n) == WordCount(line, n)
<1>1. m \in Nat /\ i \in 1 .. m
  BY DEF WordStarts
<1>2. i - 1 \in 0 .. (m - 1) /\ i - 1 \in 0 .. m /\ (i - 1) + 1 = i /\ i \in 0 .. m /\ m \in 0 .. m /\ i <= m
  BY <1>1
<1> HIDE DEF m
<1>3. /\ \A n \in 0 .. m : C(n) \in Nat
      /\ \A n \in 0 .. (m - 1) : C(n + 1) = IF n + 1 \in WordStarts(line) THEN C(n) + 1 ELSE C(n)
      /\ \A a, b \in 0 .. m : a <= b => C(a) <= C(b)
  BY WordsCounted DEF m
<1> HIDE DEF C
<1>4. C(i) = C(i - 1) + 1 /\ C(i - 1) \in Nat /\ C(i) \in Nat /\ C(i) <= C(m)
  BY <1>2, <1>3
<1>5. ASSUME NEW k \in 0 .. m, k < i
      PROVE  C(k) < C(i)
  <2>1. k <= i - 1
    BY <1>1, <1>5
  <2>2. C(k) <= C(i - 1) /\ C(k) \in Nat
    BY <1>2, <1>3, <2>1
  <2> QED BY <1>4, <2>2
<1>6. C(i) >= 1
  BY <1>4
<1> QED BY <1>1, <1>2, <1>4, <1>5, <1>6 DEF C, m

\* A blank at index i ends a word.
EndsWord(line, i) == i > 0 /\ line[i + 1] = Blank /\ line[i] # Blank

\* What parse_arguments knows after k characters of the line: an argument for
\* each word that has begun, and a NUL behind each that has ended.
Cut(buf, line, k, p) ==
  /\ Len(p.argv) = WordCount(line, k)
  /\ Len(p.argv) <= MAX_ARGS - 1
  /\ \A i \in WordStarts(line) : i <= k => p.argv[WordCount(line, i)] = i - 1
  /\ \A i \in Indices : p.buf[i] = IF i < k /\ EndsWord(line, i) THEN "nul" ELSE buf[i]
  /\ p.in_arg <=> (k > 0 /\ line[k] # Blank)
  /\ Len(p.argv) = MAX_ARGS - 1 => k \in WordStarts(line)

\* After n turns of its loop: it stops at the end, or with the last argument
\* just begun.
CutAfter(buf, line, n, p) ==
  \E k \in 0 .. Len(line) :
    /\ Cut(buf, line, k, p)
    /\ ~p.done => k = n
    /\ p.done => k = Len(line) \/ Len(p.argv) = MAX_ARGS - 1

\* The buffer of a line.
HoldsLine(buf, line) ==
  /\ Len(line) \in Indices /\ buf[Len(line)] = "nul"
  /\ \A i \in 0 .. (Len(line) - 1) : buf[i] = line[i + 1]

\* One turn of the loop.
LEMMA CutTurn ==
  ASSUME NEW buf \in Buffers, NEW line \in Seq(Letters), HoldsLine(buf, line),
         NEW n \in Nat, NEW p, Parsing(buf, Len(line), n, p), CutAfter(buf, line, n, p)
  PROVE  CutAfter(buf, line, n + 1, IF p.done THEN p ELSE ParseStep(p, n))
<1> DEFINE m == Len(line)
           W == WordStarts(line)
           C(k) == WordCount(line, k)
<1>1. /\ p.buf \in Buffers /\ p.argv \in Seq(0 .. (m - 1)) /\ p.in_arg \in BOOLEAN
      /\ p.done \in BOOLEAN /\ m \in Nat
      /\ p \in [buf : Buffers, argv : Seq(0 .. (m - 1)), in_arg : BOOLEAN, done : BOOLEAN]
  BY DEF Parsing
<1>2. CASE p.done
  BY <1>2 DEF CutAfter
<1>3. CASE ~p.done
  <2> DEFINE q == ParseStep(p, n)
  <2>1. n \in 0 .. m /\ Cut(buf, line, n, p)
    BY <1>3 DEF CutAfter
  <2>2. n \in Indices /\ m \in Indices /\ \A i \in Indices : i \in Int
    BY <1>1, <2>1, Sizes DEF HoldsLine, Indices
  <2>3. /\ Len(p.argv) = C(n) /\ Len(p.argv) <= MAX_ARGS - 1
        /\ \A i \in W : i <= n => p.argv[C(i)] = i - 1
        /\ \A i \in Indices : p.buf[i] = IF i < n /\ EndsWord(line, i) THEN "nul" ELSE buf[i]
        /\ p.in_arg <=> (n > 0 /\ line[n] # Blank)
        /\ Len(p.argv) = MAX_ARGS - 1 => n \in W
    BY <2>1 DEF Cut
  <2>4. Len(p.argv) \in Nat /\ MAX_ARGS \in Nat
    BY <1>1, Sizes
  <2>5. p.buf[n] = buf[n]
    <3>1. ~(n < n)
      BY <2>1
    <3> QED BY <2>2, <2>3, <3>1
  <2>6. CASE p.buf[n] = "nul" \/ Len(p.argv) >= MAX_ARGS - 1
    <3>1. q = [p EXCEPT !.done = TRUE]
      BY <2>6 DEF ParseStep
    <3> HIDE DEF q
    <3>2. q.buf = p.buf /\ q.argv = p.argv /\ q.in_arg = p.in_arg /\ q.done = TRUE
      BY <1>1, <3>1
    <3>3. Cut(buf, line, n, q)
      BY <2>1, <3>2 DEF Cut
    <3>4. n = m \/ Len(q.argv) = MAX_ARGS - 1
      <4>1. CASE p.buf[n] = "nul"
        <5> SUFFICES ASSUME n # m PROVE FALSE
          OBVIOUS
        <5>1. n \in 0 .. (m - 1) /\ n + 1 \in 1 .. m
          BY <1>1, <2>1
        <5>2. buf[n] = line[n + 1] /\ line[n + 1] \in Letters
          BY <5>1, ElementOfSeq DEF HoldsLine
        <5> QED BY <2>5, <4>1, <5>2, Sizes
      <4>2. CASE Len(p.argv) >= MAX_ARGS - 1
        BY <2>3, <2>4, <3>2, <4>2
      <4> QED BY <2>6, <4>1, <4>2
    <3>5. CutAfter(buf, line, n + 1, q)
      BY <2>1, <3>2, <3>3, <3>4 DEF CutAfter
    <3> QED BY <1>3, <3>5 DEF q
  <2>7. CASE ~(p.buf[n] = "nul" \/ Len(p.argv) >= MAX_ARGS - 1)
    <3>1. n # m
      BY <2>5, <2>7 DEF HoldsLine
    <3>2. /\ n \in 0 .. (m - 1) /\ n + 1 \in 1 .. m /\ n + 1 \in 0 .. m /\ n + 1 > 0
          /\ Len(p.argv) < MAX_ARGS - 1 /\ (n + 1) - 1 = n
      BY <1>1, <2>1, <2>4, <2>7, <3>1
    <3>3. buf[n] = line[n + 1]
      BY <3>2 DEF HoldsLine
    <3>4. n + 1 \in W <=> (line[n + 1] # Blank /\ ~p.in_arg)
      <4>1. DOMAIN line = 1 .. m /\ (n + 1 = 1 <=> ~(n > 0))
        BY <2>1
      <4>2. n + 1 \in W <=> (line[n + 1] # Blank /\ (n + 1 = 1 \/ line[n] = Blank))
        BY <3>2, <4>1 DEF WordStarts
      <4> QED BY <2>3, <4>1, <4>2
    <3>5. C(n + 1) = IF n + 1 \in W THEN C(n) + 1 ELSE C(n)
      BY <3>2, WordsCounted
    <3>6. \A i \in W : i \in Int /\ (i <= n + 1 <=> (i <= n \/ i = n + 1))
      BY <2>1 DEF WordStarts
    <3>7. \A i \in Indices : i < n + 1 <=> (i < n \/ i = n)
      BY <2>1, <2>2
    <3> HIDE DEF C, W
    <3>8. CASE p.buf[n] = Blank
      <4> DEFINE c == IF p.in_arg THEN "nul" ELSE p.buf[n]
                 new == [p.buf EXCEPT ![n] = c]
      <4>1. q = [p EXCEPT !.buf = new, !.in_arg = FALSE]
        BY <1>1, <2>7, <3>8 DEF ParseStep
      <4>2. new[n] = c /\ \A i \in Indices : i # n => new[i] = p.buf[i]
        BY <1>1, <2>2 DEF Buffers
      <4>3. EndsWord(line, n) <=> p.in_arg
        BY <2>3, <2>5, <3>3, <3>8 DEF EndsWord
      <4> HIDE DEF q, new
      <4>4. q.buf = new /\ q.argv = p.argv /\ q.in_arg = FALSE /\ q.done = p.done
        BY <1>1, <4>1
      <4>5. ASSUME NEW i \in Indices
            PROVE  q.buf[i] = IF i < n + 1 /\ EndsWord(line, i) THEN "nul" ELSE buf[i]
        <5>1. CASE i = n
          BY <2>5, <3>7, <4>2, <4>3, <4>4, <5>1
        <5>2. CASE i # n
          BY <2>3, <3>7, <4>2, <4>4, <5>2
        <5> QED BY <5>1, <5>2
      <4>6. n + 1 \notin W /\ line[n + 1] = Blank
        BY <2>5, <3>3, <3>4, <3>8
      <4>7. \A i \in W : i <= n + 1 => q.argv[C(i)] = i - 1
        BY <2>3, <3>6, <4>4, <4>6 DEF C, W
      <4>8. Len(q.argv) = C(n + 1) /\ Len(q.argv) <= MAX_ARGS - 1 /\ Len(q.argv) # MAX_ARGS - 1
        BY <2>3, <2>4, <3>2, <3>5, <4>4, <4>6 DEF C
      <4>9. q.in_arg <=> (n + 1 > 0 /\ line[n + 1] # Blank)
        BY <4>4, <4>6
      <4>10. Cut(buf, line, n + 1, q)
        BY <4>5, <4>7, <4>8, <4>9 DEF Cut, C, W
      <4>11. CutAfter(buf, line, n + 1, q)
        BY <1>3, <3>2, <4>4, <4>10 DEF CutAfter
      <4> QED BY <1>3, <4>11 DEF q
    <3>9. CASE p.buf[n] # Blank
      <4> DEFINE args == IF p.in_arg THEN p.argv ELSE Append(p.argv, n)
      <4>1. q = [p EXCEPT !.argv = args, !.in_arg = TRUE]
        BY <1>1, <2>7, <3>9 DEF ParseStep
      <4>2. line[n + 1] # Blank /\ (n + 1 \in W <=> ~p.in_arg)
        BY <2>5, <3>3, <3>4, <3>9
      <4>3. /\ Len(args) = C(n + 1)
            /\ \A i \in W : i <= n + 1 => args[C(i)] = i - 1
        <5>1. CASE p.in_arg
          BY <2>3, <3>5, <3>6, <4>2, <5>1 DEF C, W
        <5>2. CASE ~p.in_arg
          <6>1. /\ args = Append(p.argv, n) /\ Len(args) = Len(p.argv) + 1
                /\ args[Len(p.argv) + 1] = n
                /\ \A l \in 1 .. Len(p.argv) : args[l] = p.argv[l]
            <7> DEFINE D == 0 .. (m - 1)
            <7>1. p.argv \in Seq(D) /\ n \in D
              BY <1>1, <3>2
            <7> HIDE DEF D
            <7>2. /\ Len(Append(p.argv, n)) = Len(p.argv) + 1
                  /\ Append(p.argv, n)[Len(p.argv) + 1] = n
                  /\ \A l \in 1 .. Len(p.argv) : Append(p.argv, n)[l] = p.argv[l]
              BY <7>1, AppendProperties
            <7> QED BY <5>2, <7>2
          <6> HIDE DEF args
          <6>2. Len(args) = C(n + 1)
            BY <2>3, <3>5, <4>2, <5>2, <6>1 DEF C
          <6>3. ASSUME NEW i \in W, i <= n + 1
                PROVE  args[C(i)] = i - 1
            <7>1. CASE i = n + 1
              <8>1. C(i) = Len(p.argv) + 1
                BY <6>1, <6>2, <7>1
              <8> QED BY <3>2, <6>1, <7>1, <8>1
            <7>2. CASE i # n + 1
              <8>1. i <= n
                BY <3>6, <6>3, <7>2
              <8>2. p.argv[C(i)] = i - 1
                BY <2>3, <8>1 DEF C, W
              <8>3. C(i) \in Nat /\ C(i) >= 1 /\ i \in 0 .. m
                BY WordsNumbered DEF C, W
              <8>4. C(i) <= C(n)
                BY <2>1, <8>1, <8>3, WordsCounted DEF C
              <8>5. C(i) \in 1 .. Len(p.argv)
                BY <2>3, <2>4, <8>3, <8>4 DEF C
              <8> QED BY <6>1, <8>2, <8>5
            <7> QED BY <7>1, <7>2
          <6> QED BY <6>2, <6>3
        <5> QED BY <5>1, <5>2
      <4>4. Len(args) <= MAX_ARGS - 1 /\ (Len(args) = MAX_ARGS - 1 => n + 1 \in W)
        BY <2>3, <2>4, <3>2, <3>5, <4>2, <4>3 DEF C
      <4> HIDE DEF q, args
      <4>5. q.buf = p.buf /\ q.argv = args /\ q.in_arg = TRUE /\ q.done = p.done
        BY <1>1, <4>1
      <4>6. ASSUME NEW i \in Indices
            PROVE  q.buf[i] = IF i < n + 1 /\ EndsWord(line, i) THEN "nul" ELSE buf[i]
        <5>1. CASE i = n
          <6>1. ~EndsWord(line, i)
            BY <4>2, <5>1 DEF EndsWord
          <6> QED BY <2>5, <4>5, <5>1, <6>1
        <5>2. CASE i # n
          BY <2>3, <3>7, <4>5, <5>2
        <5> QED BY <5>1, <5>2
      <4>7. q.in_arg <=> (n + 1 > 0 /\ line[n + 1] # Blank)
        BY <3>2, <4>2, <4>5
      <4>8. Cut(buf, line, n + 1, q)
        BY <4>3, <4>4, <4>5, <4>6, <4>7 DEF Cut, C, W
      <4>9. CutAfter(buf, line, n + 1, q)
        BY <1>3, <3>2, <4>5, <4>8 DEF CutAfter
      <4> QED BY <1>3, <4>9 DEF q
    <3> QED BY <3>8, <3>9
  <2> QED BY <2>6, <2>7
<1> QED BY <1>2, <1>3

\* When the loop of parse_arguments is over.
LEMMA ParsedCut ==
  ASSUME NEW buf \in Buffers, NEW line \in Seq(Letters), HoldsLine(buf, line),
         EndsAt(buf, 0, Len(line))
  PROVE  LET p == parse_arguments(buf)
         IN  \E k \in 0 .. Len(line) :
               Cut(buf, line, k, p) /\ (k = Len(line) \/ Len(p.argv) = MAX_ARGS - 1)
<1> DEFINE m == Len(line)
           g == CHOOSE after : ParsedTo(buf, MAX_CMD_LEN, after)
<1>1. ParsedTo(buf, MAX_CMD_LEN, g)
  <2>1. \E after : ParsedTo(buf, MAX_CMD_LEN, after)
    BY Sizes, ParsedToExists
  <2> QED BY <2>1
<1>2. parse_arguments(buf) = g[MAX_CMD_LEN]
  BY DEF parse_arguments, ParsedTo, Unparsed
<1>3. m \in Nat /\ m \in Indices /\ m <= MAX_CMD_LEN - 1
  BY Sizes DEF HoldsLine, Indices
<1> HIDE DEF g
<1> DEFINE S == {n \in Nat : n <= MAX_CMD_LEN =>
                   Parsing(buf, m, n, g[n]) /\ CutAfter(buf, line, n, g[n])}
<1>4. 0 \in S
  <2> DEFINE k == Unparsed(buf)
  <2>1. g[0] = k
    BY <1>1, Sizes DEF ParsedTo
  <2>2. FALSE \in BOOLEAN /\ <<>> \in Seq(0 .. (m - 1)) /\ 0 <= m
    BY <1>3
  <2>3. k \in [buf : Buffers, argv : Seq(0 .. (m - 1)), in_arg : BOOLEAN, done : BOOLEAN]
    BY <2>2 DEF Unparsed
  <2>4. k.buf = buf /\ k.argv = <<>> /\ k.in_arg = FALSE /\ k.done = FALSE
    BY DEF Unparsed
  <2> HIDE DEF k
  <2>5. Parsing(buf, m, 0, k)
    BY <2>2, <2>3, <2>4 DEF Parsing
  <2>6. Len(k.argv) = 0 /\ 0 <= MAX_ARGS - 1 /\ 0 # MAX_ARGS - 1 /\ ~(0 > 0)
    BY <2>4, Sizes
  <2>7. WordCount(line, 0) = 0
    BY WordsCounted
  <2>8. \A i \in WordStarts(line) : ~(i <= 0)
    BY DEF WordStarts
  <2>9. \A i \in Indices : ~(i < 0)
    BY Sizes DEF Indices
  <2>10. Cut(buf, line, 0, k)
    BY <2>4, <2>6, <2>7, <2>8, <2>9 DEF Cut
  <2>11. CutAfter(buf, line, 0, k)
    BY <1>3, <2>4, <2>10 DEF CutAfter
  <2> QED BY <2>1, <2>5, <2>11
<1>5. ASSUME NEW n \in Nat, n \in S
      PROVE  n + 1 \in S
  <2>1. SUFFICES ASSUME n + 1 <= MAX_CMD_LEN
                 PROVE  Parsing(buf, m, n + 1, g[n + 1]) /\ CutAfter(buf, line, n + 1, g[n + 1])
    OBVIOUS
  <2>2. n <= MAX_CMD_LEN /\ n + 1 \in 0 .. MAX_CMD_LEN /\ n + 1 # 0 /\ (n + 1) - 1 = n
    BY <2>1, Sizes
  <2>3. Parsing(buf, m, n, g[n]) /\ CutAfter(buf, line, n, g[n])
    BY <1>5, <2>2
  <2>4. g[n + 1] = IF g[n].done THEN g[n] ELSE ParseStep(g[n], n)
    BY <1>1, <2>2 DEF ParsedTo
  <2>5. Parsing(buf, m, n + 1, g[n + 1])
    BY <1>3, <2>3, <2>4, ParseTurn
  <2>6. CutAfter(buf, line, n + 1, g[n + 1])
    BY <2>3, <2>4, CutTurn
  <2> QED BY <2>5, <2>6
<1> HIDE DEF S
<1>6. Nat \subseteq S
  BY <1>4, <1>5, SetInduction
<1>7. MAX_CMD_LEN \in S /\ MAX_CMD_LEN <= MAX_CMD_LEN /\ ~(MAX_CMD_LEN <= m)
  BY <1>3, <1>6, Sizes
<1>8. Parsing(buf, m, MAX_CMD_LEN, g[MAX_CMD_LEN]) /\ CutAfter(buf, line, MAX_CMD_LEN, g[MAX_CMD_LEN])
  BY <1>7 DEF S
<1>9. g[MAX_CMD_LEN].done
  BY <1>7, <1>8 DEF Parsing
<1> QED BY <1>2, <1>8, <1>9 DEF CutAfter

\* A part of the line between two places is a string of the buffer if it was
\* not cut and a NUL is behind it.
LEMMA PartRead ==
  ASSUME NEW buf \in Buffers, NEW line \in Seq(Letters), Len(line) \in Indices,
         NEW i \in 1 .. Len(line), NEW e \in i .. Len(line),
         buf[e] = "nul", \A j \in (i - 1) .. (e - 1) : buf[j] = line[j + 1]
  PROVE  StringAt(buf, i - 1) = SubSeq(line, i, e)
<1> DEFINE str == StringAt(buf, i - 1)
           part == SubSeq(line, i, e)
<1>1. /\ i \in Int /\ e \in Int /\ i - 1 <= e /\ i - 1 \in Indices /\ e \in Indices
      /\ e - (i - 1) = e - i + 1 /\ e - i + 1 \in Nat
  BY Sizes DEF Indices
<1>2. EndsAt(buf, i - 1, e)
  <2>1. ASSUME NEW j \in (i - 1) .. (e - 1)
        PROVE  buf[j] # "nul"
    <3>1. j + 1 \in 1 .. Len(line)
      BY <1>1
    <3>2. line[j + 1] \in Letters
      BY <3>1, ElementOfSeq
    <3> QED BY <3>2, Sizes
  <2> QED BY <2>1 DEF EndsAt
<1>3. /\ str = [n \in 1 .. (e - i + 1) |-> buf[(i - 1) + n - 1]]
      /\ str \in Short /\ Len(str) = e - i + 1
  <2> DEFINE h == i - 1
  <2>1. h \in Indices /\ e \in Indices /\ h <= e /\ EndsAt(buf, h, e) /\ e - h = e - i + 1
    BY <1>1, <1>2
  <2> HIDE DEF h
  <2>2. /\ StringAt(buf, h) = [n \in 1 .. (e - h) |-> buf[h + n - 1]]
        /\ StringAt(buf, h) \in Short /\ Len(StringAt(buf, h)) = e - h
    BY <2>1, StringRead
  <2> QED BY <2>1, <2>2 DEF h
<1>4. /\ part \in Seq(Letters) /\ Len(part) = e - i + 1
      /\ \A n \in 1 .. (e - i + 1) : part[n] = line[i + n - 1]
  <2>1. i <= e /\ \A j \in i .. e : j \in 1 .. Len(line)
    BY <1>1
  <2>2. \A j \in i .. e : line[j] \in Letters
    BY <2>1, ElementOfSeq
  <2> QED BY <1>1, <2>1, <2>2, SubSeqProperties
<1>5. \A n \in 1 .. (e - i + 1) : str[n] = part[n]
  <2> SUFFICES ASSUME NEW n \in 1 .. (e - i + 1)
               PROVE  str[n] = part[n]
    OBVIOUS
  <2>1. (i - 1) + n - 1 \in (i - 1) .. (e - 1) /\ ((i - 1) + n - 1) + 1 = i + n - 1
    BY <1>1
  <2>2. buf[(i - 1) + n - 1] = line[i + n - 1]
    BY <2>1
  <2> QED BY <1>3, <1>4, <2>2
<1>6. str \in Seq(Letters)
  BY <1>3 DEF Short
<1> HIDE DEF str, part
<1>7. str = part
  BY <1>3, <1>4, <1>5, <1>6, SeqEqual
<1> QED BY <1>7 DEF str, part

\* An argument is the word that begins at i, and the last that there is room
\* for is the rest of the line.
LEMMA ArgumentRead ==
  ASSUME NEW buf \in Buffers, NEW line \in Seq(Letters), HoldsLine(buf, line),
         NEW k \in 0 .. Len(line), NEW p, p.buf \in Buffers, Cut(buf, line, k, p),
         k = Len(line) \/ Len(p.argv) = MAX_ARGS - 1,
         NEW i \in WordStarts(line), i <= k
  PROVE  StringAt(p.buf, i - 1) =
           IF WordCount(line, i) = MAX_ARGS - 1 THEN SubSeq(line, i, Len(line)) ELSE WordAt(line, i)
<1> DEFINE m == Len(line)
<1>0. m \in Nat /\ m \in Indices /\ i \in 1 .. m /\ k \in 0 .. m /\ i \in Int /\ k \in Int
  BY DEF HoldsLine, WordStarts
<1>1. /\ DOMAIN line = 1 .. m /\ line[i] # Blank /\ buf[m] = "nul"
      /\ \A j \in 0 .. (m - 1) : buf[j] = line[j + 1]
  BY DEF HoldsLine, WordStarts
<1> HIDE DEF m
<1>2. \A j \in Indices : p.buf[j] = IF j < k /\ EndsWord(line, j) THEN "nul" ELSE buf[j]
  BY DEF Cut
<1>3. \A j \in 0 .. m : j \in Indices
  BY <1>0, Sizes DEF Indices
<1>4. p.buf[m] = "nul"
  BY <1>0, <1>1, <1>2
<1>5. ASSUME NEW e \in i .. m, p.buf[e] = "nul",
             \A j \in (i - 1) .. (e - 1) : j < k => ~EndsWord(line, j)
      PROVE  StringAt(p.buf, i - 1) = SubSeq(line, i, e)
  <2>1. ASSUME NEW j \in (i - 1) .. (e - 1)
        PROVE  p.buf[j] = line[j + 1]
    <3>1. j \in 0 .. (m - 1) /\ j \in 0 .. m
      BY <1>0
    <3> QED BY <1>1, <1>2, <1>3, <1>5, <3>1
  <2> QED BY <1>0, <1>5, <2>1, PartRead DEF m
<1>6. ASSUME Len(p.argv) = MAX_ARGS - 1
      PROVE  k \in WordStarts(line) /\ (WordCount(line, i) = MAX_ARGS - 1 <=> i = k)
  <2>1. k \in WordStarts(line) /\ WordCount(line, k) = MAX_ARGS - 1
    BY <1>6 DEF Cut
  <2>2. i < k => WordCount(line, i) < WordCount(line, k)
    BY <2>1, WordsNumbered
  <2>3. WordCount(line, i) \in Nat /\ WordCount(line, k) \in Nat
    BY <2>1, WordsNumbered
  <2> QED BY <1>0, <2>1, <2>2, <2>3
<1>7. CASE WordCount(line, i) = MAX_ARGS - 1
  <2>1. Len(p.argv) = WordCount(line, k) /\ Len(p.argv) <= MAX_ARGS - 1
    BY DEF Cut
  <2>2. WordCount(line, i) <= WordCount(line, k) /\ WordCount(line, k) \in Nat
    <3>1. i \in 0 .. m
      BY <1>0
    <3> QED BY <3>1, WordsCounted DEF m
  <2>3. Len(p.argv) = MAX_ARGS - 1
    BY <1>7, <2>1, <2>2, Sizes
  <2>4. i = k
    BY <1>6, <1>7, <2>3
  <2>5. ASSUME NEW j \in (i - 1) .. (m - 1), j < k
        PROVE  ~EndsWord(line, j)
    <3>1. j + 1 = i
      BY <1>0, <2>4, <2>5
    <3> QED BY <1>1, <3>1 DEF EndsWord
  <2>6. m \in i .. m
    BY <1>0
  <2> QED BY <1>4, <1>5, <1>7, <2>5, <2>6 DEF m
<1>8. CASE WordCount(line, i) # MAX_ARGS - 1
  <2> DEFINE B == {j \in DOMAIN line : j > i /\ line[j] = Blank}
  <2>1. \A j \in B : j \in i .. m /\ j \in Nat /\ j > i /\ line[j] = Blank
    BY <1>0, <1>1
  <2>2. ASSUME NEW j \in (i - 1) .. (m - 1), EndsWord(line, j)
        PROVE  j + 1 \in B
    <3>1. j + 1 \in 1 .. m /\ (j + 1 > i \/ j + 1 = i)
      BY <1>0
    <3>2. line[j + 1] = Blank
      BY <2>2 DEF EndsWord
    <3> QED BY <1>1, <3>1, <3>2
  <2>3. CASE B = {}
    <3>1. \A j \in (i - 1) .. (m - 1) : ~EndsWord(line, j)
      BY <2>2, <2>3
    <3>2. m \in i .. m
      BY <1>0
    <3>3. WordAt(line, i) = SubSeq(line, i, m)
      BY <2>3 DEF WordAt, m
    <3> QED BY <1>4, <1>5, <1>8, <3>1, <3>2, <3>3
  <2>4. CASE B # {}
    <3> DEFINE b == Min(B)
    <3>1. B \subseteq Nat
      BY <2>1
    <3>2. WordAt(line, i) = SubSeq(line, i, b - 1)
      BY <2>4 DEF WordAt
    <3>3. ASSUME NEW j \in 1 .. m, j > i, line[j] = Blank
          PROVE  j \in B
      BY <1>1, <3>3
    <3> HIDE DEF B
    <3>4. b \in B /\ \A y \in B : b <= y
      <4>1. PICK x \in B : \A y \in B : ~(y < x)
        BY <2>4, <3>1, LeastElement
      <4>2. \A y \in B : x <= y
        BY <3>1, <4>1
      <4> QED BY <4>2 DEF Min
    <3> HIDE DEF b
    <3>5. b \in Nat /\ b \in i .. m /\ b > i /\ line[b] = Blank
      BY <2>1, <3>4
    <3>6. /\ b - 1 \in i .. m /\ b - 1 \in 1 .. m /\ b - 1 \in 0 .. m /\ (b - 1) + 1 = b /\ b - 1 > 0
      BY <1>0, <3>5
    <3>7. line[b - 1] # Blank
      <4> SUFFICES ASSUME line[b - 1] = Blank PROVE FALSE
        OBVIOUS
      <4>0. b - 1 # i
        BY <1>1
      <4>1. b - 1 > i
        BY <1>0, <3>5, <4>0
      <4>2. b - 1 \in B
        BY <3>3, <3>6, <4>1
      <4> QED BY <3>4, <3>5, <4>2
    <3>8. b - 1 < k
      <4>1. CASE k = m
        BY <1>0, <3>5, <4>1
      <4>2. CASE Len(p.argv) = MAX_ARGS - 1
        <5>1. k \in WordStarts(line) /\ i # k
          BY <1>6, <1>8, <4>2
        <5>2. k \in Nat /\ k > i /\ k # 1 /\ k - 1 \in 1 .. m /\ k - 1 >= i
          BY <1>0, <5>1
        <5>3. line[k - 1] = Blank
          BY <5>1, <5>2 DEF WordStarts
        <5>4. k - 1 # i
          BY <1>1, <5>3
        <5>5. k - 1 > i
          BY <1>0, <5>2, <5>4
        <5>6. b <= k - 1
          BY <3>3, <3>4, <5>2, <5>3, <5>5
        <5> QED BY <3>5, <5>2, <5>6
      <4> QED BY <4>1, <4>2 DEF m
    <3>9. p.buf[b - 1] = "nul"
      <4>1. EndsWord(line, b - 1)
        BY <3>5, <3>7, <3>6 DEF EndsWord
      <4> QED BY <1>2, <1>3, <3>8, <3>6, <4>1
    <3>10. ASSUME NEW j \in (i - 1) .. ((b - 1) - 1)
          PROVE  ~EndsWord(line, j)
      <4> SUFFICES ASSUME EndsWord(line, j) PROVE FALSE
        OBVIOUS
      <4>1. j \in (i - 1) .. (m - 1) /\ j + 1 < b /\ j + 1 \in Int
        BY <1>0, <3>5
      <4>2. j + 1 \in B
        BY <2>2, <4>1
      <4> QED BY <3>4, <3>5, <4>1, <4>2
    <3> QED BY <1>5, <1>8, <3>2, <3>9, <3>10, <3>6
  <2> QED BY <2>3, <2>4
<1> QED BY <1>7, <1>8

\* Entering a line gives the command the words of the line.
LEMMA ArgumentsFound ==
  ASSUME NEW s, ShellInv(s), s.cmd_pos > 0
  PROVE  AreArguments(ArgvOf(s), Text(s))
<1> DEFINE buf == s.cmd_buffer
           line == Text(s)
           m == s.cmd_pos
           p == parse_arguments(buf)
           l == Len(p.argv)
           argv == ArgvOf(s)
<1>1. buf \in Buffers /\ m \in Indices /\ m \in Nat
  BY Sizes DEF ShellInv, Shells, Indices
<1>2. EndsAt(buf, 0, m)
  BY <1>1 DEF ShellInv, StringInv
<1>3. line \in Seq(Letters) /\ Len(line) = m
  BY LineString
<1>4. HoldsLine(buf, line)
  <2>1. \A i \in 0 .. (m - 1) : i + 1 \in 1 .. m /\ (i + 1) - 1 = i
    BY <1>1
  <2>2. \A i \in 0 .. (m - 1) : buf[i] = line[i + 1]
    BY <2>1 DEF Text
  <2> HIDE DEF line
  <2> QED BY <1>1, <1>2, <1>3, <2>2 DEF HoldsLine, EndsAt
<1>5. p.buf \in Buffers /\ p.argv \in Seq(0 .. (m - 1))
  BY <1>1, <1>2, Parsed
<1> HIDE DEF line
<1>6. PICK k \in 0 .. m : Cut(buf, line, k, p) /\ (k = m \/ l = MAX_ARGS - 1)
  BY <1>1, <1>2, <1>3, <1>4, ParsedCut
<1>7. /\ l = WordCount(line, k) /\ l <= MAX_ARGS - 1
      /\ \A i \in WordStarts(line) : i <= k => p.argv[WordCount(line, i)] = i - 1
  BY <1>6 DEF Cut
<1>8. l \in Nat /\ DOMAIN p.argv = 1 .. l
  <2> DEFINE D == 0 .. (m - 1)
             a == p.argv
  <2>1. a \in Seq(D)
    BY <1>5
  <2> HIDE DEF D, a
  <2>2. Len(a) \in Nat /\ DOMAIN a = 1 .. Len(a)
    BY <2>1, LenProperties
  <2> QED BY <2>2 DEF a
<1>9. argv = [n \in 1 .. l |-> StringAt(p.buf, p.argv[n])]
  BY <1>8 DEF ArgvOf
<1>10. \A n \in 0 .. m : WordCount(line, n) \in Nat
  BY <1>3, WordsCounted
<1>11. l = Least(WordCount(line, m), MAX_ARGS - 1)
  <2>1. WordCount(line, k) <= WordCount(line, m) /\ m \in 0 .. m
    BY <1>1, <1>3, WordsCounted
  <2> QED BY <1>6, <1>7, <1>8, <1>10, <2>1, Sizes DEF Least
<1>12. ASSUME NEW i \in WordStarts(line), WordCount(line, i) <= l
       PROVE  argv[WordCount(line, i)] =
                IF WordCount(line, i) = MAX_ARGS - 1 THEN SubSeq(line, i, m) ELSE WordAt(line, i)
  <2>1. /\ i \in 1 .. m /\ WordCount(line, i) \in Nat /\ WordCount(line, i) >= 1
        /\ k < i => WordCount(line, k) < WordCount(line, i)
    BY <1>3, WordsNumbered
  <2>2. i <= k
    BY <1>7, <1>8, <1>12, <2>1
  <2>3. WordCount(line, i) \in 1 .. l
    BY <1>8, <1>12, <2>1
  <2>4. argv[WordCount(line, i)] = StringAt(p.buf, i - 1)
    BY <1>7, <1>9, <2>2, <2>3
  <2> QED BY <1>1, <1>3, <1>4, <1>5, <1>6, <2>2, <2>4, ArgumentRead
<1>13. Len(argv) = l
  BY <1>8, <1>9
<1> HIDE DEF argv, p, l
<1> QED BY <1>3, <1>11, <1>12, <1>13 DEF AreArguments, argv, line

-----------------------------------------------------------------------------
(***************************************************************************)
(* The invariant and the refinement                                        *)
(***************************************************************************)

\* The invariant holds after shell_init.
LEMMA InitIInv ==
  ASSUME Init
  PROVE  IInv /\ Editor!Init
<1> DEFINE buf == [i \in 0 .. (MAX_CMD_LEN - 1) |-> "nul"]
<1>1. /\ 0 \in Indices /\ <<>> \in Short /\ <<>> \in Seq(Short) /\ <<>> \in Seq(Lines)
      /\ Len(<<>>) = 0 /\ -1 \in Int /\ 0 <= MAX_CMD_HISTORY
  BY Sizes DEF Indices, Short
<1>2. buf \in Buffers /\ \A i \in Indices : buf[i] = "nul"
  BY DEF Buffers, Indices
<1>3. sh = [cmd_buffer |-> buf, cmd_pos |-> 0, cursor_pos |-> 0, cmd_history |-> <<>>,
            history_current |-> -1, saved_cmd |-> <<>>, last |-> <<>>, argv |-> <<>>]
  BY DEF Init
<1> HIDE DEF buf
<1>4. /\ sh.cmd_buffer = buf /\ sh.cmd_pos = 0 /\ sh.cursor_pos = 0 /\ sh.cmd_history = <<>>
      /\ sh.history_current = -1 /\ sh.saved_cmd = <<>> /\ sh.last = <<>>
  BY <1>3
<1>5. sh \in Shells
  BY <1>1, <1>2, <1>3 DEF Shells
<1>6. EndsAt(buf, 0, 0) /\ ~(0 > 0) /\ \A i \in 0 .. (0 - 1) : FALSE
  BY <1>1, <1>2 DEF EndsAt
<1>7. StringInv(sh)
  BY <1>1, <1>4, <1>6 DEF StringInv
<1>8. IInv
  <2>1. 0 <= 0 /\ -1 \in -1 .. (0 - 1)
    OBVIOUS
  <2> QED BY <1>1, <1>4, <1>5, <1>7, <2>1 DEF IInv, ShellInv
<1>9. LineText = <<>>
  <2>1. LineText = Text(sh)
    BY DEF LineText, Text
  <2> QED BY <1>4, <1>8, <2>1, LineString DEF IInv
<1> QED BY <1>4, <1>8, <1>9 DEF Editor!Init

\* A step of the shell keeps the invariant and is a step of the editor.
Good == IInv' /\ (Editor!Next \/ UNCHANGED Editor!vars)

\* The refinement mapping of text.
LEMMA TextIs == LineText = Text(sh) /\ LineText' = Text(sh')
BY DEF LineText, Text

\* A printable character.
LEMMA TypeStep ==
  ASSUME IInv, NEW c \in Letters, Type(c)
  PROVE  Good
<1>1. ShellInv(sh) /\ HasRoom(sh) /\ sh' = Inserted(sh, c)
  BY DEF IInv, Type
<1>2. /\ ShellInv(sh') /\ SameLog(sh, sh')
      /\ Text(sh') = InsertAt(Text(sh), sh.cursor_pos + 1, c)
      /\ sh'.cursor_pos = sh.cursor_pos + 1
  BY <1>1, InsertedKeeps
<1>3. Len(Text(sh)) < MAX_CMD_LEN - 1
  BY <1>1, LineString DEF HasRoom
<1>4. Editor!Insert(c)
  BY <1>2, <1>3, TextIs DEF Editor!Insert, Editor!InsertAt, InsertAt, SameLog
<1> QED BY <1>2, <1>4 DEF Good, IInv, Editor!Next

\* Backspace.
LEMMA BackspaceStep ==
  ASSUME IInv, Backspaced
  PROVE  Good
<1> DEFINE p == sh.cursor_pos - 1
<1>1. ShellInv(sh) /\ sh.cursor_pos > 0 /\ sh' = Without(sh, p)
  BY DEF IInv, Backspaced
<1>2. p \in Nat /\ p < sh.cmd_pos /\ p + 1 = sh.cursor_pos
  BY <1>1, Sizes DEF ShellInv, Shells, Indices
<1> HIDE DEF p
<1>3. /\ ShellInv(sh') /\ SameLog(sh, sh') /\ Text(sh') = RemoveAt(Text(sh), p + 1)
      /\ sh'.cursor_pos = p
  BY <1>1, <1>2, WithoutKeeps
<1>4. Editor!EraseBefore
  <2>1. sh'.cursor_pos = sh.cursor_pos - 1
    BY <1>3 DEF p
  <2> QED BY <1>1, <1>2, <1>3, <2>1, TextIs DEF Editor!EraseBefore, Editor!RemoveAt, RemoveAt, SameLog
<1> QED BY <1>3, <1>4 DEF Good, IInv, Editor!Next

\* Delete.
LEMMA DeleteStep ==
  ASSUME IInv, Delete
  PROVE  Good
<1> DEFINE p == sh.cursor_pos
<1>1. ShellInv(sh) /\ p < sh.cmd_pos /\ sh' = Without(sh, p)
  BY DEF IInv, Delete
<1>2. p \in Nat
  BY <1>1, Sizes DEF ShellInv, Shells, Indices
<1>3. /\ ShellInv(sh') /\ SameLog(sh, sh') /\ Text(sh') = RemoveAt(Text(sh), p + 1)
      /\ sh'.cursor_pos = p
  BY <1>1, <1>2, WithoutKeeps
<1>4. Len(Text(sh)) = sh.cmd_pos
  BY <1>1, LineString
<1>5. Editor!EraseAt
  BY <1>1, <1>3, <1>4, TextIs DEF Editor!EraseAt, Editor!RemoveAt, RemoveAt, SameLog
<1> QED BY <1>3, <1>5 DEF Good, IInv, Editor!Next

\* The keys that only move the cursor.
LEMMA MoveStep ==
  ASSUME IInv, LeftKey \/ RightKey \/ Home \/ End
  PROVE  Good
<1>1. /\ ShellInv(sh) /\ sh.cursor_pos \in Nat /\ sh.cmd_pos \in Nat
      /\ sh.cursor_pos <= sh.cmd_pos
  BY Sizes DEF IInv, ShellInv, Shells, Indices
<1>2. PICK p \in 0 .. sh.cmd_pos : sh' = [sh EXCEPT !.cursor_pos = p]
  <2>1. CASE LeftKey
    <3>1. sh.cursor_pos - 1 \in 0 .. sh.cmd_pos
      BY <1>1, <2>1 DEF LeftKey
    <3> QED BY <2>1, <3>1 DEF LeftKey
  <2>2. CASE RightKey
    <3>1. sh.cursor_pos + 1 \in 0 .. sh.cmd_pos
      BY <1>1, <2>2 DEF RightKey
    <3> QED BY <2>2, <3>1 DEF RightKey
  <2>3. CASE Home
    <3>1. 0 \in 0 .. sh.cmd_pos
      BY <1>1
    <3> QED BY <2>3, <3>1 DEF Home
  <2>4. CASE End
    <3>1. sh.cmd_pos \in 0 .. sh.cmd_pos
      BY <1>1
    <3> QED BY <2>4, <3>1 DEF End
  <2> QED BY <2>1, <2>2, <2>3, <2>4
<1>3. /\ ShellInv(sh') /\ SameLog(sh, sh') /\ Text(sh') = Text(sh) /\ sh'.cursor_pos = p
  BY <1>1, <1>2, CursorSet
<1>4. Len(Text(sh)) = sh.cmd_pos
  BY <1>1, LineString
<1>5. Editor!Move
  BY <1>3, <1>4, TextIs DEF Editor!Move, SameLog
<1> QED BY <1>3, <1>5 DEF Good, IInv, Editor!Next

\* The line becomes cmd: an entry of the history, or the line that was saved.
LEMMA RecallStep ==
  ASSUME IInv, sh.cmd_history # <<>>,
         NEW index \in -1 .. (Len(sh.cmd_history) - 1), NEW saved \in Short,
         NEW s, s = [sh EXCEPT !.history_current = index, !.saved_cmd = saved],
         NEW cmd \in Short, ShowCommand(s, cmd),
         \/ cmd \in ToSet(sh.cmd_history) /\ saved = sh.saved_cmd
         \/ cmd \in ToSet(sh.cmd_history) /\ saved = StringAt(sh.cmd_buffer, 0)
         \/ cmd = sh.saved_cmd /\ saved = sh.saved_cmd
  PROVE  Good
<1>1. ShellInv(sh) /\ sh \in Shells
  BY DEF IInv, ShellInv
<1>2. ShellInv(s)
  BY <1>1, HistoryMoved
<1>3. s.cmd_history = sh.cmd_history /\ s.saved_cmd = saved /\ s.last = sh.last
  BY <1>1 DEF Shells
<1>4. sh' = [s EXCEPT !.cmd_buffer = str_copy(@, cmd), !.cmd_pos = Len(cmd),
                      !.cursor_pos = Len(cmd)]
  BY DEF ShowCommand
<1>5. ShellInv(sh') /\ SameLog(s, sh') /\ Text(sh') = cmd /\ sh'.cursor_pos = Len(cmd)
  BY <1>2, <1>4, CommandShown
<1>6. /\ sh'.cmd_history = sh.cmd_history /\ sh'.saved_cmd = saved /\ sh'.last = sh.last
      /\ Text(sh') = cmd /\ sh'.cursor_pos = Len(Text(sh'))
  BY <1>3, <1>5 DEF SameLog
<1>7. \/ saved = sh.saved_cmd
      \/ saved = Text(sh)
      \/ Text(sh) = <<>> /\ saved \in Prefixes(sh.last)
      \/ saved # StringAt(sh.cmd_buffer, 0)
  <2>1. sh.cmd_pos = 0 \/ sh.cmd_pos > 0
    BY <1>1, Sizes DEF Shells, Indices
  <2> QED BY <1>1, <2>1, LineString
<1>8. Editor!ToSet(sh.cmd_history) = ToSet(sh.cmd_history)
  BY DEF ToSet, Editor!ToSet
<1>9. Editor!Prefixes(sh.last) = Prefixes(sh.last)
  BY DEF Prefixes, Editor!Prefixes
<1>10. Editor!Recall
  BY <1>6, <1>7, <1>8, <1>9, TextIs DEF Editor!Recall
<1> QED BY <1>5, <1>10 DEF Good, IInv, Editor!Next

\* An entry of the history.
LEMMA HistoryEntry ==
  ASSUME IInv, NEW index \in 0 .. (Len(sh.cmd_history) - 1)
  PROVE  sh.cmd_history[index + 1] \in Short /\ sh.cmd_history[index + 1] \in ToSet(sh.cmd_history)
<1> DEFINE h == sh.cmd_history
<1>1. h \in Seq(Short)
  BY DEF IInv, ShellInv, Shells
<1> HIDE DEF h
<1>2. Len(h) \in Nat /\ DOMAIN h = 1 .. Len(h) /\ \A n \in 1 .. Len(h) : h[n] \in Short
  BY <1>1, LenProperties, ElementOfSeq
<1>3. index + 1 \in 1 .. Len(h)
  BY <1>2 DEF h
<1>4. h[index + 1] \in ToSet(h)
  BY <1>2, <1>3 DEF ToSet
<1> QED BY <1>2, <1>3, <1>4 DEF h

\* Up.
LEMMA UpStep ==
  ASSUME IInv, UpKey
  PROVE  Good
<1> DEFINE index == Least(sh.history_current + 1, Len(sh.cmd_history) - 1)
           saved == IF sh.history_current = -1 THEN StringAt(sh.cmd_buffer, 0) ELSE sh.saved_cmd
           cmd == sh.cmd_history[index + 1]
           s == [sh EXCEPT !.history_current = index, !.saved_cmd = saved]
<1>1. /\ ShellInv(sh) /\ sh.cmd_history # <<>> /\ sh.cmd_history \in Seq(Short)
      /\ sh.saved_cmd \in Short
      /\ sh.history_current \in -1 .. (Len(sh.cmd_history) - 1)
  BY DEF IInv, ShellInv, Shells, UpKey
<1>2. ShowCommand(s, cmd)
  BY DEF UpKey
<1>3. Len(sh.cmd_history) \in Nat /\ Len(sh.cmd_history) > 0
  BY <1>1, EmptySeq, LenProperties
<1>4. index \in 0 .. (Len(sh.cmd_history) - 1)
  BY <1>1, <1>3 DEF Least
<1>5. saved \in Short
  BY <1>1, LineString
<1>6. saved = sh.saved_cmd \/ saved = StringAt(sh.cmd_buffer, 0)
  OBVIOUS
<1> HIDE DEF index, saved
<1>7. cmd \in Short /\ cmd \in ToSet(sh.cmd_history)
  BY <1>4, HistoryEntry
<1>8. index \in -1 .. (Len(sh.cmd_history) - 1)
  BY <1>3, <1>4
<1> HIDE DEF cmd
<1> QED BY <1>1, <1>2, <1>5, <1>6, <1>7, <1>8, RecallStep

\* Down.
LEMMA DownStep ==
  ASSUME IInv, DownKey
  PROVE  Good
<1> DEFINE index == IF sh.history_current > -1 THEN sh.history_current - 1 ELSE -1
           saved == sh.saved_cmd
           cmd == IF index = -1 THEN sh.saved_cmd ELSE sh.cmd_history[index + 1]
           s == [sh EXCEPT !.history_current = index, !.saved_cmd = saved]
           r == [sh EXCEPT !.history_current = index]
<1>1. /\ ShellInv(sh) /\ sh.cmd_history # <<>> /\ sh.cmd_history \in Seq(Short)
      /\ sh \in Shells /\ sh.saved_cmd \in Short
      /\ sh.history_current \in -1 .. (Len(sh.cmd_history) - 1)
  BY DEF IInv, ShellInv, Shells, DownKey
<1>2. ShowCommand(r, cmd)
  BY DEF DownKey
<1>3. Len(sh.cmd_history) \in Nat
  BY <1>1, LenProperties
<1>4. index \in -1 .. (Len(sh.cmd_history) - 1) /\ (index # -1 => index \in 0 .. (Len(sh.cmd_history) - 1))
  BY <1>1, <1>3
<1> HIDE DEF index
<1>5. \/ cmd \in Short /\ cmd \in ToSet(sh.cmd_history)
      \/ cmd \in Short /\ cmd = sh.saved_cmd
  <2>1. CASE index = -1
    BY <1>1, <2>1
  <2>2. CASE index # -1
    BY <1>4, <2>2, HistoryEntry
  <2> QED BY <2>1, <2>2
<1>6. r = s
  BY <1>1 DEF Shells
<1>7. ShowCommand(s, cmd)
  BY <1>2, <1>6
<1> HIDE DEF cmd
<1> QED BY <1>1, <1>4, <1>5, <1>7, RecallStep

\* Enter on a line with text.
LEMMA ExecuteStep ==
  ASSUME IInv, Execute
  PROVE  Good
<1>1. ShellInv(sh) /\ sh.cmd_pos > 0 /\ sh' = Executed(sh)
  BY DEF IInv, Execute, Executed, ArgvOf
<1>2. /\ ShellInv(sh') /\ sh'.cmd_pos = 0 /\ sh'.cursor_pos = 0
      /\ sh'.cmd_history = history_add(sh.cmd_history, Text(sh)) /\ sh'.last = Text(sh)
      /\ sh'.saved_cmd = sh.saved_cmd
  BY <1>1, ExecutedKeeps
<1> DEFINE h == sh.cmd_history
           cmd == Text(sh)
<1>3. h \in Seq(Short) /\ cmd \in Short /\ Len(cmd) = sh.cmd_pos
  BY <1>1, LineString DEF ShellInv, Shells
<1>4. Text(sh') = <<>> /\ Text(sh) # <<>>
  BY <1>1, <1>2, <1>3, LineString
<1>5. history_add(h, cmd) = Editor!Logged(cmd)
  <2>1. Len(h) \in Nat /\ Len(Append(h, cmd)) = Len(h) + 1 /\ MAX_CMD_HISTORY \in Nat \ {0}
    BY <1>3, AppendProperties, Sizes
  <2>2. Len(Append(h, cmd)) > MAX_CMD_HISTORY <=> Len(h) >= MAX_CMD_HISTORY
    BY <2>1
  <2>3. Len(h) >= MAX_CMD_HISTORY => Tail(Append(h, cmd)) = Append(Tail(h), cmd)
    BY <1>3, <2>1, HeadTailAppend
  <2> HIDE DEF cmd
  <2> QED BY <2>2, <2>3 DEF history_add, Editor!Logged, Last, Editor!Last
<1>6. Editor!Submit
  BY <1>2, <1>4, <1>5, TextIs DEF Editor!Submit
<1> QED BY <1>2, <1>6 DEF Good, IInv, Editor!Next

\* Every key.
LEMMA NextStep ==
  ASSUME IInv, [Next]_vars
  PROVE  Good
<1>1. CASE UNCHANGED sh
  <2>1. UNCHANGED Editor!vars
    BY <1>1 DEF Editor!vars, LineText
  <2> QED BY <1>1, <2>1 DEF Good, IInv
<1>2. CASE EditKey
  BY <1>2, TypeStep, BackspaceStep, DeleteStep, MoveStep DEF EditKey
<1>3. CASE UpKey
  BY <1>3, UpStep
<1>4. CASE DownKey
  BY <1>4, DownStep
<1>5. CASE Execute
  BY <1>5, ExecuteStep
<1>6. CASE EmptyEnter
  BY <1>1, <1>6 DEF EmptyEnter
<1>7. ASSUME NEW t \in Ttys, FunctionKey(t)
      PROVE  Good
  BY <1>1, <1>7 DEF FunctionKey
<1>8. CASE UNCHANGED vars
  BY <1>1, <1>8 DEF vars
<1> QED BY <1>2, <1>3, <1>4, <1>5, <1>6, <1>7, <1>8 DEF Next

\* The invariant holds at every key.
THEOREM SpecIInv == Spec => []IInv
<1>1. Init => IInv
  BY InitIInv
<1>2. IInv /\ [Next]_vars => IInv'
  BY NextStep DEF Good
<1> QED BY <1>1, <1>2, PTL DEF Spec

\* The cursor stays inside the line of shell.c, the line with its NUL inside
\* cmd_buffer, history_current inside the history, and every string that is
\* kept is one that was typed.
THEOREM ShellTypeOK == Spec => []TypeOK
<1>1. IInv => TypeOK
  <2> SUFFICES ASSUME IInv PROVE TypeOK
    OBVIOUS
  <2>1. /\ sh \in Shells /\ sh.cursor_pos <= sh.cmd_pos
        /\ Len(sh.cmd_history) <= MAX_CMD_HISTORY
        /\ sh.history_current \in -1 .. (Len(sh.cmd_history) - 1)
    BY DEF IInv, ShellInv
  <2>2. /\ sh.cmd_buffer \in Buffers /\ sh.cmd_pos \in Indices /\ sh.cursor_pos \in Indices
        /\ sh.cmd_history \in Seq(Short) /\ sh.saved_cmd \in Short /\ sh.last \in Short
        /\ sh.argv \in Seq(Lines)
    BY <2>1 DEF Shells
  <2>3. sh.cursor_pos \in 0 .. sh.cmd_pos
    BY <2>1, <2>2, Sizes DEF Indices
  <2>4. Short \subseteq Lines
    BY DEF Short, Lines
  <2>5. sh.cmd_history \in Seq(Lines)
    <3> DEFINE h == sh.cmd_history
    <3> HIDE DEF h
    <3>1. h \in Seq(Short)
      BY <2>2 DEF h
    <3>2. Len(h) \in Nat /\ h \in [1 .. Len(h) -> Short]
      BY <3>1, LenProperties
    <3>3. h \in [1 .. Len(h) -> Lines]
      BY <2>4, <3>2
    <3>4. h \in Seq(Lines)
      BY <3>2, <3>3, SequenceIs
    <3> QED BY <3>4 DEF h
  <2> QED BY <2>1, <2>2, <2>3, <2>4, <2>5 DEF TypeOK, Buffers, Indices
<1> QED BY <1>1, SpecIInv, PTL

\* The shell implements the line editor: shifting, terminating and copying
\* the C strings of shell.c edits exactly the text at the cursor, Enter
\* submits it, Up and Down recall lines that were submitted.
THEOREM ShellImplementsEditor == Spec => EditorSpec
<1>1. Init => Editor!Init
  BY InitIInv
<1>2. IInv /\ [Next]_vars => [Editor!Next]_(Editor!vars)
  BY NextStep DEF Good
<1> QED BY <1>1, <1>2, SpecIInv, PTL DEF Spec, EditorSpec, Editor!Spec

\* Only Enter changes the line that was entered last and its arguments.
LEMMA ArgumentsKept ==
  ASSUME IInv, [Next]_vars, ~Execute
  PROVE  sh'.last = sh.last /\ sh'.argv = sh.argv
<1>1. sh \in Shells
  BY DEF IInv, ShellInv
<1>2. CASE EditKey
  BY <1>1, <1>2
  DEF EditKey, Type, Inserted, Backspaced, Delete, Without, LeftKey, RightKey, Home, End, Shells
<1>3. CASE UpKey
  BY <1>1, <1>3 DEF UpKey, ShowCommand, Shells
<1>4. CASE DownKey
  BY <1>1, <1>4 DEF DownKey, ShowCommand, Shells
<1>5. CASE UNCHANGED sh
  BY <1>5
<1> QED BY <1>2, <1>3, <1>4, <1>5 DEF Next, EmptyEnter, FunctionKey, vars

\* The arguments of a command are the words of the line that was entered, in
\* their order: parse_arguments, which cuts cmd_buffer up in place, loses
\* none, joins none and ends each where it ended, and the last argument that
\* argv has room for is the rest of the line.
THEOREM ShellArgvMatches == Spec => []ArgvMatches
<1>1. Init => ArgvMatches
  <2> SUFFICES ASSUME Init PROVE ArgvMatches
    OBVIOUS
  <2> DEFINE none == <<>>
  <2>1. sh.last = none /\ sh.argv = none
    BY DEF Init
  <2>2. none \in Seq(Letters) /\ Len(none) = 0 /\ WordStarts(none) = {}
    BY DEF WordStarts
  <2> HIDE DEF none
  <2>3. WordCount(none, 0) = 0
    BY <2>2, WordsCounted
  <2>4. Least(0, MAX_ARGS - 1) = 0
    BY Sizes DEF Least
  <2>5. AreArguments(none, none)
    BY <2>2, <2>3, <2>4 DEF AreArguments
  <2> QED BY <2>1, <2>5 DEF ArgvMatches
<1>2. IInv /\ ArgvMatches /\ [Next]_vars => ArgvMatches'
  <2> SUFFICES ASSUME IInv, ArgvMatches, [Next]_vars
               PROVE  ArgvMatches'
    OBVIOUS
  <2>1. CASE Execute
    <3>1. ShellInv(sh) /\ sh.cmd_pos > 0 /\ sh' = Executed(sh)
      BY <2>1 DEF IInv, Execute, Executed, ArgvOf
    <3>2. sh'.last = Text(sh) /\ sh'.argv = ArgvOf(sh)
      <4>1. sh \in Shells
        BY <3>1 DEF ShellInv
      <4>2. sh'.argv = ArgvOf(sh)
        BY <3>1, <4>1 DEF Executed, Shells
      <4> QED BY <3>1, <4>2, ExecutedKeeps
    <3>3. AreArguments(ArgvOf(sh), Text(sh))
      BY <3>1, ArgumentsFound
    <3> QED BY <3>2, <3>3 DEF ArgvMatches
  <2>2. CASE ~Execute
    <3>1. sh'.last = sh.last /\ sh'.argv = sh.argv
      BY <2>2, ArgumentsKept
    <3> QED BY <3>1 DEF ArgvMatches
  <2> QED BY <2>1, <2>2
<1> QED BY <1>1, <1>2, SpecIInv, PTL DEF Spec

-----------------------------------------------------------------------------
(***************************************************************************)
(* Positions on the screen                                                 *)
(***************************************************************************)
Places == 0 .. (CellCount - 1)

\* The screen's constants, as the provers need them.
LEMMA ScreenSizes ==
  /\ VGA_WIDTH \in Nat \ {0} /\ VGA_HEIGHT \in Nat /\ VGA_HEIGHT >= 2
  /\ TTY_COUNT \in Nat \ {0} /\ CellCount \in Nat
  /\ Letters \subseteq Graphic /\ Blank \in Graphic /\ "t" \in Graphic /\ ">" \in Graphic
  /\ \A c \in Graphic : c # "LF" /\ c # "CR" /\ c # "TAB" /\ c # "nul"
<1>1. VGA_WIDTH \in Nat \ {0} /\ VGA_HEIGHT \in Nat /\ VGA_HEIGHT >= 2 /\ TTY_COUNT \in Nat \ {0}
  BY ConsoleAssumption
<1>2. CellCount \in Nat
  BY <1>1 DEF CellCount
<1>3. Blank \in Graphic /\ \A c \in Graphic : c # "LF" /\ c # "CR" /\ c # "TAB" /\ c # "nul"
  BY ConsoleAssumption, Zenon
<1>4. Letters \subseteq Graphic /\ "t" \in Graphic /\ ">" \in Graphic
  BY ShellAssumption, Zenon
<1> QED BY <1>1, <1>2, <1>3, <1>4

\* A row and a column are a position.
LEMMA PlaceIs ==
  ASSUME NEW r \in Rows, NEW c \in Cols
  PROVE  /\ r * VGA_WIDTH + c \in Places
         /\ (r * VGA_WIDTH + c) \div VGA_WIDTH = r /\ (r * VGA_WIDTH + c) % VGA_WIDTH = c
<1> DEFINE w == VGA_WIDTH
           h == VGA_HEIGHT
<1>1. w \in Nat \ {0} /\ h \in Nat /\ r \in 0 .. (h - 1) /\ c \in 0 .. (w - 1) /\ CellCount = w * h
  BY ScreenSizes DEF Rows, Cols, CellCount
<1> HIDE DEF w, h
<1>2. r * w + c < w * h /\ r * w + c \in Nat /\ w * h \in Nat
  BY <1>1
<1>3. (r * w + c) \div w = r /\ (r * w + c) % w = c
  BY <1>1
<1>4. r * w + c \in 0 .. (w * h - 1)
  <2> DEFINE p == r * w + c
             n == w * h
  <2>1. p < n /\ p \in Nat /\ n \in Nat
    BY <1>2
  <2> HIDE DEF p, n
  <2>2. p \in 0 .. (n - 1)
    BY <2>1
  <2> QED BY <2>2 DEF p, n
<1> QED BY <1>1, <1>3, <1>4 DEF Places, w

\* And a position is a row and a column.
LEMMA PlaceFound ==
  ASSUME NEW p \in Places
  PROVE  \E r \in Rows, c \in Cols :
           p = r * VGA_WIDTH + c /\ p \div VGA_WIDTH = r /\ p % VGA_WIDTH = c
<1> DEFINE w == VGA_WIDTH
           h == VGA_HEIGHT
           S == {n \in Nat : \E r \in Nat, c \in 0 .. (w - 1) : n = r * w + c}
<1>1. w \in Nat \ {0} /\ h \in Nat /\ CellCount = w * h /\ p \in Nat /\ p < w * h
  BY ScreenSizes DEF CellCount, Places
<1> HIDE DEF w, h
<1>2. 0 \in S
  <2>1. 0 = 0 * w + 0 /\ 0 \in 0 .. (w - 1)
    BY <1>1
  <2> QED BY <2>1
<1>3. ASSUME NEW n \in Nat, n \in S
      PROVE  n + 1 \in S
  <2>1. PICK r \in Nat, c \in 0 .. (w - 1) : n = r * w + c
    BY <1>3
  <2>2. CASE c + 1 \in 0 .. (w - 1)
    <3>1. n + 1 = r * w + (c + 1)
      BY <1>1, <2>1
    <3> QED BY <2>2, <3>1
  <2>3. CASE c + 1 \notin 0 .. (w - 1)
    <3>1. c + 1 = w
      BY <1>1, <2>3
    <3>2. n + 1 = (r + 1) * w + 0
      BY <1>1, <2>1, <3>1
    <3>3. r + 1 \in Nat /\ 0 \in 0 .. (w - 1)
      BY <1>1
    <3> QED BY <3>2, <3>3
  <2> QED BY <2>2, <2>3
<1> HIDE DEF S
<1>4. p \in S
  BY <1>1, <1>2, <1>3, SetInduction
<1>5. PICK r \in Nat, c \in 0 .. (w - 1) : p = r * w + c
  BY <1>4 DEF S
<1>6. p \div w = r /\ p % w = c
  BY <1>1, <1>5
<1>7. r < h
  <2> SUFFICES ASSUME ~(r < h) PROVE FALSE
    OBVIOUS
  <2>1. r >= h
    BY <1>1
  <2>2. r * w >= w * h
    BY <1>1, <2>1
  <2> DEFINE a == r * w
             b == w * h
  <2>3. a \in Nat /\ b \in Nat /\ c \in Nat
    BY <1>1
  <2>4. a >= b /\ p = a + c /\ p < b
    BY <1>1, <1>5, <2>2
  <2> HIDE DEF a, b
  <2> QED BY <2>3, <2>4
<1>8. r \in 0 .. (h - 1)
  BY <1>1, <1>7
<1> QED BY <1>5, <1>6, <1>8 DEF Rows, Cols, w, h

-----------------------------------------------------------------------------
(***************************************************************************)
(* The console under the shell                                             *)
(***************************************************************************)
Fields ==
  {"vga", "tty_buf", "tty_row", "tty_col", "tty_cur", "cursor_row", "cursor_col",
   "screen_backup", "simple_history", "history_write_pos", "history_count",
   "is_viewing_history", "history_view_offset", "past"}

Screens == [Rows -> [Cols -> Cells]]

\* The terminals, and no view of the history: no key of the shell opens it.
Quiet(k) ==
  /\ k = [f \in Fields |-> k[f]]
  /\ k.tty_buf \in [Ttys -> Screens]
  /\ k.tty_row \in [Ttys -> Rows]
  /\ k.tty_col \in [Ttys -> 0 .. VGA_WIDTH]
  /\ k.tty_cur \in Ttys
  /\ k.is_viewing_history = FALSE

\* And the cursor of the active one, which may be behind a full row.
AtCursor(k) == Quiet(k) /\ k.cursor_row \in Rows /\ k.cursor_col \in 0 .. VGA_WIDTH

\* j is in order, with the active terminal of k.
SameTtys(k, j) == Quiet(j) /\ j.tty_cur = k.tty_cur

\* j has the text of k.
SameText(k, j) == SameTtys(k, j) /\ j.tty_buf = k.tty_buf

\* j has the text and the cursor of k.
SameFace(k, j) ==
  SameText(k, j) /\ j.cursor_row = k.cursor_row /\ j.cursor_col = k.cursor_col

\* Calls that leave the text and the cursor alone.
LEMMA SavedFace ==
  ASSUME NEW k, Quiet(k), NEW row
  PROVE  SameFace(k, save_line_to_history(k, row)) /\ SameFace(k, backup_current_screen(k))
<1> DEFINE j == save_line_to_history(k, row)
           b == backup_current_screen(k)
<1>1. j = [f \in Fields |-> j[f]] /\ b = [f \in Fields |-> b[f]]
  BY DEF Quiet, save_line_to_history, backup_current_screen
<1>2. /\ j.tty_buf = k.tty_buf /\ j.tty_row = k.tty_row /\ j.tty_col = k.tty_col
      /\ j.tty_cur = k.tty_cur /\ j.is_viewing_history = k.is_viewing_history
      /\ j.cursor_row = k.cursor_row /\ j.cursor_col = k.cursor_col
  BY DEF Quiet, Fields, save_line_to_history
<1>3. /\ b.tty_buf = k.tty_buf /\ b.tty_row = k.tty_row /\ b.tty_col = k.tty_col
      /\ b.tty_cur = k.tty_cur /\ b.is_viewing_history = k.is_viewing_history
      /\ b.cursor_row = k.cursor_row /\ b.cursor_col = k.cursor_col
  BY DEF Quiet, Fields, backup_current_screen
<1> HIDE DEF j, b
<1>4. SameFace(k, j) /\ SameFace(k, b)
  BY <1>1, <1>2, <1>3 DEF Quiet, SameFace, SameText, SameTtys
<1> QED BY <1>4 DEF j, b

\* A screen drawn over the active terminal, with the cursor at a place of it.
DrawnOver(k, s, row, col) == [Drawn(k, s) EXCEPT !.cursor_row = row, !.cursor_col = col]

DrawnAt(k, s, row, col) ==
  [Drawn(k, s) EXCEPT !.cursor_row = row, !.cursor_col = col, !.is_viewing_history = FALSE]

\* It has the screen and the cursor that it is given.
LEMMA DrawnFace ==
  ASSUME NEW k, Quiet(k), NEW s \in Screens, NEW row \in Rows, NEW col \in 0 .. VGA_WIDTH
  PROVE  LET j == DrawnAt(k, s, row, col)
         IN  /\ SameTtys(k, j) /\ AtCursor(j) /\ TBUF(j) = s
             /\ j.cursor_row = row /\ j.cursor_col = col
             /\ j = DrawnOver(k, s, row, col)
<1> DEFINE j == DrawnAt(k, s, row, col)
           x == Drawn(k, s)
           d == [x EXCEPT !.cursor_row = row, !.cursor_col = col]
<1>1. j = [f \in Fields |-> j[f]]
  BY DEF Quiet, Drawn, DrawnAt
<1>2. /\ j.tty_buf = [k.tty_buf EXCEPT ![k.tty_cur] = s]
      /\ j.tty_row = k.tty_row /\ j.tty_col = k.tty_col
      /\ j.tty_cur = k.tty_cur /\ j.is_viewing_history = FALSE
      /\ j.cursor_row = row /\ j.cursor_col = col
  BY DEF Quiet, Fields, Drawn, DrawnAt
<1>3. d = j
  <2>1. x = [f \in Fields |-> x[f]] /\ x.is_viewing_history = FALSE
    BY DEF Quiet, Drawn, Fields
  <2>2. j = [x EXCEPT !.cursor_row = row, !.cursor_col = col, !.is_viewing_history = FALSE]
    BY DEF DrawnAt
  <2> HIDE DEF x, j
  <2>3. \A f \in Fields : d[f] = j[f]
    BY <2>1, <2>2
  <2>4. d = [f \in Fields |-> d[f]]
    BY <2>1
  <2> HIDE DEF d
  <2> QED BY <1>1, <2>3, <2>4
<1> HIDE DEF j
<1>4. j.tty_buf \in [Ttys -> Screens] /\ TBUF(j) = s
  BY <1>2 DEF Quiet, TBUF
<1>5. SameTtys(k, j) /\ AtCursor(j)
  BY <1>1, <1>2, <1>4 DEF Quiet, SameTtys, AtCursor
<1> QED BY <1>2, <1>3, <1>4, <1>5 DEF j, DrawnOver

\* The screens that are drawn.
LEMMA BlankScreens ==
  /\ Screen(Blank) \in Screens
  /\ \A s \in Screens : MovedUp(s) \in Screens
<1>1. Blank \in Cells
  BY ScreenSizes DEF Cells
<1>2. Line(Blank) \in [Cols -> Cells]
  BY <1>1 DEF Line
<1>3. Screen(Blank) \in Screens
  BY <1>2 DEF Screen, Screens
<1>4. ASSUME NEW s \in Screens
      PROVE  MovedUp(s) \in Screens
  <2>1. \A r \in Rows : r # VGA_HEIGHT - 1 => r + 1 \in Rows
    BY ScreenSizes DEF Rows
  <2> QED BY <1>2, <2>1 DEF MovedUp, Screens
<1> QED BY <1>3, <1>4

\* scroll_screen.
LEMMA ScrolledFace ==
  ASSUME NEW k, Quiet(k)
  PROVE  LET j == scroll_screen(k)
         IN  /\ SameTtys(k, j) /\ AtCursor(j) /\ TBUF(j) = MovedUp(TBUF(k))
             /\ j.cursor_row = VGA_HEIGHT - 1 /\ j.cursor_col = 0
<1> DEFINE saved == save_line_to_history(k, 0)
           s == MovedUp(TBUF(k))
           row == VGA_HEIGHT - 1
           d == DrawnAt(saved, s, row, 0)
           j == backup_current_screen(d)
<1>1. SameFace(k, saved) /\ Quiet(saved) /\ saved.tty_cur = k.tty_cur
  BY SavedFace DEF SameFace, SameText, SameTtys
<1>2. s \in Screens
  BY BlankScreens DEF Quiet, TBUF
<1>3. row \in Rows /\ 0 \in 0 .. VGA_WIDTH
  BY ScreenSizes DEF Rows
<1> HIDE DEF saved, s, row
<1>4. /\ SameTtys(saved, d) /\ AtCursor(d) /\ TBUF(d) = s
      /\ d.cursor_row = row /\ d.cursor_col = 0
      /\ d = DrawnOver(saved, s, row, 0)
  BY <1>1, <1>2, <1>3, DrawnFace
<1> HIDE DEF d
<1>5. scroll_screen(k) = j
  BY <1>4, Zenon DEF scroll_screen, DrawnOver, saved, s, row
<1>6. SameFace(d, j)
  BY <1>4, SavedFace DEF AtCursor
<1> HIDE DEF j
<1>7. /\ SameTtys(k, j) /\ AtCursor(j) /\ TBUF(j) = s
      /\ j.cursor_row = row /\ j.cursor_col = 0
  BY <1>1, <1>4, <1>6 DEF AtCursor, SameFace, SameText, SameTtys, TBUF
<1> QED BY <1>5, <1>7 DEF s, row

\* after is the function that SaveAllLines defines by recursion, up to row m.
SavedTo(k, m, after) ==
  after = [n \in 0 .. m |-> IF n = 0 THEN k ELSE save_line_to_history(after[n - 1], n - 1)]

\* There is such a function.
LEMMA SavedToExists ==
  ASSUME NEW k
  PROVE  \A m \in Nat : \E after : SavedTo(k, m, after)
<1> DEFINE S == {m \in Nat : \E after : SavedTo(k, m, after)}
<1>1. 0 \in S
  <2> DEFINE g == [n \in 0 .. 0 |-> k]
  <2>1. \A n \in 0 .. 0 : n = 0
    OBVIOUS
  <2>2. SavedTo(k, 0, g)
    BY <2>1 DEF SavedTo
  <2> QED BY <2>2
<1>2. ASSUME NEW m \in Nat, m \in S
      PROVE  m + 1 \in S
  <2>1. PICK g : SavedTo(k, m, g)
    BY <1>2
  <2> DEFINE Turn(f, n) == IF n = 0 THEN k ELSE save_line_to_history(f[n - 1], n - 1)
             h == [n \in 0 .. (m + 1) |-> Turn(g, n)]
  <2>2. \A n \in 0 .. m : h[n] = g[n]
    <3>1. \A n \in 0 .. m : n \in 0 .. (m + 1)
      OBVIOUS
    <3>2. g = [n \in 0 .. m |-> Turn(g, n)]
      BY <2>1 DEF SavedTo
    <3> HIDE DEF Turn
    <3> QED BY <3>1, <3>2
  <2>3. \A n \in 0 .. (m + 1) : n # 0 => n - 1 \in 0 .. m
    OBVIOUS
  <2>4. \A n \in 0 .. (m + 1) : Turn(h, n) = Turn(g, n)
    <3>1. \A n \in 0 .. (m + 1) : n # 0 => h[n - 1] = g[n - 1]
      BY <2>2, <2>3
    <3> HIDE DEF h
    <3> QED BY <3>1, Zenon
  <2>5. h = [n \in 0 .. (m + 1) |-> Turn(h, n)]
    <3> HIDE DEF Turn
    <3> QED BY <2>4
  <2>6. SavedTo(k, m + 1, h)
    BY <2>5 DEF SavedTo
  <2>7. \E after : SavedTo(k, m + 1, after)
    BY <2>6
  <2> QED BY <2>7
<1> HIDE DEF S
<1>3. Nat \subseteq S
  BY <1>1, <1>2, SetInduction
<1> QED BY <1>3 DEF S

\* The lines of the screen go to the history.
LEMMA AllSavedFace ==
  ASSUME NEW k, Quiet(k)
  PROVE  SameFace(k, SaveAllLines(k))
<1> DEFINE g == CHOOSE after : SavedTo(k, VGA_HEIGHT, after)
<1>1. SavedTo(k, VGA_HEIGHT, g)
  <2>1. \E after : SavedTo(k, VGA_HEIGHT, after)
    BY ScreenSizes, SavedToExists
  <2> QED BY <2>1
<1>2. SaveAllLines(k) = g[VGA_HEIGHT]
  BY DEF SaveAllLines, SavedTo
<1> HIDE DEF g
<1> DEFINE S == {n \in Nat : n <= VGA_HEIGHT => SameFace(k, g[n])}
<1>3. 0 \in S
  <2>1. g[0] = k
    BY <1>1, ScreenSizes DEF SavedTo
  <2> QED BY <2>1 DEF SameFace, SameText, SameTtys
<1>4. ASSUME NEW n \in Nat, n \in S
      PROVE  n + 1 \in S
  <2>1. SUFFICES ASSUME n + 1 <= VGA_HEIGHT
                 PROVE  SameFace(k, g[n + 1])
    OBVIOUS
  <2>2. n <= VGA_HEIGHT /\ n + 1 \in 0 .. VGA_HEIGHT /\ n + 1 # 0 /\ (n + 1) - 1 = n
    BY <2>1, ScreenSizes
  <2>3. SameFace(k, g[n])
    BY <1>4, <2>2
  <2>4. g[n + 1] = save_line_to_history(g[n], n)
    BY <1>1, <2>2 DEF SavedTo
  <2>5. SameFace(g[n], g[n + 1])
    BY <2>3, <2>4, SavedFace DEF SameFace, SameText, SameTtys
  <2> QED BY <2>3, <2>5 DEF SameFace, SameText, SameTtys
<1> HIDE DEF S
<1>5. Nat \subseteq S
  BY <1>3, <1>4, SetInduction
<1>6. VGA_HEIGHT \in S /\ VGA_HEIGHT <= VGA_HEIGHT
  BY <1>5, ScreenSizes
<1> QED BY <1>2, <1>6 DEF S

\* clear_screen.
LEMMA ClearedFace ==
  ASSUME NEW k, Quiet(k)
  PROVE  LET j == clear_screen(k)
         IN  /\ SameTtys(k, j) /\ AtCursor(j) /\ TBUF(j) = Screen(Blank)
             /\ j.cursor_row = 0 /\ j.cursor_col = 0
<1> DEFINE saved == SaveAllLines(k)
           s == Screen(Blank)
           d == DrawnAt(saved, s, 0, 0)
           j == backup_current_screen(d)
<1>1. SameFace(k, saved) /\ Quiet(saved) /\ saved.tty_cur = k.tty_cur
  BY AllSavedFace DEF SameFace, SameText, SameTtys
<1>2. s \in Screens
  BY BlankScreens
<1>3. 0 \in Rows /\ 0 \in 0 .. VGA_WIDTH
  BY ScreenSizes DEF Rows
<1> HIDE DEF saved, s
<1>4. /\ SameTtys(saved, d) /\ AtCursor(d) /\ TBUF(d) = s
      /\ d.cursor_row = 0 /\ d.cursor_col = 0
  BY <1>1, <1>2, <1>3, DrawnFace
<1>5. clear_screen(k) = j
  BY Zenon DEF clear_screen, DrawnAt, saved, s
<1> HIDE DEF d
<1>6. SameFace(d, j)
  BY <1>4, SavedFace DEF AtCursor
<1> HIDE DEF j
<1>7. /\ SameTtys(k, j) /\ AtCursor(j) /\ TBUF(j) = s
      /\ j.cursor_row = 0 /\ j.cursor_col = 0
  BY <1>1, <1>4, <1>6 DEF AtCursor, SameFace, SameText, SameTtys, TBUF
<1> QED BY <1>5, <1>7 DEF s

\* Where the next character goes.
LEMMA CursorPlace ==
  ASSUME NEW k, AtCursor(k)
  PROVE  LET row == k.cursor_row
             col == k.cursor_col
         IN  /\ Position(k) \in 0 .. CellCount
             /\ col < VGA_WIDTH => col \in Cols /\ Position(k) = row * VGA_WIDTH + col
             /\ ~(col < VGA_WIDTH) /\ row < VGA_HEIGHT - 1 =>
                  row + 1 \in Rows /\ Position(k) = (row + 1) * VGA_WIDTH
             /\ ~(col < VGA_WIDTH) /\ ~(row < VGA_HEIGHT - 1) => Position(k) = CellCount
<1> DEFINE w == VGA_WIDTH
           h == VGA_HEIGHT
           row == k.cursor_row
           col == k.cursor_col
<1>1. /\ w \in Nat \ {0} /\ h \in Nat /\ row \in 0 .. (h - 1) /\ col \in 0 .. w
      /\ CellCount = w * h /\ Position(k) = row * w + col /\ CellCount \in Nat
  BY ScreenSizes DEF AtCursor, Rows, CellCount, Position
<1> HIDE DEF w, h, row, col
<1>2. col < w => col \in 0 .. (w - 1)
  BY <1>1
<1>3. ~(col < w) => col = w /\ Position(k) = (row + 1) * w
  BY <1>1
<1>4. row < h - 1 => row + 1 \in 0 .. (h - 1)
  BY <1>1
<1>5. ~(row < h - 1) => (row + 1) * w = w * h
  <2> SUFFICES ASSUME ~(row < h - 1) PROVE (row + 1) * w = w * h
    OBVIOUS
  <2>1. row + 1 = h
    BY <1>1
  <2> QED BY <1>1, <2>1
<1>6. Position(k) \in 0 .. CellCount
  <2>1. row * w + col <= w * h /\ row * w + col \in Nat
    <3>1. (row + 1) * w <= w * h
      BY <1>1
    <3>2. row * w + col <= (row + 1) * w /\ row * w \in Nat
      BY <1>1
    <3> DEFINE a == row * w
               b == (row + 1) * w
               d == w * h
    <3>3. a \in Nat /\ b \in Nat /\ d \in Nat /\ col \in Nat /\ b <= d /\ a + col <= b
      BY <1>1, <3>1, <3>2
    <3> HIDE DEF a, b, d
    <3>4. a + col <= d /\ a + col \in Nat
      BY <3>3
    <3> QED BY <3>4 DEF a, d
  <2> DEFINE p == row * w + col
  <2>2. p <= CellCount /\ p \in Nat
    BY <1>1, <2>1
  <2> HIDE DEF p
  <2>3. p \in 0 .. CellCount
    BY <1>1, <2>2
  <2> QED BY <1>1, <2>3 DEF p
<1> QED BY <1>1, <1>2, <1>3, <1>4, <1>5, <1>6 DEF Rows, Cols, w, h, row, col

\* A screen with one cell changed.
WithCell(s, r, c, ch) == [s EXCEPT ![r][c] = ch]

\* Its cells, by their positions.
LEMMA CellStored ==
  ASSUME NEW s \in Screens, NEW r \in Rows, NEW c \in Cols, NEW ch \in Cells
  PROVE  LET new == WithCell(s, r, c, ch)
         IN  /\ new \in Screens
             /\ \A p \in Places : new[p \div VGA_WIDTH][p % VGA_WIDTH] =
                  IF p = r * VGA_WIDTH + c THEN ch ELSE s[p \div VGA_WIDTH][p % VGA_WIDTH]
<1> DEFINE new == WithCell(s, r, c, ch)
<1>1. new \in Screens
  BY DEF Screens, WithCell
<1>2. \A x \in Rows, y \in Cols : new[x][y] = IF x = r /\ y = c THEN ch ELSE s[x][y]
  BY DEF Screens, WithCell
<1> HIDE DEF new
<1>3. ASSUME NEW p \in Places
      PROVE  new[p \div VGA_WIDTH][p % VGA_WIDTH] =
               IF p = r * VGA_WIDTH + c THEN ch ELSE s[p \div VGA_WIDTH][p % VGA_WIDTH]
  <2>1. PICK x \in Rows, y \in Cols :
          p = x * VGA_WIDTH + y /\ p \div VGA_WIDTH = x /\ p % VGA_WIDTH = y
    BY PlaceFound
  <2>2. x = r /\ y = c <=> p = r * VGA_WIDTH + c
    <3>1. x = r /\ y = c => p = r * VGA_WIDTH + c
      BY <2>1
    <3>2. p = r * VGA_WIDTH + c => p \div VGA_WIDTH = r /\ p % VGA_WIDTH = c
      BY PlaceIs
    <3> QED BY <2>1, <3>1, <3>2
  <2> QED BY <1>2, <2>1, <2>2
<1> QED BY <1>1, <1>3 DEF new

\* A character in a cell of the screen, with the cursor behind it.
Stored(k, row, col, c) ==
  [StoreVga(StoreCell(k, k.tty_cur, row, col, c), row, col, c) EXCEPT
     !.cursor_row = row, !.cursor_col = col + 1]

\* The rest of the console stays.
LEMMA StoredFace ==
  ASSUME NEW k, Quiet(k), NEW row \in Rows, NEW col \in Cols, NEW c \in Cells
  PROVE  LET j == Stored(k, row, col, c)
         IN  /\ SameTtys(k, j) /\ AtCursor(j) /\ j.cursor_row = row /\ j.cursor_col = col + 1
             /\ TBUF(j) = WithCell(TBUF(k), row, col, c)
<1> DEFINE j == Stored(k, row, col, c)
           bufs == [k.tty_buf EXCEPT ![k.tty_cur][row][col] = c]
<1>1. row < VGA_HEIGHT /\ col + 1 \in 0 .. VGA_WIDTH
  BY ScreenSizes DEF Rows, Cols
<1>2. j = [[[k EXCEPT !.tty_buf = bufs] EXCEPT !.vga[row][col] = c]
             EXCEPT !.cursor_row = row, !.cursor_col = col + 1]
  BY <1>1 DEF Stored, StoreCell, StoreVga, Quiet, Fields
<1> HIDE DEF j, bufs
<1>3. j = [f \in Fields |-> j[f]]
  BY <1>2 DEF Quiet
<1>4. /\ j.tty_buf = bufs
      /\ j.tty_row = k.tty_row /\ j.tty_col = k.tty_col
      /\ j.tty_cur = k.tty_cur /\ j.is_viewing_history = FALSE
      /\ j.cursor_row = row /\ j.cursor_col = col + 1
  BY <1>2 DEF Quiet, Fields
<1>5. bufs \in [Ttys -> Screens] /\ bufs[k.tty_cur] = WithCell(TBUF(k), row, col, c)
  <2>1. WithCell(TBUF(k), row, col, c) \in Screens
    BY CellStored DEF Quiet, TBUF
  <2> QED BY <2>1 DEF bufs, Quiet, TBUF, WithCell
<1>6. SameTtys(k, j) /\ AtCursor(j)
  BY <1>1, <1>3, <1>4, <1>5 DEF Quiet, SameTtys, AtCursor
<1> QED BY <1>4, <1>5, <1>6 DEF j, TBUF

\* Below the last row the character is in no cell of the active terminal.
LEMMA StoredBelow ==
  ASSUME NEW k, Quiet(k), NEW c \in Cells
  PROVE  LET j == Stored(k, VGA_HEIGHT, 0, c)
         IN  SameTtys(k, j) /\ TBUF(j) = TBUF(k) /\ j.cursor_row = VGA_HEIGHT
<1> DEFINE j == Stored(k, VGA_HEIGHT, 0, c)
           t == k.tty_cur
           x == StoreCell(k, t, VGA_HEIGHT, 0, c)
<1>1. /\ ~(VGA_HEIGHT < VGA_HEIGHT) /\ VGA_HEIGHT - VGA_HEIGHT = 0 /\ 0 \in Rows /\ 0 \in Cols
      /\ t \in Ttys /\ t + 1 # t /\ (t + 1 < TTY_COUNT => t + 1 \in Ttys)
  BY ScreenSizes DEF Rows, Cols, Quiet, Ttys
<1>2. j = [x EXCEPT !.cursor_row = VGA_HEIGHT, !.cursor_col = 0 + 1]
  BY <1>1 DEF Stored, StoreVga
<1>3. /\ x = [f \in Fields |-> x[f]]
      /\ x.tty_row = k.tty_row /\ x.tty_col = k.tty_col
      /\ x.tty_cur = k.tty_cur /\ x.is_viewing_history = FALSE
      /\ x.tty_buf \in [Ttys -> Screens] /\ x.tty_buf[t] = k.tty_buf[t]
  <2>1. CASE t + 1 < TTY_COUNT
    <3> DEFINE bufs == [k.tty_buf EXCEPT ![t + 1][0][0] = c]
    <3>1. x = [k EXCEPT !.tty_buf = bufs]
      BY <1>1, <2>1 DEF StoreCell, Quiet, Fields
    <3>2. bufs \in [Ttys -> Screens] /\ bufs[t] = k.tty_buf[t]
      <4>1. k.tty_buf[t + 1] \in Screens /\ k.tty_buf \in [Ttys -> Screens]
        BY <1>1, <2>1 DEF Quiet
      <4>2. WithCell(k.tty_buf[t + 1], 0, 0, c) \in Screens
        BY <1>1, <4>1, CellStored
      <4> QED BY <1>1, <2>1, <4>1, <4>2 DEF WithCell
    <3> HIDE DEF x, bufs
    <3> QED BY <3>1, <3>2 DEF Quiet, Fields
  <2>2. CASE ~(t + 1 < TTY_COUNT)
    <3>1. x = k
      BY <1>1, <2>2 DEF StoreCell
    <3> QED BY <3>1 DEF Quiet
  <2> QED BY <2>1, <2>2
<1> HIDE DEF j, x
<1>4. j = [f \in Fields |-> j[f]]
  BY <1>2, <1>3
<1>5. /\ j.tty_buf = x.tty_buf
      /\ j.tty_row = k.tty_row /\ j.tty_col = k.tty_col
      /\ j.tty_cur = k.tty_cur /\ j.is_viewing_history = FALSE
      /\ j.cursor_row = VGA_HEIGHT
  BY <1>2, <1>3 DEF Fields
<1>6. SameTtys(k, j) /\ TBUF(j) = TBUF(k)
  BY <1>3, <1>4, <1>5 DEF Quiet, SameTtys, TBUF
<1> QED BY <1>5, <1>6 DEF j

\* Nothing is to be seen from position p0 on.
Empty(k, p0) == \A p \in Places : p >= p0 => CellAt(k, p) \in {Blank, "nul"}

\* The row that scrolls in is empty.
LEMMA ScrolledEmpty ==
  ASSUME NEW s \in Screens, NEW j, AtCursor(j), TBUF(j) = MovedUp(s),
         j.cursor_row = VGA_HEIGHT - 1, j.cursor_col = 0
  PROVE  Empty(j, Position(j))
<1> DEFINE last == VGA_HEIGHT - 1
<1>1. Position(j) = last * VGA_WIDTH
  BY ScreenSizes DEF Position
<1>2. ASSUME NEW p \in Places, p >= last * VGA_WIDTH
      PROVE  CellAt(j, p) = Blank
  <2>1. PICK r \in Rows, c \in Cols :
          p = r * VGA_WIDTH + c /\ p \div VGA_WIDTH = r /\ p % VGA_WIDTH = c
    BY PlaceFound
  <2>2. r = last
    <3> SUFFICES ASSUME r # last PROVE FALSE
      OBVIOUS
    <3> DEFINE w == VGA_WIDTH
    <3>1. w \in Nat \ {0} /\ last \in Nat /\ r \in Nat /\ c \in 0 .. (w - 1) /\ r < last
      BY ScreenSizes DEF Rows, Cols
    <3>2. p = r * w + c /\ p >= last * w
      BY <1>2, <2>1
    <3> HIDE DEF w, last
    <3>3. r * w + w <= last * w
      BY <3>1
    <3> DEFINE a == r * w
               b == last * w
    <3>4. a \in Nat /\ b \in Nat /\ p = a + c /\ p >= b /\ a + w <= b
      BY <3>1, <3>2, <3>3
    <3> HIDE DEF a, b
    <3> QED BY <3>1, <3>4
  <2>3. MovedUp(s)[last][c] = Blank
    <3>1. MovedUp(s)[last] = Line(Blank)
      BY <2>2 DEF MovedUp
    <3> QED BY <3>1 DEF Line
  <2> QED BY <2>1, <2>2, <2>3 DEF CellAt
<1> QED BY <1>1, <1>2 DEF Empty

\* print_char_color on a console that shows no history.
LEMMA PrintIs ==
  ASSUME NEW k, Quiet(k), NEW c, NEW put, put = Put(k, c)
  PROVE  /\ put.cursor_row >= VGA_HEIGHT =>
              print_char_color(k, c) = backup_current_screen(scroll_screen(put))
         /\ ~(put.cursor_row >= VGA_HEIGHT) =>
              print_char_color(k, c) = backup_current_screen(put)
BY DEF print_char_color, Quiet

\* A character that fills a cell.
LEMMA PrintedGraphic ==
  ASSUME NEW k, AtCursor(k), NEW c \in Graphic
  PROVE  LET q == print_char_color(k, c)
         IN  /\ SameTtys(k, q) /\ AtCursor(q)
             /\ Position(k) < CellCount =>
                  /\ Position(q) = Position(k) + 1
                  /\ \A p \in Places : CellAt(q, p) = IF p = Position(k) THEN c ELSE CellAt(k, p)
             /\ Empty(k, Position(k)) => Empty(q, Position(q))
<1> DEFINE wraps == k.cursor_col >= VGA_WIDTH
           row == IF wraps THEN k.cursor_row + 1 ELSE k.cursor_row
           col == IF wraps THEN 0 ELSE k.cursor_col
           put == Stored(k, row, col, c)
           q == print_char_color(k, c)
<1>1. Quiet(k) /\ c \in Cells /\ k.cursor_row \in Rows /\ k.cursor_col \in 0 .. VGA_WIDTH
  BY DEF AtCursor, Cells
<1>2. put = Put(k, c)
  BY ScreenSizes DEF Put, PutCell, Stored
<1>3. wraps <=> ~(k.cursor_col < VGA_WIDTH)
  BY <1>1, ScreenSizes
<1> HIDE DEF q
<1>4. CASE ~wraps \/ k.cursor_row < VGA_HEIGHT - 1
  <2>1. row \in Rows /\ col \in Cols /\ Position(k) = row * VGA_WIDTH + col /\ col + 1 <= VGA_WIDTH
    <3>1. CASE wraps
      <4>1. row \in Rows /\ col = 0 /\ Position(k) = row * VGA_WIDTH /\ 0 \in Cols
        BY <1>3, <1>4, <3>1, CursorPlace, ScreenSizes DEF Cols
      <4>2. row * VGA_WIDTH \in Int
        BY <4>1, ScreenSizes DEF Rows
      <4> HIDE DEF row, col
      <4> DEFINE a == row * VGA_WIDTH
      <4>3. a \in Int /\ Position(k) = a
        BY <4>1, <4>2
      <4> HIDE DEF a
      <4>4. Position(k) = a + 0
        BY <4>3
      <4> QED BY <4>1, <4>4, ScreenSizes DEF a
    <3>2. CASE ~wraps
      <4>1. row = k.cursor_row /\ col = k.cursor_col /\ col \in Cols /\ Position(k) = row * VGA_WIDTH + col
        BY <1>3, <3>2, CursorPlace
      <4> QED BY <1>1, <4>1, ScreenSizes DEF Cols
    <3> QED BY <3>1, <3>2
  <2> HIDE DEF row, col
  <2>2. /\ SameTtys(k, put) /\ AtCursor(put) /\ put.cursor_row = row /\ put.cursor_col = col + 1
        /\ TBUF(put) = WithCell(TBUF(k), row, col, c)
    BY <1>1, <2>1, StoredFace
  <2> HIDE DEF put
  <2>3. ~(put.cursor_row >= VGA_HEIGHT) /\ Quiet(put)
    BY <2>1, <2>2, ScreenSizes DEF Rows, AtCursor
  <2>4. q = backup_current_screen(put)
    BY <1>1, <1>2, <2>3, PrintIs DEF q
  <2>5. SameFace(put, q)
    BY <2>3, <2>4, SavedFace
  <2>6. /\ SameTtys(k, q) /\ AtCursor(q) /\ q.cursor_row = row /\ q.cursor_col = col + 1
        /\ TBUF(q) = WithCell(TBUF(k), row, col, c)
    BY <2>2, <2>5 DEF AtCursor, SameFace, SameText, SameTtys, TBUF
  <2>7. Position(q) = Position(k) + 1 /\ Position(k) \in Places
    <3> DEFINE a == row * VGA_WIDTH
    <3>1. a \in Int /\ col \in Int
      BY <2>1, ScreenSizes DEF Rows, Cols
    <3>2. Position(k) = a + col /\ Position(q) = a + (col + 1)
      BY <2>1, <2>6 DEF Position
    <3>3. Position(k) \in Places
      BY <2>1, PlaceIs
    <3> HIDE DEF a
    <3> QED BY <3>1, <3>2, <3>3
  <2>8. \A p \in Places : CellAt(q, p) = IF p = Position(k) THEN c ELSE CellAt(k, p)
    <3>1. TBUF(k) \in Screens
      BY <1>1 DEF Quiet, TBUF
    <3> QED BY <1>1, <2>1, <2>6, <3>1, CellStored DEF CellAt
  <2>9. Empty(k, Position(k)) => Empty(q, Position(q))
    <3> SUFFICES ASSUME Empty(k, Position(k)), NEW p \in Places, p >= Position(q)
                 PROVE  CellAt(q, p) \in {Blank, "nul"}
      BY DEF Empty
    <3>1. p >= Position(k) /\ p # Position(k)
      BY <2>7, ScreenSizes DEF Places
    <3> QED BY <2>8, <3>1 DEF Empty
  <2> QED BY <2>6, <2>7, <2>8, <2>9 DEF q
<1>5. CASE wraps /\ ~(k.cursor_row < VGA_HEIGHT - 1)
  <2>1. row = VGA_HEIGHT /\ col = 0 /\ Position(k) = CellCount
    <3>1. Position(k) = CellCount
      BY <1>3, <1>5, CursorPlace
    <3> QED BY <1>1, <1>5, <3>1, ScreenSizes DEF Rows
  <2> HIDE DEF row, col
  <2>2. SameTtys(k, put) /\ TBUF(put) = TBUF(k) /\ put.cursor_row = VGA_HEIGHT
    BY <1>1, <2>1, StoredBelow
  <2> HIDE DEF put
  <2> DEFINE j == scroll_screen(put)
  <2>3. Quiet(put) /\ put.cursor_row >= VGA_HEIGHT
    BY <2>2, ScreenSizes DEF SameTtys
  <2>4. q = backup_current_screen(j)
    BY <1>1, <1>2, <2>3, PrintIs DEF q
  <2>5. /\ SameTtys(put, j) /\ AtCursor(j) /\ TBUF(j) = MovedUp(TBUF(put))
        /\ j.cursor_row = VGA_HEIGHT - 1 /\ j.cursor_col = 0
    BY <2>3, ScrolledFace
  <2> HIDE DEF j
  <2>6. SameFace(j, q)
    BY <2>4, <2>5, SavedFace DEF AtCursor
  <2>7. /\ SameTtys(k, q) /\ AtCursor(q) /\ TBUF(q) = MovedUp(TBUF(k))
        /\ q.cursor_row = VGA_HEIGHT - 1 /\ q.cursor_col = 0
    BY <2>2, <2>5, <2>6 DEF AtCursor, SameFace, SameText, SameTtys, TBUF
  <2>8. Empty(q, Position(q))
    BY <1>1, <2>7, ScrolledEmpty DEF Quiet, TBUF
  <2>9. ~(Position(k) < CellCount)
    BY <2>1, ScreenSizes
  <2> QED BY <2>7, <2>8, <2>9 DEF q
<1> QED BY <1>4, <1>5

\* A newline.
LEMMA PrintedNewline ==
  ASSUME NEW k, AtCursor(k)
  PROVE  LET q == print_char_color(k, "LF")
         IN  /\ SameTtys(k, q) /\ AtCursor(q)
             /\ Empty(k, (k.cursor_row + 1) * VGA_WIDTH) => Empty(q, Position(q))
<1> DEFINE put == [k EXCEPT !.cursor_row = @ + 1, !.cursor_col = 0]
           q == print_char_color(k, "LF")
           row == k.cursor_row + 1
<1>1. Quiet(k) /\ k.cursor_row \in Rows
  BY DEF AtCursor
<1>2. put = Put(k, "LF")
  BY DEF Put
<1>3. SameText(k, put) /\ put.cursor_row = row /\ put.cursor_col = 0
  <2>1. put = [f \in Fields |-> put[f]]
    BY <1>1 DEF Quiet
  <2>2. /\ put.tty_buf = k.tty_buf /\ put.tty_row = k.tty_row /\ put.tty_col = k.tty_col
        /\ put.tty_cur = k.tty_cur /\ put.is_viewing_history = k.is_viewing_history
        /\ put.cursor_row = row /\ put.cursor_col = 0
    BY <1>1 DEF Quiet, Fields
  <2> HIDE DEF put
  <2> QED BY <1>1, <2>1, <2>2 DEF Quiet, SameText, SameTtys
<1> HIDE DEF put, q
<1>4. CASE put.cursor_row >= VGA_HEIGHT
  <2> DEFINE j == scroll_screen(put)
  <2>1. q = backup_current_screen(j) /\ Quiet(put)
    BY <1>1, <1>2, <1>3, <1>4, PrintIs DEF q, SameText, SameTtys
  <2>2. /\ SameTtys(put, j) /\ AtCursor(j) /\ TBUF(j) = MovedUp(TBUF(put))
        /\ j.cursor_row = VGA_HEIGHT - 1 /\ j.cursor_col = 0
    BY <2>1, ScrolledFace
  <2> HIDE DEF j
  <2>3. SameFace(j, q)
    BY <2>1, <2>2, SavedFace DEF AtCursor
  <2>4. /\ SameTtys(k, q) /\ AtCursor(q) /\ TBUF(q) = MovedUp(TBUF(k))
        /\ q.cursor_row = VGA_HEIGHT - 1 /\ q.cursor_col = 0
    BY <1>3, <2>2, <2>3 DEF AtCursor, SameFace, SameText, SameTtys, TBUF
  <2>5. Empty(q, Position(q))
    BY <1>1, <2>4, ScrolledEmpty DEF Quiet, TBUF
  <2> QED BY <2>4, <2>5 DEF q
<1>5. CASE ~(put.cursor_row >= VGA_HEIGHT)
  <2>1. q = backup_current_screen(put) /\ Quiet(put)
    BY <1>1, <1>2, <1>3, <1>5, PrintIs DEF q, SameText, SameTtys
  <2>2. row \in Rows /\ 0 \in 0 .. VGA_WIDTH
    BY <1>1, <1>3, <1>5, ScreenSizes DEF Rows
  <2>3. SameFace(put, q)
    BY <2>1, SavedFace
  <2>4. /\ SameTtys(k, q) /\ AtCursor(q) /\ TBUF(q) = TBUF(k)
        /\ q.cursor_row = row /\ q.cursor_col = 0
    BY <1>3, <2>2, <2>3 DEF AtCursor, SameFace, SameText, SameTtys, TBUF
  <2>5. Position(q) = row * VGA_WIDTH
    <3> DEFINE a == row * VGA_WIDTH
    <3>1. a \in Int
      BY <2>2, ScreenSizes DEF Rows
    <3>2. Position(q) = a + 0
      BY <2>4 DEF Position
    <3> HIDE DEF a
    <3>3. Position(q) = a
      BY <3>1, <3>2
    <3> QED BY <3>3 DEF a
  <2>6. Empty(k, row * VGA_WIDTH) => Empty(q, Position(q))
    BY <2>4, <2>5 DEF Empty, CellAt
  <2> QED BY <2>4, <2>6 DEF q
<1> QED BY <1>4, <1>5

\* after is the function that print_str defines by recursion, up to character m.
PrintedTo(k, str, m, after) ==
  after = [n \in 0 .. m |-> IF n = 0 THEN k ELSE print_char_color(after[n - 1], str[n])]

\* There is such a function.
LEMMA PrintedToExists ==
  ASSUME NEW k, NEW str
  PROVE  \A m \in Nat : \E after : PrintedTo(k, str, m, after)
<1> DEFINE S == {m \in Nat : \E after : PrintedTo(k, str, m, after)}
<1>1. 0 \in S
  <2> DEFINE g == [n \in 0 .. 0 |-> k]
  <2>1. \A n \in 0 .. 0 : n = 0
    OBVIOUS
  <2>2. PrintedTo(k, str, 0, g)
    BY <2>1 DEF PrintedTo
  <2> QED BY <2>2
<1>2. ASSUME NEW m \in Nat, m \in S
      PROVE  m + 1 \in S
  <2>1. PICK g : PrintedTo(k, str, m, g)
    BY <1>2
  <2> DEFINE Turn(f, n) == IF n = 0 THEN k ELSE print_char_color(f[n - 1], str[n])
             h == [n \in 0 .. (m + 1) |-> Turn(g, n)]
  <2>2. \A n \in 0 .. m : h[n] = g[n]
    <3>1. \A n \in 0 .. m : n \in 0 .. (m + 1)
      OBVIOUS
    <3>2. g = [n \in 0 .. m |-> Turn(g, n)]
      BY <2>1 DEF PrintedTo
    <3> HIDE DEF Turn
    <3> QED BY <3>1, <3>2
  <2>3. \A n \in 0 .. (m + 1) : n # 0 => n - 1 \in 0 .. m
    OBVIOUS
  <2>4. \A n \in 0 .. (m + 1) : Turn(h, n) = Turn(g, n)
    <3>1. \A n \in 0 .. (m + 1) : n # 0 => h[n - 1] = g[n - 1]
      BY <2>2, <2>3
    <3> HIDE DEF h
    <3> QED BY <3>1, Zenon
  <2>5. h = [n \in 0 .. (m + 1) |-> Turn(h, n)]
    <3> HIDE DEF Turn
    <3> QED BY <2>4
  <2>6. PrintedTo(k, str, m + 1, h)
    BY <2>5 DEF PrintedTo
  <2>7. \E after : PrintedTo(k, str, m + 1, after)
    BY <2>6
  <2> QED BY <2>7
<1> HIDE DEF S
<1>3. Nat \subseteq S
  BY <1>1, <1>2, SetInduction
<1> QED BY <1>3 DEF S

\* print_str prints the characters one after another.
LEMMA PrintTurns ==
  ASSUME NEW k, NEW str, Len(str) \in Nat
  PROVE  \E g : /\ print_str(k, str) = g[Len(str)] /\ g[0] = k
                /\ \A n \in 0 .. (Len(str) - 1) : g[n + 1] = print_char_color(g[n], str[n + 1])
<1> DEFINE m == Len(str)
           g == CHOOSE after : PrintedTo(k, str, m, after)
<1>1. PrintedTo(k, str, m, g)
  <2>1. \E after : PrintedTo(k, str, m, after)
    BY PrintedToExists
  <2> QED BY <2>1
<1>2. print_str(k, str) = g[m]
  BY DEF print_str, PrintedTo
<1> HIDE DEF g
<1>3. g[0] = k
  BY <1>1 DEF PrintedTo
<1>4. ASSUME NEW n \in 0 .. (m - 1)
      PROVE  g[n + 1] = print_char_color(g[n], str[n + 1])
  <2>1. n + 1 \in 0 .. m /\ n + 1 # 0 /\ (n + 1) - 1 = n
    OBVIOUS
  <2> QED BY <1>1, <2>1 DEF PrintedTo
<1> QED BY <1>2, <1>3, <1>4

\* q is k with the first n characters of str printed over its cells.
Overprinted(k, str, n, q) ==
  /\ SameTtys(k, q) /\ AtCursor(q) /\ Position(q) = Position(k) + n
  /\ \A p \in Places :
       CellAt(q, p) = IF p >= Position(k) /\ p < Position(k) + n
                      THEN str[p - Position(k) + 1] ELSE CellAt(k, p)

\* Text that fits on the screen is printed from the cursor on.
LEMMA TextPrinted ==
  ASSUME NEW k, AtCursor(k), NEW str \in Seq(Graphic), Position(k) + Len(str) <= CellCount
  PROVE  Overprinted(k, str, Len(str), print_str(k, str))
<1> DEFINE m == Len(str)
           P == Position(k)
<1>1. m \in Nat /\ P \in Nat /\ CellCount \in Nat /\ P + m <= CellCount
  BY CursorPlace, ScreenSizes, LenProperties
<1>2. PICK g : /\ print_str(k, str) = g[m] /\ g[0] = k
               /\ \A n \in 0 .. (m - 1) : g[n + 1] = print_char_color(g[n], str[n + 1])
  BY <1>1, PrintTurns
<1> DEFINE S == {n \in Nat : n <= m => Overprinted(k, str, n, g[n])}
<1>3. 0 \in S
  <2>1. \A p \in Places : ~(p >= P /\ p < P + 0)
    BY <1>1, ScreenSizes DEF Places
  <2>2. SameTtys(k, k) /\ Position(k) = Position(k) + 0
    BY <1>1 DEF SameTtys, AtCursor
  <2> QED BY <1>2, <2>1, <2>2 DEF Overprinted
<1>4. ASSUME NEW n \in Nat, n \in S
      PROVE  n + 1 \in S
  <2>1. SUFFICES ASSUME n + 1 <= m
                 PROVE  Overprinted(k, str, n + 1, g[n + 1])
    OBVIOUS
  <2> DEFINE j == g[n]
             q == g[n + 1]
             c == str[n + 1]
  <2>2. n <= m /\ n \in 0 .. (m - 1) /\ n + 1 \in 1 .. m /\ P + n < CellCount
    BY <1>1, <2>1
  <2>3. /\ SameTtys(k, j) /\ AtCursor(j) /\ Position(j) = P + n
        /\ \A p \in Places : CellAt(j, p) = IF p >= P /\ p < P + n
                                            THEN str[p - P + 1] ELSE CellAt(k, p)
    BY <1>4, <2>2 DEF Overprinted
  <2>4. q = print_char_color(j, c)
    BY <1>2, <2>2
  <2>5. c \in Graphic
    BY <2>2, ElementOfSeq
  <2> HIDE DEF j, q, c
  <2>6. /\ SameTtys(j, q) /\ AtCursor(q) /\ Position(q) = Position(j) + 1
        /\ \A p \in Places : CellAt(q, p) = IF p = Position(j) THEN c ELSE CellAt(j, p)
    BY <2>2, <2>3, <2>4, <2>5, PrintedGraphic
  <2>7. ASSUME NEW p \in Places
        PROVE  CellAt(q, p) = IF p >= P /\ p < P + (n + 1)
                              THEN str[p - P + 1] ELSE CellAt(k, p)
    <3>1. p \in Int
      BY ScreenSizes DEF Places
    <3> HIDE DEF P
    <3>2. CASE p = P + n
      <4>1. p - P + 1 = n + 1 /\ p >= P /\ p < P + (n + 1)
        BY <1>1, <3>2
      <4>2. CellAt(q, p) = str[n + 1]
        BY <2>3, <2>6, <3>2 DEF c
      <4> QED BY <4>1, <4>2
    <3>3. CASE p # P + n
      <4>1. p >= P /\ p < P + (n + 1) <=> p >= P /\ p < P + n
        BY <1>1, <3>1, <3>3
      <4>2. CellAt(q, p) = CellAt(j, p)
        BY <2>3, <2>6, <3>3
      <4> QED BY <2>3, <4>1, <4>2
    <3> QED BY <3>2, <3>3
  <2>8. SameTtys(k, q) /\ Position(q) = P + (n + 1)
    <3>1. Position(q) = P + (n + 1)
      <4> HIDE DEF P
      <4> QED BY <1>1, <2>3, <2>6
    <3> QED BY <2>3, <2>6, <3>1 DEF SameTtys
  <2>9. Overprinted(k, str, n + 1, q)
    BY <2>6, <2>7, <2>8 DEF Overprinted
  <2> QED BY <2>9 DEF q
<1> HIDE DEF S
<1>5. Nat \subseteq S
  BY <1>3, <1>4, SetInduction
<1>6. m \in S /\ m <= m
  BY <1>1, <1>5
<1> QED BY <1>2, <1>6 DEF S

\* Output of any length, with newlines, leaves nothing behind the cursor.
LEMMA OutputPrinted ==
  ASSUME NEW k, AtCursor(k), NEW str \in Seq(Graphic \cup {"LF"})
  PROVE  LET q == print_str(k, str)
         IN  SameTtys(k, q) /\ AtCursor(q) /\ (Empty(k, Position(k)) => Empty(q, Position(q)))
<1> DEFINE m == Len(str)
           Kept(q) == /\ SameTtys(k, q) /\ AtCursor(q)
                      /\ Empty(k, Position(k)) => Empty(q, Position(q))
<1>1. m \in Nat
  BY LenProperties
<1>2. PICK g : /\ print_str(k, str) = g[m] /\ g[0] = k
               /\ \A n \in 0 .. (m - 1) : g[n + 1] = print_char_color(g[n], str[n + 1])
  BY <1>1, PrintTurns
<1> DEFINE S == {n \in Nat : n <= m => Kept(g[n])}
<1>3. 0 \in S
  BY <1>2 DEF SameTtys, AtCursor
<1>4. ASSUME NEW n \in Nat, n \in S
      PROVE  n + 1 \in S
  <2>1. SUFFICES ASSUME n + 1 <= m
                 PROVE  Kept(g[n + 1])
    OBVIOUS
  <2> DEFINE j == g[n]
             q == g[n + 1]
             c == str[n + 1]
  <2>2. n <= m /\ n \in 0 .. (m - 1) /\ n + 1 \in 1 .. m
    BY <1>1, <2>1
  <2>3. Kept(j)
    BY <1>4, <2>2
  <2>4. q = print_char_color(j, c)
    BY <1>2, <2>2
  <2>5. c \in Graphic \/ c = "LF"
    BY <2>2, ElementOfSeq
  <2> HIDE DEF j, q, c
  <2>6. SameTtys(j, q) /\ AtCursor(q) /\ (Empty(j, Position(j)) => Empty(q, Position(q)))
    <3>1. CASE c \in Graphic
      BY <2>3, <2>4, <3>1, PrintedGraphic
    <3>2. CASE c = "LF"
      <4>1. /\ SameTtys(j, q) /\ AtCursor(q)
            /\ Empty(j, (j.cursor_row + 1) * VGA_WIDTH) => Empty(q, Position(q))
        BY <2>3, <2>4, <3>2, PrintedNewline
      <4>2. (j.cursor_row + 1) * VGA_WIDTH >= Position(j)
        BY <2>3, ScreenSizes DEF AtCursor, Rows, Position
      <4>3. Position(j) \in Int /\ (j.cursor_row + 1) * VGA_WIDTH \in Int
        BY <2>3, ScreenSizes DEF AtCursor, Rows, Position
      <4> DEFINE e == (j.cursor_row + 1) * VGA_WIDTH
                 P == Position(j)
      <4> HIDE DEF e, P
      <4>4. e \in Int /\ P \in Int /\ e >= P
        BY <4>2, <4>3 DEF e, P
      <4>5. \A p \in Places : p >= e => p >= P
        BY <4>4, ScreenSizes DEF Places
      <4>6. Empty(j, P) => Empty(j, e)
        BY <4>5 DEF Empty
      <4> QED BY <4>1, <4>6 DEF e, P
    <3> QED BY <2>5, <3>1, <3>2
  <2>7. Kept(q)
    BY <2>3, <2>6 DEF SameTtys
  <2> QED BY <2>7 DEF q
<1> HIDE DEF S
<1>5. Nat \subseteq S
  BY <1>3, <1>4, SetInduction
<1>6. m \in S /\ m <= m
  BY <1>1, <1>5
<1> QED BY <1>2, <1>6 DEF S

\* Only the cursor moves.
CursorAt(k, row, col) == [k EXCEPT !.cursor_row = row, !.cursor_col = col]

\* It has the text of k and the cursor that it is given.
LEMMA CursorFace ==
  ASSUME NEW k, Quiet(k), NEW row \in Rows, NEW col \in Cols
  PROVE  LET j == CursorAt(k, row, col)
         IN  SameText(k, j) /\ AtCursor(j) /\ j.cursor_row = row /\ j.cursor_col = col
<1> DEFINE j == CursorAt(k, row, col)
<1>1. j = [f \in Fields |-> j[f]]
  BY DEF Quiet, CursorAt
<1>2. /\ j.tty_buf = k.tty_buf /\ j.tty_row = k.tty_row /\ j.tty_col = k.tty_col
      /\ j.tty_cur = k.tty_cur /\ j.is_viewing_history = k.is_viewing_history
      /\ j.cursor_row = row /\ j.cursor_col = col
  BY DEF Quiet, Fields, CursorAt
<1>3. col \in 0 .. VGA_WIDTH
  BY ScreenSizes DEF Cols
<1> HIDE DEF j
<1>4. SameText(k, j) /\ AtCursor(j)
  BY <1>1, <1>2, <1>3 DEF Quiet, SameText, SameTtys, AtCursor
<1> QED BY <1>2, <1>4 DEF j

\* One step to the left.
LEMMA MovedLeft ==
  ASSUME NEW k, AtCursor(k)
  PROVE  LET j == move_cursor_left(k)
         IN  /\ SameText(k, j) /\ AtCursor(j)
             /\ Position(k) > 0 => Position(j) = Position(k) - 1 /\ j.cursor_col < VGA_WIDTH
<1> DEFINE w == VGA_WIDTH
           row == k.cursor_row
           col == k.cursor_col
           j == move_cursor_left(k)
<1>1. /\ Quiet(k) /\ row \in Rows /\ row \in Nat /\ col \in 0 .. w /\ w \in Nat \ {0}
      /\ Position(k) = row * w + col
  BY ScreenSizes DEF AtCursor, Rows, Position
<1>2. \A r \in Rows, c \in Cols :
        /\ SameText(k, CursorAt(k, r, c)) /\ AtCursor(CursorAt(k, r, c)) /\ c < w
        /\ Position(CursorAt(k, r, c)) = r * w + c
  <2> SUFFICES ASSUME NEW r \in Rows, NEW c \in Cols
               PROVE  /\ SameText(k, CursorAt(k, r, c)) /\ AtCursor(CursorAt(k, r, c)) /\ c < w
                      /\ Position(CursorAt(k, r, c)) = r * w + c
    OBVIOUS
  <2>1. /\ SameText(k, CursorAt(k, r, c)) /\ AtCursor(CursorAt(k, r, c))
        /\ CursorAt(k, r, c).cursor_row = r /\ CursorAt(k, r, c).cursor_col = c
    BY <1>1, CursorFace
  <2>2. c < w
    BY <1>1 DEF Cols
  <2> QED BY <2>1, <2>2 DEF Position
<1>3. CASE col > 0
  <2>1. col - 1 \in Cols
    BY <1>1, <1>3 DEF Cols
  <2>2. j = CursorAt(k, row, col - 1) /\ CursorAt(k, row, col - 1).cursor_col = col - 1
    BY <1>1, <1>3 DEF move_cursor_left, CursorAt, Quiet, Fields
  <2>3. row * w + (col - 1) = (row * w + col) - 1
    BY <1>1
  <2> HIDE DEF j, row, col
  <2> QED BY <1>1, <1>2, <2>1, <2>2, <2>3 DEF j
<1>4. CASE ~(col > 0) /\ row > 0
  <2>1. row - 1 \in Rows /\ w - 1 \in Cols /\ col = 0
    BY <1>1, <1>4, ScreenSizes DEF Rows, Cols
  <2>2. j = CursorAt(k, row - 1, w - 1) /\ CursorAt(k, row - 1, w - 1).cursor_col = w - 1
    BY <1>1, <1>4 DEF move_cursor_left, CursorAt, Quiet, Fields
  <2>3. (row - 1) * w + (w - 1) = (row * w + col) - 1
    BY <1>1, <2>1
  <2> HIDE DEF j, row, col
  <2> QED BY <1>1, <1>2, <2>1, <2>2, <2>3 DEF j
<1>5. CASE ~(col > 0) /\ ~(row > 0)
  <2>1. j = k /\ row = 0 /\ col = 0
    BY <1>1, <1>5 DEF move_cursor_left
  <2>2. Position(k) = 0
    BY <1>1, <2>1
  <2> QED BY <1>1, <2>1, <2>2 DEF SameText, SameTtys
<1> QED BY <1>3, <1>4, <1>5

\* One step to the right, from a cell of the screen.
LEMMA MovedRight ==
  ASSUME NEW k, AtCursor(k)
  PROVE  LET j == move_cursor_right(k)
         IN  /\ SameText(k, j) /\ AtCursor(j)
             /\ k.cursor_col < VGA_WIDTH /\ Position(k) + 1 < CellCount =>
                  Position(j) = Position(k) + 1 /\ j.cursor_col < VGA_WIDTH
<1> DEFINE w == VGA_WIDTH
           h == VGA_HEIGHT
           row == k.cursor_row
           col == k.cursor_col
           j == move_cursor_right(k)
<1>1. /\ Quiet(k) /\ row \in Rows /\ row \in Nat /\ row <= h - 1 /\ col \in 0 .. w
      /\ w \in Nat \ {0} /\ h \in Nat
      /\ Position(k) = row * w + col /\ CellCount = w * h
  BY ScreenSizes DEF AtCursor, Rows, Position, CellCount
<1>2. \A r \in Rows, c \in Cols :
        /\ SameText(k, CursorAt(k, r, c)) /\ AtCursor(CursorAt(k, r, c)) /\ c < w
        /\ Position(CursorAt(k, r, c)) = r * w + c
  <2> SUFFICES ASSUME NEW r \in Rows, NEW c \in Cols
               PROVE  /\ SameText(k, CursorAt(k, r, c)) /\ AtCursor(CursorAt(k, r, c)) /\ c < w
                      /\ Position(CursorAt(k, r, c)) = r * w + c
    OBVIOUS
  <2>1. /\ SameText(k, CursorAt(k, r, c)) /\ AtCursor(CursorAt(k, r, c))
        /\ CursorAt(k, r, c).cursor_row = r /\ CursorAt(k, r, c).cursor_col = c
    BY <1>1, CursorFace
  <2>2. c < w
    BY <1>1 DEF Cols
  <2> QED BY <2>1, <2>2 DEF Position
<1>3. CASE col < w - 1
  <2>1. col + 1 \in Cols
    BY <1>1, <1>3 DEF Cols
  <2>2. j = CursorAt(k, row, col + 1) /\ CursorAt(k, row, col + 1).cursor_col = col + 1
    BY <1>1, <1>3 DEF move_cursor_right, CursorAt, Quiet, Fields
  <2>3. row * w + (col + 1) = (row * w + col) + 1
    BY <1>1
  <2> HIDE DEF j, row, col
  <2> QED BY <1>1, <1>2, <2>1, <2>2, <2>3 DEF j
<1>4. CASE ~(col < w - 1) /\ row < h - 1
  <2>1. row + 1 \in Rows /\ 0 \in Cols /\ (col < w => col = w - 1)
    <3>1. row \in Nat /\ col \in 0 .. w /\ w \in Nat \ {0} /\ h \in Nat
      BY <1>1
    <3> HIDE DEF row, col
    <3> QED BY <1>4, <3>1 DEF Rows, Cols
  <2>2. j = CursorAt(k, row + 1, 0) /\ CursorAt(k, row + 1, 0).cursor_col = 0
    BY <1>1, <1>4 DEF move_cursor_right, CursorAt, Quiet, Fields
  <2>3. col < w => (row + 1) * w + 0 = (row * w + col) + 1
    BY <1>1, <2>1
  <2> HIDE DEF j, row, col
  <2> QED BY <1>1, <1>2, <2>1, <2>2, <2>3 DEF j, col
<1>5. CASE ~(col < w - 1) /\ ~(row < h - 1)
  <2>1. j = k
    BY <1>1, <1>5 DEF move_cursor_right
  <2>2. row = h - 1 /\ (col < w => col = w - 1)
    BY <1>1, <1>5
  <2>3. col < w => (row * w + col) + 1 = w * h
    BY <1>1, <2>2
  <2>4. ~(col < w /\ Position(k) + 1 < CellCount)
    <3> DEFINE n == w * h
    <3>1. n \in Int /\ (col < w => Position(k) + 1 = n) /\ CellCount = n
      BY <1>1, <2>3
    <3> HIDE DEF n
    <3> QED BY <3>1
  <2> QED BY <1>1, <2>1, <2>4 DEF SameText, SameTtys
<1> QED BY <1>3, <1>4, <1>5

\* after is the function that LeftBy defines by recursion, up to step m.
LeftTo(k, m, after) ==
  after = [n \in 0 .. m |-> IF n = 0 THEN k ELSE move_cursor_left(after[n - 1])]

\* There is such a function.
LEMMA LeftToExists ==
  ASSUME NEW k
  PROVE  \A m \in Nat : \E after : LeftTo(k, m, after)
<1> DEFINE S == {m \in Nat : \E after : LeftTo(k, m, after)}
<1>1. 0 \in S
  <2> DEFINE g == [n \in 0 .. 0 |-> k]
  <2>1. \A n \in 0 .. 0 : n = 0
    OBVIOUS
  <2>2. LeftTo(k, 0, g)
    BY <2>1 DEF LeftTo
  <2> QED BY <2>2
<1>2. ASSUME NEW m \in Nat, m \in S
      PROVE  m + 1 \in S
  <2>1. PICK g : LeftTo(k, m, g)
    BY <1>2
  <2> DEFINE Turn(f, n) == IF n = 0 THEN k ELSE move_cursor_left(f[n - 1])
             h == [n \in 0 .. (m + 1) |-> Turn(g, n)]
  <2>2. \A n \in 0 .. m : h[n] = g[n]
    <3>1. \A n \in 0 .. m : n \in 0 .. (m + 1)
      OBVIOUS
    <3>2. g = [n \in 0 .. m |-> Turn(g, n)]
      BY <2>1 DEF LeftTo
    <3> HIDE DEF Turn
    <3> QED BY <3>1, <3>2
  <2>3. \A n \in 0 .. (m + 1) : n # 0 => n - 1 \in 0 .. m
    OBVIOUS
  <2>4. \A n \in 0 .. (m + 1) : Turn(h, n) = Turn(g, n)
    <3>1. \A n \in 0 .. (m + 1) : n # 0 => h[n - 1] = g[n - 1]
      BY <2>2, <2>3
    <3> HIDE DEF h
    <3> QED BY <3>1, Zenon
  <2>5. h = [n \in 0 .. (m + 1) |-> Turn(h, n)]
    <3> HIDE DEF Turn
    <3> QED BY <2>4
  <2>6. LeftTo(k, m + 1, h)
    BY <2>5 DEF LeftTo
  <2>7. \E after : LeftTo(k, m + 1, after)
    BY <2>6
  <2> QED BY <2>7
<1> HIDE DEF S
<1>3. Nat \subseteq S
  BY <1>1, <1>2, SetInduction
<1> QED BY <1>3 DEF S

\* after is the function that RightBy defines by recursion, up to step m.
RightTo(k, m, after) ==
  after = [n \in 0 .. m |-> IF n = 0 THEN k ELSE move_cursor_right(after[n - 1])]

\* There is such a function.
LEMMA RightToExists ==
  ASSUME NEW k
  PROVE  \A m \in Nat : \E after : RightTo(k, m, after)
<1> DEFINE S == {m \in Nat : \E after : RightTo(k, m, after)}
<1>1. 0 \in S
  <2> DEFINE g == [n \in 0 .. 0 |-> k]
  <2>1. \A n \in 0 .. 0 : n = 0
    OBVIOUS
  <2>2. RightTo(k, 0, g)
    BY <2>1 DEF RightTo
  <2> QED BY <2>2
<1>2. ASSUME NEW m \in Nat, m \in S
      PROVE  m + 1 \in S
  <2>1. PICK g : RightTo(k, m, g)
    BY <1>2
  <2> DEFINE Turn(f, n) == IF n = 0 THEN k ELSE move_cursor_right(f[n - 1])
             h == [n \in 0 .. (m + 1) |-> Turn(g, n)]
  <2>2. \A n \in 0 .. m : h[n] = g[n]
    <3>1. \A n \in 0 .. m : n \in 0 .. (m + 1)
      OBVIOUS
    <3>2. g = [n \in 0 .. m |-> Turn(g, n)]
      BY <2>1 DEF RightTo
    <3> HIDE DEF Turn
    <3> QED BY <3>1, <3>2
  <2>3. \A n \in 0 .. (m + 1) : n # 0 => n - 1 \in 0 .. m
    OBVIOUS
  <2>4. \A n \in 0 .. (m + 1) : Turn(h, n) = Turn(g, n)
    <3>1. \A n \in 0 .. (m + 1) : n # 0 => h[n - 1] = g[n - 1]
      BY <2>2, <2>3
    <3> HIDE DEF h
    <3> QED BY <3>1, Zenon
  <2>5. h = [n \in 0 .. (m + 1) |-> Turn(h, n)]
    <3> HIDE DEF Turn
    <3> QED BY <2>4
  <2>6. RightTo(k, m + 1, h)
    BY <2>5 DEF RightTo
  <2>7. \E after : RightTo(k, m + 1, after)
    BY <2>6
  <2> QED BY <2>7
<1> HIDE DEF S
<1>3. Nat \subseteq S
  BY <1>1, <1>2, SetInduction
<1> QED BY <1>3 DEF S

\* Several steps to the left.
LEMMA LeftMoves ==
  ASSUME NEW k, AtCursor(k), NEW m \in Nat
  PROVE  LET j == LeftBy(k, m)
         IN  /\ SameText(k, j) /\ AtCursor(j) /\ (m = 0 => j = k)
             /\ m <= Position(k) =>
                  Position(j) = Position(k) - m /\ (m > 0 => j.cursor_col < VGA_WIDTH)
<1> DEFINE P == Position(k)
           g == CHOOSE after : LeftTo(k, m, after)
           Moved(n, j) == /\ SameText(k, j) /\ AtCursor(j) /\ (n = 0 => j = k)
                          /\ n <= P =>
                               Position(j) = P - n /\ (n > 0 => j.cursor_col < VGA_WIDTH)
           S == {n \in Nat : n <= m => Moved(n, g[n])}
<1>1. P \in Nat /\ CellCount \in Nat
  BY CursorPlace, ScreenSizes
<1>2. LeftTo(k, m, g)
  <2>1. \E after : LeftTo(k, m, after)
    BY LeftToExists
  <2> QED BY <2>1
<1>3. LeftBy(k, m) = g[m]
  BY DEF LeftBy, LeftTo
<1> HIDE DEF g
<1>4. 0 \in S
  <2>1. g[0] = k
    BY <1>2 DEF LeftTo
  <2>2. SameText(k, k) /\ P = P - 0 /\ ~(0 > 0)
    BY <1>1 DEF SameText, SameTtys, AtCursor
  <2> QED BY <2>1, <2>2
<1>5. ASSUME NEW n \in Nat, n \in S
      PROVE  n + 1 \in S
  <2>1. SUFFICES ASSUME n + 1 <= m
                 PROVE  Moved(n + 1, g[n + 1])
    OBVIOUS
  <2> DEFINE i == g[n]
             j == g[n + 1]
  <2>2. n <= m /\ n + 1 \in 0 .. m /\ n + 1 # 0 /\ (n + 1) - 1 = n
    BY <2>1
  <2>3. Moved(n, i)
    BY <1>5, <2>2
  <2>4. j = move_cursor_left(i)
    BY <1>2, <2>2 DEF LeftTo
  <2> HIDE DEF i, j
  <2>5. /\ SameText(i, j) /\ AtCursor(j)
        /\ Position(i) > 0 => Position(j) = Position(i) - 1 /\ j.cursor_col < VGA_WIDTH
    BY <2>3, <2>4, MovedLeft
  <2>6. n + 1 <= P => Position(j) = P - (n + 1) /\ j.cursor_col < VGA_WIDTH
    <3> SUFFICES ASSUME n + 1 <= P
                 PROVE  Position(j) = P - (n + 1) /\ j.cursor_col < VGA_WIDTH
      OBVIOUS
    <3>1. n <= P
      BY <1>1
    <3>2. Position(i) = P - n
      BY <2>3, <3>1
    <3> HIDE DEF P
    <3> QED BY <1>1, <2>5, <3>2
  <2>7. SameText(k, j)
    BY <2>3, <2>5 DEF SameText, SameTtys
  <2>8. Moved(n + 1, j)
    BY <2>2, <2>5, <2>6, <2>7
  <2> QED BY <2>8 DEF j
<1> HIDE DEF S
<1>6. Nat \subseteq S
  BY <1>4, <1>5, SetInduction
<1>7. m \in S /\ m <= m
  BY <1>6
<1>8. Moved(m, g[m])
  BY <1>7 DEF S
<1> QED BY <1>3, <1>8

\* Several steps to the right.
LEMMA RightMoves ==
  ASSUME NEW k, AtCursor(k), NEW m \in Nat
  PROVE  LET j == RightBy(k, m)
         IN  /\ SameText(k, j) /\ AtCursor(j) /\ (m = 0 => j = k)
             /\ k.cursor_col < VGA_WIDTH /\ Position(k) + m < CellCount =>
                  Position(j) = Position(k) + m /\ (m > 0 => j.cursor_col < VGA_WIDTH)
<1> DEFINE P == Position(k)
           g == CHOOSE after : RightTo(k, m, after)
           Moved(n, j) == /\ SameText(k, j) /\ AtCursor(j) /\ (n = 0 => j = k)
                          /\ k.cursor_col < VGA_WIDTH /\ P + n < CellCount =>
                               Position(j) = P + n /\ (n > 0 => j.cursor_col < VGA_WIDTH)
           S == {n \in Nat : n <= m => Moved(n, g[n])}
<1>1. P \in Nat /\ CellCount \in Nat
  BY CursorPlace, ScreenSizes
<1>2. RightTo(k, m, g)
  <2>1. \E after : RightTo(k, m, after)
    BY RightToExists
  <2> QED BY <2>1
<1>3. RightBy(k, m) = g[m]
  BY DEF RightBy, RightTo
<1> HIDE DEF g
<1>4. 0 \in S
  <2>1. g[0] = k
    BY <1>2 DEF RightTo
  <2>2. SameText(k, k) /\ P = P + 0 /\ ~(0 > 0)
    BY <1>1 DEF SameText, SameTtys, AtCursor
  <2> QED BY <2>1, <2>2
<1>5. ASSUME NEW n \in Nat, n \in S
      PROVE  n + 1 \in S
  <2>1. SUFFICES ASSUME n + 1 <= m
                 PROVE  Moved(n + 1, g[n + 1])
    OBVIOUS
  <2> DEFINE i == g[n]
             j == g[n + 1]
  <2>2. n <= m /\ n + 1 \in 0 .. m /\ n + 1 # 0 /\ (n + 1) - 1 = n
    BY <2>1
  <2>3. Moved(n, i)
    BY <1>5, <2>2
  <2>4. j = move_cursor_right(i)
    BY <1>2, <2>2 DEF RightTo
  <2> HIDE DEF i, j
  <2>5. /\ SameText(i, j) /\ AtCursor(j)
        /\ i.cursor_col < VGA_WIDTH /\ Position(i) + 1 < CellCount =>
             Position(j) = Position(i) + 1 /\ j.cursor_col < VGA_WIDTH
    BY <2>3, <2>4, MovedRight
  <2>6. k.cursor_col < VGA_WIDTH /\ P + (n + 1) < CellCount =>
          Position(j) = P + (n + 1) /\ j.cursor_col < VGA_WIDTH
    <3> SUFFICES ASSUME k.cursor_col < VGA_WIDTH, P + (n + 1) < CellCount
                 PROVE  Position(j) = P + (n + 1) /\ j.cursor_col < VGA_WIDTH
      OBVIOUS
    <3>1. P + n < CellCount /\ (n = 0 \/ n > 0)
      BY <1>1
    <3>2. Position(i) = P + n /\ i.cursor_col < VGA_WIDTH
      BY <2>3, <3>1
    <3> HIDE DEF P
    <3> QED BY <1>1, <2>5, <3>2
  <2>7. SameText(k, j)
    BY <2>3, <2>5 DEF SameText, SameTtys
  <2>8. Moved(n + 1, j)
    BY <2>2, <2>5, <2>6, <2>7
  <2> QED BY <2>8 DEF j
<1> HIDE DEF S
<1>6. Nat \subseteq S
  BY <1>4, <1>5, SetInduction
<1>7. m \in S /\ m <= m
  BY <1>6
<1>8. Moved(m, g[m])
  BY <1>7 DEF S
<1> QED BY <1>3, <1>8

\* The console before boot, but for its cursor's row that is 0.
LEMMA PowerOnQuiet == AtCursor(PowerOn)
<1>1. 0 \in Rows /\ 0 \in 0 .. VGA_WIDTH /\ 0 \in Ttys
  BY ScreenSizes DEF Rows, Ttys
<1>2. Screen("nul") \in Screens
  BY DEF Screen, Screens, Line, Cells
<1>3. /\ PowerOn.tty_buf = [t \in Ttys |-> Screen("nul")] /\ PowerOn.tty_row = [t \in Ttys |-> 0]
      /\ PowerOn.tty_col = [t \in Ttys |-> 0] /\ PowerOn.tty_cur = 0
      /\ PowerOn.cursor_row = 0 /\ PowerOn.cursor_col = 0 /\ PowerOn.is_viewing_history = FALSE
  BY DEF PowerOn
<1>4. PowerOn = [f \in Fields |-> PowerOn[f]]
  BY DEF PowerOn, Fields
<1> QED BY <1>1, <1>2, <1>3, <1>4 DEF AtCursor, Quiet

\* vt_switch.
LEMMA SwitchedFace ==
  ASSUME NEW k, AtCursor(k), NEW t \in Ttys
  PROVE  LET j == vt_switch(k, t)
         IN  AtCursor(j) /\ j.tty_cur = t /\ (t = k.tty_cur => j = k)
<1> DEFINE a == Activated(k, t)
           v == vt_render_active(a)
           j == vt_switch(k, t)
<1>1. CASE t = k.tty_cur
  BY <1>1 DEF vt_switch
<1>2. CASE t # k.tty_cur
  <2>1. Quiet(k) /\ k.cursor_row \in Rows /\ k.cursor_col \in 0 .. VGA_WIDTH
    BY DEF AtCursor
  <2>2. a = [f \in Fields |-> a[f]]
    BY <2>1 DEF Quiet, Activated
  <2>3. /\ a.tty_buf = k.tty_buf /\ a.tty_row = [k.tty_row EXCEPT ![k.tty_cur] = k.cursor_row]
        /\ a.tty_col = [k.tty_col EXCEPT ![k.tty_cur] = k.cursor_col]
        /\ a.tty_cur = t /\ a.is_viewing_history = k.is_viewing_history
        /\ a.cursor_row = k.tty_row[t] /\ a.cursor_col = k.tty_col[t]
    BY <2>1 DEF Quiet, Fields, Activated
  <2> HIDE DEF a
  <2>4. AtCursor(a)
    <3>1. /\ a.tty_row \in [Ttys -> Rows] /\ a.tty_col \in [Ttys -> 0 .. VGA_WIDTH]
          /\ a.cursor_row \in Rows /\ a.cursor_col \in 0 .. VGA_WIDTH
      BY <2>1, <2>3 DEF Quiet
    <3>2. a.tty_buf \in [Ttys -> Screens] /\ a.tty_cur \in Ttys /\ a.is_viewing_history = FALSE
      BY <2>1, <2>3 DEF Quiet
    <3> QED BY <2>2, <3>1, <3>2 DEF Quiet, AtCursor
  <2>5. v = [f \in Fields |-> v[f]]
    BY <2>2 DEF vt_render_active
  <2>6. /\ v.tty_buf = a.tty_buf /\ v.tty_row = a.tty_row /\ v.tty_col = a.tty_col
        /\ v.tty_cur = a.tty_cur /\ v.is_viewing_history = a.is_viewing_history
        /\ v.cursor_row = a.cursor_row /\ v.cursor_col = a.cursor_col
    BY <2>2 DEF Fields, vt_render_active
  <2>7. j = backup_current_screen(v)
    BY <1>2 DEF vt_switch, a
  <2> HIDE DEF v, j
  <2>8. AtCursor(v) /\ v.tty_cur = t
    BY <2>3, <2>4, <2>5, <2>6 DEF Quiet, AtCursor
  <2>9. SameFace(v, j)
    BY <2>7, <2>8, SavedFace DEF AtCursor
  <2>10. AtCursor(j) /\ j.tty_cur = t
    BY <2>8, <2>9 DEF AtCursor, SameFace, SameText, SameTtys
  <2> QED BY <1>2, <2>10 DEF j
<1> QED BY <1>1, <1>2

-----------------------------------------------------------------------------
(***************************************************************************)
(* The line on the screen                                                  *)
(***************************************************************************)
\* The line of s begins at position b of the active terminal of k, with the
\* cursor at its place in it, and nothing is behind the line.
LineAt(k, s, b) ==
  /\ b \in Nat /\ Position(k) = b + s.cursor_pos /\ b + s.cmd_pos <= CellCount
  /\ s.cursor_pos < s.cmd_pos => k.cursor_col < VGA_WIDTH
  /\ \A i \in 0 .. (s.cmd_pos - 1) : CellAt(k, b + i) = s.cmd_buffer[i]
  /\ Empty(k, b + s.cmd_pos)

\* LineShown, of any console and shell.
LineSeen(k, s) ==
  LET b == Position(k) - s.cursor_pos
  IN  /\ b >= 0 /\ b + s.cmd_pos <= CellCount
      /\ s.cursor_pos < s.cmd_pos => k.cursor_col < VGA_WIDTH
      /\ \A i \in 0 .. (s.cmd_pos - 1) : CellAt(k, b + i) = s.cmd_buffer[i]
      /\ \A p \in (b + s.cmd_pos) .. (CellCount - 1) : CellAt(k, p) \in {Blank, "nul"}

\* LineShown is LineSeen of the state, before and after a key.
LEMMA ShownIs == LineShown = LineSeen(con, sh) /\ LineShown' = LineSeen(con', sh')
BY DEF LineShown, LineStart, LineSeen

\* The line is seen where it begins.
LEMMA SeenAt ==
  ASSUME NEW k, AtCursor(k), NEW s, ShellInv(s)
  PROVE  LineSeen(k, s) <=> \E b \in Nat : LineAt(k, s, b)
<1> DEFINE P == Position(k)
           d == P - s.cursor_pos
<1>1. P \in Nat /\ s.cursor_pos \in Nat /\ s.cmd_pos \in Nat /\ CellCount \in Nat
  BY CursorPlace, ScreenSizes, Sizes DEF ShellInv, Shells, Indices
<1> HIDE DEF P
<1>2. d \in Int /\ P = d + s.cursor_pos /\ (d >= 0 <=> d \in Nat)
  BY <1>1
<1>3. \A b \in Nat : P = b + s.cursor_pos => b = d
  BY <1>1
<1>4. d \in Nat =>
        \A p : p \in (d + s.cmd_pos) .. (CellCount - 1) <=> p \in Places /\ p >= d + s.cmd_pos
  BY <1>1 DEF Places
<1> HIDE DEF d
<1>5. d \in Nat =>
        (Empty(k, d + s.cmd_pos) <=>
          \A p \in (d + s.cmd_pos) .. (CellCount - 1) : CellAt(k, p) \in {Blank, "nul"})
  BY <1>4 DEF Empty
<1>6. LineSeen(k, s) <=> d \in Nat /\ LineAt(k, s, d)
  BY <1>2, <1>5 DEF LineSeen, LineAt, P, d
<1>7. ASSUME NEW b \in Nat, LineAt(k, s, b)
      PROVE  b = d
  BY <1>3, <1>7 DEF LineAt, P
<1> QED BY <1>6, <1>7

\* What redraw_from_cursor prints: the rest of the line and a blank.
RestOf(s) ==
  (IF s.cursor_pos < s.cmd_pos THEN StringAt(s.cmd_buffer, s.cursor_pos) ELSE <<>>) \o Blanks(1)

\* It is text: the characters from the cursor on, and the blank.
LEMMA RestIs ==
  ASSUME NEW s, ShellInv(s)
  PROVE  LET n == s.cmd_pos - s.cursor_pos
         IN  /\ RestOf(s) \in Seq(Graphic) /\ Len(RestOf(s)) = n + 1
             /\ \A i \in 1 .. n : RestOf(s)[i] = s.cmd_buffer[s.cursor_pos + i - 1]
             /\ RestOf(s)[n + 1] = Blank
<1> DEFINE m == s.cmd_pos
           at == s.cursor_pos
           buf == s.cmd_buffer
           n == m - at
           rest == IF at < m THEN StringAt(buf, at) ELSE <<>>
<1>1. /\ buf \in Buffers /\ m \in Indices /\ at \in Indices /\ m \in Nat /\ at \in Nat /\ at <= m
      /\ n \in Nat
  BY Sizes DEF ShellInv, Shells, Indices
<1>2. /\ rest \in Seq(Graphic) /\ Len(rest) = n
      /\ \A i \in 1 .. n : rest[i] = buf[at + i - 1]
  <2>1. CASE at < m
    <3>1. EndsAt(buf, at, m)
      <4>1. EndsAt(buf, 0, m)
        BY <1>1, <2>1 DEF ShellInv, StringInv
      <4>2. \A j \in at .. (m - 1) : j \in 0 .. (m - 1)
        BY <1>1
      <4> QED BY <4>1, <4>2 DEF EndsAt
    <3>2. /\ StringAt(buf, at) = [i \in 1 .. (m - at) |-> buf[at + i - 1]]
          /\ StringAt(buf, at) \in Short /\ Len(StringAt(buf, at)) = m - at
      BY <1>1, <3>1, StringRead
    <3>3. rest \in Seq(Letters)
      BY <2>1, <3>2 DEF Short
    <3>4. rest \in Seq(Graphic)
      <4> HIDE DEF rest
      <4>1. Len(rest) \in Nat /\ rest \in [1 .. Len(rest) -> Letters]
        BY <3>3, LenProperties
      <4>2. rest \in [1 .. Len(rest) -> Graphic]
        BY <4>1, ScreenSizes
      <4> QED BY <4>1, <4>2, SequenceIs
    <3> QED BY <2>1, <3>2, <3>4
  <2>2. CASE ~(at < m)
    <3>1. rest = <<>> /\ n = 0
      BY <1>1, <2>2
    <3>2. <<>> \in Seq(Graphic) /\ Len(<<>>) = 0 /\ \A i \in 1 .. 0 : FALSE
      OBVIOUS
    <3> HIDE DEF rest, n
    <3> QED BY <3>1, <3>2
  <2> QED BY <2>1, <2>2
<1> DEFINE one == Blanks(1)
<1>3. one \in Seq(Graphic) /\ Len(one) = 1 /\ one[1] = Blank
  <2>1. one \in [1 .. 1 -> Graphic] /\ one[1] = Blank
    BY ScreenSizes DEF Blanks
  <2> HIDE DEF one
  <2> QED BY <2>1, SequenceIs
<1>4. RestOf(s) = rest \o one
  BY DEF RestOf
<1> HIDE DEF rest, one, n
<1> DEFINE r == rest \o one
<1>5. /\ r \in Seq(Graphic) /\ Len(r) = n + 1
      /\ \A i \in 1 .. (n + 1) : r[i] = IF i <= n THEN rest[i] ELSE one[i - n]
  <2>1. /\ r \in Seq(Graphic) /\ Len(r) = Len(rest) + Len(one)
        /\ \A i \in 1 .. (Len(rest) + Len(one)) :
             r[i] = IF i <= Len(rest) THEN rest[i] ELSE one[i - Len(rest)]
    BY <1>2, <1>3, ConcatProperties
  <2>2. Len(rest) = n /\ Len(one) = 1
    BY <1>2, <1>3
  <2> HIDE DEF r
  <2> QED BY <2>1, <2>2, Zenon
<1> HIDE DEF r
<1>6. \A i \in 1 .. n : r[i] = buf[at + i - 1]
  <2>1. \A i \in 1 .. n : i \in 1 .. (n + 1) /\ i <= n
    BY <1>1
  <2> QED BY <1>2, <1>5, <2>1
<1>7. r[n + 1] = Blank
  <2>1. n + 1 \in 1 .. (n + 1) /\ ~(n + 1 <= n) /\ (n + 1) - n = 1
    BY <1>1 DEF n
  <2> QED BY <1>3, <1>5, <2>1
<1> QED BY <1>4, <1>5, <1>6, <1>7 DEF r, n

\* Text is output.
LEMMA TextIsOutput ==
  ASSUME NEW str \in Seq(Graphic)
  PROVE  str \in Seq(Graphic \cup {"LF"})
<1> DEFINE G == Graphic \cup {"LF"}
<1>1. Graphic \subseteq G
  OBVIOUS
<1> HIDE DEF G
<1>2. Len(str) \in Nat /\ str \in [1 .. Len(str) -> Graphic]
  BY LenProperties
<1>3. str \in [1 .. Len(str) -> G]
  BY <1>1, <1>2
<1>4. str \in Seq(G)
  BY <1>2, <1>3, SequenceIs
<1> QED BY <1>4 DEF G

\* Cells of consoles with the same text.
LEMMA SameCells ==
  ASSUME NEW k, NEW j, SameText(k, j)
  PROVE  (\A p : CellAt(j, p) = CellAt(k, p)) /\ \A p0 : Empty(k, p0) <=> Empty(j, p0)
<1>1. TBUF(j) = TBUF(k)
  BY DEF SameText, SameTtys, TBUF
<1> QED BY <1>1 DEF CellAt, Empty

\* redraw_from_cursor stays on its terminal.
LEMMA RedrawStays ==
  ASSUME NEW k, AtCursor(k), NEW s, ShellInv(s)
  PROVE  SameTtys(k, redraw_from_cursor(k, s)) /\ AtCursor(redraw_from_cursor(k, s))
<1> DEFINE x == print_str(k, RestOf(s))
           n == s.cmd_pos + 1 - s.cursor_pos
           q == LeftBy(x, n)
<1>1. SameTtys(k, x) /\ AtCursor(x)
  BY RestIs, TextIsOutput, OutputPrinted
<1>2. n \in Nat
  BY Sizes DEF ShellInv, Shells, Indices
<1> HIDE DEF x, n
<1>3. SameText(x, q) /\ AtCursor(q)
  BY <1>1, <1>2, LeftMoves
<1>4. redraw_from_cursor(k, s) = q
  BY DEF redraw_from_cursor, RestOf, x, n
<1> HIDE DEF q
<1> QED BY <1>1, <1>3, <1>4 DEF SameText, SameTtys

\* And shows the line, if what is before the cursor is right and nothing but
\* one cell is behind the line.
LEMMA RedrawShows ==
  ASSUME NEW k, AtCursor(k), NEW s, ShellInv(s), NEW b \in Nat,
         Position(k) = b + s.cursor_pos, b + s.cmd_pos < CellCount,
         \A i \in 0 .. (s.cursor_pos - 1) : CellAt(k, b + i) = s.cmd_buffer[i],
         Empty(k, b + s.cmd_pos + 1)
  PROVE  LineAt(redraw_from_cursor(k, s), s, b)
<1> DEFINE m == s.cmd_pos
           at == s.cursor_pos
           buf == s.cmd_buffer
           n == m - at
           str == RestOf(s)
           x == print_str(k, str)
           q == LeftBy(x, m + 1 - at)
           P == Position(k)
<1>0. /\ m \in Nat /\ at \in 0 .. m /\ P = b + at /\ b + m < CellCount
  BY Sizes DEF ShellInv, Shells, Indices
<1> HIDE DEF m, at, P
<1>1. /\ m \in Nat /\ at \in Nat /\ at <= m /\ n \in Nat /\ n + 1 = m + 1 - at /\ m + 1 - at \in Nat
      /\ CellCount \in Nat /\ P = b + at /\ b + m < CellCount
  BY <1>0, ScreenSizes
<1>2. /\ str \in Seq(Graphic) /\ Len(str) = n + 1
      /\ \A i \in 1 .. n : str[i] = buf[at + i - 1]
      /\ str[n + 1] = Blank
  BY RestIs DEF m, at
<1>3. redraw_from_cursor(k, s) = q
  BY DEF redraw_from_cursor, RestOf, m, at
<1>4. P + Len(str) = b + m + 1 /\ P + Len(str) <= CellCount
  <2> DEFINE l == Len(str)
  <2>1. l = m - at + 1
    BY <1>2
  <2> HIDE DEF l, str
  <2>2. P + l = b + m + 1 /\ P + l <= CellCount
    BY <1>1, <2>1
  <2> QED BY <2>2 DEF l
<1> HIDE DEF str
<1>5. Overprinted(k, str, n + 1, x)
  BY <1>2, <1>4, TextPrinted DEF P
<1>6. /\ AtCursor(x) /\ Position(x) = b + m + 1
      /\ \A p \in Places : CellAt(x, p) = IF p >= P /\ p < P + (n + 1)
                                          THEN str[p - P + 1] ELSE CellAt(k, p)
  BY <1>2, <1>4, <1>5 DEF Overprinted, P
<1> HIDE DEF x
<1>7. /\ SameText(x, q) /\ Position(q) = b + at /\ q.cursor_col < VGA_WIDTH
  <2> DEFINE l == m + 1 - at
  <2>1. l \in Nat /\ l <= Position(x) /\ l > 0 /\ Position(x) - l = b + at
    BY <1>1, <1>6
  <2> HIDE DEF l
  <2>2. SameText(x, LeftBy(x, l)) /\ Position(LeftBy(x, l)) = Position(x) - l /\ LeftBy(x, l).cursor_col < VGA_WIDTH
    BY <1>6, <2>1, LeftMoves
  <2> QED BY <2>1, <2>2 DEF l
<1> HIDE DEF q
<1>8. ASSUME NEW i \in 0 .. (m - 1)
      PROVE  CellAt(x, b + i) = buf[i]
  <2>1. b + i \in Places
    BY <1>1 DEF Places
  <2>2. CASE i < at
    <3>1. ~(b + i >= P) /\ i \in 0 .. (at - 1)
      BY <1>1, <2>2
    <3> QED BY <1>6, <2>1, <3>1 DEF at
  <2>3. CASE ~(i < at)
    <3> DEFINE l == i - at + 1
    <3>1. /\ b + i >= P /\ b + i < P + (n + 1) /\ (b + i) - P + 1 = l
          /\ l \in 1 .. n /\ at + l - 1 = i
      BY <1>1, <2>3
    <3> HIDE DEF l
    <3> QED BY <1>2, <1>6, <2>1, <3>1
  <2> QED BY <2>2, <2>3
<1>9. ASSUME NEW p \in Places, p >= b + m
      PROVE  CellAt(x, p) \in {Blank, "nul"}
  <2>1. p \in Int
    BY ScreenSizes DEF Places
  <2>2. CASE p = b + m
    <3>1. p >= P /\ p < P + (n + 1) /\ p - P + 1 = n + 1
      BY <1>1, <2>2
    <3> QED BY <1>2, <1>6, <3>1
  <2>3. CASE p # b + m
    <3>1. ~(p < P + (n + 1)) /\ p >= b + m + 1
      BY <1>1, <1>9, <2>1, <2>3
    <3> QED BY <1>6, <3>1 DEF Empty, m
  <2> QED BY <2>2, <2>3
<1>10. b + m <= CellCount
  BY <1>1
<1>11. /\ \A i \in 0 .. (m - 1) : CellAt(q, b + i) = buf[i]
       /\ Empty(q, b + m)
  <2>1. Empty(x, b + m)
    BY <1>9 DEF Empty
  <2> QED BY <1>7, <1>8, <2>1, SameCells
<1> QED BY <1>3, <1>7, <1>10, <1>11 DEF LineAt, m, at

\* The cells of a later position on.
LEMMA EmptyFrom ==
  ASSUME NEW k, NEW a \in Int, NEW b \in Int, a <= b, Empty(k, a)
  PROVE  Empty(k, b)
<1>1. \A p \in Places : p >= b => p >= a
  BY ScreenSizes DEF Places
<1> QED BY <1>1 DEF Empty

\* The positions of a shell.
LEMMA ShellPlaces ==
  ASSUME NEW s, ShellInv(s)
  PROVE  s.cmd_pos \in Nat /\ s.cursor_pos \in Nat /\ s.cursor_pos <= s.cmd_pos
BY Sizes DEF ShellInv, Shells, Indices

\* q and j show the line of j, if k and s show that of s and both have room.
Follows(k, s, q, j) ==
  \A b \in Nat :
    LineAt(k, s, b) /\ b + s.cmd_pos < CellCount /\ b + j.cmd_pos < CellCount =>
      \E d \in Nat : LineAt(q, j, d)

\* A character at the cursor.
LEMMA TypeShows ==
  ASSUME NEW k, AtCursor(k), NEW s, ShellInv(s), HasRoom(s), NEW c \in Letters
  PROVE  LET typed == print_char_color(k, c)
             j == Inserted(s, c)
             q == IF j.cursor_pos < j.cmd_pos THEN redraw_from_cursor(typed, j) ELSE typed
         IN  AtCursor(q) /\ Follows(k, s, q, j)
<1> DEFINE x == print_char_color(k, c)
           j == Inserted(s, c)
           q == IF j.cursor_pos < j.cmd_pos THEN redraw_from_cursor(x, j) ELSE x
           m == s.cmd_pos
           at == s.cursor_pos
<1>1. /\ ShellInv(j) /\ j.cursor_pos = at + 1 /\ j.cmd_pos = m + 1
      /\ j.cmd_buffer[at] = c
      /\ \A i \in 0 .. (at - 1) : j.cmd_buffer[i] = s.cmd_buffer[i]
  BY InsertedKeeps
<1>2. c \in Graphic
  BY ScreenSizes
<1>3. /\ SameTtys(k, x) /\ AtCursor(x)
      /\ Position(k) < CellCount =>
           /\ Position(x) = Position(k) + 1
           /\ \A p \in Places : CellAt(x, p) = IF p = Position(k) THEN c ELSE CellAt(k, p)
  BY <1>2, PrintedGraphic
<1> HIDE DEF x, j
<1>4. AtCursor(q)
  BY <1>1, <1>3, RedrawStays
<1>5. m \in Nat /\ at \in Nat /\ at <= m /\ CellCount \in Nat
  BY ShellPlaces, ScreenSizes
<1>6. ASSUME NEW b \in Nat, LineAt(k, s, b), b + m < CellCount, b + (m + 1) < CellCount
      PROVE  \E d \in Nat : LineAt(q, j, d)
  <2> DEFINE P == Position(k)
  <2>1. /\ P = b + at
        /\ \A i \in 0 .. (m - 1) : CellAt(k, b + i) = s.cmd_buffer[i]
        /\ Empty(k, b + m)
    BY <1>6 DEF LineAt
  <2>2. P < CellCount
    BY <1>5, <1>6, <2>1
  <2>3. /\ Position(x) = P + 1
        /\ \A p \in Places : CellAt(x, p) = IF p = P THEN c ELSE CellAt(k, p)
    BY <1>3, <2>2
  <2> HIDE DEF P, m, at
  <2>4. Position(x) = b + (at + 1)
    BY <1>5, <2>1, <2>3
  <2>5. ASSUME NEW i \in 0 .. ((at + 1) - 1)
        PROVE  CellAt(x, b + i) = j.cmd_buffer[i]
    <3>1. b + i \in Places /\ (b + i = P <=> i = at) /\ (i # at => i \in 0 .. (at - 1) /\ i \in 0 .. (m - 1))
      BY <1>5, <1>6, <2>1 DEF Places
    <3> QED BY <1>1, <2>1, <2>3, <3>1 DEF m, at
  <2>6. Empty(x, b + (m + 1))
    <3>1. \A p \in Places : p >= b + (m + 1) => p # P /\ p >= b + m
      BY <1>5, <2>1, ScreenSizes DEF Places
    <3> QED BY <2>1, <2>3, <3>1 DEF Empty
  <2>7. CASE at + 1 < m + 1
    <3>1. q = redraw_from_cursor(x, j)
      BY <1>1, <2>7 DEF m, at
    <3>2. Empty(x, b + (m + 1) + 1)
      BY <1>5, <2>6, EmptyFrom
    <3>3. LineAt(redraw_from_cursor(x, j), j, b)
      BY <1>1, <1>3, <1>6, <2>4, <2>5, <3>2, RedrawShows DEF m, at
    <3> QED BY <3>1, <3>3
  <2>8. CASE ~(at + 1 < m + 1)
    <3>1. q = x
      BY <1>1, <2>8 DEF m, at
    <3>2. at = m
      BY <1>5, <2>8
    <3>3. b + (m + 1) <= CellCount
      BY <1>5, <1>6
    <3>4. LineAt(x, j, b)
      <4> DEFINE l == m + 1
      <4>1. /\ j.cursor_pos = l /\ j.cmd_pos = l /\ Position(x) = b + l /\ b + l <= CellCount
            /\ ~(l < l) /\ Empty(x, b + l)
        BY <1>1, <1>5, <2>4, <2>6, <3>2, <3>3 DEF m, at
      <4>2. \A i \in 0 .. (l - 1) : CellAt(x, b + i) = j.cmd_buffer[i]
        BY <2>5, <3>2
      <4> HIDE DEF l
      <4> QED BY <4>1, <4>2 DEF LineAt
    <3> QED BY <3>1, <3>4
  <2> QED BY <2>7, <2>8
<1> QED BY <1>1, <1>4, <1>6 DEF Follows, x, j

\* A character less, once the cursor is where it was.
LEMMA EraseShows ==
  ASSUME NEW k, NEW s, ShellInv(s), NEW p \in Nat, p < s.cmd_pos,
         NEW x, AtCursor(x), SameText(k, x),
         \A b \in Nat : LineAt(k, s, b) => Position(x) = b + p
  PROVE  LET j == Without(s, p)
             q == redraw_from_cursor(x, j)
         IN  AtCursor(q) /\ Follows(k, s, q, j)
<1> DEFINE j == Without(s, p)
           q == redraw_from_cursor(x, j)
           m == s.cmd_pos
<1>1. /\ ShellInv(j) /\ j.cursor_pos = p /\ j.cmd_pos = m - 1
      /\ \A i \in 0 .. (p - 1) : j.cmd_buffer[i] = s.cmd_buffer[i]
  BY WithoutKeeps
<1> HIDE DEF j
<1>2. AtCursor(q)
  BY <1>1, RedrawStays
<1>3. m \in Nat /\ p < m /\ CellCount \in Nat
  BY ShellPlaces, ScreenSizes
<1>4. ASSUME NEW b \in Nat, LineAt(k, s, b), b + m < CellCount
      PROVE  LineAt(q, j, b)
  <2>1. /\ \A i \in 0 .. (m - 1) : CellAt(k, b + i) = s.cmd_buffer[i]
        /\ Empty(k, b + m) /\ Position(x) = b + p
    BY <1>4 DEF LineAt
  <2>2. (\A l : CellAt(x, l) = CellAt(k, l)) /\ Empty(x, b + m)
    BY <2>1, SameCells
  <2>3. \A i \in 0 .. (p - 1) : i \in 0 .. (m - 1)
    BY <1>3
  <2>4. \A i \in 0 .. (p - 1) : CellAt(x, b + i) = j.cmd_buffer[i]
    BY <1>1, <2>1, <2>2, <2>3
  <2>5. b + (m - 1) < CellCount /\ b + (m - 1) + 1 = b + m
    BY <1>3, <1>4
  <2> QED BY <1>1, <2>1, <2>2, <2>4, <2>5, RedrawShows
<1> QED BY <1>2, <1>4 DEF Follows, j

\* The cursor moved inside the line.
LEMMA MoveShows ==
  ASSUME NEW k, NEW s, ShellInv(s), NEW p \in 0 .. s.cmd_pos, NEW q, SameText(k, q),
         \A b \in Nat : LineAt(k, s, b) /\ b + s.cmd_pos < CellCount =>
           Position(q) = b + p /\ (p < s.cmd_pos => q.cursor_col < VGA_WIDTH)
  PROVE  Follows(k, s, q, [s EXCEPT !.cursor_pos = p])
<1> DEFINE j == [s EXCEPT !.cursor_pos = p]
<1>1. j.cursor_pos = p /\ j.cmd_pos = s.cmd_pos /\ j.cmd_buffer = s.cmd_buffer
  BY DEF ShellInv, Shells
<1> HIDE DEF j
<1>2. ASSUME NEW b \in Nat, LineAt(k, s, b), b + s.cmd_pos < CellCount
      PROVE  LineAt(q, j, b)
  <2>1. Position(q) = b + p /\ (p < s.cmd_pos => q.cursor_col < VGA_WIDTH)
    BY <1>2
  <2>2. /\ b + s.cmd_pos <= CellCount
        /\ \A i \in 0 .. (s.cmd_pos - 1) : CellAt(k, b + i) = s.cmd_buffer[i]
        /\ Empty(k, b + s.cmd_pos)
    BY <1>2 DEF LineAt
  <2>3. /\ \A i \in 0 .. (s.cmd_pos - 1) : CellAt(q, b + i) = s.cmd_buffer[i]
        /\ Empty(q, b + s.cmd_pos)
    BY <2>2, SameCells
  <2> QED BY <1>1, <2>1, <2>2, <2>3 DEF LineAt
<1> QED BY <1>2 DEF Follows, j

\* Blanks.
LEMMA BlanksAre ==
  ASSUME NEW n \in Nat
  PROVE  /\ Blanks(n) \in Seq(Graphic) /\ Len(Blanks(n)) = n
         /\ \A i \in 1 .. n : Blanks(n)[i] = Blank
<1> DEFINE str == Blanks(n)
<1>1. str \in [1 .. n -> Graphic] /\ \A i \in 1 .. n : str[i] = Blank
  BY ScreenSizes DEF Blanks
<1> HIDE DEF str
<1>2. str \in Seq(Graphic) /\ Len(str) = n
  BY <1>1, SequenceIs
<1> QED BY <1>1, <1>2 DEF str

\* A line is text that can be printed.
LEMMA LineIsText ==
  ASSUME NEW str \in Seq(Letters)
  PROVE  str \in Seq(Graphic)
<1>1. Len(str) \in Nat /\ str \in [1 .. Len(str) -> Letters]
  BY LenProperties
<1>2. str \in [1 .. Len(str) -> Graphic]
  BY <1>1, ScreenSizes
<1> QED BY <1>1, <1>2, SequenceIs

\* A line from the history over the one that is seen.
RecalledOn(k, s, cmd) ==
  LET diff == IF Len(cmd) < s.cmd_pos THEN s.cmd_pos - Len(cmd) ELSE 0
  IN  LeftBy(print_str(LeftBy(k, s.cmd_pos), cmd \o Blanks(diff)), diff)

\* It is seen where the other one was, if the cursor was behind that one.
LEMMA RecallShows ==
  ASSUME NEW k, AtCursor(k), NEW s, ShellInv(s), NEW cmd \in Short, NEW j,
         ShellInv(j), Text(j) = cmd, j.cursor_pos = Len(cmd)
  PROVE  LET q == RecalledOn(k, s, cmd)
         IN  AtCursor(q) /\ (s.cursor_pos = s.cmd_pos => Follows(k, s, q, j))
<1> DEFINE m == s.cmd_pos
           n == Len(cmd)
           diff == IF n < m THEN m - n ELSE 0
           fill == Blanks(diff)
           str == cmd \o fill
           x == LeftBy(k, m)
           y == print_str(x, str)
           q == LeftBy(y, diff)
<1>1. /\ m \in Nat /\ n \in Nat /\ diff \in Nat /\ CellCount \in Nat
      /\ n + diff >= m /\ n + diff >= n /\ (n + diff = m \/ n + diff = n)
  <2>1. m \in Nat /\ n \in Nat
    BY ShellPlaces, LenProperties DEF Short
  <2> HIDE DEF m, n
  <2> QED BY <2>1, ScreenSizes
<1>2. RecalledOn(k, s, cmd) = q
  BY DEF RecalledOn
<1>3. cmd \in Seq(Graphic)
  BY LineIsText DEF Short
<1> HIDE DEF diff
<1>4. fill \in Seq(Graphic) /\ Len(fill) = diff /\ \A i \in 1 .. diff : fill[i] = Blank
  BY <1>1, BlanksAre
<1> HIDE DEF fill
<1>5. /\ str \in Seq(Graphic) /\ Len(str) = n + diff
      /\ \A i \in 1 .. (n + diff) : str[i] = IF i <= n THEN cmd[i] ELSE fill[i - n]
  <2>1. /\ str \in Seq(Graphic) /\ Len(str) = Len(cmd) + Len(fill)
        /\ \A i \in 1 .. (Len(cmd) + Len(fill)) :
             str[i] = IF i <= Len(cmd) THEN cmd[i] ELSE fill[i - Len(cmd)]
    BY <1>3, <1>4, ConcatProperties, Zenon
  <2> HIDE DEF str
  <2> QED BY <1>4, <2>1, Zenon
<1> HIDE DEF str
<1>6. SameText(k, x) /\ AtCursor(x) /\ (m <= Position(k) => Position(x) = Position(k) - m)
  BY <1>1, LeftMoves
<1> HIDE DEF x
<1>7. SameTtys(x, y) /\ AtCursor(y)
  BY <1>5, <1>6, TextIsOutput, OutputPrinted
<1>8. Position(x) + Len(str) <= CellCount => Overprinted(x, str, Len(str), y)
  BY <1>5, <1>6, TextPrinted
<1> HIDE DEF y
<1>9. /\ SameText(y, q) /\ AtCursor(q)
      /\ diff <= Position(y) => Position(q) = Position(y) - diff
  BY <1>1, <1>7, LeftMoves
<1> HIDE DEF q
<1>10. j.cmd_pos = n /\ \A i \in 0 .. (n - 1) : j.cmd_buffer[i] = cmd[i + 1]
  <2>1. j.cmd_pos = n
    BY LineString
  <2>2. ASSUME NEW i \in 0 .. (n - 1)
        PROVE  j.cmd_buffer[i] = cmd[i + 1]
    <3>1. i + 1 \in 1 .. n /\ (i + 1) - 1 = i
      BY <1>1
    <3>2. Text(j)[i + 1] = j.cmd_buffer[(i + 1) - 1]
      BY <2>1, <3>1 DEF Text
    <3> QED BY <3>1, <3>2
  <2> QED BY <2>1, <2>2
<1>11. ASSUME s.cursor_pos = m, NEW b \in Nat, LineAt(k, s, b), b + m < CellCount, b + n < CellCount
       PROVE  LineAt(q, j, b)
  <2>1. Position(k) = b + m /\ Empty(k, b + m)
    BY <1>11 DEF LineAt
  <2>2. Position(x) = b /\ b + Len(str) <= CellCount
    <3> DEFINE P == Position(k)
               l == Len(str)
    <3>1. P = b + m /\ l = n + diff
      BY <1>5, <2>1
    <3> HIDE DEF P, l
    <3>2. m <= P /\ P - m = b /\ b + l <= CellCount
      BY <1>1, <1>11, <3>1
    <3> QED BY <1>6, <3>2 DEF P, l
  <2>3. /\ Position(y) = b + (n + diff)
        /\ \A p \in Places : CellAt(y, p) = IF p >= b /\ p < b + (n + diff)
                                            THEN str[p - b + 1] ELSE CellAt(x, p)
    BY <1>5, <1>8, <2>2 DEF Overprinted
  <2>4. Position(q) = b + n
    <3> DEFINE P == Position(y)
    <3>1. P = b + (n + diff)
      BY <2>3
    <3> HIDE DEF P
    <3>2. diff <= P /\ P - diff = b + n
      BY <1>1, <3>1
    <3> QED BY <1>9, <3>2 DEF P
  <2> HIDE DEF m, n
  <2>5. ASSUME NEW i \in 0 .. (n - 1)
        PROVE  CellAt(y, b + i) = j.cmd_buffer[i]
    <3>1. /\ b + i \in Places /\ b + i >= b /\ b + i < b + (n + diff) /\ (b + i) - b + 1 = i + 1
          /\ i + 1 \in 1 .. (n + diff) /\ i + 1 <= n
      BY <1>1, <1>11 DEF Places
    <3> QED BY <1>5, <1>10, <2>3, <3>1
  <2>6. ASSUME NEW p \in Places, p >= b + n
        PROVE  CellAt(y, p) \in {Blank, "nul"}
    <3>1. p \in Int
      BY ScreenSizes DEF Places
    <3>2. CASE p < b + (n + diff)
      <4> DEFINE i == p - b + 1
      <4>1. p >= b /\ i \in 1 .. (n + diff) /\ ~(i <= n) /\ i - n \in 1 .. diff
        BY <1>1, <2>6, <3>1, <3>2
      <4> HIDE DEF i
      <4>2. CellAt(y, p) = str[i]
        BY <2>3, <3>2, <4>1 DEF i
      <4> QED BY <1>4, <1>5, <4>1, <4>2
    <3>3. CASE ~(p < b + (n + diff))
      <4>1. p >= b + m
        BY <1>1, <3>1, <3>3
      <4>2. CellAt(y, p) = CellAt(x, p)
        BY <2>3, <3>3
      <4>3. CellAt(x, p) = CellAt(k, p)
        BY <1>6, SameCells
      <4> QED BY <2>1, <4>1, <4>2, <4>3 DEF Empty
    <3> QED BY <3>2, <3>3
  <2>7. /\ \A i \in 0 .. (n - 1) : CellAt(q, b + i) = j.cmd_buffer[i]
        /\ Empty(q, b + n)
    <3>1. Empty(y, b + n)
      BY <2>6 DEF Empty
    <3> QED BY <1>9, <2>5, <3>1, SameCells
  <2>8. b + n <= CellCount /\ ~(n < n)
    BY <1>1, <1>11
  <2>9. j.cursor_pos = n
    BY DEF n
  <2> QED BY <1>10, <2>4, <2>7, <2>8, <2>9 DEF LineAt
<1> QED BY <1>2, <1>9, <1>10, <1>11 DEF Follows

-----------------------------------------------------------------------------
(***************************************************************************)
(* Output of the commands                                                  *)
(***************************************************************************)
Output == Seq(Graphic \cup {"LF"})

\* after is the function that EchoText defines by recursion, up to argument m.
EchoedTo(argv, m, after) ==
  after = [n \in 1 .. m |->
             IF n = 1 THEN <<>>
             ELSE after[n - 1] \o argv[n] \o (IF n < Len(argv) THEN <<Blank>> ELSE <<>>)]

\* There is such a function.
LEMMA EchoedToExists ==
  ASSUME NEW argv
  PROVE  \A m \in Nat : \E after : EchoedTo(argv, m, after)
<1> DEFINE S == {m \in Nat : \E after : EchoedTo(argv, m, after)}
           Turn(f, n) == IF n = 1 THEN <<>>
                         ELSE f[n - 1] \o argv[n] \o (IF n < Len(argv) THEN <<Blank>> ELSE <<>>)
<1>1. 0 \in S
  <2> DEFINE g == [n \in 1 .. 0 |-> <<>>]
  <2>1. \A n \in 1 .. 0 : FALSE
    OBVIOUS
  <2>2. g = [n \in 1 .. 0 |-> Turn(g, n)]
    <3> HIDE DEF Turn
    <3> QED BY <2>1
  <2>3. EchoedTo(argv, 0, g)
    BY <2>2 DEF EchoedTo
  <2> QED BY <2>3
<1>2. ASSUME NEW m \in Nat, m \in S
      PROVE  m + 1 \in S
  <2>1. PICK g : EchoedTo(argv, m, g)
    BY <1>2
  <2> DEFINE h == [n \in 1 .. (m + 1) |-> Turn(g, n)]
  <2>2. \A n \in 1 .. m : h[n] = g[n]
    <3>1. \A n \in 1 .. m : n \in 1 .. (m + 1)
      OBVIOUS
    <3>2. g = [n \in 1 .. m |-> Turn(g, n)]
      BY <2>1 DEF EchoedTo
    <3> HIDE DEF Turn
    <3> QED BY <3>1, <3>2
  <2>3. \A n \in 1 .. (m + 1) : n # 1 => n - 1 \in 1 .. m
    OBVIOUS
  <2>4. \A n \in 1 .. (m + 1) : Turn(h, n) = Turn(g, n)
    <3>1. \A n \in 1 .. (m + 1) : n # 1 => h[n - 1] = g[n - 1]
      BY <2>2, <2>3
    <3> HIDE DEF h
    <3> QED BY <3>1, Zenon
  <2>5. h = [n \in 1 .. (m + 1) |-> Turn(h, n)]
    <3> HIDE DEF Turn
    <3> QED BY <2>4
  <2>6. EchoedTo(argv, m + 1, h)
    BY <2>5 DEF EchoedTo
  <2>7. \E after : EchoedTo(argv, m + 1, after)
    BY <2>6
  <2> QED BY <2>7
<1> HIDE DEF S
<1>3. Nat \subseteq S
  BY <1>1, <1>2, SetInduction
<1> QED BY <1>3 DEF S

\* A line is output, and so is what is put together from output.
LEMMA OutputIs ==
  /\ Seq(Letters) \subseteq Output
  /\ \A a \in Output, b \in Output : a \o b \in Output
  /\ <<>> \in Output /\ <<Blank>> \in Output /\ <<"LF">> \in Output /\ <<"t">> \in Output
  /\ Prompt \in Output /\ HelpText \in Output /\ Banner \in Output
<1> DEFINE G == Graphic \cup {"LF"}
<1>1. Blank \in G /\ "LF" \in G /\ "t" \in G /\ ">" \in G
  BY ScreenSizes
<1>2. Seq(Letters) \subseteq Seq(G)
  BY LineIsText, TextIsOutput
<1> HIDE DEF G
<1>3. \A a \in Seq(G), b \in Seq(G) : a \o b \in Seq(G)
  BY ConcatProperties
<1>4. /\ <<>> \in Seq(G) /\ <<Blank>> \in Seq(G) /\ <<"LF">> \in Seq(G) /\ <<"t">> \in Seq(G)
      /\ Prompt \in Seq(G)
  BY <1>1 DEF Prompt
<1>5. HelpText \in Seq(G) /\ Banner \in Seq(G)
  BY <1>1 DEF HelpText, Banner
<1> QED BY <1>2, <1>3, <1>4, <1>5 DEF G, Output

\* What echo prints.
LEMMA EchoIs ==
  ASSUME NEW argv \in Seq(Lines), argv # <<>>
  PROVE  EchoText(argv) \in Output
<1> DEFINE m == Len(argv)
           g == CHOOSE after : EchoedTo(argv, m, after)
<1>1. m \in Nat /\ m >= 1 /\ \A n \in 1 .. m : argv[n] \in Output
  <2>1. m \in Nat /\ m # 0
    BY LenProperties, EmptySeq
  <2>2. \A n \in 1 .. m : argv[n] \in Lines
    BY ElementOfSeq
  <2> QED BY <2>1, <2>2, OutputIs DEF Lines
<1>2. EchoedTo(argv, m, g)
  <2>1. \E after : EchoedTo(argv, m, after)
    BY <1>1, EchoedToExists
  <2> QED BY <2>1
<1>3. EchoText(argv) = g[m] \o <<"LF">>
  BY DEF EchoText, EchoedTo
<1> HIDE DEF g
<1> DEFINE S == {n \in Nat : n + 1 <= m => g[n + 1] \in Output}
<1>4. 0 \in S
  <2>1. 0 + 1 \in 1 .. m /\ 0 + 1 = 1
    BY <1>1
  <2>2. g[1] = <<>>
    BY <1>2, <2>1 DEF EchoedTo
  <2> QED BY <2>1, <2>2, OutputIs
<1>5. ASSUME NEW n \in Nat, n \in S
      PROVE  n + 1 \in S
  <2>1. SUFFICES ASSUME n + 1 + 1 <= m
                 PROVE  g[n + 1 + 1] \in Output
    OBVIOUS
  <2> DEFINE i == n + 1 + 1
             sep == IF i < Len(argv) THEN <<Blank>> ELSE <<>>
  <2>2. i \in 1 .. m /\ i # 1 /\ i - 1 = n + 1 /\ n + 1 <= m
    BY <1>1, <2>1
  <2>3. g[n + 1] \in Output /\ argv[i] \in Output /\ sep \in Output
    BY <1>1, <1>5, <2>2, OutputIs
  <2> HIDE DEF i
  <2>4. g[i] = g[i - 1] \o argv[i] \o sep
    BY <1>2, <2>2, Zenon DEF EchoedTo
  <2> HIDE DEF sep
  <2>5. g[i] \in Output
    BY <2>2, <2>3, <2>4, OutputIs
  <2> QED BY <2>5 DEF i
<1> HIDE DEF S
<1>6. m - 1 \in S /\ (m - 1) + 1 = m /\ m <= m
  <2>1. m - 1 \in Nat /\ (m - 1) + 1 = m /\ m <= m
    BY <1>1
  <2> QED BY <1>4, <1>5, <2>1, SetInduction
<1>7. g[m] \in Output
  BY <1>6 DEF S
<1> QED BY <1>3, <1>7, OutputIs

\* clear_screen leaves nothing.
LEMMA ClearedEmpty ==
  ASSUME NEW k, AtCursor(k)
  PROVE  LET q == clear_screen(k)
         IN  AtCursor(q) /\ Empty(q, Position(q))
<1> DEFINE q == clear_screen(k)
<1>1. AtCursor(q) /\ TBUF(q) = Screen(Blank)
  BY ClearedFace DEF AtCursor
<1> HIDE DEF q
<1>2. ASSUME NEW p \in Places
      PROVE  CellAt(q, p) = Blank
  <2>1. PICK r \in Rows, c \in Cols : p \div VGA_WIDTH = r /\ p % VGA_WIDTH = c
    BY PlaceFound
  <2>2. Screen(Blank)[r][c] = Blank
    BY DEF Screen, Line
  <2> QED BY <1>1, <2>1, <2>2 DEF CellAt
<1> QED BY <1>1, <1>2 DEF Empty, q

\* A command leaves nothing behind the cursor.
LEMMA CommandRun ==
  ASSUME NEW k, AtCursor(k), NEW argv \in Seq(Lines), argv # <<>>
  PROVE  LET q == RunCommand(k, argv)
         IN  AtCursor(q) /\ (Empty(k, Position(k)) => Empty(q, Position(q)))
<1> DEFINE word == argv[1]
           none == <<"LF", "t", "LF">>
           Kept(q) == AtCursor(q) /\ (Empty(k, Position(k)) => Empty(q, Position(q)))
<1>1. Unknown(word) \in Output
  <2>1. word \in Lines
    <3>1. Len(argv) \in Nat /\ Len(argv) # 0
      BY LenProperties, EmptySeq
    <3>2. 1 \in 1 .. Len(argv)
      BY <3>1
    <3> QED BY <3>2, ElementOfSeq
  <2>2. none \in Output
    BY ScreenSizes DEF Output
  <2> HIDE DEF word, none
  <2>3. Unknown(word) = <<"t">> \o word \o none
    BY DEF Unknown, none
  <2> QED BY <2>1, <2>2, <2>3, OutputIs DEF Lines
<1>2. \A str \in Output : Kept(print_str(k, str))
  BY OutputPrinted DEF Output
<1>3. Kept(clear_screen(k))
  BY ClearedEmpty
<1> HIDE DEF Kept
<1>4. /\ Kept(print_str(k, EchoText(argv))) /\ Kept(print_str(k, HelpText))
      /\ Kept(print_str(k, Unknown(word)))
  BY <1>1, <1>2, EchoIs, OutputIs
<1>5. Kept(RunCommand(k, argv))
  BY <1>3, <1>4 DEF RunCommand
<1> QED BY <1>5 DEF Kept

\* An empty line, where nothing is behind the cursor.
LEMMA NewLineShown ==
  ASSUME NEW q, AtCursor(q), Empty(q, Position(q)), NEW j, j.cmd_pos = 0, j.cursor_pos = 0
  PROVE  \E d \in Nat : LineAt(q, j, d)
<1> DEFINE P == Position(q)
<1>1. P \in Nat /\ P + 0 = P /\ P <= CellCount
  BY CursorPlace, ScreenSizes
<1> HIDE DEF P
<1>2. ~(0 < 0) /\ \A i \in 0 .. (0 - 1) : FALSE
  OBVIOUS
<1>3. LineAt(q, j, P)
  BY <1>1, <1>2 DEF LineAt, P
<1> QED BY <1>1, <1>3

\* The row below the line's last one is empty.
LEMMA BelowLine ==
  ASSUME NEW k, AtCursor(k), NEW e \in Nat, e < CellCount, e \div VGA_WIDTH <= k.cursor_row,
         Empty(k, e)
  PROVE  Empty(k, (k.cursor_row + 1) * VGA_WIDTH)
<1> DEFINE w == VGA_WIDTH
           row == k.cursor_row
           next == (row + 1) * w
<1>1. w \in Nat \ {0} /\ row \in Nat /\ CellCount \in Nat
  BY ScreenSizes DEF AtCursor, Rows
<1>2. e \in Places
  BY <1>1 DEF Places
<1>3. PICK r \in Rows, c \in Cols : e = r * w + c /\ e \div w = r
  BY <1>2, PlaceFound
<1>4. r \in Nat /\ c \in Nat /\ c < w /\ r <= row
  BY <1>3, ScreenSizes DEF Rows, Cols
<1> HIDE DEF w, row
<1>5. r * w <= row * w /\ next = row * w + w
  BY <1>1, <1>4
<1>6. r * w \in Nat /\ row * w \in Nat
  BY <1>1, <1>4
<1> DEFINE a == r * w
           d == row * w
<1>7. a <= d /\ next = d + w /\ a \in Nat /\ d \in Nat /\ e = a + c
  BY <1>3, <1>5, <1>6
<1> HIDE DEF a, d, next
<1>8. e <= next /\ next \in Int /\ e \in Int
  BY <1>1, <1>4, <1>7
<1>9. Empty(k, next)
  BY <1>8, EmptyFrom
<1> QED BY <1>9 DEF next, row, w

-----------------------------------------------------------------------------
(***************************************************************************)
(* The console at every key                                                *)
(***************************************************************************)

\* The console that shell_init leaves.
LEMMA InitConsole ==
  ASSUME Init
  PROVE  AtCursor(con)
<1> DEFINE x == clear_screen(PowerOn)
           y == clear_screen(x)
           str == Banner \o Prompt
<1>1. AtCursor(x)
  BY PowerOnQuiet, ClearedEmpty
<1> HIDE DEF x
<1>2. AtCursor(y)
  BY <1>1, ClearedEmpty
<1> HIDE DEF y
<1>3. str \in Output
  BY OutputIs
<1> HIDE DEF str
<1>4. AtCursor(print_str(y, str))
  BY <1>2, <1>3, OutputPrinted DEF Output
<1> QED BY <1>4 DEF Init, x, y, str

\* What a key leaves: a console in order, on which the line can be seen if it
\* could be before and the key is none of the exceptions.
KeyShows ==
  /\ AtCursor(con')
  /\ \A b \in Nat :
       /\ LineAt(con, sh, b)
       /\ con'.tty_cur = con.tty_cur
       /\ b + sh.cmd_pos < CellCount /\ b + sh'.cmd_pos < CellCount
       /\ UpKey \/ DownKey => sh.cursor_pos = sh.cmd_pos
       /\ Execute => (b + sh.cmd_pos) \div VGA_WIDTH <= con.cursor_row
       => \E d \in Nat : LineAt(con', sh', d)

\* A printable character.
LEMMA TypeKey ==
  ASSUME IInv, AtCursor(con), NEW c \in Letters, Type(c)
  PROVE  KeyShows
<1>1. ShellInv(sh) /\ HasRoom(sh) /\ sh' = Inserted(sh, c)
  BY DEF IInv, Type
<1> DEFINE j == Inserted(sh, c)
           typed == print_char_color(con, c)
           q == IF j.cursor_pos < j.cmd_pos THEN redraw_from_cursor(typed, j) ELSE typed
<1>2. AtCursor(q) /\ Follows(con, sh, q, j)
  BY <1>1, TypeShows
<1>3. con' = q
  BY <1>1 DEF Type
<1> HIDE DEF q, j
<1>4. sh' = j
  BY <1>1 DEF j
<1> QED BY <1>2, <1>3, <1>4 DEF KeyShows, Follows

\* Backspace and Delete.
LEMMA EraseKeys ==
  ASSUME IInv, AtCursor(con), Backspaced \/ Delete
  PROVE  KeyShows
<1>1. /\ ShellInv(sh) /\ sh.cursor_pos \in Nat /\ sh.cmd_pos \in Nat
      /\ sh.cursor_pos <= sh.cmd_pos
  BY ShellPlaces DEF IInv
<1>2. ASSUME NEW p \in Nat, p < sh.cmd_pos, NEW x, AtCursor(x), SameText(con, x),
             \A b \in Nat : LineAt(con, sh, b) => Position(x) = b + p,
             sh' = Without(sh, p), con' = redraw_from_cursor(x, sh')
      PROVE  KeyShows
  <2> DEFINE j == Without(sh, p)
             q == redraw_from_cursor(x, j)
  <2>1. AtCursor(q) /\ Follows(con, sh, q, j)
    BY <1>1, <1>2, EraseShows
  <2>2. con' = q /\ sh' = j
    BY <1>2
  <2> HIDE DEF j, q
  <2> QED BY <2>1, <2>2 DEF KeyShows, Follows
<1>3. CASE Backspaced
  <2> DEFINE p == sh.cursor_pos - 1
             x == move_cursor_left(con)
  <2>1. p \in Nat /\ p < sh.cmd_pos /\ sh.cursor_pos = p + 1
    BY <1>1, <1>3 DEF Backspaced
  <2>2. sh' = Without(sh, p) /\ con' = redraw_from_cursor(x, sh')
    BY <1>3 DEF Backspaced
  <2>3. /\ SameText(con, x) /\ AtCursor(x)
        /\ Position(con) > 0 => Position(x) = Position(con) - 1
    BY MovedLeft
  <2> HIDE DEF p, x
  <2>4. ASSUME NEW b \in Nat, LineAt(con, sh, b)
        PROVE  Position(x) = b + p
    <3> DEFINE P == Position(con)
    <3>1. P = b + (p + 1)
      BY <2>1, <2>4 DEF LineAt
    <3> HIDE DEF P
    <3>2. P > 0 /\ P - 1 = b + p
      BY <2>1, <3>1
    <3> QED BY <2>3, <3>2 DEF P
  <2> QED BY <1>2, <2>1, <2>2, <2>3, <2>4
<1>4. CASE Delete
  <2> DEFINE p == sh.cursor_pos
  <2>1. p \in Nat /\ p < sh.cmd_pos /\ sh' = Without(sh, p) /\ con' = redraw_from_cursor(con, sh')
    BY <1>1, <1>4 DEF Delete
  <2>2. SameText(con, con)
    BY DEF SameText, SameTtys, AtCursor
  <2>3. \A b \in Nat : LineAt(con, sh, b) => Position(con) = b + p
    BY DEF LineAt
  <2> HIDE DEF p
  <2> QED BY <1>2, <2>1, <2>2, <2>3
<1> QED BY <1>3, <1>4

\* The keys that only move the cursor.
LEMMA MoveKeys ==
  ASSUME IInv, AtCursor(con), LeftKey \/ RightKey \/ Home \/ End
  PROVE  KeyShows
<1> DEFINE m == sh.cmd_pos
           at == sh.cursor_pos
           P == Position(con)
<1>1. ShellInv(sh) /\ at \in Nat /\ m \in Nat /\ at <= m /\ CellCount \in Nat
  BY ShellPlaces, ScreenSizes DEF IInv
<1>2. ASSUME NEW b \in Nat, LineAt(con, sh, b)
      PROVE  P = b + at /\ (at < m => con.cursor_col < VGA_WIDTH)
  BY <1>2 DEF LineAt
<1>3. ASSUME NEW p \in 0 .. m, SameText(con, con'), AtCursor(con'),
             \A b \in Nat : LineAt(con, sh, b) /\ b + m < CellCount =>
               Position(con') = b + p /\ (p < m => con'.cursor_col < VGA_WIDTH),
             sh' = [sh EXCEPT !.cursor_pos = p]
      PROVE  KeyShows
  <2>1. Follows(con, sh, con', sh')
    BY <1>1, <1>3, MoveShows
  <2> QED BY <1>3, <2>1 DEF KeyShows, Follows
<1>4. CASE LeftKey
  <2> DEFINE p == at - 1
  <2>1. p \in 0 .. m /\ at > 0
    BY <1>1, <1>4 DEF LeftKey
  <2>2. sh' = [sh EXCEPT !.cursor_pos = p] /\ con' = move_cursor_left(con)
    BY <1>4 DEF LeftKey
  <2>3. /\ SameText(con, con') /\ AtCursor(con')
        /\ P > 0 => Position(con') = P - 1 /\ con'.cursor_col < VGA_WIDTH
    BY <2>2, MovedLeft
  <2> HIDE DEF P, m, at
  <2>4. ASSUME NEW b \in Nat, LineAt(con, sh, b)
        PROVE  Position(con') = b + p /\ con'.cursor_col < VGA_WIDTH
    <3>1. P = b + at
      BY <1>2, <2>4
    <3>2. P > 0 /\ P - 1 = b + p
      BY <1>1, <2>1, <3>1
    <3> QED BY <2>3, <3>2
  <2> HIDE DEF p
  <2> QED BY <1>3, <2>1, <2>2, <2>3, <2>4
<1>5. CASE RightKey
  <2> DEFINE p == at + 1
  <2>1. p \in 0 .. m /\ at < m
    BY <1>1, <1>5 DEF RightKey
  <2>2. sh' = [sh EXCEPT !.cursor_pos = p] /\ con' = move_cursor_right(con)
    BY <1>5 DEF RightKey
  <2>3. /\ SameText(con, con') /\ AtCursor(con')
        /\ con.cursor_col < VGA_WIDTH /\ P + 1 < CellCount =>
             Position(con') = P + 1 /\ con'.cursor_col < VGA_WIDTH
    BY <2>2, MovedRight
  <2> HIDE DEF P, m, at
  <2>4. ASSUME NEW b \in Nat, LineAt(con, sh, b), b + m < CellCount
        PROVE  Position(con') = b + p /\ con'.cursor_col < VGA_WIDTH
    <3>1. P = b + at /\ con.cursor_col < VGA_WIDTH
      BY <1>2, <2>1, <2>4
    <3>2. P + 1 < CellCount /\ P + 1 = b + p
      BY <1>1, <2>1, <2>4, <3>1
    <3> QED BY <2>3, <3>1, <3>2
  <2> HIDE DEF p
  <2> QED BY <1>3, <2>1, <2>2, <2>3, <2>4
<1>6. CASE Home
  <2>1. sh' = [sh EXCEPT !.cursor_pos = 0] /\ con' = LeftBy(con, at)
    BY <1>6 DEF Home
  <2>2. /\ SameText(con, con') /\ AtCursor(con') /\ (at = 0 => con' = con)
        /\ at <= P => Position(con') = P - at /\ (at > 0 => con'.cursor_col < VGA_WIDTH)
    BY <1>1, <2>1, LeftMoves
  <2> HIDE DEF P, m, at
  <2>3. ASSUME NEW b \in Nat, LineAt(con, sh, b)
        PROVE  Position(con') = b + 0 /\ (0 < m => con'.cursor_col < VGA_WIDTH)
    <3>1. P = b + at /\ (at < m => con.cursor_col < VGA_WIDTH)
      BY <1>2, <2>3
    <3>2. at <= P /\ P - at = b + 0 /\ (at = 0 \/ at > 0)
      BY <1>1, <3>1
    <3> QED BY <2>2, <3>1, <3>2
  <2>4. 0 \in 0 .. m
    BY <1>1
  <2> QED BY <1>3, <2>1, <2>2, <2>3, <2>4
<1>7. CASE End
  <2> DEFINE n == m - at
  <2>1. sh' = [sh EXCEPT !.cursor_pos = m] /\ con' = RightBy(con, n)
    BY <1>7 DEF End
  <2>2. n \in Nat /\ at + n = m /\ (n = 0 \/ n > 0) /\ (n > 0 => at < m)
    BY <1>1
  <2> HIDE DEF n
  <2>3. /\ SameText(con, con') /\ AtCursor(con') /\ (n = 0 => con' = con)
        /\ con.cursor_col < VGA_WIDTH /\ P + n < CellCount => Position(con') = P + n
    BY <2>1, <2>2, RightMoves
  <2> HIDE DEF P, m, at
  <2>4. ASSUME NEW b \in Nat, LineAt(con, sh, b), b + m < CellCount
        PROVE  Position(con') = b + m /\ ~(m < m)
    <3>1. P = b + at /\ (at < m => con.cursor_col < VGA_WIDTH)
      BY <1>2, <2>4
    <3>2. P + n < CellCount /\ P + n = b + m /\ ~(m < m) /\ (n = 0 => P = b + m)
      BY <1>1, <2>2, <2>4, <3>1
    <3>3. CASE n = 0
      BY <2>3, <3>2, <3>3 DEF P
    <3>4. CASE n > 0
      BY <2>2, <2>3, <3>1, <3>2, <3>4
    <3> QED BY <2>2, <3>2, <3>3, <3>4
  <2>5. m \in 0 .. m
    BY <1>1
  <2> QED BY <1>3, <2>1, <2>3, <2>4, <2>5
<1> QED BY <1>4, <1>5, <1>6, <1>7

\* A line from the history.
LEMMA RecallKeys ==
  ASSUME IInv, AtCursor(con), IInv', NEW index, NEW saved, NEW cmd \in Short,
         ShowCommand([sh EXCEPT !.history_current = index, !.saved_cmd = saved], cmd),
         UpKey \/ DownKey
  PROVE  KeyShows
<1> DEFINE s == [sh EXCEPT !.history_current = index, !.saved_cmd = saved]
           n == Len(cmd)
<1>1. /\ ShellInv(sh) /\ ShellInv(sh')
      /\ s.cmd_buffer = sh.cmd_buffer /\ s.cmd_pos = sh.cmd_pos /\ s.cursor_pos = sh.cursor_pos
  BY DEF IInv, ShellInv, Shells
<1>2. /\ sh' = [s EXCEPT !.cmd_buffer = str_copy(@, cmd), !.cmd_pos = n, !.cursor_pos = n]
      /\ con' = RecalledOn(con, s, cmd)
  BY DEF ShowCommand, RecalledOn
<1>3. con' = RecalledOn(con, sh, cmd)
  <2> HIDE DEF s
  <2> QED BY <1>1, <1>2 DEF RecalledOn
<1>4. sh'.cursor_pos = n /\ sh'.cmd_pos = n
  BY <1>1, <1>2 DEF ShellInv, Shells
<1>5. Text(sh') = cmd
  <2>1. sh'.cmd_buffer = str_copy(sh.cmd_buffer, cmd)
    BY <1>1, <1>2 DEF ShellInv, Shells
  <2>2. Text(sh') \in Seq(Letters) /\ Len(Text(sh')) = n
    BY <1>1, <1>4, LineString
  <2>3. cmd \in Seq(Letters) /\ n \in Nat /\ n <= MAX_CMD_LEN - 1 /\ DOMAIN sh.cmd_buffer = Indices
    BY <1>1 DEF Short, ShellInv, Shells, Buffers
  <2>4. ASSUME NEW i \in 1 .. n
        PROVE  Text(sh')[i] = cmd[i]
    <3>1. i - 1 \in Indices /\ i - 1 < n /\ (i - 1) + 1 = i
      BY <2>3, Sizes DEF Indices
    <3>2. Text(sh')[i] = sh'.cmd_buffer[i - 1]
      BY <1>4 DEF Text
    <3>3. sh'.cmd_buffer[i - 1] = cmd[(i - 1) + 1]
      BY <2>1, <2>3, <3>1 DEF str_copy
    <3> QED BY <3>1, <3>2, <3>3
  <2> QED BY <2>2, <2>3, <2>4, SeqEqual
<1> DEFINE q == RecalledOn(con, sh, cmd)
<1>6. AtCursor(con') /\ (sh.cursor_pos = sh.cmd_pos => Follows(con, sh, con', sh'))
  <2>1. \A j : ShellInv(j) /\ Text(j) = cmd /\ j.cursor_pos = n =>
          AtCursor(q) /\ (sh.cursor_pos = sh.cmd_pos => Follows(con, sh, q, j))
    BY <1>1, RecallShows
  <2> HIDE DEF q
  <2>2. con' = q
    BY <1>3 DEF q
  <2> QED BY <1>1, <1>4, <1>5, <2>1, <2>2
<1> QED BY <1>6 DEF KeyShows, Follows

\* Up and Down.
LEMMA UpDownKeys ==
  ASSUME IInv, AtCursor(con), IInv', UpKey \/ DownKey
  PROVE  KeyShows
<1>1. /\ ShellInv(sh) /\ sh \in Shells /\ sh.cmd_history \in Seq(Short) /\ sh.saved_cmd \in Short
      /\ sh.history_current \in -1 .. (Len(sh.cmd_history) - 1)
  BY DEF IInv, ShellInv, Shells
<1>2. Len(sh.cmd_history) \in Nat /\ (sh.cmd_history # <<>> => Len(sh.cmd_history) > 0)
  BY <1>1, EmptySeq, LenProperties
<1>3. CASE UpKey
  <2> DEFINE index == Least(sh.history_current + 1, Len(sh.cmd_history) - 1)
             saved == IF sh.history_current = -1 THEN StringAt(sh.cmd_buffer, 0) ELSE sh.saved_cmd
             cmd == sh.cmd_history[index + 1]
  <2>1. /\ sh.cmd_history # <<>>
        /\ ShowCommand([sh EXCEPT !.history_current = index, !.saved_cmd = saved], cmd)
    BY <1>3 DEF UpKey
  <2>2. index \in 0 .. (Len(sh.cmd_history) - 1)
    BY <1>1, <1>2, <2>1 DEF Least
  <2> HIDE DEF index, saved
  <2>3. cmd \in Short
    BY <2>2, HistoryEntry
  <2> HIDE DEF cmd
  <2> QED BY <1>3, <2>1, <2>3, RecallKeys
<1>4. CASE DownKey
  <2> DEFINE index == IF sh.history_current > -1 THEN sh.history_current - 1 ELSE -1
             saved == sh.saved_cmd
             cmd == IF index = -1 THEN sh.saved_cmd ELSE sh.cmd_history[index + 1]
             s == [sh EXCEPT !.history_current = index, !.saved_cmd = saved]
             r == [sh EXCEPT !.history_current = index]
  <2>1. ShowCommand(r, cmd)
    BY <1>4 DEF DownKey
  <2>2. index # -1 => index \in 0 .. (Len(sh.cmd_history) - 1)
    BY <1>1, <1>2
  <2> HIDE DEF index
  <2>3. cmd \in Short
    BY <1>1, <2>2, HistoryEntry
  <2>4. r = s
    BY <1>1 DEF Shells
  <2>5. ShowCommand(s, cmd)
    BY <2>1, <2>4
  <2> HIDE DEF cmd
  <2> QED BY <1>4, <2>3, <2>5, RecallKeys
<1> QED BY <1>3, <1>4

\* Enter on a line with text.
LEMMA ExecuteKey ==
  ASSUME IInv, AtCursor(con), IInv', Execute
  PROVE  KeyShows
<1> DEFINE argv == ArgvOf(sh)
           x == print_char_color(con, "LF")
           y == RunCommand(x, argv)
           e == (con.cursor_row + 1) * VGA_WIDTH
<1>1. /\ ShellInv(sh) /\ sh.cmd_pos > 0 /\ sh' = Executed(sh) /\ ShellInv(sh')
      /\ con' = IF argv = <<>> THEN x ELSE print_str(y, Prompt)
  BY DEF IInv, Execute, Executed, ArgvOf
<1>2. sh'.cmd_pos = 0 /\ sh'.cursor_pos = 0
  BY <1>1, ExecutedKeeps
<1>3. argv \in Seq(Lines)
  <2>1. sh'.argv = argv
    BY <1>1 DEF Executed, ShellInv, Shells
  <2> QED BY <1>1, <2>1 DEF ShellInv, Shells
<1> HIDE DEF argv
<1>4. AtCursor(x) /\ (Empty(con, e) => Empty(x, Position(x)))
  BY PrintedNewline
<1> HIDE DEF x, e
<1>5. AtCursor(con') /\ (Empty(x, Position(x)) => Empty(con', Position(con')))
  <2>1. CASE argv = <<>>
    BY <1>1, <1>4, <2>1
  <2>2. CASE argv # <<>>
    <3>1. AtCursor(y) /\ (Empty(x, Position(x)) => Empty(y, Position(y)))
      BY <1>3, <1>4, <2>2, CommandRun
    <3> HIDE DEF y
    <3>2. con' = print_str(y, Prompt)
      BY <1>1, <2>2
    <3>3. Prompt \in Seq(Graphic \cup {"LF"})
      BY OutputIs DEF Output
    <3>4. AtCursor(con') /\ (Empty(y, Position(y)) => Empty(con', Position(con')))
      BY <3>1, <3>2, <3>3, OutputPrinted
    <3> QED BY <3>1, <3>4
  <2> QED BY <2>1, <2>2
<1>6. ASSUME NEW b \in Nat, LineAt(con, sh, b), b + sh.cmd_pos < CellCount,
             (b + sh.cmd_pos) \div VGA_WIDTH <= con.cursor_row
      PROVE  \E d \in Nat : LineAt(con', sh', d)
  <2>1. b + sh.cmd_pos \in Nat /\ Empty(con, b + sh.cmd_pos)
    BY <1>1, <1>6, ShellPlaces DEF LineAt
  <2>2. Empty(con, e)
    BY <1>6, <2>1, BelowLine DEF e
  <2>3. Empty(con', Position(con'))
    BY <1>4, <1>5, <2>2
  <2>4. \A q, j : AtCursor(q) /\ Empty(q, Position(q)) /\ j.cmd_pos = 0 /\ j.cursor_pos = 0 =>
          \E d \in Nat : LineAt(q, j, d)
    BY NewLineShown
  <2> QED BY <1>2, <1>5, <2>3, <2>4
<1> QED BY <1>5, <1>6 DEF KeyShows

\* Enter on an empty line, and the keys of the terminals.
LEMMA OtherKeys ==
  ASSUME IInv, AtCursor(con), EmptyEnter \/ (\E t \in Ttys : FunctionKey(t)) \/ UNCHANGED vars
  PROVE  KeyShows
<1>1. CASE EmptyEnter
  <2> DEFINE str == <<"LF">> \o Prompt
  <2>1. sh.cmd_pos = 0 /\ sh.cursor_pos = 0 /\ sh' = sh /\ con' = print_str(con, str)
    BY <1>1, ShellPlaces DEF EmptyEnter, IInv
  <2>2. str \in Seq(Graphic \cup {"LF"})
    BY OutputIs DEF Output
  <2> HIDE DEF str
  <2>3. AtCursor(con') /\ (Empty(con, Position(con)) => Empty(con', Position(con')))
    BY <2>1, <2>2, OutputPrinted
  <2>4. ASSUME NEW b \in Nat, LineAt(con, sh, b)
        PROVE  \E d \in Nat : LineAt(con', sh', d)
    <3>1. Position(con) = b + 0 /\ Empty(con, b + 0)
      BY <2>1, <2>4 DEF LineAt
    <3>2. Empty(con', Position(con'))
      BY <2>3, <3>1
    <3>3. \A q, j : AtCursor(q) /\ Empty(q, Position(q)) /\ j.cmd_pos = 0 /\ j.cursor_pos = 0 =>
            \E d \in Nat : LineAt(q, j, d)
      BY NewLineShown
    <3> QED BY <2>1, <2>3, <3>2, <3>3
  <2> QED BY <2>3, <2>4 DEF KeyShows
<1>2. ASSUME NEW t \in Ttys, FunctionKey(t)
      PROVE  KeyShows
  <2>1. con' = vt_switch(con, t) /\ sh' = sh
    BY <1>2 DEF FunctionKey
  <2>2. AtCursor(con') /\ con'.tty_cur = t /\ (t = con.tty_cur => con' = con)
    BY <2>1, SwitchedFace
  <2> QED BY <2>1, <2>2 DEF KeyShows
<1>3. CASE UNCHANGED vars
  BY <1>3 DEF KeyShows, vars
<1> QED BY <1>1, <1>2, <1>3

\* Every key.
LEMMA EveryKey ==
  ASSUME IInv, AtCursor(con), [Next]_vars
  PROVE  KeyShows
<1>1. IInv'
  BY NextStep DEF Good
<1>2. CASE EditKey
  BY <1>2, TypeKey, EraseKeys, MoveKeys DEF EditKey
<1>3. CASE UpKey \/ DownKey
  BY <1>1, <1>3, UpDownKeys
<1>4. CASE Execute
  BY <1>1, <1>4, ExecuteKey
<1>5. CASE EmptyEnter \/ (\E t \in Ttys : FunctionKey(t)) \/ UNCHANGED vars
  BY <1>5, OtherKeys
<1> QED BY <1>2, <1>3, <1>4, <1>5 DEF Next

\* The console stays in order at every key: its cursor on the screen or just
\* behind a row, and no view of the history open.
THEOREM ShellConsole == Spec => []AtCursor(con)
<1>1. Init => AtCursor(con)
  BY InitConsole
<1>2. IInv /\ AtCursor(con) /\ [Next]_vars => AtCursor(con)'
  BY EveryKey DEF KeyShows
<1> QED BY <1>1, <1>2, SpecIInv, PTL DEF Spec

\* The line that is edited and the line that is seen stay the same at every
\* key that leaves the terminal where it is, over any number of rows and for
\* every size of the screen, but for the exceptions that the property names:
\* redraw_from_cursor, move_cursor_to, history_show and shell_execute of
\* shell.c move the cursor of console.c over exactly the cells of the line.
THEOREM ShellLineStaysShown == Spec => LineStaysShown
<1> DEFINE Shows ==
      /\ LineShown
      /\ con'.tty_cur = con.tty_cur
      /\ \A n \in {sh.cmd_pos, sh'.cmd_pos} : LineStart + n < CellCount
      /\ UpKey \/ DownKey => sh.cursor_pos = sh.cmd_pos
      /\ Execute => (LineStart + sh.cmd_pos) \div VGA_WIDTH <= con.cursor_row
      => LineShown'
<1>1. IInv /\ AtCursor(con) /\ [Next]_vars => [Shows]_vars
  <2> SUFFICES ASSUME IInv, AtCursor(con), [Next]_vars,
                      LineShown,
                      con'.tty_cur = con.tty_cur,
                      \A n \in {sh.cmd_pos, sh'.cmd_pos} : LineStart + n < CellCount,
                      UpKey \/ DownKey => sh.cursor_pos = sh.cmd_pos,
                      Execute => (LineStart + sh.cmd_pos) \div VGA_WIDTH <= con.cursor_row
               PROVE  LineShown'
    OBVIOUS
  <2>1. ShellInv(sh) /\ ShellInv(sh') /\ KeyShows /\ AtCursor(con')
    BY NextStep, EveryKey DEF Good, IInv, KeyShows
  <2>2. PICK b \in Nat : LineAt(con, sh, b)
    BY <2>1, ShownIs, SeenAt
  <2>3. LineStart = b
    <3> DEFINE P == Position(con)
    <3>1. P = b + sh.cursor_pos /\ sh.cursor_pos \in Nat
      BY <2>1, <2>2, ShellPlaces DEF LineAt
    <3> HIDE DEF P
    <3>2. P - sh.cursor_pos = b
      BY <3>1
    <3> QED BY <3>2 DEF LineStart, P
  <2>4. \E d \in Nat : LineAt(con', sh', d)
    BY <2>1, <2>2, <2>3 DEF KeyShows
  <2>5. \A k, s : AtCursor(k) /\ ShellInv(s) => (LineSeen(k, s) <=> \E d \in Nat : LineAt(k, s, d))
    BY SeenAt
  <2>6. LineSeen(con', sh')
    BY <2>1, <2>4, <2>5
  <2> QED BY <2>6, ShownIs
<1> QED BY <1>1, SpecIInv, ShellConsole, PTL DEF Spec, LineStaysShown
=============================================================================
