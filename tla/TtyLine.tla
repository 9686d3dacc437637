------------------------------ MODULE TtyLine ------------------------------
(***************************************************************************)
(* The line discipline of fs/tty.c on one terminal: tty_input edits and    *)
(* echoes, tty_read hands out finished lines (canonical mode) or bytes     *)
(* (raw mode), and ioctls change the mode.  Beside the buffer and its      *)
(* flags runs the editor a user has in mind: finished lines and the line   *)
(* being typed, and what the screen shows of it.                           *)
(***************************************************************************)
EXTENDS Integers, Sequences, SequencesExt

CONSTANTS LineSize,     \* TTY_BUF_SIZE (bound)
          MaxKeys       \* characters typed (bound)

\* "a" is ordinary, "c" is a control character without a meaning, and the rest
\* are the characters that termios.cc and '\n' give one.
Keys == {"a", "c", "erase", "kill", "eof", "newline", "intr"}

VARIABLES
  lineBuf,     \* buf[0 .. bufsize - 1]
  lineFlags,   \* buf_flag, all of it
  lineCanon,   \* ICANON
  lineWant,    \* history: lines finished and the line being typed (cur)
  lineScreen,  \* history: the cells of the current row of the screen
  lineShown,   \* history: all of cur was echoed on the current row
  lineOdd,     \* history: a raw character took over the flag of an older one
  lineKeys     \* characters typed so far

lineVars == <<lineBuf, lineFlags, lineCanon, lineWant, lineScreen, lineShown, lineOdd, lineKeys>>

LineInit ==
  /\ lineBuf = <<>> /\ lineFlags = [i \in 1..LineSize |-> FALSE]
  /\ lineCanon = TRUE
  /\ lineWant = [lines |-> <<>>, cur |-> <<>>]
  /\ lineScreen = <<>> /\ lineShown = TRUE /\ lineOdd = FALSE /\ lineKeys = 0

-----------------------------------------------------------------------------
\* SHOULD_ECHOCTL: a control character is shown as two cells.
Cells(k) == IF k \in {"c", "intr"} THEN <<"^", k>> ELSE <<k>>
CutTail(s, n) == SubSeq(s, 1, Len(s) - n)

\* The number of characters that VERASE or VKILL removes: one or all, and never
\* past a flag.
CountPastFlags(k) == IF k = "erase" /\ lineBuf # <<>> THEN 1 ELSE Len(lineBuf)
EraseCount(k) ==
  LET unflagged == Len(lineBuf) - (CHOOSE i \in 0..Len(lineBuf) :
                     /\ i = 0 \/ lineFlags[i]
                     /\ \A j \in i + 1..Len(lineBuf) : ~lineFlags[j])
      count == IF k = "erase" /\ lineBuf # <<>> THEN 1 ELSE Len(lineBuf)
  IN  IF count < unflagged THEN count ELSE unflagged

\* Each removed character is wiped with "\b \b", a control character twice.
Wiped(n) ==
  CutTail(lineScreen, Len(FlattenSeq([i \in 1..n |-> Cells(lineBuf[Len(lineBuf) - n + i])])))

\* tty_push_char.
Push(ch, flag) ==
  /\ lineBuf' = Append(lineBuf, ch)
  /\ lineFlags' = [lineFlags EXCEPT ![Len(lineBuf) + 1] = flag]

Room == Len(lineBuf) < LineSize
Typed == lineKeys < MaxKeys /\ lineKeys' = lineKeys + 1

\* tty_input in canonical mode, one character.
Erase(k) ==
  /\ lineCanon /\ k \in {"erase", "kill"} /\ Typed
  /\ lineBuf' = CutTail(lineBuf, EraseCount(k))
  /\ lineScreen' = Wiped(EraseCount(k))
  /\ lineWant' = [lineWant EXCEPT !.cur = IF k = "erase" /\ @ # <<>> THEN Front(@) ELSE <<>>]
  /\ UNCHANGED <<lineFlags, lineCanon, lineShown, lineOdd>>

EndLine(k) ==
  /\ lineCanon /\ k \in {"eof", "newline"} /\ Typed /\ Room
  /\ Push(k, TRUE)
  /\ lineScreen' = IF k = "newline" THEN <<>> ELSE lineScreen
  /\ lineShown' = TRUE
  /\ lineWant' = [lines |-> Append(lineWant.lines, Append(lineWant.cur, k)), cur |-> <<>>]
  /\ UNCHANGED <<lineCanon, lineOdd>>

\* A writer that may not block is refused; the line end was echoed before.
Refused(k) ==
  /\ lineCanon /\ ~Room /\ k = "newline" /\ Typed
  /\ lineScreen' = <<>> /\ lineShown' = (lineWant.cur = <<>>)
  /\ UNCHANGED <<lineBuf, lineFlags, lineCanon, lineWant, lineOdd>>

\* tty_send_input_signal: the input is flushed in either mode (without NOFLSH).
Interrupt(k) ==
  /\ k = "intr" /\ Typed
  /\ lineBuf' = <<>> /\ lineWant' = [lines |-> <<>>, cur |-> <<>>]
  /\ lineScreen' = IF lineCanon THEN lineScreen \o Cells(k) ELSE lineScreen
  /\ lineShown' = TRUE
  /\ UNCHANGED <<lineFlags, lineCanon, lineOdd>>

Ordinary(k) ==
  /\ lineCanon /\ k \in {"a", "c"} /\ Typed /\ Room
  /\ Push(k, FALSE)
  /\ lineScreen' = lineScreen \o Cells(k)
  /\ lineWant' = [lineWant EXCEPT !.cur = Append(@, k)]
  /\ UNCHANGED <<lineCanon, lineShown, lineOdd>>

\* In raw mode a character is stored as it is, is not echoed and leaves the flag
\* of its place as it was.
Raw(k) ==
  /\ ~lineCanon /\ k # "intr" /\ Typed /\ Room
  /\ lineBuf' = Append(lineBuf, k)
  /\ lineWant' = [lineWant EXCEPT !.cur = Append(@, k)]
  /\ lineShown' = FALSE
  /\ lineOdd' = (lineOdd \/ lineFlags[Len(lineBuf) + 1])
  /\ UNCHANGED <<lineFlags, lineCanon, lineScreen>>

LineInput(k) == Erase(k) \/ EndLine(k) \/ Refused(k) \/ Interrupt(k) \/ Ordinary(k) \/ Raw(k)

-----------------------------------------------------------------------------
\* tty_read_into_buf: the rest of the buffer moves down with its flags; the
\* flags beyond it stay.
Shifted(flags, len, n) == [i \in 1..LineSize |-> IF i <= len - n THEN flags[i + n] ELSE flags[i]]

\* tty_canon_size: the first line, without the end-of-file mark.
CanonSize ==
  LET i == CHOOSE i \in 1..Len(lineBuf) :
             lineFlags[i] /\ \A j \in 1..i - 1 : ~lineFlags[j]
  IN  IF lineBuf[i] = "eof" THEN i - 1 ELSE i

Readable == IF lineCanon THEN \E i \in 1..Len(lineBuf) : lineFlags[i] ELSE lineBuf # <<>>

\* What the user's lines become when n bytes have been read.
TakeLine(lines, cur, n) ==
  IF lines = <<>> THEN [lines |-> <<>>, cur |-> SubSeq(cur, n + 1, Len(cur))]
  ELSE LET flat == FlattenSeq(lines) \o cur
           cut  == {i \in 0..Len(lines) : Len(FlattenSeq(SubSeq(lines, 1, i))) <= n}
           k    == CHOOSE i \in cut : \A j \in cut : j <= i
           past == n - Len(FlattenSeq(SubSeq(lines, 1, k)))
       IN  IF k = Len(lines) THEN [lines |-> <<>>, cur |-> SubSeq(cur, past + 1, Len(cur))]
           ELSE [lines |-> <<SubSeq(lines[k + 1], past + 1, Len(lines[k + 1]))>>
                             \o SubSeq(lines, k + 2, Len(lines)),
                 cur |-> cur]

\* An end-of-file mark that comes to the front is dropped after the read.
EofFirst(buf, flags) == buf # <<>> /\ buf[1] = "eof" /\ flags[1]

LineRead(size) ==
  LET have == IF lineCanon THEN CanonSize ELSE Len(lineBuf)
      n    == IF size < have THEN size ELSE have
      buf  == SubSeq(lineBuf, n + 1, Len(lineBuf))
      flg  == Shifted(lineFlags, Len(lineBuf), n)
      eof  == EofFirst(buf, flg)
      want == TakeLine(lineWant.lines, lineWant.cur, n)
  IN  /\ Readable
      /\ lineBuf' = IF eof THEN Tail(buf) ELSE buf
      /\ lineFlags' = IF eof THEN Shifted(flg, Len(buf), 1) ELSE flg
      /\ lineWant' = IF eof THEN TakeLine(want.lines, want.cur, 1) ELSE want
      /\ UNCHANGED <<lineCanon, lineScreen, lineShown, lineOdd, lineKeys>>

\* TCFLSH, and TCSETS or TCSETSF with the other mode.
SetMode(canon, flush) ==
  /\ lineCanon' = canon
  /\ lineBuf' = IF flush THEN <<>> ELSE lineBuf
  /\ lineWant' = IF flush THEN [lines |-> <<>>, cur |-> <<>>] ELSE lineWant
  /\ lineShown' = (flush \/ lineShown)
  /\ UNCHANGED <<lineFlags, lineScreen, lineOdd, lineKeys>>

LineNext ==
  \/ \E k \in Keys : LineInput(k)
  \/ \E size \in 1..2 : LineRead(size)
  \/ \E canon, flush \in BOOLEAN : SetMode(canon, flush)

LineSpec == LineInit /\ [][LineNext]_lineVars

-----------------------------------------------------------------------------
(* Properties.                                                             *)
\* The buffer is the user's text, in order and with nothing lost or repeated.
TextExact == lineBuf = FlattenSeq(lineWant.lines) \o lineWant.cur

\* The flags of the buffer are the ends of the finished lines.
FlagsExact ==
  \A i \in 1..Len(lineBuf) :
    lineFlags[i] = (\E k \in 1..Len(lineWant.lines) : i = Len(FlattenSeq(SubSeq(lineWant.lines, 1, k))))

\* The row ends with the line being typed.
ScreenExact ==
  lineShown => IsSuffix(FlattenSeq([i \in 1..Len(lineWant.cur) |-> Cells(lineWant.cur[i])]), lineScreen)

\* tty_input, tty_read and the ioctls of fs/tty.c for every mix of typing,
\* reading in pieces and changing modes: a reader gets what the user typed and
\* edited, only in whole lines, an erase never takes back a finished line, and
\* the screen shows the line as it will be read.  Flags and erasing are promised
\* until a raw character inherits an old flag.
LineSafe == lineOdd \/ (TextExact /\ FlagsExact /\ ScreenExact)

\* fs/tty.h says that flags "are created by EOL and EOF characters".
FlagsMarkLineEnds == FlagsExact
=============================================================================
