--------------------------- MODULE TerminalProofs ---------------------------
(***************************************************************************)
(* The inductive invariant is TypeOK, LineIsTyped, BlankBehindCursor and   *)
(* EchoInLine: the echo stops at the NUL behind the line, so it never      *)
(* reads what lies behind the shell's buffer.  LineOnScreen is not needed  *)
(* for the others, and is kept by every step from them.                    *)
(***************************************************************************)
EXTENDS Terminal, TLAPS

EchoInLine ==
    /\ pc \in {"read", "newline"} => k = 0
    /\ pc = "echo" => k <= i

IInv == TypeOK /\ LineIsTyped /\ BlankBehindCursor /\ EchoInLine

-----------------------------------------------------------------------------
LEMMA SizesAreNumbers ==
    /\ Cols \in Nat \ {0} /\ Rows \in Nat \ {0} /\ BufMax \in Nat \ {0}
    /\ VideoSize \in Nat /\ VideoSize = Cols * Rows
<1>1. Cols \in Nat \ {0} /\ Rows \in Nat \ {0} /\ BufMax \in Nat \ {0}
  BY TerminalConstants DEF TerminalConstants
<1>2. VideoSize = Cols * Rows
  BY DEF VideoSize
<1>3. Cols * Rows \in Nat
  BY <1>1
<1> QED BY <1>1, <1>2, <1>3

\* A row that begins on the screen ends on it.
LEMMA RowFits ==
    ASSUME NEW at \in 0 .. VideoSize - 1
    PROVE  at + Cols - (at % Cols) \in at + 1 .. VideoSize
<1>1. Cols \in Nat \ {0} /\ Rows \in Nat \ {0} /\ VideoSize = Cols * Rows
  BY SizesAreNumbers
<1>2. VideoSize \in Nat
  BY SizesAreNumbers
<1>3. at \in Nat /\ at < Cols * Rows
  BY <1>1, <1>2
<1> DEFINE q == at \div Cols
           r == at % Cols
<1>4. q \in Nat /\ r \in 0 .. Cols - 1 /\ at = Cols * q + r
  BY <1>1, <1>3
<1>5. Cols * q < Cols * Rows
  BY <1>1, <1>3, <1>4
<1>6. q < Rows
  BY <1>1, <1>4, <1>5
<1>7. Cols * (q + 1) <= Cols * Rows
  BY <1>1, <1>4, <1>6
<1>8. Cols * (q + 1) = Cols * q + Cols
  BY <1>1, <1>4
<1> HIDE DEF q, r
<1>9. at + Cols - r \in at + 1 .. VideoSize
  BY <1>1, <1>3, <1>4, <1>7, <1>8
<1> QED BY <1>9 DEF r

\* A screen with the cursor at n and nothing behind it, and what putting,
\* beginning a row and erasing make of it.
Screen(s, n) ==
    /\ s \in [0 .. VideoSize - 1 -> Shown] /\ n \in 0 .. VideoSize
    /\ \A c \in n .. VideoSize - 1 : s[c] = " "

LEMMA ScreenBlank ==
    ASSUME NEW n \in 0 .. VideoSize
    PROVE  Screen(Blank, n)
<1>1. VideoSize \in Nat
  BY SizesAreNumbers
<1>2. Blank \in [0 .. VideoSize - 1 -> Shown]
  BY DEF Blank, Shown
<1>3. n .. VideoSize - 1 \subseteq 0 .. VideoSize - 1
  BY <1>1
<1>4. \A c \in n .. VideoSize - 1 : Blank[c] = " "
  BY <1>3 DEF Blank
<1> QED BY <1>2, <1>4 DEF Screen

LEMMA ScreenPut ==
    ASSUME NEW s, NEW at \in 0 .. VideoSize - 1, Screen(s, at), NEW ch \in Shown
    PROVE  Screen([s EXCEPT ![at] = ch], at + 1)
<1>1. VideoSize \in Nat
  BY SizesAreNumbers
<1>2. at + 1 \in 0 .. VideoSize
  BY <1>1
<1>3. ASSUME NEW c \in at + 1 .. VideoSize - 1
      PROVE  c \in 0 .. VideoSize - 1 /\ c \in at .. VideoSize - 1 /\ c # at
  BY <1>1
<1>4. \A c \in at + 1 .. VideoSize - 1 : [s EXCEPT ![at] = ch][c] = " "
  BY <1>3 DEF Screen
<1>5. [s EXCEPT ![at] = ch] \in [0 .. VideoSize - 1 -> Shown]
  BY DEF Screen
<1> QED BY <1>2, <1>4, <1>5 DEF Screen

LEMMA ScreenNewLine ==
    ASSUME NEW s, NEW at \in 0 .. VideoSize - 1, Screen(s, at)
    PROVE  Screen(s, at + Cols - (at % Cols))
<1>1. VideoSize \in Nat
  BY SizesAreNumbers
<1> DEFINE n == at + Cols - (at % Cols)
<1>2. n \in at + 1 .. VideoSize
  BY RowFits
<1> HIDE DEF n
<1>3. n \in 0 .. VideoSize /\ n .. VideoSize - 1 \subseteq at .. VideoSize - 1
  BY <1>1, <1>2
<1>4. Screen(s, n)
  BY <1>3 DEF Screen
<1> QED BY <1>4 DEF n

LEMMA ScreenErase ==
    ASSUME NEW s, NEW n, Screen(s, n), n > 0
    PROVE  Screen([s EXCEPT ![n - 1] = " "], n - 1)
<1>1. VideoSize \in Nat
  BY SizesAreNumbers
<1>n. n \in 0 .. VideoSize
  BY DEF Screen
<1>2. n - 1 \in 0 .. VideoSize /\ n - 1 \in 0 .. VideoSize - 1
  BY <1>1, <1>n
<1>3. ASSUME NEW c \in n - 1 .. VideoSize - 1
      PROVE  c \in 0 .. VideoSize - 1 /\ (c = n - 1 \/ c \in n .. VideoSize - 1)
  BY <1>1, <1>n, <1>2
<1>4. \A c \in n - 1 .. VideoSize - 1 : [s EXCEPT ![n - 1] = " "][c] = " "
  BY <1>3 DEF Screen
<1>5. [s EXCEPT ![n - 1] = " "] \in [0 .. VideoSize - 1 -> Shown]
  BY DEF Screen, Shown
<1> QED BY <1>2, <1>4, <1>5 DEF Screen

\* What tty_putc and tty_rmc do to the screen.
ScreenOK == Screen(cells, idx) /\ cleared \in BOOLEAN

LEMMA PutcKeeps ==
    ASSUME ScreenOK, NEW ch \in Shown \cup {"\n"}, tty_putc(ch)
    PROVE  ScreenOK'
<1> DEFINE full == idx = VideoSize
           at == IF full THEN 0 ELSE idx
           clean == IF full THEN Blank ELSE cells
<1>1. VideoSize \in Nat /\ VideoSize # 0
  <2>1. Cols \in Nat \ {0} /\ Rows \in Nat \ {0} /\ VideoSize \in Nat /\ VideoSize = Cols * Rows
    BY SizesAreNumbers
  <2>2. Cols * Rows # 0
    BY <2>1
  <2> QED BY <2>1, <2>2
<1>2. at \in 0 .. VideoSize - 1
  <2>1. idx \in 0 .. VideoSize
    BY DEF ScreenOK, Screen
  <2> QED BY <1>1, <2>1
<1>3. 0 \in 0 .. VideoSize
  BY <1>1
<1>4. Screen(clean, at)
  BY <1>3, ScreenBlank DEF ScreenOK
<1>5. cleared' \in BOOLEAN
  BY DEF tty_putc, ScreenOK
<1>6. \/ ch = "\n" /\ idx' = at + Cols - (at % Cols) /\ cells' = clean
      \/ ch # "\n" /\ idx' = at + 1 /\ cells' = [clean EXCEPT ![at] = ch]
  BY DEF tty_putc
<1> HIDE DEF at, clean
<1>7. Screen(clean, at + Cols - (at % Cols))
  BY <1>2, <1>4, ScreenNewLine
<1>8. ch \in Shown => Screen([clean EXCEPT ![at] = ch], at + 1)
  BY <1>2, <1>4, ScreenPut
<1>9. Screen(cells', idx')
  BY <1>6, <1>7, <1>8
<1>10. Screen(cells, idx)' <=> Screen(cells', idx')
  BY DEF Screen, VideoSize, Shown
<1> QED BY <1>5, <1>9, <1>10 DEF ScreenOK

LEMMA RmcKeeps ==
    ASSUME ScreenOK, tty_rmc
    PROVE  ScreenOK'
<1>1. Screen(cells, idx)' <=> Screen(cells', idx')
  BY DEF Screen, VideoSize, Shown
<1>2. CASE idx = 0 /\ UNCHANGED screen
  BY <1>1, <1>2 DEF screen, ScreenOK
<1>3. CASE idx > 0 /\ idx' = idx - 1 /\ cells' = [cells EXCEPT ![idx - 1] = " "]
           /\ UNCHANGED cleared
  <2>1. Screen([cells EXCEPT ![idx - 1] = " "], idx - 1)
    BY <1>3, ScreenErase DEF ScreenOK
  <2> QED BY <1>1, <1>3, <2>1 DEF ScreenOK
<1> QED BY <1>2, <1>3 DEF tty_rmc

-----------------------------------------------------------------------------
LEMMA InitIInv == Init => IInv
<1> SUFFICES ASSUME Init PROVE IInv
  OBVIOUS
<1>1. Cols \in Nat \ {0} /\ Rows \in Nat \ {0} /\ BufMax \in Nat \ {0}
      /\ VideoSize \in Nat /\ VideoSize = Cols * Rows
  BY SizesAreNumbers
<1>2. Cols <= Cols * Rows
  BY <1>1
<1>3. Cols \in 0 .. VideoSize /\ 0 \in 0 .. BufMax - 1
  BY <1>1, <1>2
<1>4. Screen(cells, idx)
  BY <1>3, ScreenBlank DEF Init
<1>5. buf \in [0 .. BufMax - 1 -> Keys \cup {"NUL"}] /\ typed \in Seq(Keys)
  BY DEF Init
<1>6. TypeOK /\ BlankBehindCursor
  BY <1>3, <1>4, <1>5 DEF Init, TypeOK, Screen, BlankBehindCursor
<1> QED BY <1>6 DEF Init, IInv, LineIsTyped, EchoInLine

-----------------------------------------------------------------------------
\* A buffer b whose first n places hold the line t, and what typing a
\* character, taking one back and ending the line make of it.
Buffers == [0 .. BufMax - 1 -> Keys \cup {"NUL"}]

Holds(b, n, t) ==
    /\ b \in Buffers /\ n \in 0 .. BufMax - 1 /\ t \in Seq(Keys) /\ n = Len(t)
    /\ \A c \in 0 .. n - 1 : b[c] = t[c + 1]

LEMMA HoldsNothing ==
    ASSUME NEW b \in Buffers
    PROVE  Holds(b, 0, << >>)
<1>1. BufMax \in Nat \ {0}
  BY SizesAreNumbers
<1>2. 0 \in 0 .. BufMax - 1 /\ 0 .. 0 - 1 = {}
  BY <1>1
<1>3. << >> \in Seq(Keys) /\ Len(<< >>) = 0
  OBVIOUS
<1> QED BY <1>2, <1>3 DEF Holds

LEMMA HoldsOneMore ==
    ASSUME NEW b, NEW n, NEW t, Holds(b, n, t), n < BufMax - 1, NEW ch \in Keys
    PROVE  Holds([b EXCEPT ![n] = ch], n + 1, Append(t, ch))
<1>1. BufMax \in Nat /\ n \in 0 .. BufMax - 1 /\ t \in Seq(Keys) /\ n = Len(t)
  BY SizesAreNumbers DEF Holds
<1>2. n + 1 \in 0 .. BufMax - 1
  BY <1>1
<1>3. /\ Append(t, ch) \in Seq(Keys) /\ Len(Append(t, ch)) = n + 1
      /\ Append(t, ch)[n + 1] = ch
      /\ \A j \in 1 .. n : Append(t, ch)[j] = t[j]
  BY <1>1
<1>4. [b EXCEPT ![n] = ch] \in Buffers
  BY DEF Holds, Buffers
<1>5. ASSUME NEW c \in 0 .. n + 1 - 1
      PROVE  [b EXCEPT ![n] = ch][c] = Append(t, ch)[c + 1]
  <2>1. c \in 0 .. BufMax - 1 /\ (c = n \/ (c \in 0 .. n - 1 /\ c # n /\ c + 1 \in 1 .. n))
    BY <1>1
  <2> QED BY <1>3, <2>1 DEF Holds, Buffers
<1> QED BY <1>2, <1>3, <1>4, <1>5 DEF Holds

LEMMA HoldsOneLess ==
    ASSUME NEW b, NEW n, NEW t, Holds(b, n, t), n > 0
    PROVE  Holds(b, n - 1, SubSeq(t, 1, Len(t) - 1))
<1>1. BufMax \in Nat /\ n \in 0 .. BufMax - 1 /\ t \in Seq(Keys) /\ n = Len(t)
  BY SizesAreNumbers DEF Holds
<1> DEFINE u == SubSeq(t, 1, n - 1)
<1>2. n - 1 \in 0 .. BufMax - 1 /\ n - 1 <= n /\ n - 1 \in Nat
  BY <1>1
<1>3. u \in Seq(Keys) /\ Len(u) = n - 1 /\ \A j \in 1 .. n - 1 : u[j] = t[j]
  BY <1>1, <1>2
<1> HIDE DEF u
<1>4. ASSUME NEW c \in 0 .. n - 1 - 1
      PROVE  b[c] = u[c + 1]
  <2>1. c \in 0 .. n - 1 /\ c + 1 \in 1 .. n - 1
    BY <1>1
  <2> QED BY <1>3, <2>1 DEF Holds
<1>5. Holds(b, n - 1, u)
  BY <1>2, <1>3, <1>4 DEF Holds
<1> QED BY <1>1, <1>5 DEF u

LEMMA HoldsEnded ==
    ASSUME NEW b, NEW n, NEW t, Holds(b, n, t)
    PROVE  Holds([b EXCEPT ![n] = "NUL"], n, t) /\ [b EXCEPT ![n] = "NUL"][n] = "NUL"
<1>1. BufMax \in Nat /\ n \in 0 .. BufMax - 1
  BY SizesAreNumbers DEF Holds
<1>2. [b EXCEPT ![n] = "NUL"] \in Buffers
  BY DEF Holds, Buffers
<1>3. ASSUME NEW c \in 0 .. n - 1
      PROVE  c \in 0 .. BufMax - 1 /\ c # n
  BY <1>1
<1>4. \A c \in 0 .. n - 1 : [b EXCEPT ![n] = "NUL"][c] = t[c + 1]
  BY <1>3 DEF Holds, Buffers
<1> QED BY <1>1, <1>2, <1>4 DEF Holds, Buffers

-----------------------------------------------------------------------------
\* The invariant in these terms.
LineOK ==
    /\ pc \in {"prompt", "read", "newline", "echo"} /\ k \in Nat
    /\ buf \in Buffers /\ i \in 0 .. BufMax - 1 /\ typed \in Seq(Keys)
    /\ pc # "prompt" => Holds(buf, i, typed)
    /\ pc \in {"newline", "echo"} => buf[i] = "NUL"
    /\ EchoInLine

LEMMA IInvParts == IInv <=> ScreenOK /\ LineOK
<1>1. TypeOK /\ BlankBehindCursor
      <=> /\ ScreenOK
          /\ pc \in {"prompt", "read", "newline", "echo"} /\ k \in Nat
          /\ buf \in Buffers /\ i \in 0 .. BufMax - 1 /\ typed \in Seq(Keys)
  BY DEF TypeOK, BlankBehindCursor, ScreenOK, Screen, Buffers
<1>2. ASSUME buf \in Buffers, i \in 0 .. BufMax - 1, typed \in Seq(Keys),
             pc \in {"prompt", "read", "newline", "echo"}
      PROVE  LineIsTyped <=> /\ pc # "prompt" => Holds(buf, i, typed)
                             /\ pc \in {"newline", "echo"} => buf[i] = "NUL"
  BY <1>2 DEF LineIsTyped, Holds
<1> QED BY <1>1, <1>2 DEF IInv, LineOK

LEMMA IInvPartsNext == IInv' <=> ScreenOK' /\ LineOK'
  BY IInvParts, PTL

\* Characters the shell puts.
LEMMA KeysShown ==
    /\ Keys \subseteq Shown /\ "NUL" \notin Keys
    /\ \A c \in 1 .. Len(Prompt) : Prompt[c] \in Shown
  BY TerminalConstants DEF TerminalConstants, Shown

LEMMA PrintingKeeps ==
    ASSUME IInv, PrintPrompt \/ NewLine \/ Echo \/ EchoEnds
    PROVE  IInv'
<1>1. ScreenOK /\ LineOK
  BY IInvParts
<1>2. Buffers' = Buffers
  BY DEF Buffers
<1>3. CASE PrintPrompt
  <2>1. k + 1 \in 1 .. Len(Prompt) /\ k + 1 \in Nat
    <3>1. k \in Nat /\ k < Len(Prompt)
      BY <1>1, <1>3 DEF PrintPrompt, LineOK
    <3>2. Len(Prompt) \in Nat
      <4>1. Prompt \in Seq(STRING)
        BY TerminalConstants DEF TerminalConstants
      <4>2. ASSUME NEW S, NEW s \in Seq(S) PROVE Len(s) \in Nat
        OBVIOUS
      <4> QED BY <4>1, <4>2, Zenon
    <3> QED BY <3>1, <3>2
  <2>2. Prompt[k + 1] \in Shown \cup {"\n"}
    BY <2>1, KeysShown
  <2>3. ScreenOK'
    BY <1>1, <1>3, <2>2, PutcKeeps DEF PrintPrompt
  <2>4. LineOK'
    BY <1>1, <1>2, <1>3, <2>1 DEF PrintPrompt, LineOK, EchoInLine, line, Holds
  <2> QED BY <2>3, <2>4, IInvPartsNext
<1>4. CASE NewLine
  <2>1. ScreenOK'
    BY <1>1, <1>4, PutcKeeps DEF NewLine
  <2>2. LineOK'
    BY <1>1, <1>2, <1>4 DEF NewLine, LineOK, EchoInLine, line, Holds
  <2> QED BY <2>1, <2>2, IInvPartsNext
<1>5. CASE Echo
  <2>1. k <= i /\ k # i /\ k \in Nat /\ i \in Nat /\ i \in 0 .. BufMax - 1
    BY <1>1, <1>5 DEF Echo, LineOK, EchoInLine
  <2>2. k \in 0 .. BufMax - 1 /\ k + 1 <= i /\ k + 1 \in Nat
    BY <2>1, SizesAreNumbers
  <2>3. buf[k] \in Shown \cup {"\n"}
    BY <1>1, <1>5, <2>2, KeysShown DEF Echo, LineOK, Buffers
  <2>4. ScreenOK'
    BY <1>1, <1>5, <2>3, PutcKeeps DEF Echo
  <2>5. LineOK'
    BY <1>1, <1>2, <1>5, <2>2 DEF Echo, LineOK, EchoInLine, line, Holds
  <2> QED BY <2>4, <2>5, IInvPartsNext
<1>6. CASE EchoEnds
  <2>1. ScreenOK'
    BY <1>1, <1>6, PutcKeeps DEF EchoEnds
  <2>2. LineOK'
    BY <1>1, <1>2, <1>6 DEF EchoEnds, LineOK, EchoInLine, line
  <2> QED BY <2>1, <2>2, IInvPartsNext
<1> QED BY <1>3, <1>4, <1>5, <1>6

LEMMA EditingKeeps ==
    ASSUME IInv, gets \/ (\E ch \in Keys : TypeChar(ch)) \/ BackspaceEmpty \/ Backspace
                 \/ Enter \/ BufferFull
    PROVE  IInv'
<1>1. ScreenOK /\ LineOK
  BY IInvParts
<1>2. Buffers' = Buffers /\ (Screen(cells, idx)' <=> Screen(cells', idx'))
  BY DEF Buffers, Screen, VideoSize, Shown
<1>3. BufMax \in Nat \ {0}
  BY SizesAreNumbers
<1>4. CASE gets
  <2>1. ScreenOK'
    BY <1>1, <1>2, <1>4 DEF gets, ScreenOK
  <2>2. Holds(buf, 0, << >>)
    BY <1>1, HoldsNothing DEF LineOK
  <2>3. LineOK'
    BY <1>1, <1>2, <1>4, <2>2 DEF gets, LineOK, EchoInLine, Holds
  <2> QED BY <2>1, <2>3, IInvPartsNext
<1>5. ASSUME NEW ch \in Keys, TypeChar(ch)
      PROVE  IInv'
  <2>1. ScreenOK'
    BY <1>1, <1>5, PutcKeeps, KeysShown DEF TypeChar
  <2>2. Holds([buf EXCEPT ![i] = ch], i + 1, Append(typed, ch))
    BY <1>1, <1>5, HoldsOneMore DEF TypeChar, Reading, LineOK
  <2>3. LineOK'
    BY <1>1, <1>2, <1>5, <2>2 DEF TypeChar, Reading, LineOK, EchoInLine, Holds
  <2> QED BY <2>1, <2>3, IInvPartsNext
<1>6. CASE BackspaceEmpty
  <2>1. ScreenOK'
    BY <1>1, <1>2, <1>6 DEF BackspaceEmpty, vars, screen, ScreenOK
  <2>2. LineOK'
    BY <1>1, <1>2, <1>6 DEF BackspaceEmpty, vars, line, LineOK, EchoInLine, Holds
  <2> QED BY <2>1, <2>2, IInvPartsNext
<1>7. CASE Backspace
  <2>1. ScreenOK'
    BY <1>1, <1>7, RmcKeeps DEF Backspace
  <2>2. Holds(buf, i - 1, SubSeq(typed, 1, Len(typed) - 1))
    BY <1>1, <1>7, HoldsOneLess DEF Backspace, Reading, LineOK
  <2>3. LineOK'
    BY <1>1, <1>2, <1>7, <2>2 DEF Backspace, Reading, LineOK, EchoInLine, Holds
  <2> QED BY <2>1, <2>3, IInvPartsNext
<1>8. CASE Enter \/ BufferFull
  <2>1. pc = "read" /\ EndLine
    BY <1>8 DEF Enter, BufferFull, Reading
  <2>2. ScreenOK'
    BY <1>1, <1>2, <2>1 DEF EndLine, screen, ScreenOK
  <2>3. /\ Holds([buf EXCEPT ![i] = "NUL"], i, typed)
        /\ [buf EXCEPT ![i] = "NUL"][i] = "NUL"
    BY <1>1, <2>1, HoldsEnded DEF LineOK
  <2>4. LineOK'
    BY <1>1, <1>2, <2>1, <2>3 DEF EndLine, LineOK, EchoInLine, Holds
  <2> QED BY <2>2, <2>4, IInvPartsNext
<1> QED BY <1>4, <1>5, <1>6, <1>7, <1>8

LEMMA NextIInv == IInv /\ [Next]_vars => IInv'
<1> SUFFICES ASSUME IInv, [Next]_vars PROVE IInv'
  OBVIOUS
<1>1. CASE Next
  BY <1>1, PrintingKeeps, EditingKeeps DEF Next
<1>2. CASE UNCHANGED vars
  BY <1>2 DEF vars, screen, line, IInv, TypeOK, LineIsTyped, BlankBehindCursor,
              EchoInLine, VideoSize, Shown
<1> QED BY <1>1, <1>2

LEMMA Invariance == Spec => []IInv
  BY InitIInv, NextIInv, PTL DEF Spec

-----------------------------------------------------------------------------
\* tty_putc, tty_rmc and readline stay inside the screen and the buffer, for
\* a screen and a buffer of any size and any prompt.
THEOREM TypeCorrect == Spec => []TypeOK
<1>1. IInv => TypeOK
  BY DEF IInv
<1> QED BY <1>1, Invariance, PTL

\* What gets returns is the line as it was edited (asifos_terminal_readline).
THEOREM LineReturned == Spec => []LineIsTyped
<1>1. IInv => LineIsTyped
  BY DEF IInv
<1> QED BY <1>1, Invariance, PTL

\* tty_putc and tty_rmc leave nothing on the screen behind the cursor.
THEOREM NothingBehindCursor == Spec => []BlankBehindCursor
<1>1. IInv => BlankBehindCursor
  BY DEF IInv
<1> QED BY <1>1, Invariance, PTL

-----------------------------------------------------------------------------
(* The line on the screen.  LineOnScreen is kept by every step from IInv:   *)
(* the character put is the next one of the line, and one taken back was   *)
(* the last one shown.                                                     *)

\* Shows, of any screen.
Seen(s, cs, x, cl) ==
    \E n \in 0 .. Len(s) :
        /\ x >= n /\ (n = Len(s) \/ (cl /\ x = n))
        /\ \A c \in 1 .. n : cs[x - c] = s[Len(s) - c + 1]

LEMMA SeenPut ==
    ASSUME ScreenOK, NEW s \in Seq(Keys), NEW ch \in Keys, Shows(s), tty_putc(ch)
    PROVE  Seen(Append(s, ch), cells', idx', cleared')
<1> DEFINE t == Append(s, ch)
<1>1. VideoSize \in Nat /\ VideoSize # 0
  <2>1. Cols \in Nat \ {0} /\ Rows \in Nat \ {0} /\ VideoSize \in Nat /\ VideoSize = Cols * Rows
    BY SizesAreNumbers
  <2>2. Cols * Rows # 0
    BY <2>1
  <2> QED BY <2>1, <2>2
<1>2. ch # "\n"
  BY TerminalConstants DEF TerminalConstants
<1>3. idx \in 0 .. VideoSize /\ cells \in [0 .. VideoSize - 1 -> Shown]
  BY DEF ScreenOK, Screen
<1>4. Len(s) \in Nat
  OBVIOUS
<1>5. /\ Len(t) = Len(s) + 1 /\ t[Len(s) + 1] = ch
      /\ \A j \in 1 .. Len(s) : t[j] = s[j]
  OBVIOUS
<1> HIDE DEF t
<1>6. CASE idx = VideoSize
  <2>1. idx' = 1 /\ cleared' /\ cells' = [Blank EXCEPT ![0] = ch]
    <3>1. idx' = 0 + 1 /\ cleared' = (cleared \/ TRUE) /\ cells' = [Blank EXCEPT ![0] = ch]
      BY <1>2, <1>6, Zenon DEF tty_putc
    <3>2. 0 + 1 = 1
      OBVIOUS
    <3> QED BY <3>1, <3>2, Zenon
  <2>2. 0 \in 0 .. VideoSize - 1
    BY <1>1
  <2>3. cells'[0] = ch
    BY <2>1, <2>2 DEF Blank
  <2>4. 1 \in 0 .. Len(t) /\ Len(t) - 1 + 1 = Len(s) + 1
    BY <1>4, <1>5
  <2>5. \A c \in 1 .. 1 : cells'[1 - c] = t[Len(t) - c + 1]
    BY <1>5, <2>3, <2>4
  <2>6. Seen(t, cells', idx', cleared')
    BY <2>1, <2>4, <2>5 DEF Seen
  <2> QED BY <2>6 DEF t
<1>7. CASE idx # VideoSize
  <2>1. /\ idx' = idx + 1 /\ cells' = [cells EXCEPT ![idx] = ch]
        /\ cleared' = cleared
    BY <1>2, <1>7 DEF tty_putc, ScreenOK
  <2>2. idx \in 0 .. VideoSize - 1
    BY <1>1, <1>3, <1>7
  <2>3. PICK n \in 0 .. Len(s) :
           /\ idx >= n /\ (n = Len(s) \/ (cleared /\ idx = n))
           /\ \A c \in 1 .. n : cells[idx - c] = s[Len(s) - c + 1]
    BY DEF Shows
  <2>4. /\ n + 1 \in 0 .. Len(t) /\ idx' >= n + 1
        /\ n + 1 = Len(t) \/ (cleared' /\ idx' = n + 1)
    BY <1>3, <1>4, <1>5, <2>1, <2>3
  <2>5. ASSUME NEW c \in 1 .. n + 1
        PROVE  cells'[idx' - c] = t[Len(t) - c + 1]
    <3>1. CASE c = 1
      <4>1. idx' - c = idx /\ Len(t) - c + 1 = Len(s) + 1
        BY <1>3, <1>4, <1>5, <2>1, <3>1
      <4>2. cells'[idx] = ch
        BY <1>3, <2>1, <2>2
      <4> QED BY <1>5, <4>1, <4>2
    <3>2. CASE c # 1
      <4>1. /\ c - 1 \in 1 .. n /\ idx' - c = idx - (c - 1) /\ idx - (c - 1) \in 0 .. VideoSize - 1
            /\ idx - (c - 1) # idx
            /\ Len(t) - c + 1 = Len(s) - (c - 1) + 1 /\ Len(s) - (c - 1) + 1 \in 1 .. Len(s)
        BY <1>1, <1>3, <1>4, <1>5, <2>1, <2>2, <2>3, <3>2
      <4>2. cells'[idx - (c - 1)] = cells[idx - (c - 1)]
        BY <1>3, <2>1, <4>1
      <4>3. cells[idx - (c - 1)] = s[Len(s) - (c - 1) + 1]
        BY <2>3, <4>1
      <4> QED BY <1>5, <4>1, <4>2, <4>3
    <3> QED BY <3>1, <3>2
  <2>6. Seen(t, cells', idx', cleared')
    BY <2>4, <2>5 DEF Seen
  <2> QED BY <2>6 DEF t
<1> QED BY <1>6, <1>7

LEMMA SeenErase ==
    ASSUME ScreenOK, NEW s \in Seq(Keys), Len(s) > 0, Shows(s), tty_rmc
    PROVE  Seen(SubSeq(s, 1, Len(s) - 1), cells', idx', cleared')
<1> DEFINE t == SubSeq(s, 1, Len(s) - 1)
<1>1. Len(s) \in Nat /\ VideoSize \in Nat
  BY SizesAreNumbers
<1>0. Len(s) - 1 \in Nat /\ Len(s) - 1 <= Len(s)
  BY <1>1
<1>2. Len(t) = Len(s) - 1 /\ \A j \in 1 .. Len(s) - 1 : t[j] = s[j]
  <2>1. ASSUME NEW m \in Nat, m <= Len(s)
        PROVE  Len(SubSeq(s, 1, m)) = m /\ \A j \in 1 .. m : SubSeq(s, 1, m)[j] = s[j]
    BY <2>1
  <2> QED BY <1>0, <2>1
<1> HIDE DEF t
<1>3. idx \in 0 .. VideoSize /\ cells \in [0 .. VideoSize - 1 -> Shown]
  BY DEF ScreenOK, Screen
<1>4. PICK n \in 0 .. Len(s) :
         /\ idx >= n /\ (n = Len(s) \/ (cleared /\ idx = n))
         /\ \A c \in 1 .. n : cells[idx - c] = s[Len(s) - c + 1]
  BY DEF Shows
<1>5. CASE n = 0
  <2>1. cleared /\ idx = 0
    BY <1>4, <1>5
  <2>2. idx' = 0 /\ cleared'
    BY <2>1 DEF tty_rmc, screen
  <2>3. 0 \in 0 .. Len(t)
    BY <1>1, <1>2
  <2>4. Seen(t, cells', idx', cleared')
    BY <2>2, <2>3 DEF Seen
  <2> QED BY <2>4 DEF t
<1>6. CASE n # 0
  <2>1. idx > 0 /\ n \in 1 .. Len(s)
    BY <1>1, <1>3, <1>4, <1>6
  <2>r. idx' = idx - 1 /\ cells' = [cells EXCEPT ![idx - 1] = " "] /\ cleared' = cleared
    <3>1. idx # 0
      BY <2>1
    <3> QED BY <3>1, Zenon DEF tty_rmc
  <2>2. idx' = idx - 1 /\ cleared' = cleared
    BY <2>r, Zenon
  <2>3. /\ n - 1 \in 0 .. Len(t) /\ idx' >= n - 1
        /\ n - 1 = Len(t) \/ (cleared' /\ idx' = n - 1)
    BY <1>1, <1>2, <1>3, <1>4, <2>1, <2>2
  <2>4. ASSUME NEW c \in 1 .. n - 1
        PROVE  cells'[idx' - c] = t[Len(t) - c + 1]
    <3>1. /\ c + 1 \in 1 .. n /\ idx' - c = idx - (c + 1) /\ idx - (c + 1) \in 0 .. VideoSize - 1
          /\ idx - (c + 1) # idx - 1
          /\ Len(t) - c + 1 = Len(s) - (c + 1) + 1 /\ Len(s) - (c + 1) + 1 \in 1 .. Len(s) - 1
      BY <1>1, <1>2, <1>3, <1>4, <2>1, <2>2
    <3>2. cells'[idx - (c + 1)] = cells[idx - (c + 1)]
      BY <1>3, <2>r, <3>1
    <3>3. cells[idx - (c + 1)] = s[Len(s) - (c + 1) + 1]
      BY <1>4, <3>1
    <3> QED BY <1>2, <3>1, <3>2, <3>3
  <2>5. Seen(t, cells', idx', cleared')
    BY <2>3, <2>4 DEF Seen
  <2> QED BY <2>5 DEF t
<1> QED BY <1>5, <1>6

\* The cursor after a new line stands at the beginning of a row.
LEMMA NewRow ==
    ASSUME ScreenOK, tty_putc("\n")
    PROVE  idx' % Cols = 0
<1> DEFINE at == IF idx = VideoSize THEN 0 ELSE idx
           q == at \div Cols
           r == at % Cols
<1>1. idx' = at + Cols - r
  BY DEF tty_putc
<1>2. Cols \in Nat \ {0} /\ VideoSize \in Nat
  BY SizesAreNumbers
<1>3. at \in Nat
  <2>1. idx \in 0 .. VideoSize
    BY DEF ScreenOK, Screen
  <2> QED BY <1>2, <2>1
<1> HIDE DEF at
<1>4. q \in Nat /\ r \in 0 .. Cols - 1 /\ at = Cols * q + r
  BY <1>2, <1>3
<1> HIDE DEF q, r
<1>5. Cols * q + Cols = Cols * (q + 1) /\ q + 1 \in Nat /\ Cols * q \in Nat
  BY <1>2, <1>4
<1>6. idx' = Cols * (q + 1)
  BY <1>1, <1>2, <1>3, <1>4, <1>5
<1> DEFINE x == Cols * (q + 1)
           d == x \div Cols
           e == x % Cols
<1>7. x \in Nat
  BY <1>2, <1>5
<1>8. d \in Int /\ e \in 0 .. Cols - 1 /\ x = Cols * d + e
  <2> HIDE DEF x
  <2> QED BY <1>2, <1>7
<1> HIDE DEF d, e
<1>9. Cols * (q + 1) = Cols * d + e
  BY <1>8
<1>10. e = 0
  <2> DEFINE m == q + 1
  <2>1. m \in Int /\ Cols * m = Cols * d + e
    BY <1>5, <1>9
  <2> HIDE DEF m
  <2>2. m <= d \/ m >= d + 1
    BY <1>8, <2>1
  <2>3. m >= d + 1 => Cols * m >= Cols * d + Cols
    BY <1>2, <1>8, <2>1
  <2>4. m <= d => Cols * m <= Cols * d
    BY <1>2, <1>8, <2>1
  <2> QED BY <1>2, <1>8, <2>1, <2>2, <2>3, <2>4
<1> QED BY <1>6, <1>10 DEF e

\* What LineOnScreen says of a state, in terms of Seen.
LEMMA ShowsIsSeen ==
    \A s : (Shows(s) <=> Seen(s, cells, idx, cleared))
           /\ (Shows(s)' <=> Seen(s, cells', idx', cleared'))
BY DEF Shows, Seen

LEMMA OnScreenInit == Init => LineOnScreen
BY DEF Init, LineOnScreen

\* Every step keeps LineOnScreen, given the invariant.
LEMMA OnScreenStep == IInv /\ LineOnScreen /\ [Next]_vars => LineOnScreen'
<1> SUFFICES ASSUME IInv, LineOnScreen, [Next]_vars PROVE LineOnScreen'
  OBVIOUS
<1>1. ScreenOK /\ LineOK
  BY IInvParts
<1>2. CASE PrintPrompt
  <2>1. pc' = "prompt"
    BY <1>2 DEF PrintPrompt
  <2> QED BY <2>1 DEF LineOnScreen
<1>3. CASE gets
  <2>1. pc' = "read" /\ typed' = << >> /\ idx' = idx
    BY <1>3 DEF gets
  <2>2. Seen(<< >>, cells', idx', cleared')
    <3>1. idx \in 0 .. VideoSize /\ VideoSize \in Nat
      BY <1>1, SizesAreNumbers DEF ScreenOK, Screen
    <3>2. idx' >= 0 /\ 0 \in 0 .. Len(<< >>) /\ Len(<< >>) = 0
      BY <2>1, <3>1
    <3>3. \A c \in 1 .. 0 : FALSE
      OBVIOUS
    <3> QED BY <3>2, <3>3 DEF Seen
  <2> QED BY <2>1, <2>2, ShowsIsSeen DEF LineOnScreen
<1>4. ASSUME NEW ch \in Keys, TypeChar(ch)
      PROVE  LineOnScreen'
  <2>1. pc = "read" /\ pc' = "read" /\ typed' = Append(typed, ch) /\ tty_putc(ch)
    BY <1>4 DEF TypeChar, Reading
  <2>2. typed \in Seq(Keys) /\ Shows(typed)
    BY <1>1, <2>1 DEF LineOK, LineOnScreen
  <2>3. Seen(typed', cells', idx', cleared')
    BY <1>1, <2>1, <2>2, SeenPut
  <2> QED BY <2>1, <2>3, ShowsIsSeen DEF LineOnScreen
<1>5. CASE BackspaceEmpty \/ UNCHANGED vars
  <2>1. UNCHANGED <<pc, k, typed, cells, idx, cleared>>
    BY <1>5 DEF BackspaceEmpty, vars, screen, line
  <2> QED BY <2>1 DEF LineOnScreen, Shows
<1>6. CASE Backspace
  <2>1. /\ pc = "read" /\ pc' = "read" /\ typed' = SubSeq(typed, 1, Len(typed) - 1)
        /\ tty_rmc /\ i > 0
    BY <1>6 DEF Backspace, Reading
  <2>2. typed \in Seq(Keys) /\ Shows(typed) /\ Len(typed) > 0
    BY <1>1, <2>1 DEF LineOK, LineOnScreen, Holds
  <2>3. Seen(typed', cells', idx', cleared')
    BY <1>1, <2>1, <2>2, SeenErase
  <2> QED BY <2>1, <2>3, ShowsIsSeen DEF LineOnScreen
<1>7. CASE Enter \/ BufferFull
  <2>1. /\ pc = "read" /\ pc' = "newline"
        /\ UNCHANGED <<typed, cells, idx, cleared>>
    BY <1>7 DEF Enter, BufferFull, Reading, EndLine, screen
  <2>2. Shows(typed)
    BY <2>1 DEF LineOnScreen
  <2>3. Shows(typed)'
    BY <2>1, <2>2 DEF Shows
  <2> QED BY <2>1, <2>3 DEF LineOnScreen
<1>8. CASE NewLine
  <2>1. pc = "newline" /\ pc' = "echo" /\ tty_putc("\n") /\ UNCHANGED <<k, typed>>
    BY <1>8 DEF NewLine, line
  <2>2. k = 0 /\ typed \in Seq(Keys)
    BY <1>1, <2>1 DEF LineOK, EchoInLine
  <2>3. Len(SubSeq(typed, 1, 0)) = 0
    BY <2>2
  <2>4. ScreenOK'
    BY <1>1, <2>1, PutcKeeps
  <2>5. Seen(SubSeq(typed, 1, 0), cells', idx', cleared')
    <3>1. idx' \in 0 .. VideoSize
      <4>1. VideoSize' = VideoSize
        BY DEF VideoSize
      <4> QED BY <2>4, <4>1 DEF ScreenOK, Screen
    <3>2. idx' >= 0
      BY <3>1, SizesAreNumbers
    <3>3. \A c \in 1 .. 0 : FALSE
      OBVIOUS
    <3> QED BY <2>3, <3>2, <3>3 DEF Seen
  <2>6. idx' % Cols = 0
    BY <1>1, <2>1, NewRow
  <2>7. Shows(SubSeq(typed, 1, k))'
    BY <2>1, <2>2, <2>5, ShowsIsSeen
  <2> QED BY <2>1, <2>6, <2>7 DEF LineOnScreen
<1>9. CASE Echo
  <2>1. pc = "echo" /\ pc' = "echo" /\ buf[k] # "NUL" /\ tty_putc(buf[k])
        /\ k' = k + 1 /\ UNCHANGED typed
    BY <1>9 DEF Echo, line
  <2>2. /\ Holds(buf, i, typed) /\ buf[i] = "NUL" /\ k <= i /\ k \in Nat
        /\ typed \in Seq(Keys)
    BY <1>1, <2>1 DEF LineOK, EchoInLine
  <2>3. i \in Nat /\ k # i /\ Len(typed) = i
    BY <2>1, <2>2, SizesAreNumbers DEF Holds
  <2>4. k \in 0 .. i - 1 /\ k + 1 \in 1 .. Len(typed) /\ k + 1 \in Nat
    BY <2>2, <2>3
  <2>5. buf[k] = typed[k + 1] /\ typed[k + 1] \in Keys
    BY <2>2, <2>4 DEF Holds
  <2>6. /\ SubSeq(typed, 1, k) \in Seq(Keys)
        /\ SubSeq(typed, 1, k + 1) = Append(SubSeq(typed, 1, k), typed[k + 1])
    <3>1. ASSUME NEW m \in Nat, m < Len(typed)
          PROVE  /\ SubSeq(typed, 1, m) \in Seq(Keys)
                 /\ SubSeq(typed, 1, m + 1) = Append(SubSeq(typed, 1, m), typed[m + 1])
      BY <2>2, <3>1
    <3> QED BY <2>2, <2>4, <3>1
  <2>7. Shows(SubSeq(typed, 1, k))
    BY <2>1 DEF LineOnScreen
  <2>8. Seen(Append(SubSeq(typed, 1, k), typed[k + 1]), cells', idx', cleared')
    BY <1>1, <2>1, <2>5, <2>6, <2>7, SeenPut
  <2>9. Shows(SubSeq(typed, 1, k))'
    BY <2>1, <2>6, <2>8, ShowsIsSeen
  <2>10. k' # 0
    BY <2>1, <2>2
  <2> QED BY <2>1, <2>9, <2>10 DEF LineOnScreen
<1>10. CASE EchoEnds
  <2>1. pc' = "prompt"
    BY <1>10 DEF EchoEnds
  <2> QED BY <2>1 DEF LineOnScreen
<1> QED BY <1>2, <1>3, <1>4, <1>5, <1>6, <1>7, <1>8, <1>9, <1>10 DEF Next

\* The user sees the line the shell is given, while it is edited and when it
\* is echoed on a row of its own, however often tty_putc clears the screen.
THEOREM LineSeen == Spec => []LineOnScreen
BY Invariance, OnScreenInit, OnScreenStep, PTL DEF Spec
=============================================================================
