------------------------------ MODULE Terminal ------------------------------
(***************************************************************************)
(* The text screen (kernel/tty.c), the line editor of the user library     *)
(* (asifos_terminal_readline) and the shell that asks for a line and       *)
(* prints it: one action per key taken or system call made.                *)
(*                                                                         *)
(* Keys come as asifos_getkey returns them, without their event byte, so   *)
(* readline's branch for a released key is never taken.  Colours and the   *)
(* hardware cursor are left out.  The shell's banner is one empty line.    *)
(***************************************************************************)
EXTENDS Integers, Sequences

CONSTANTS
    Cols, Rows,     \* VIDEO_COL, VIDEO_ROW
    BufMax,         \* the size of the shell's buffer
    Prompt,         \* the text the shell asks with
    Keys            \* the characters typed, without Enter and Backspace

ASSUME TerminalConstants ==
    /\ Cols \in Nat \ {0} /\ Rows \in Nat \ {0} /\ BufMax \in Nat \ {0}
    /\ Prompt \in Seq(STRING) /\ Prompt # << >>
    /\ Keys \subseteq STRING \ {" ", "\n", "NUL"}

VARIABLES
    cells, idx,     \* tty_video_mem and tty_char_idx
    pc, k,          \* where the shell is, and how much it has printed there
    buf, i,         \* its buffer, and readline's i
    typed,          \* history: the line as the user sees it
    cleared         \* history: the screen was cleared since the prompt

screen == <<cells, idx, cleared>>
line == <<buf, i, typed>>
vars == <<screen, pc, k, line>>

VideoSize == Cols * Rows

\* What a cell shows, and the screen after tty_clean.
Shown == Keys \cup {Prompt[c] : c \in 1 .. Len(Prompt)} \cup {" "}
Blank == [c \in 0 .. VideoSize - 1 |-> " "]

-----------------------------------------------------------------------------
\* A faulty variant: a full screen is written over, not cleared.
PutcUncleared(ch) ==
    LET full == idx = VideoSize
        at == IF full THEN 0 ELSE idx
    IN  /\ cleared' = (cleared \/ full)
        /\ \/ /\ ch = "\n"
              /\ idx' = at + Cols - (at % Cols) /\ cells' = cells
           \/ /\ ch # "\n"
              /\ idx' = at + 1 /\ cells' = [cells EXCEPT ![at] = ch]

\* tty_putc.  A full screen is cleared first; the new line after its last
\* row is not shown before something else is put.
tty_putc(ch) ==
    LET full == idx = VideoSize
        at == IF full THEN 0 ELSE idx
        clean == IF full THEN Blank ELSE cells
    IN  /\ cleared' = (cleared \/ full)
        /\ \/ /\ ch = "\n"
              /\ idx' = at + Cols - (at % Cols) /\ cells' = clean
           \/ /\ ch # "\n"
              /\ idx' = at + 1 /\ cells' = [clean EXCEPT ![at] = ch]

\* tty_rmc.
tty_rmc ==
    \/ idx = 0 /\ UNCHANGED screen
    \/ /\ idx > 0
       /\ idx' = idx - 1 /\ cells' = [cells EXCEPT ![idx - 1] = " "]
       /\ UNCHANGED cleared

-----------------------------------------------------------------------------
Init ==
    /\ cells = Blank /\ idx = Cols
    /\ pc = "prompt" /\ k = 0
    /\ buf = [b \in 0 .. BufMax - 1 |-> "NUL"] /\ i = 0
    /\ typed = << >> /\ cleared = FALSE

\* The shell prints its prompt, and then calls gets.
PrintPrompt ==
    /\ pc = "prompt" /\ k < Len(Prompt)
    /\ tty_putc(Prompt[k + 1]) /\ k' = k + 1
    /\ UNCHANGED <<pc, line>>

gets ==
    /\ pc = "prompt" /\ k = Len(Prompt)
    /\ pc' = "read" /\ k' = 0 /\ i' = 0
    /\ typed' = << >> /\ cleared' = FALSE
    /\ UNCHANGED <<cells, idx, buf>>

\* readline's loop goes on while there is room for a character and the NUL.
Reading == pc = "read" /\ i < BufMax - 1

TypeChar(ch) ==
    /\ Reading
    /\ buf' = [buf EXCEPT ![i] = ch] /\ i' = i + 1
    /\ typed' = Append(typed, ch)
    /\ tty_putc(ch)
    /\ UNCHANGED <<pc, k>>

\* Nothing to take back: i is where it was.
BackspaceEmpty ==
    /\ Reading /\ i = 0
    /\ UNCHANGED vars

\* A faulty variant: the character leaves the screen and stays in the line.
BackspaceStays ==
    /\ Reading /\ i > 0
    /\ typed' = SubSeq(typed, 1, Len(typed) - 1)
    /\ tty_rmc
    /\ UNCHANGED <<pc, k, buf, i>>

\* A faulty variant: the character leaves the line and stays on the screen.
BackspaceUnseen ==
    /\ Reading /\ i > 0
    /\ i' = i - 1 /\ typed' = SubSeq(typed, 1, Len(typed) - 1)
    /\ UNCHANGED <<screen, pc, k, buf>>

Backspace ==
    /\ Reading /\ i > 0
    /\ i' = i - 1 /\ typed' = SubSeq(typed, 1, Len(typed) - 1)
    /\ tty_rmc
    /\ UNCHANGED <<pc, k, buf>>

\* readline ends the line: at Enter, or with the buffer full.
EndLine ==
    /\ buf' = [buf EXCEPT ![i] = "NUL"] /\ pc' = "newline"
    /\ UNCHANGED <<screen, k, i, typed>>

Enter == Reading /\ EndLine
BufferFull == pc = "read" /\ ~Reading /\ EndLine

\* printf("\n"), and printf("%s\n", buffer) up to the NUL.
NewLine ==
    /\ pc = "newline"
    /\ tty_putc("\n") /\ pc' = "echo"
    /\ UNCHANGED <<k, line>>

Echo ==
    /\ pc = "echo" /\ buf[k] # "NUL"
    /\ tty_putc(buf[k]) /\ k' = k + 1
    /\ UNCHANGED <<pc, line>>

EchoEnds ==
    /\ pc = "echo" /\ buf[k] = "NUL"
    /\ tty_putc("\n") /\ pc' = "prompt" /\ k' = 0
    /\ UNCHANGED line

Next ==
    \/ PrintPrompt \/ gets
    \/ \E ch \in Keys : TypeChar(ch)
    \/ BackspaceEmpty \/ Backspace \/ Enter \/ BufferFull
    \/ NewLine \/ Echo \/ EchoEnds

Spec == Init /\ [][Next]_vars

-----------------------------------------------------------------------------
(* Properties.                                                             *)

\* The cursor never passes the screen, and readline never its buffer.
TypeOK ==
    /\ cells \in [0 .. VideoSize - 1 -> Shown] /\ idx \in 0 .. VideoSize
    /\ pc \in {"prompt", "read", "newline", "echo"}
    /\ k \in Nat
    /\ buf \in [0 .. BufMax - 1 -> Keys \cup {"NUL"}] /\ i \in 0 .. BufMax - 1
    /\ typed \in Seq(Keys) /\ cleared \in BOOLEAN

\* The shell's buffer holds the line as it was edited, and, when gets has
\* returned, nothing of an earlier, longer line behind it.
LineIsTyped ==
    pc # "prompt" =>
        /\ i = Len(typed)
        /\ \A c \in 0 .. i - 1 : buf[c] = typed[c + 1]
        /\ pc # "read" => buf[i] = "NUL"

\* What the screen shows in front of the cursor ends with s, or, if it was
\* cleared on the way, begins with the rest of s.
Shows(s) ==
    \E n \in 0 .. Len(s) :
        /\ idx >= n /\ (n = Len(s) \/ (cleared /\ idx = n))
        /\ \A c \in 1 .. n : cells[idx - c] = s[Len(s) - c + 1]

\* The user sees the line that the shell is given, while it is edited and
\* when it is echoed, on a row of its own, over the clearing of the screen.
LineOnScreen ==
    /\ pc \in {"read", "newline"} => Shows(typed)
    /\ pc = "echo" => Shows(SubSeq(typed, 1, k))
    /\ pc = "echo" /\ k = 0 => idx % Cols = 0

\* Nothing is left on the screen behind the cursor: no deleted character,
\* and nothing from before the screen was cleared.
BlankBehindCursor == \A c \in idx .. VideoSize - 1 : cells[c] = " "
=============================================================================
