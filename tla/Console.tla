------------------------------ MODULE Console ------------------------------
(***************************************************************************)
(* The screen of kernel/src/driver/console/vram.c: where the cursor is and *)
(* the escape sequences.  Of con->vram it says whether a character was     *)
(* written outside it.  vram_write() handles the characters of a string    *)
(* one after the other with con->lock held; here each one is a step.       *)
(***************************************************************************)
EXTENDS Integers, Sequences

CONSTANTS CONSOLE_WIDTH, CONSOLE_HEIGHT, TABSTOP_WIDTH, ESCSEQ_BUFF_SIZE,
          Word    \* 2^32: the row, the column and the numbers wrap there

ASSUME ConsoleAssumption ==
    /\ CONSOLE_WIDTH \in Nat \ {0} /\ CONSOLE_HEIGHT \in Nat \ {0}
    /\ TABSTOP_WIDTH \in Nat \ {0} /\ ESCSEQ_BUFF_SIZE \in Nat \ {0}
    /\ Word \in Nat /\ CONSOLE_WIDTH < Word /\ CONSOLE_HEIGHT < Word

VARIABLES
    row, col,
    ready,        \* con->escseq_buff is not NULL
    term,         \* con->state
    escseq_buff,  \* the characters of the escape sequence so far
    panicked,     \* panic("escseq too early!")
    stray,        \* a character was written outside con->vram
    moved         \* history: an escape sequence moved the cursor down or forward
                  \* since the last that put it at a position or cleared the screen

conVars == <<row, col, ready, term, escseq_buff, panicked, stray, moved>>

Cells == (0 .. CONSOLE_HEIGHT - 1) \X (0 .. CONSOLE_WIDTH - 1)
Digit == [c \in {"1", "2"} |-> IF c = "1" THEN 1 ELSE 2]
Command == {"A", "B", "C", "D", "H", "J", "m"}    \* all of them terminating
Control == {"bell", "backspace", "tab", "newline", "return"}
Char == DOMAIN Digit \cup {";", "csi", "esc", "["} \cup Command \cup Control

ConsoleTypeOK ==
    /\ row \in 0 .. Word - 1 /\ col \in 0 .. Word - 1
    /\ term \in {"NORMAL", "ESCSEQ", "EXPECT_CSI_PARTB"}
    /\ escseq_buff \in Seq(Char)
    /\ {ready, panicked, stray, moved} \subseteq BOOLEAN

\* vram_early_init(), called by console_early_init().
ConsoleInit ==
    /\ row = 0 /\ col = 0
    /\ ready = FALSE
    /\ term = "NORMAL"
    /\ escseq_buff = <<>>
    /\ panicked = FALSE
    /\ stray = FALSE
    /\ moved = FALSE
-----------------------------------------------------------------------------
\* What an operation makes of a screen [row, col, stray].
Smaller(a, b) == IF a < b THEN a ELSE b
Larger(a, b) == IF a > b THEN a ELSE b

\* Mutant: the row that wrapping leads to is not looked at again.
fix_pos_overflowOnce(s) ==
    IF s.col = CONSOLE_WIDTH
    THEN [s EXCEPT !.col = 0, !.row = (@ + 1) % Word]
    ELSE [s EXCEPT !.row = IF @ = CONSOLE_HEIGHT THEN CONSOLE_HEIGHT - 1 ELSE @]

\* fix_pos_overflow(): wrap at the end of a line, scroll at the end of the screen.
fix_pos_overflow(s) ==
    LET w == IF s.col = CONSOLE_WIDTH THEN [s EXCEPT !.col = 0, !.row = (@ + 1) % Word] ELSE s
    IN  [w EXCEPT !.row = IF @ = CONSOLE_HEIGHT THEN CONSOLE_HEIGHT - 1 ELSE @]

\* The column that a tab leads to: a multiple of TABSTOP_WIDTH or the last one.
TabStop(c) ==
    IF c >= CONSOLE_WIDTH THEN c
    ELSE CHOOSE d \in c .. CONSOLE_WIDTH - 1 :
            /\ d % TABSTOP_WIDTH = 0 \/ d = CONSOLE_WIDTH - 1
            /\ \A e \in c .. d - 1 : e % TABSTOP_WIDTH # 0

\* The character goes to the cell that the row and the column lead to.
Written(s) ==
    [s EXCEPT !.stray = @ \/ s.row * CONSOLE_WIDTH + s.col >= CONSOLE_HEIGHT * CONSOLE_WIDTH,
              !.col = (@ + 1) % Word]

process_char(s, c) ==
    CASE c = "bell"      -> s
      [] c = "backspace" -> [s EXCEPT !.col = @ - Smaller(@, 1)]
      [] c = "tab"       -> IF (s.col + 1) % Word = CONSOLE_WIDTH
                            THEN fix_pos_overflow([s EXCEPT !.col = @ + 1])
                            ELSE [s EXCEPT !.col = TabStop((@ + 1) % Word)]
      [] c = "newline"   -> fix_pos_overflow([s EXCEPT !.col = 0, !.row = (@ + 1) % Word])
      [] c = "return"    -> [s EXCEPT !.col = 0]
      [] OTHER           -> fix_pos_overflow(Written(s))

do_clear(s) == [s EXCEPT !.row = 0, !.col = 0]

\* The subtractions are unsigned.
cursor_up(s, amt) == [s EXCEPT !.row = @ - Smaller(@, amt)]
cursor_down(s, amt) ==
    [s EXCEPT !.row = (@ + Larger((CONSOLE_HEIGHT - @) % Word, amt)) % Word]
cursor_forward(s, amt) ==
    [s EXCEPT !.col = (@ + Larger((CONSOLE_WIDTH - @) % Word, amt)) % Word]
cursor_back(s, amt) == [s EXCEPT !.col = @ - Smaller(@, amt)]

cursor_position(s, r, c) ==
    [s EXCEPT !.row = Smaller(Larger(r, 1) - 1, CONSOLE_HEIGHT - 1),
              !.col = Smaller(Larger(c, 1) - 1, CONSOLE_WIDTH - 1)]

\* A turn of the loop of read_escseq_args(): the numbers n and m, -1 where there
\* is none, and the command: the first character that is neither a digit nor the
\* first ";".
read_arg(a, d) ==
    IF a.cmd # "" THEN a
    ELSE IF d \in DOMAIN Digit
    THEN [a EXCEPT !.tmp = ((IF @ = -1 THEN 0 ELSE 10 * @) + Digit[d]) % Word]
    ELSE LET set == IF a.tmp = -1 THEN a ELSE IF a.second THEN [a EXCEPT !.m = a.tmp]
                    ELSE [a EXCEPT !.n = a.tmp]
         IN  IF d = ";" /\ ~a.second
             THEN [set EXCEPT !.second = TRUE, !.tmp = -1]
             ELSE [set EXCEPT !.cmd = d]

NoArgs == [n |-> -1, m |-> -1, tmp |-> -1, second |-> FALSE, cmd |-> ""]

read_escseq_args(buff) ==
    LET args[i \in 0 .. Len(buff)] ==
            IF i = 0 THEN NoArgs ELSE read_arg(args[i - 1], buff[i])
    IN  args[Len(buff)]

\* do_erase() changes cells of the screen only.
execute_escseq(s, a) ==
    LET amt == IF a.n = -1 THEN 1 ELSE a.n
    IN  CASE a.cmd = "A" -> cursor_up(s, amt)
          [] a.cmd = "B" -> cursor_down(s, amt)
          [] a.cmd = "C" -> cursor_forward(s, amt)
          [] a.cmd = "D" -> cursor_back(s, amt)
          [] a.cmd = "H" -> cursor_position(s, Larger(a.n, 0), Larger(a.m, 0))
          [] a.cmd = "J" -> IF a.n = 2 THEN do_clear(s) ELSE s
          [] OTHER       -> s
-----------------------------------------------------------------------------
Screen == [row |-> row, col |-> col, stray |-> stray]
Shows(s) == row' = s.row /\ col' = s.col /\ stray' = s.stray

\* put_escseq_buff(), with interpret_escseq() at a terminating character.
put_escseq_buff(c) ==
    \/ ~ready /\ panicked' = TRUE /\ UNCHANGED <<row, col, term, escseq_buff, stray, moved>>
    \/ /\ ready
       /\ \E buff \in {Append(escseq_buff, c)} :
          \E a \in {read_escseq_args(buff)} :
             /\ \/ /\ c \in Command \cup {"["}
                   /\ Shows(execute_escseq(Screen, a))
                   /\ moved' = CASE a.cmd \in {"B", "C"} -> TRUE
                                 [] a.cmd = "H" \/ (a.cmd = "J" /\ a.n = 2) -> FALSE
                                 [] OTHER -> moved
                \/ c \notin Command \cup {"["} /\ UNCHANGED <<row, col, stray, moved>>
             /\ IF c \in Command \cup {"["} \/ Len(buff) = ESCSEQ_BUFF_SIZE
                THEN escseq_buff' = <<>> /\ term' = "NORMAL"
                ELSE escseq_buff' = buff /\ UNCHANGED term
       /\ UNCHANGED panicked

\* vram_handle() of a character.
vram_handle(c) ==
    /\ ~panicked
    /\ \/ /\ term = "NORMAL"
          /\ IF c \in {"csi", "esc"}
             THEN /\ term' = IF c = "csi" THEN "ESCSEQ" ELSE "EXPECT_CSI_PARTB"
                  /\ UNCHANGED <<row, col, stray>>
             ELSE Shows(process_char(Screen, c)) /\ UNCHANGED term
          /\ UNCHANGED <<escseq_buff, panicked, moved>>
       \/ /\ term = "EXPECT_CSI_PARTB"
          /\ IF c = "["
             THEN term' = "ESCSEQ" /\ UNCHANGED <<row, col, stray>>
             ELSE /\ term' = "NORMAL"
                  /\ Shows(process_char(process_char(Screen, "esc"), c))
          /\ UNCHANGED <<escseq_buff, panicked, moved>>
       \/ term = "ESCSEQ" /\ put_escseq_buff(c)
    /\ UNCHANGED ready

vram_init ==
    /\ ~ready /\ ~panicked
    /\ ready' = TRUE
    /\ escseq_buff' = <<>>
    /\ UNCHANGED <<row, col, term, panicked, stray, moved>>

ConsoleNext == vram_init \/ \E c \in Char : vram_handle(c)

ConsoleSpec == ConsoleInit /\ [][ConsoleNext]_conVars
-----------------------------------------------------------------------------
\* Whatever is printed, the buffer of escape sequences has room for one more
\* character; and the cursor is on the screen, through wrapping, tabs, scrolling
\* and every other escape sequence, unless one has moved it down or forward and
\* none has put it at a position or cleared the screen since.
CursorOnScreen ==
    /\ ~moved => <<row, col>> \in Cells
    /\ Len(escseq_buff) < ESCSEQ_BUFF_SIZE
    /\ term # "ESCSEQ" => escseq_buff = <<>>

\* Every character goes to a cell of the screen: fix_pos_overflow() takes care of
\* a cursor that has left it.
WrittenOnScreen == ~stray
=============================================================================
