----------------------------- MODULE LineEditor -----------------------------
(* The cursors of the terminals of empee3 (terminal.c): what a key, a       *)
(* program's output, a switch of terminals do to the place where the next   *)
(* character goes.  The lines and who reads them are in TerminalRead.       *)
EXTENDS TerminalGlobals, Sequences

CONSTANTS
    NUM_COLS, NUM_ROWS,     \* 80 and 25
    Modifiers,              \* among CAPS, SHIFT_L, SHIFT_R, CTRL, ALT
    Texts,                  \* outputs: sequences of "char" and "newline"
    Careful                 \* the user avoids the slips listed below

ASSUME LineEditorAssumption ==
    /\ MAX_TERMS \in Nat \ {0}
    /\ NUM_COLS \in Nat /\ NUM_COLS > 1
    /\ NUM_ROWS \in Nat /\ NUM_ROWS > 1
    /\ NUM_COLS * NUM_ROWS < 2^16
    /\ BUFFER_SIZE \in 2 .. (2^16 - 1)
    /\ Modifiers \subseteq {"CAPS", "SHIFT_L", "SHIFT_R", "CTRL", "ALT"}
    /\ Texts \subseteq Seq({"char", "newline"})
    /\ Careful \in BOOLEAN

VARIABLES
    terminals,      \* term_index, term_screen_x and _y, term_buf_index
    shadow,         \* index, screen_x, screen_y, buf_index: the displayed one's
    flags           \* the modifiers whose flag is set
vars == <<terminals, shadow, curr_terminal, flags>>

CELLS == NUM_COLS * NUM_ROWS
LastRow == NUM_COLS * (NUM_ROWS - 1)

(* The indices are uint16_t.                                                *)
Dec(n) == (n + 2^16 - 1) % 2^16

-----------------------------------------------------------------------------
(* What the functions of terminal.c do to one terminal's cursor, c.         *)

(* The place in video memory where the next character is written.           *)
Place(c) == NUM_COLS * c.y + c.x

(* scroll_up and scroll_up_curr.                                            *)
scroll_up(c) == [c EXCEPT !.index = LastRow, !.x = 0, !.y = NUM_ROWS - 1]

NextLine(c) == [c EXCEPT !.x = 0, !.y = @ + 1, !.index = NUM_COLS * (c.y + 1)]

terminal_newline(c) == IF c.index >= LastRow THEN scroll_up(c) ELSE NextLine(c)

(* terminal_putc: n is the cursor after the counting, which a Backspace     *)
(* skips.                                                                   *)
HasRoom(c) == c.buf < BUFFER_SIZE - 1 /\ c.index < CELLS
Echoed_sameRow(n) ==                                                     \* faulty
    IF n.index % NUM_COLS = 0 THEN [n EXCEPT !.x = 0]
    ELSE [n EXCEPT !.x = (@ + 1) % NUM_COLS, !.y = @ % NUM_ROWS]
Echoed(n) ==
    IF n.index % NUM_COLS = 0 THEN [n EXCEPT !.x = 0, !.y = @ + 1]
    ELSE [n EXCEPT !.x = (@ + 1) % NUM_COLS, !.y = @ % NUM_ROWS]
terminal_putc(c, deleting) ==
    LET counted == IF deleting THEN c ELSE [c EXCEPT !.index = @ + 1, !.buf = @ + 1]
        echoed == IF HasRoom(c) THEN Echoed(counted) ELSE c
    IN  IF echoed.index >= CELLS THEN scroll_up(echoed) ELSE echoed

(* cursor_backspace: to the end of the row above, in the line, or from a    *)
(* full line.                                                               *)
BackOverRow(c) ==
    LET d == terminal_putc([c EXCEPT !.index = Dec(@), !.y = @ - 1, !.x = NUM_COLS - 1], TRUE)
    IN  [d EXCEPT !.x = NUM_COLS - 1, !.buf = Dec(@)]
BackInLine_once(c) ==                                                    \* faulty
    LET d == terminal_putc([c EXCEPT !.x = @ - 1], TRUE)
    IN  [d EXCEPT !.index = Dec(@), !.buf = Dec(@)]
BackInLine(c) ==
    LET d == terminal_putc([c EXCEPT !.x = @ - 1], TRUE)
    IN  [d EXCEPT !.x = @ - 1, !.index = Dec(@), !.buf = Dec(@)]
BackFromFull(c) ==
    LET d == terminal_putc([c EXCEPT !.x = @ - 1, !.index = Dec(@), !.buf = Dec(@)], TRUE)
    IN  [d EXCEPT !.x = @ - 1]
cursor_backspace(c) ==
    CASE c.index % NUM_COLS = 0 /\ c.index # 0 -> BackOverRow(c)
      [] c.index % NUM_COLS # 0 /\ c.buf \in 1 .. (BUFFER_SIZE - 2) -> BackInLine(c)
      [] (c.index % NUM_COLS # 0 \/ c.index = 0) /\ c.buf = BUFFER_SIZE - 1 -> BackFromFull(c)
      [] OTHER -> c

terminal_clear(c) == [c EXCEPT !.index = 0, !.x = 0, !.y = 0]
clear_buffer(c) == [c EXCEPT !.buf = 0]

(* terminal_puts, for one character.  A full row leaves x at NUM_COLS, and  *)
(* has already moved y on.                                                  *)
Wrapped(c) == LET d == NextLine(c) IN IF d.index >= CELLS THEN scroll_up(d) ELSE d
Written(c) ==
    [c EXCEPT !.x = @ + 1,
              !.y = IF @ = NUM_ROWS - 1 THEN @ ELSE (@ + ((c.x + 1) \div NUM_COLS)) % NUM_ROWS]
Put(c, char) ==
    LET d == CASE char = "newline" -> Wrapped(c)
               [] char = "char" /\ c.x = NUM_COLS -> Written(Wrapped(c))
               [] OTHER -> Written(c)
    IN  [d EXCEPT !.index = Place(d)]
terminal_puts(c, text) ==
    LET after[n \in 0 .. Len(text)] ==
            IF n = 0 THEN c ELSE Put(after[n - 1], text[n])
    IN  after[Len(text)]

-----------------------------------------------------------------------------
Origin == [index |-> 0, x |-> 0, y |-> 0, buf |-> 0]

(* init_terminals.                                                          *)
Init ==
    /\ terminals = [t \in Terms |-> Origin]
    /\ shadow = Origin
    /\ curr_terminal = 0
    /\ flags = {}

(* Where the code loses the cursor: Backspace at the left edge with an      *)
(* empty line, or on a full line when it is just after the left edge or the *)
(* screen was cleared; a letter after output that ended at the right edge.  *)
SlipsBack(c) ==
    \/ c.index % NUM_COLS = 0 /\ c.index # 0 /\ c.buf = 0
    \/ (c.index % NUM_COLS = 1 \/ c.index = 0) /\ c.buf = BUFFER_SIZE - 1
SlipsType(c) == c.x = NUM_COLS

(* A function of terminal.c on the displayed terminal, with update_terminal.*)
Edit(c) ==
    /\ terminals' = [terminals EXCEPT ![curr_terminal] = c]
    /\ shadow' = c
    /\ UNCHANGED <<curr_terminal, flags>>
Displayed == terminals[curr_terminal]

(* keyboard_handler.  A press and a release both toggle a flag; Alt is set  *)
(* and reset.                                                               *)
Modifier(m) ==
    /\ flags' = IF m \in flags THEN flags \ {m} ELSE flags \cup {m}
    /\ UNCHANGED <<terminals, shadow, curr_terminal>>

(* The space bar, or a letter unless only Alt is down.  If ENTER_FLAG is    *)
(* still set a letter may be ignored, see TerminalRead.                     *)
PressLetter ==
    /\ Careful => ~SlipsType(Displayed)
    /\ LET c == terminal_putc(Displayed, FALSE)
       IN  IF c = Displayed THEN UNCHANGED vars ELSE Edit(c)

PressBackspace ==
    /\ Careful => ~SlipsBack(Displayed)
    /\ LET c == cursor_backspace(Displayed)
       IN  IF c = Displayed THEN UNCHANGED vars ELSE Edit(c)

PressEnter == Edit(terminal_newline(Displayed))

PressCtrlL ==
    /\ "CTRL" \in flags
    /\ terminals' = [terminals EXCEPT ![curr_terminal] = terminal_clear(@)]
    /\ shadow' = terminal_clear(shadow)
    /\ UNCHANGED <<curr_terminal, flags>>

Saved(t) == [terminals EXCEPT ![t] = shadow]
SwitchTerminal(t) ==
    /\ "ALT" \in flags
    /\ terminals' = Saved(curr_terminal)
    /\ shadow' = terminals'[t]
    /\ curr_terminal' = t
    /\ UNCHANGED flags

(* terminal_write by a process of terminal t.  clear_buffer resets the      *)
(* shadow of the line even if t is hidden, update_terminal is for the       *)
(* displayed terminal only.                                                 *)
Followed(t, c) == IF t = curr_terminal THEN c ELSE clear_buffer(shadow)
Write(t, text) ==
    LET c == terminal_puts(clear_buffer(terminals[t]), text)
    IN  /\ terminals' = [terminals EXCEPT ![t] = c]
        /\ shadow' = Followed(t, c)
        /\ UNCHANGED <<curr_terminal, flags>>

Next ==
    \/ \E m \in Modifiers : Modifier(m)
    \/ PressLetter \/ PressBackspace \/ PressEnter \/ PressCtrlL
    \/ \E t \in Terms : SwitchTerminal(t)
    \/ \E t \in Terms, text \in Texts : Write(t, text)

Spec == Init /\ [][Next]_vars

-----------------------------------------------------------------------------
(* Cursors stay on the screen, x at most one past the edge, and the line    *)
(* in its buffer with room for the newline of Enter.                        *)
Cursors ==
    [index : 0 .. CELLS, x : 0 .. NUM_COLS, y : 0 .. (NUM_ROWS - 1), buf : 0 .. (BUFFER_SIZE - 1)]
TypeOK ==
    /\ terminals \in [Terms -> Cursors]
    /\ shadow \in Cursors
    /\ curr_terminal \in Terms
    /\ flags \subseteq Modifiers

(* The cursor shown, which the code counts on its own (term_index), is at   *)
(* the place of the next character (term_screen_x and _y), on every         *)
(* terminal, whatever mix of output, typing, erasing and switching led      *)
(* there.                                                                   *)
CursorIsWhereTextGoes == \A t \in Terms : terminals[t].index = Place(terminals[t])

(* The globals that switch_terminal saves are the displayed terminal's      *)
(* cursor: a switch neither moves it nor moves another's.                   *)
ShadowIsCursor == clear_buffer(shadow) = clear_buffer(Displayed)

(* Backspace undoes a letter, over the edge of a row too: the cursor is     *)
(* where it was, or a row higher if the letter scrolled the screen.         *)
BackspaceUndoesALetter ==
    HasRoom(Displayed) /\ ~SlipsType(Displayed) =>
        LET c == terminal_putc(Displayed, FALSE)
            d == cursor_backspace(c)
        IN  ~SlipsBack(c) => /\ d.buf = Displayed.buf
                             /\ d.index = Place(d)
                             /\ d.index \in {Displayed.index, Displayed.index - NUM_COLS}

(* All cursors of terminal.c agree: the one shown with the one that text    *)
(* follows, on every terminal, and the copy in the globals with the         *)
(* terminal displayed.                                                      *)
CursorsAgree == TypeOK /\ CursorIsWhereTextGoes /\ ShadowIsCursor
=============================================================================
