--------------------------- MODULE Terminal_proofs ---------------------------
(***************************************************************************)
(* The terminals of empee3, for every number of them, every set of readers *)
(* and writers, every size of screen and every output.                     *)
(*                                                                         *)
(* First TerminalRead: ReadTypeOK, OneReadPerEnter and FlagsMatchEnters    *)
(* are inductive together, because whoever ends a read found a flag up     *)
(* after cli, and then no read had ended since the last Enter.  LInv is    *)
(* about the lines: each is what was typed because the shadow is.  Then    *)
(* LineEditor: the cursors of the terminals agree as long as the user      *)
(* avoids the slips it lists.                                              *)
(***************************************************************************)
EXTENDS TerminalRead, LineEditor, WellFoundedInduction, TLAPS

RInv == OneReadPerEnter /\ FlagsMatchEnters
LInv == LinesAreTyped /\ ShadowIsLine

(* The constants give the terminals their first and last numbers. *)
LEMMA TermsAreRange ==
    /\ 0 \in Terms /\ MAX_TERMS - 1 \in Terms
    /\ \A t \in Terms : (t + 1) % MAX_TERMS \in Terms
BY TerminalReadAssumption DEF Terms

(* The lengths the edits produce. *)
LEMMA EditedLengths ==
    /\ 0 \in Lengths
    /\ \A len \in Lengths : Moved(len, 1) \in Lengths /\ Moved(len, -1) \in Lengths
BY TerminalReadAssumption DEF Lengths, Moved

(* A read step keeps the types. *)
LEMMA ReadType ==
    ASSUME ReadTypeOK, NEW t \in Terms, ReadStep(t) \/ Call(t) \/ LeaveIo(t)
    PROVE ReadTypeOK'
<1> USE TermsAreRange DEF ReadTypeOK, lineVars, At, Goto, Stages, ReadStages
<1>1. CASE Call(t) \/ LeaveIo(t)
  BY <1>1 DEF Call, CallIo, CallRead, LeaveIo
<1>2. CASE BeginRead(t)
  BY <1>2 DEF BeginRead
<1>3. CASE SeeEnter(t) \/ TestTerminal(t) \/ Retry(t)
  BY <1>3 DEF SeeEnter, TestTerminal, Retry
<1>4. CASE OwnTask(t)
  BY <1>4 DEF OwnTask, Reclaimed
<1>5. CASE TakeLine(t)
  <2>1. enter_flag' \in [Terms -> BOOLEAN]
    BY <1>5 DEF TakeLine, ClearedFlags, NoFlags
  <2>2. answers' \in 0 .. 2
    BY <1>5 DEF TakeLine
  <2>3. pc' \in [Terms -> Stages]
    BY <1>5 DEF TakeLine
  <2> QED
    BY <1>5, <2>1, <2>2, <2>3 DEF TakeLine
<1>6. CASE ReturnCount(t)
  BY <1>6 DEF ReturnCount
<1> QED
  BY <1>1, <1>2, <1>3, <1>4, <1>5, <1>6 DEF ReadStep

(* So does a write, a keystroke, a switch or a tick.  In all of them the   *)
(* lines typed are the lines of the code.                                  *)
LEMMA OtherType ==
    ASSUME ReadTypeOK, ReadNext,
           ~ \E t \in Terms : ReadStep(t) \/ Call(t) \/ LeaveIo(t)
    PROVE ReadTypeOK'
<1> USE TermsAreRange DEF ReadTypeOK
<1>1. CASE \E t \in Terms : WriteLine(t)
  BY <1>1, EditedLengths DEF WriteLine
<1>2. CASE \E plain \in BOOLEAN : PressKey(plain)
  <2>1. Moved(line[curr_terminal], 1) \in Lengths /\ Moved(typed[curr_terminal], 1) \in Lengths
    BY EditedLengths
  <2> QED
    BY <1>2, <2>1 DEF PressKey, EditLine, Updated
<1>3. CASE \E rowStart \in BOOLEAN : EraseLast(rowStart)
  <2>1. Moved(line[curr_terminal], -1) \in Lengths /\ Moved(typed[curr_terminal], -1) \in Lengths
    BY EditedLengths
  <2> QED
    BY <1>3, <2>1 DEF EraseLast, EditLine, Updated
<1>4. CASE EndLine
  <2>1. enter_flag' \in [Terms -> BOOLEAN]
    BY <1>4, Zenon DEF EndLine, RaisedFlags, NoFlags
  <2>2. answers' \in 0 .. 2
    BY <1>4 DEF EndLine
  <2>3. shown_line' \in Lengths
    BY <1>4 DEF EndLine, Updated
  <2> QED
    BY <1>4, <2>1, <2>2, <2>3 DEF EndLine
<1>5. CASE \E t \in Terms : ShowTerminal(t)
  <2>1. line' \in [Terms -> Lengths]
    BY <1>5 DEF ShowTerminal, Stored
  <2>2. typed' \in [Terms -> Lengths]
    BY <1>5, EditedLengths DEF ShowTerminal
  <2>3. shown_line' \in Lengths /\ wiped' \in BOOLEAN /\ curr_terminal' \in Terms
    BY <1>5, <2>1 DEF ShowTerminal
  <2> QED
    BY <1>5, <2>1, <2>2, <2>3 DEF ShowTerminal
<1>6. CASE Tick
  BY <1>6 DEF Tick, lineVars
<1> QED
  BY <1>1, <1>2, <1>3, <1>4, <1>5, <1>6 DEF ReadNext

LEMMA TypeStep ==
    ASSUME ReadTypeOK, [ReadNext]_readVars
    PROVE ReadTypeOK'
<1>1. CASE UNCHANGED readVars
  BY <1>1 DEF ReadTypeOK, readVars, lineVars
<1>2. CASE ReadNext
  BY <1>2, ReadType, OtherType
<1> QED
  BY <1>1, <1>2

(* No step of a read or of another call touches a line. *)
LEMMA CallsKeepLines ==
    ASSUME NEW t, Call(t) \/ LeaveIo(t) \/ ReadStep(t)
    PROVE UNCHANGED <<lineVars, curr_terminal>>
BY DEF Call, CallIo, CallRead, LeaveIo, ReadStep, BeginRead,
   SeeEnter, TestTerminal, OwnTask, Retry, TakeLine, ReturnCount

(* A line and what was typed there are edited, emptied and kept together,  *)
(* and the shadow follows: an edit copies the line to it, a switch stores  *)
(* the one line and loads another, and output that empties it without the  *)
(* line is remembered until one of these.                                  *)
LEMMA LinesStep ==
    ASSUME ReadTypeOK, LInv, [ReadNext]_readVars
    PROVE LInv'
<1> USE DEF LInv, LinesAreTyped, ShadowIsLine
<1>1. ASSUME UNCHANGED <<lineVars, curr_terminal>>
      PROVE LInv'
  BY <1>1 DEF lineVars
<1>2. ASSUME NEW t \in Terms, WriteLine(t)
      PROVE LInv'
  BY <1>2 DEF WriteLine, ReadTypeOK
<1>3. CASE \E plain \in BOOLEAN : PressKey(plain)
  <2>1. EditLine(1)
    BY <1>3 DEF PressKey
  <2> QED
    BY <2>1 DEF EditLine, Updated
<1>4. CASE \E rowStart \in BOOLEAN : EraseLast(rowStart)
  <2>1. EditLine(-1)
    BY <1>4 DEF EraseLast
  <2> QED
    BY <2>1 DEF EditLine, Updated
<1>5. CASE EndLine
  BY <1>5 DEF EndLine, Updated
<1>6. ASSUME NEW t \in Terms, ShowTerminal(t)
      PROVE LInv'
  <2>1. Stored = IF wiped THEN [typed EXCEPT ![curr_terminal] = 0] ELSE typed
    BY DEF Stored, ReadTypeOK
  <2> QED
    BY <1>6, <2>1 DEF ShowTerminal
<1>7. CASE Tick
  BY <1>1, <1>7 DEF Tick
<1>8. ASSUME NEW t \in Terms, Call(t) \/ LeaveIo(t) \/ ReadStep(t)
      PROVE LInv'
  BY <1>1, <1>8, CallsKeepLines
<1>9. CASE UNCHANGED readVars
  BY <1>1, <1>9 DEF readVars
<1> QED
  BY <1>2, <1>3, <1>4, <1>5, <1>6, <1>7, <1>8, <1>9 DEF ReadNext

LEMMA ReadInvariant == ReadSpec => [](ReadTypeOK /\ LInv)
<1>1. ASSUME ReadInit PROVE ReadTypeOK
  <2>1. line \in [Terms -> Lengths] /\ shown_line \in Lengths
    BY <1>1, EditedLengths DEF ReadInit
  <2>2. answers = 1 /\ wiped = FALSE /\ typed = line
    BY <1>1 DEF ReadInit
  <2>3. cpu \in Terms /\ cur_task \in Terms /\ curr_terminal \in Terms
    BY <1>1, TermsAreRange DEF ReadInit
  <2>4. pc \in [Terms -> Stages]
    BY <1>1 DEF ReadInit, Stages
  <2>5. enter_flag \in [Terms -> BOOLEAN]
    BY <1>1 DEF ReadInit, NoFlags
  <2>6. answers \in 0 .. 2
    BY <2>2
  <2>7. wiped \in BOOLEAN /\ typed \in [Terms -> Lengths]
    BY <2>1, <2>2, Zenon
  <2> QED
    BY <2>1, <2>3, <2>4, <2>5, <2>6, <2>7 DEF ReadTypeOK
<1>2. ReadInit => LInv
  BY TermsAreRange DEF ReadInit, LInv, LinesAreTyped, ShadowIsLine
<1> QED
  BY <1>1, <1>2, TypeStep, LinesStep, PTL DEF ReadSpec

(* Every variable keeps its type.  A length is no more than a word of 16   *)
(* bits: Backspace at the start of a row takes that of an empty line below *)
(* zero.                                                                   *)
THEOREM ReadTypes == ReadSpec => []ReadTypeOK
BY ReadInvariant, PTL

(* Each terminal keeps the line that was typed there, through any number   *)
(* of switches and whatever its own process writes, unless another         *)
(* terminal's process writes while it is displayed and the user leaves it  *)
(* before the next key (clear_buffer() and switch_terminal()).             *)
THEOREM LinesAreKept == ReadSpec => []LinesAreTyped
<1>1. LInv => LinesAreTyped
  BY DEF LInv
<1> QED
  BY <1>1, ReadInvariant, PTL

(* switch_terminal() never stores the line of a third terminal: what it    *)
(* stores is the line displayed, or an empty one since the output of       *)
(* another terminal's process.                                             *)
THEOREM ShadowMatches == ReadSpec => []ShadowIsLine
<1>1. LInv => ShadowIsLine
  BY DEF LInv
<1> QED
  BY <1>1, ReadInvariant, PTL

(* The CPU leaves a process only while interrupts are on, so no process    *)
(* waits for its turn in user code (schedule() from pit_handler()).        *)
THEOREM WaitersAreSafe == ReadSpec => []WaitersAreInCalls
<1>1. ReadInit => WaitersAreInCalls
  BY DEF ReadInit, WaitersAreInCalls
<1>2. ASSUME ReadTypeOK, WaitersAreInCalls, [ReadNext]_readVars
      PROVE WaitersAreInCalls'
  <2> USE DEF WaitersAreInCalls, ReadTypeOK
  <2>1. ASSUME NEW t \in Terms, Call(t) \/ LeaveIo(t) \/ WriteLine(t) \/ ReadStep(t)
        PROVE WaitersAreInCalls'
    <3>1. cpu = t /\ UNCHANGED cpu
      BY <2>1 DEF Call, CallIo, CallRead, LeaveIo, WriteLine, ReadStep, BeginRead,
         SeeEnter, TestTerminal, OwnTask, Retry, TakeLine, ReturnCount, At
    <3>2. UNCHANGED pc \/ \E stage \in Stages : pc' = [pc EXCEPT ![t] = stage]
      BY <2>1 DEF Call, CallIo, CallRead, LeaveIo, WriteLine, ReadStep, BeginRead,
         SeeEnter, TestTerminal, OwnTask, Retry, TakeLine, ReturnCount, Goto, Stages, ReadStages
    <3>3. \A u \in Terms : u # t => pc'[u] = pc[u]
      BY <1>2, <3>2
    <3> QED
      BY <1>2, <3>1, <3>3
  <2>2. CASE Tick
    BY <1>2, <2>2 DEF Tick, InterruptsOn
  <2>3. CASE \/ \E plain \in BOOLEAN : PressKey(plain)
             \/ (\E rowStart \in BOOLEAN : EraseLast(rowStart)) \/ EndLine
             \/ \E t \in Terms : ShowTerminal(t)
    BY <1>2, <2>3 DEF PressKey, EraseLast, EditLine, EndLine, ShowTerminal
  <2>4. CASE UNCHANGED readVars
    BY <1>2, <2>4 DEF readVars
  <2> QED
    BY <1>2, <2>1, <2>2, <2>3, <2>4 DEF ReadNext
<1> QED
  BY <1>1, <1>2, ReadTypes, PTL DEF ReadSpec

(* Only a read's end and an Enter change the flags or the answers. *)
LEMMA FlagsStep ==
    ASSUME ReadTypeOK, RInv, [ReadNext]_readVars
    PROVE RInv'
<1> USE DEF RInv, OneReadPerEnter, FlagsMatchEnters, SomeEnter
<1>1. ASSUME UNCHANGED <<enter_flag, answers>>
      PROVE RInv'
  BY <1>1
<1>2. ASSUME NEW t \in Terms, TakeLine(t)
      PROVE RInv'
  <2>1. answers' = 1
    BY <1>2 DEF TakeLine, MayTake
  <2>2. \A u \in Terms : ~enter_flag'[u]
    BY <1>2 DEF TakeLine, ClearedFlags, NoFlags
  <2> QED
    BY <2>1, <2>2
<1>3. CASE EndLine
  <2>1. answers' = 0
    BY <1>3 DEF EndLine
  <2>2. \A u \in Terms : enter_flag'[u] <=> u = curr_terminal
    BY <1>3, Zenon DEF EndLine, RaisedFlags, NoFlags
  <2> QED
    BY <2>1, <2>2 DEF ReadTypeOK
<1>4. ASSUME NEW t \in Terms, Call(t) \/ LeaveIo(t) \/ WriteLine(t) \/ ReadStep(t)
      PROVE RInv'
  <2>1. TakeLine(t) \/ UNCHANGED <<enter_flag, answers>>
    BY <1>4 DEF Call, CallIo, CallRead, LeaveIo, WriteLine, ReadStep, BeginRead,
       SeeEnter, TestTerminal, OwnTask, Retry, ReturnCount
  <2> QED
    BY <1>1, <1>2, <2>1
<1>5. CASE \/ \E plain \in BOOLEAN : PressKey(plain)
           \/ (\E rowStart \in BOOLEAN : EraseLast(rowStart)) \/ Tick
           \/ \E t \in Terms : ShowTerminal(t)
  <2>1. UNCHANGED <<enter_flag, answers>>
    BY <1>5 DEF PressKey, EraseLast, EditLine, ShowTerminal, Tick
  <2> QED
    BY <1>1, <2>1
<1>6. CASE UNCHANGED readVars
  BY <1>1, <1>6 DEF readVars
<1> QED
  BY <1>3, <1>4, <1>5, <1>6 DEF ReadNext

LEMMA FlagsInv == ReadSpec => []RInv
<1>1. ReadInit => RInv
  BY DEF ReadInit, RInv, OneReadPerEnter, FlagsMatchEnters, SomeEnter, NoFlags
<1> QED
  BY <1>1, FlagsStep, ReadTypes, PTL DEF ReadSpec

(* One Enter ends at most one read, however many readers poll the flags    *)
(* and wherever the tick falls: terminal_read() tests them again after cli.*)
THEOREM OneRead == ReadSpec => []OneReadPerEnter
<1>1. RInv => OneReadPerEnter
  BY DEF RInv
<1> QED
  BY <1>1, FlagsInv, PTL

(* At most one of the three flags is up, and one is exactly while the last *)
(* Enter is unanswered: terminal_newline() and terminal_read() keep them so*)
(* without ever looking at who reads.                                      *)
THEOREM FlagsMatch == ReadSpec => []FlagsMatchEnters
<1>1. RInv => FlagsMatchEnters
  BY DEF RInv
<1> QED
  BY <1>1, FlagsInv, PTL

-----------------------------------------------------------------------------
(* A set of naturals with a member has a least one. *)
LEMMA LeastNat ==
  ASSUME NEW T \in SUBSET Nat, T # {}
  PROVE  \E m \in T : \A k \in T : m <= k
  <1> DEFINE R == {p \in Nat \X Nat : p[1] < p[2]}
  <1>1. IsWellFoundedOn(R, Nat)
    BY NatLessThanWellFounded DEF OpToRel
  <1> HIDE DEF R
  <1>2. \E x \in T : \A y \in T : ~ (<<y, x>> \in R)
    BY <1>1, WFMin
  <1>3. ASSUME NEW x \in T, NEW y \in T, ~ (<<y, x>> \in R) PROVE x <= y
    <2>1. x \in Nat /\ y \in Nat /\ ~(y < x)
      BY <1>3 DEF R
    <2>2. QED
      BY <2>1
  <1>4. QED
    BY <1>2, <1>3

(* Quotients and remainders. *)
LEMMA DivMod ==
  ASSUME NEW a \in Nat, NEW b \in Nat \ {0}
  PROVE  /\ a \div b \in Nat /\ a % b \in 0 .. b - 1
         /\ a = b * (a \div b) + (a % b)
  OBVIOUS

LEMMA TimesMonotone ==
  ASSUME NEW b \in Nat, NEW x \in Int, NEW y \in Int, x <= y
  PROVE  b * x <= b * y
  <1>1. b * (y - x) >= 0
    OBVIOUS
  <1>2. b * (y - x) = b * y - b * x
    OBVIOUS
  <1>3. QED
    BY <1>1, <1>2

LEMMA DivUnique ==
  ASSUME NEW a \in Nat, NEW b \in Nat \ {0}, NEW q \in Nat, NEW r \in 0 .. b - 1,
         a = b * q + r
  PROVE  a \div b = q /\ a % b = r
  <1> DEFINE d == a \div b
             m == a % b
  <1>1. d \in Nat /\ m \in 0 .. b - 1 /\ a = b * d + m
    BY DivMod
  <1> HIDE DEF d, m
  <1>2. b * d \in Int /\ b * q \in Int
    BY <1>1
  <1>3. ~(d >= q + 1)
    <2> SUFFICES ASSUME d >= q + 1 PROVE FALSE
      OBVIOUS
    <2>1. b * (q + 1) <= b * d
      BY TimesMonotone, <1>1
    <2>2. b * (q + 1) = b * q + b
      OBVIOUS
    <2>3. QED
      BY <1>1, <1>2, <2>1, <2>2
  <1>4. ~(q >= d + 1)
    <2> SUFFICES ASSUME q >= d + 1 PROVE FALSE
      OBVIOUS
    <2>1. b * (d + 1) <= b * q
      BY TimesMonotone, <1>1
    <2>2. b * (d + 1) = b * d + b
      BY <1>1
    <2>3. QED
      BY <1>1, <1>2, <2>1, <2>2
  <1>5. d = q
    BY <1>1, <1>3, <1>4
  <1>6. m = r
    BY <1>1, <1>2, <1>5
  <1>7. QED
    BY <1>5, <1>6 DEF d, m

LEMMA DivSmall ==
  ASSUME NEW b \in Nat \ {0}, NEW a \in 0 .. b - 1
  PROVE  a \div b = 0 /\ a % b = a
  <1>1. a \in Nat /\ a = b * 0 + a
    OBVIOUS
  <1>2. QED
    BY <1>1, DivUnique

-----------------------------------------------------------------------------
(* The cursor agrees with itself, and only output, which empties the line,  *)
(* leaves it past the right edge.                                           *)
Agrees(c) ==
    /\ c \in Cursors
    /\ c.index = Place(c)
    /\ c.x = NUM_COLS => c.buf = 0

EditorInv ==
    /\ \A t \in Terms : Agrees(terminals[t])
    /\ Agrees(shadow)
    /\ TypeOK
    /\ ShadowIsCursor

-----------------------------------------------------------------------------
(* The screen. *)
LEMMA Screen ==
  /\ NUM_COLS \in Nat /\ NUM_COLS > 1
  /\ NUM_ROWS \in Nat /\ NUM_ROWS > 1
  /\ LastRow \in Nat /\ CELLS \in Nat
  /\ CELLS = LastRow + NUM_COLS
  /\ LastRow >= NUM_COLS
  /\ BUFFER_SIZE \in Nat /\ BUFFER_SIZE > 1
  <1>1. /\ NUM_COLS \in Nat /\ NUM_COLS > 1
        /\ NUM_ROWS \in Nat /\ NUM_ROWS > 1
    BY LineEditorAssumption
  <1>2. BUFFER_SIZE \in Nat /\ BUFFER_SIZE > 1
    BY LineEditorAssumption
  <1>3. LastRow \in Nat /\ CELLS \in Nat /\ LastRow >= NUM_COLS
    <2>1. NUM_COLS * 1 <= NUM_COLS * (NUM_ROWS - 1)
      BY <1>1, TimesMonotone
    <2>2. QED
      BY <1>1, <2>1 DEF LastRow, CELLS
  <1>4. CELLS = LastRow + NUM_COLS
    BY <1>1 DEF LastRow, CELLS
  <1>5. QED
    BY <1>1, <1>2, <1>3, <1>4

(* An index of the screen or of the line is never decremented below zero. *)
LEMMA DecIsMinusOne ==
  ASSUME NEW n \in Nat \ {0}, n <= CELLS \/ n < BUFFER_SIZE
  PROVE  Dec(n) = n - 1
  <1> DEFINE W == 2^16
  <1>1. W \in Nat \ {0} /\ CELLS < W /\ BUFFER_SIZE < W
    BY LineEditorAssumption DEF CELLS
  <1>2. Dec(n) = (n + W - 1) % W
    BY DEF Dec
  <1> HIDE DEF W
  <1>3. /\ n + W - 1 \in Nat /\ n + W - 1 = W * 1 + (n - 1)
        /\ n - 1 \in 0 .. W - 1
    BY <1>1, Screen
  <1>4. (n + W - 1) % W = n - 1
    BY <1>1, <1>3, DivUnique
  <1>5. QED
    BY <1>2, <1>4

(* A place of the screen, in its row and in the screen. *)
Row(y) == NUM_COLS * y

LEMMA Rows ==
  ASSUME NEW y \in 0 .. (NUM_ROWS - 1)
  PROVE  /\ Row(y) \in Nat
         /\ Row(y + 1) = Row(y) + NUM_COLS
         /\ Row(y - 1) = Row(y) - NUM_COLS
         /\ y = NUM_ROWS - 1 => Row(y) = LastRow
         /\ y < NUM_ROWS - 1 => Row(y) + NUM_COLS <= LastRow
         /\ y = 0 => Row(y) = 0
         /\ y > 0 => Row(y) >= NUM_COLS
         /\ y % NUM_ROWS = y
  <1>1. /\ NUM_COLS \in Nat /\ NUM_COLS > 1
        /\ NUM_ROWS \in Nat /\ NUM_ROWS > 1
    BY Screen
  <1>2. NUM_COLS * y \in Nat
    BY <1>1
  <1>3. NUM_COLS * (y + 1) = NUM_COLS * y + NUM_COLS
    BY <1>1
  <1>4. NUM_COLS * (y - 1) = NUM_COLS * y - NUM_COLS
    BY <1>1
  <1>5. y = NUM_ROWS - 1 => NUM_COLS * y = LastRow
    BY DEF LastRow
  <1>6. y < NUM_ROWS - 1 => NUM_COLS * y + NUM_COLS <= LastRow
    <2> SUFFICES ASSUME y < NUM_ROWS - 1 PROVE NUM_COLS * y + NUM_COLS <= LastRow
      OBVIOUS
    <2>1. NUM_COLS * (y + 1) <= NUM_COLS * (NUM_ROWS - 1)
      BY <1>1, TimesMonotone
    <2>2. QED
      BY <1>3, <2>1 DEF LastRow
  <1>7. y = 0 => NUM_COLS * y = 0
    BY <1>1
  <1>8. y > 0 => NUM_COLS * y >= NUM_COLS
    <2> SUFFICES ASSUME y > 0 PROVE NUM_COLS * y >= NUM_COLS
      OBVIOUS
    <2>1. NUM_COLS * 1 <= NUM_COLS * y
      BY <1>1, TimesMonotone
    <2>2. QED
      BY <1>1, <2>1
  <1>9. y % NUM_ROWS = y
    BY <1>1, DivSmall
  <1>10. QED
    BY <1>2, <1>3, <1>4, <1>5, <1>6, <1>7, <1>8, <1>9 DEF Row

LEMMA InRow ==
  ASSUME NEW y \in 0 .. (NUM_ROWS - 1), NEW x \in 0 .. (NUM_COLS - 1)
  PROVE  /\ (Row(y) + x) % NUM_COLS = x
         /\ (Row(y) + NUM_COLS) % NUM_COLS = 0
         /\ x % NUM_COLS = x
         /\ x \div NUM_COLS = 0
         /\ NUM_COLS \div NUM_COLS = 1
  <1>1. /\ NUM_COLS \in Nat \ {0} /\ NUM_ROWS \in Nat
    BY Screen
  <1>2. (Row(y) + x) % NUM_COLS = x
    <2> DEFINE a == Row(y) + x
    <2>1. a \in Nat /\ a = NUM_COLS * y + x /\ y \in Nat
      BY <1>1, Rows DEF Row
    <2> HIDE DEF a
    <2>2. a % NUM_COLS = x
      BY <1>1, <2>1, DivUnique
    <2>3. QED
      BY <2>2 DEF a
  <1>3. (Row(y) + NUM_COLS) % NUM_COLS = 0
    <2> DEFINE a == Row(y) + NUM_COLS
    <2>1. a \in Nat /\ y + 1 \in Nat /\ 0 \in 0 .. (NUM_COLS - 1)
      BY <1>1, Rows
    <2>2. a = NUM_COLS * (y + 1) + 0
      BY <1>1 DEF Row
    <2> HIDE DEF a
    <2>3. a % NUM_COLS = 0
      BY <1>1, <2>1, <2>2, DivUnique
    <2>4. QED
      BY <2>3 DEF a
  <1>4. x % NUM_COLS = x /\ x \div NUM_COLS = 0
    BY <1>1, DivSmall
  <1>5. NUM_COLS \div NUM_COLS = 1
    <2>1. NUM_COLS = NUM_COLS * 1 + 0 /\ 0 \in 0 .. (NUM_COLS - 1)
      BY <1>1
    <2>2. QED
      BY <1>1, <2>1, DivUnique
  <1>6. QED
    BY <1>2, <1>3, <1>4, <1>5


-----------------------------------------------------------------------------
(* What the functions do to each number of a cursor. *)
Ints == [index : Int, x : Int, y : Int, buf : Int]

LEMMA Assembled ==
  ASSUME NEW d, d = [f \in {"index", "x", "y", "buf"} |-> d[f]],
         d.index \in Int, d.x \in Int, d.y \in Int, d.buf \in Int
  PROVE  d \in Ints
  BY DEF Ints

LEMMA ScrollFields ==
  ASSUME NEW c \in Ints
  PROVE  /\ scroll_up(c) \in Ints
         /\ scroll_up(c).index = LastRow
         /\ scroll_up(c).x = 0
         /\ scroll_up(c).y = NUM_ROWS - 1
         /\ scroll_up(c).buf = c.buf
  <1> DEFINE d == scroll_up(c)
  <1>1. d = [f \in {"index", "x", "y", "buf"} |-> d[f]]
    BY DEF Ints, scroll_up
  <1>2. /\ d.index = LastRow
        /\ d.x = 0
        /\ d.y = NUM_ROWS - 1
        /\ d.buf = c.buf
    BY DEF Ints, scroll_up
  <1> HIDE DEF d
  <1>3. d \in Ints
    BY <1>1, <1>2, Screen, Assembled DEF Ints
  <1>4. QED
    BY <1>2, <1>3 DEF d

LEMMA NextLineFields ==
  ASSUME NEW c \in Ints
  PROVE  /\ NextLine(c) \in Ints
         /\ NextLine(c).index = NUM_COLS * (c.y + 1)
         /\ NextLine(c).x = 0
         /\ NextLine(c).y = c.y + 1
         /\ NextLine(c).buf = c.buf
  <1> DEFINE d == NextLine(c)
  <1>1. d = [f \in {"index", "x", "y", "buf"} |-> d[f]]
    BY DEF Ints, NextLine
  <1>2. /\ d.index = NUM_COLS * (c.y + 1)
        /\ d.x = 0
        /\ d.y = c.y + 1
        /\ d.buf = c.buf
    BY DEF Ints, NextLine
  <1> HIDE DEF d
  <1>3. d \in Ints
    BY <1>1, <1>2, Screen, Assembled DEF Ints
  <1>4. QED
    BY <1>2, <1>3 DEF d

LEMMA CountedFields ==
  ASSUME NEW c \in Ints
  PROVE  /\ [c EXCEPT !.index = @ + 1, !.buf = @ + 1] \in Ints
         /\ ([c EXCEPT !.index = @ + 1, !.buf = @ + 1]).index = c.index + 1
         /\ ([c EXCEPT !.index = @ + 1, !.buf = @ + 1]).x = c.x
         /\ ([c EXCEPT !.index = @ + 1, !.buf = @ + 1]).y = c.y
         /\ ([c EXCEPT !.index = @ + 1, !.buf = @ + 1]).buf = c.buf + 1
  <1> DEFINE d == [c EXCEPT !.index = @ + 1, !.buf = @ + 1]
  <1>1. d = [f \in {"index", "x", "y", "buf"} |-> d[f]]
    BY DEF Ints
  <1>2. /\ d.index = c.index + 1
        /\ d.x = c.x
        /\ d.y = c.y
        /\ d.buf = c.buf + 1
    BY DEF Ints
  <1> HIDE DEF d
  <1>3. d \in Ints
    BY <1>1, <1>2, Screen, Assembled DEF Ints
  <1>4. QED
    BY <1>2, <1>3 DEF d

LEMMA EchoedAtEdge ==
  ASSUME NEW c \in Ints, c.index % NUM_COLS = 0
  PROVE  /\ Echoed(c) \in Ints
         /\ Echoed(c).index = c.index
         /\ Echoed(c).x = 0
         /\ Echoed(c).y = c.y + 1
         /\ Echoed(c).buf = c.buf
  <1> DEFINE d == Echoed(c)
  <1>1. d = [f \in {"index", "x", "y", "buf"} |-> d[f]]
    BY DEF Ints, Echoed
  <1>2. /\ d.index = c.index
        /\ d.x = 0
        /\ d.y = c.y + 1
        /\ d.buf = c.buf
    BY DEF Ints, Echoed
  <1> HIDE DEF d
  <1>3. d \in Ints
    BY <1>1, <1>2, Screen, Assembled DEF Ints
  <1>4. QED
    BY <1>2, <1>3 DEF d

LEMMA EchoedInRow ==
  ASSUME NEW c \in Ints, c.index % NUM_COLS # 0
  PROVE  /\ Echoed(c) \in Ints
         /\ Echoed(c).index = c.index
         /\ Echoed(c).x = (c.x + 1) % NUM_COLS
         /\ Echoed(c).y = c.y % NUM_ROWS
         /\ Echoed(c).buf = c.buf
  <1> DEFINE d == Echoed(c)
  <1>1. d = [f \in {"index", "x", "y", "buf"} |-> d[f]]
    BY DEF Ints, Echoed
  <1>2. /\ d.index = c.index
        /\ d.x = (c.x + 1) % NUM_COLS
        /\ d.y = c.y % NUM_ROWS
        /\ d.buf = c.buf
    BY DEF Ints, Echoed
  <1> HIDE DEF d
  <1>3. d \in Ints
    BY <1>1, <1>2, Screen, Assembled DEF Ints
  <1>4. QED
    BY <1>2, <1>3 DEF d

LEMMA LeftFields ==
  ASSUME NEW c \in Ints
  PROVE  /\ [c EXCEPT !.x = @ - 1] \in Ints
         /\ ([c EXCEPT !.x = @ - 1]).index = c.index
         /\ ([c EXCEPT !.x = @ - 1]).x = c.x - 1
         /\ ([c EXCEPT !.x = @ - 1]).y = c.y
         /\ ([c EXCEPT !.x = @ - 1]).buf = c.buf
  <1> DEFINE d == [c EXCEPT !.x = @ - 1]
  <1>1. d = [f \in {"index", "x", "y", "buf"} |-> d[f]]
    BY DEF Ints
  <1>2. /\ d.index = c.index
        /\ d.x = c.x - 1
        /\ d.y = c.y
        /\ d.buf = c.buf
    BY DEF Ints
  <1> HIDE DEF d
  <1>3. d \in Ints
    BY <1>1, <1>2, Screen, Assembled DEF Ints
  <1>4. QED
    BY <1>2, <1>3 DEF d

LEMMA UpFields ==
  ASSUME NEW c \in Ints, NEW i \in Int
  PROVE  /\ [c EXCEPT !.index = i, !.y = @ - 1, !.x = NUM_COLS - 1] \in Ints
         /\ ([c EXCEPT !.index = i, !.y = @ - 1, !.x = NUM_COLS - 1]).index = i
         /\ ([c EXCEPT !.index = i, !.y = @ - 1, !.x = NUM_COLS - 1]).x = NUM_COLS - 1
         /\ ([c EXCEPT !.index = i, !.y = @ - 1, !.x = NUM_COLS - 1]).y = c.y - 1
         /\ ([c EXCEPT !.index = i, !.y = @ - 1, !.x = NUM_COLS - 1]).buf = c.buf
  <1> DEFINE d == [c EXCEPT !.index = i, !.y = @ - 1, !.x = NUM_COLS - 1]
  <1>1. d = [f \in {"index", "x", "y", "buf"} |-> d[f]]
    BY DEF Ints
  <1>2. /\ d.index = i
        /\ d.x = NUM_COLS - 1
        /\ d.y = c.y - 1
        /\ d.buf = c.buf
    BY DEF Ints
  <1> HIDE DEF d
  <1>3. d \in Ints
    BY <1>1, <1>2, Screen, Assembled DEF Ints
  <1>4. QED
    BY <1>2, <1>3 DEF d

AtEdge(c, b) == [c EXCEPT !.x = NUM_COLS - 1, !.buf = b]

LEMMA EdgeFields ==
  ASSUME NEW c \in Ints, NEW b \in Int
  PROVE  /\ AtEdge(c, b) \in Ints
         /\ AtEdge(c, b).index = c.index
         /\ AtEdge(c, b).x = NUM_COLS - 1
         /\ AtEdge(c, b).y = c.y
         /\ AtEdge(c, b).buf = b
  <1> DEFINE d == AtEdge(c, b)
  <1>1. d = [f \in {"index", "x", "y", "buf"} |-> d[f]]
    BY DEF Ints, AtEdge
  <1>2. /\ d.index = c.index
        /\ d.x = NUM_COLS - 1
        /\ d.y = c.y
        /\ d.buf = b
    BY DEF Ints, AtEdge
  <1> HIDE DEF d
  <1>3. d \in Ints
    BY <1>1, <1>2, Screen, Assembled DEF Ints
  <1>4. QED
    BY <1>2, <1>3 DEF d

Erased(c, i, b) == [c EXCEPT !.x = @ - 1, !.index = i, !.buf = b]

LEMMA ErasedFields ==
  ASSUME NEW c \in Ints, NEW i \in Int, NEW b \in Int
  PROVE  /\ Erased(c, i, b) \in Ints
         /\ Erased(c, i, b).index = i
         /\ Erased(c, i, b).x = c.x - 1
         /\ Erased(c, i, b).y = c.y
         /\ Erased(c, i, b).buf = b
  <1> DEFINE d == Erased(c, i, b)
  <1>1. d = [f \in {"index", "x", "y", "buf"} |-> d[f]]
    BY DEF Ints, Erased
  <1>2. /\ d.index = i
        /\ d.x = c.x - 1
        /\ d.y = c.y
        /\ d.buf = b
    BY DEF Ints, Erased
  <1> HIDE DEF d
  <1>3. d \in Ints
    BY <1>1, <1>2, Screen, Assembled DEF Ints
  <1>4. QED
    BY <1>2, <1>3 DEF d

LEMMA ClearFields ==
  ASSUME NEW c \in Ints
  PROVE  /\ terminal_clear(c) \in Ints
         /\ terminal_clear(c).index = 0
         /\ terminal_clear(c).x = 0
         /\ terminal_clear(c).y = 0
         /\ terminal_clear(c).buf = c.buf
  <1> DEFINE d == terminal_clear(c)
  <1>1. d = [f \in {"index", "x", "y", "buf"} |-> d[f]]
    BY DEF Ints, terminal_clear
  <1>2. /\ d.index = 0
        /\ d.x = 0
        /\ d.y = 0
        /\ d.buf = c.buf
    BY DEF Ints, terminal_clear
  <1> HIDE DEF d
  <1>3. d \in Ints
    BY <1>1, <1>2, Screen, Assembled DEF Ints
  <1>4. QED
    BY <1>2, <1>3 DEF d

LEMMA BufferFields ==
  ASSUME NEW c \in Ints
  PROVE  /\ clear_buffer(c) \in Ints
         /\ clear_buffer(c).index = c.index
         /\ clear_buffer(c).x = c.x
         /\ clear_buffer(c).y = c.y
         /\ clear_buffer(c).buf = 0
  <1> DEFINE d == clear_buffer(c)
  <1>1. d = [f \in {"index", "x", "y", "buf"} |-> d[f]]
    BY DEF Ints, clear_buffer
  <1>2. /\ d.index = c.index
        /\ d.x = c.x
        /\ d.y = c.y
        /\ d.buf = 0
    BY DEF Ints, clear_buffer
  <1> HIDE DEF d
  <1>3. d \in Ints
    BY <1>1, <1>2, Screen, Assembled DEF Ints
  <1>4. QED
    BY <1>2, <1>3 DEF d

LEMMA WrittenFields ==
  ASSUME NEW c \in Ints
  PROVE  /\ Written(c) \in Ints
         /\ Written(c).index = c.index
         /\ Written(c).x = c.x + 1
         /\ Written(c).y = IF c.y = NUM_ROWS - 1 THEN c.y ELSE (c.y + ((c.x + 1) \div NUM_COLS)) % NUM_ROWS
         /\ Written(c).buf = c.buf
  <1> DEFINE d == Written(c)
  <1>1. d = [f \in {"index", "x", "y", "buf"} |-> d[f]]
    BY DEF Ints, Written
  <1>2. /\ d.index = c.index
        /\ d.x = c.x + 1
        /\ d.y = IF c.y = NUM_ROWS - 1 THEN c.y ELSE (c.y + ((c.x + 1) \div NUM_COLS)) % NUM_ROWS
        /\ d.buf = c.buf
    BY DEF Ints, Written
  <1> HIDE DEF d
  <1>3. d \in Ints
    BY <1>1, <1>2, Screen, Assembled DEF Ints
  <1>4. QED
    BY <1>2, <1>3 DEF d

LEMMA PlacedFields ==
  ASSUME NEW c \in Ints, NEW i \in Int
  PROVE  /\ [c EXCEPT !.index = i] \in Ints
         /\ ([c EXCEPT !.index = i]).index = i
         /\ ([c EXCEPT !.index = i]).x = c.x
         /\ ([c EXCEPT !.index = i]).y = c.y
         /\ ([c EXCEPT !.index = i]).buf = c.buf
  <1> DEFINE d == [c EXCEPT !.index = i]
  <1>1. d = [f \in {"index", "x", "y", "buf"} |-> d[f]]
    BY DEF Ints
  <1>2. /\ d.index = i
        /\ d.x = c.x
        /\ d.y = c.y
        /\ d.buf = c.buf
    BY DEF Ints
  <1> HIDE DEF d
  <1>3. d \in Ints
    BY <1>1, <1>2, Screen, Assembled DEF Ints
  <1>4. QED
    BY <1>2, <1>3 DEF d

-----------------------------------------------------------------------------
(* A cursor that agrees, and its row. *)
LEMMA Fields ==
  ASSUME NEW c, Agrees(c)
  PROVE  /\ c \in Ints
         /\ c.index \in 0 .. CELLS /\ c.x \in 0 .. NUM_COLS
         /\ c.y \in 0 .. (NUM_ROWS - 1) /\ c.buf \in 0 .. (BUFFER_SIZE - 1)
         /\ c.index = Row(c.y) + c.x
         /\ c.x = NUM_COLS => c.buf = 0
         /\ Row(c.y) \in Nat
         /\ Row(c.y + 1) = Row(c.y) + NUM_COLS
         /\ Row(c.y - 1) = Row(c.y) - NUM_COLS
         /\ c.y = NUM_ROWS - 1 => Row(c.y) = LastRow
         /\ c.y < NUM_ROWS - 1 => Row(c.y) + NUM_COLS <= LastRow
         /\ c.y = 0 => Row(c.y) = 0
         /\ c.y > 0 => Row(c.y) >= NUM_COLS
         /\ c.y % NUM_ROWS = c.y
  <1>1. c \in Cursors
    BY DEF Agrees
  <1>2. /\ c.index \in 0 .. CELLS /\ c.x \in 0 .. NUM_COLS
        /\ c.y \in 0 .. (NUM_ROWS - 1) /\ c.buf \in 0 .. (BUFFER_SIZE - 1)
    BY <1>1 DEF Cursors
  <1>3. c \in Ints
    BY <1>1, Screen DEF Cursors, Ints
  <1>4. c.index = Row(c.y) + c.x /\ (c.x = NUM_COLS => c.buf = 0)
    BY DEF Agrees, Place, Row
  <1> DEFINE y == c.y
  <1>5. /\ Row(y) \in Nat
        /\ Row(y + 1) = Row(y) + NUM_COLS
        /\ Row(y - 1) = Row(y) - NUM_COLS
        /\ y = NUM_ROWS - 1 => Row(y) = LastRow
        /\ y < NUM_ROWS - 1 => Row(y) + NUM_COLS <= LastRow
        /\ y = 0 => Row(y) = 0
        /\ y > 0 => Row(y) >= NUM_COLS
        /\ y % NUM_ROWS = y
    <2>1. y \in 0 .. (NUM_ROWS - 1)
      BY <1>2
    <2> HIDE DEF y
    <2>2. QED
      BY <2>1, Rows
  <1>6. QED
    BY <1>2, <1>3, <1>4, <1>5

LEMMA AtPlace ==
  ASSUME NEW c \in Ints, NEW y \in 0 .. (NUM_ROWS - 1),
         c.y = y, c.x \in 0 .. NUM_COLS,
         c.buf \in 0 .. (BUFFER_SIZE - 1), c.index = Row(y) + c.x,
         c.x = NUM_COLS => c.buf = 0
  PROVE  Agrees(c)
  <1>1. Row(y) \in Nat /\ Row(y) + NUM_COLS <= CELLS
    <2>1. CASE y = NUM_ROWS - 1
      BY <2>1, Rows, Screen
    <2>2. CASE y < NUM_ROWS - 1
      BY <2>2, Rows, Screen
    <2>3. QED
      BY <2>1, <2>2, Screen
  <1>2. c.index \in 0 .. CELLS
    BY <1>1, Screen
  <1>3. c \in Cursors
    BY <1>2 DEF Cursors, Ints
  <1>4. c.index = Place(c)
    BY DEF Place, Row
  <1>5. QED
    BY <1>3, <1>4 DEF Agrees

LEMMA ScrollAgrees ==
  ASSUME NEW c \in Ints, c.buf \in 0 .. (BUFFER_SIZE - 1)
  PROVE  Agrees(scroll_up(c))
  <1> DEFINE d == scroll_up(c)
             y == NUM_ROWS - 1
  <1>1. /\ d \in Ints /\ d.index = LastRow /\ d.x = 0
        /\ d.y = y /\ d.buf = c.buf
    BY ScrollFields
  <1>2. y \in 0 .. (NUM_ROWS - 1)
    BY Screen
  <1> HIDE DEF d
  <1>3. Row(y) = LastRow
    BY DEF Row, LastRow
  <1> HIDE DEF y
  <1>4. Agrees(d)
    BY <1>1, <1>2, <1>3, AtPlace, Screen
  <1>5. QED
    BY <1>4 DEF d

(* The start of the next row. *)
LEMMA NextLineAgrees ==
  ASSUME NEW c \in Ints, c.y \in 0 .. (NUM_ROWS - 2), c.buf \in 0 .. (BUFFER_SIZE - 1)
  PROVE  Agrees(NextLine(c))
  <1> DEFINE d == NextLine(c)
             y == c.y + 1
  <1>1. /\ d \in Ints /\ d.index = Row(y) /\ d.x = 0 /\ d.y = y /\ d.buf = c.buf
    BY NextLineFields DEF Row
  <1>2. y \in 0 .. (NUM_ROWS - 1)
    BY Screen
  <1> HIDE DEF d, y
  <1>3. Row(y) \in Nat
    BY <1>2, Rows
  <1>4. Agrees(d)
    BY <1>1, <1>2, <1>3, AtPlace, Screen
  <1>5. QED
    BY <1>4 DEF d

LEMMA NewlineAgrees ==
  ASSUME NEW c, Agrees(c)
  PROVE  /\ Agrees(terminal_newline(c))
         /\ terminal_newline(c).buf = c.buf
  <1> USE Fields
  <1>1. CASE c.index >= LastRow
    <2>1. terminal_newline(c) = scroll_up(c)
      BY <1>1 DEF terminal_newline
    <2>2. QED
      BY <2>1, ScrollAgrees, ScrollFields
  <1>2. CASE ~(c.index >= LastRow)
    <2>1. terminal_newline(c) = NextLine(c)
      BY <1>2 DEF terminal_newline
    <2>2. c.y \in 0 .. (NUM_ROWS - 2)
      BY <1>2, Screen
    <2>3. QED
      BY <2>1, <2>2, NextLineAgrees, NextLineFields
  <1>3. QED
    BY <1>1, <1>2

LEMMA LetterAgrees ==
  ASSUME NEW c, Agrees(c), ~SlipsType(c)
  PROVE  /\ Agrees(terminal_putc(c, FALSE))
         /\ ~HasRoom(c) => terminal_putc(c, FALSE) = c
         /\ HasRoom(c) =>
              LET d == terminal_putc(c, FALSE)
              IN  /\ d.buf = c.buf + 1
                  /\ d.index = c.index + 1 \/ (d.index = c.index + 1 - NUM_COLS /\ d.index = LastRow)
  <1> USE Fields
  <1> DEFINE n == [c EXCEPT !.index = @ + 1, !.buf = @ + 1]
             e == Echoed(n)
             d == terminal_putc(c, FALSE)
             P == /\ Agrees(d)
                  /\ d.buf = c.buf + 1
                  /\ d.index = c.index + 1 \/ (d.index = c.index + 1 - NUM_COLS /\ d.index = LastRow)
  <1>1. c.x \in 0 .. (NUM_COLS - 1) /\ c.index < CELLS
    <2>1. c.x # NUM_COLS
      BY DEF SlipsType
    <2>2. c.x \in 0 .. (NUM_COLS - 1)
      BY <2>1, Screen
    <2>3. Row(c.y) \in Nat /\ Row(c.y) <= LastRow
      BY Screen
    <2>4. QED
      BY <2>2, <2>3, Screen
  <1>2. CASE ~HasRoom(c)
    <2>1. terminal_putc(c, FALSE) = c
      BY <1>1, <1>2, Screen DEF terminal_putc
    <2>2. QED
      BY <1>2, <2>1
  <1>3. ASSUME HasRoom(c) PROVE P
    <2>1. n \in Ints /\ n.index = c.index + 1 /\ n.x = c.x /\ n.y = c.y /\ n.buf = c.buf + 1
      BY CountedFields
    <2> HIDE DEF n
    <2>2. /\ e \in Ints /\ e.index = n.index /\ e.buf = n.buf
          /\ n.index % NUM_COLS = 0 => e.x = 0 /\ e.y = n.y + 1
          /\ n.index % NUM_COLS # 0 => e.x = (n.x + 1) % NUM_COLS /\ e.y = n.y
      BY <2>1, EchoedAtEdge, EchoedInRow
    <2>3. d = IF e.index >= CELLS THEN scroll_up(e) ELSE e
      BY <1>3 DEF terminal_putc, n
    <2> HIDE DEF e, d
    <2>4. n.buf \in 0 .. (BUFFER_SIZE - 1)
      BY <1>3, <2>1, Screen DEF HasRoom
    <2>5. CASE c.x + 1 = NUM_COLS
      <3>1. n.index = Row(c.y) + NUM_COLS /\ n.index % NUM_COLS = 0
        <4>1. n.index = Row(c.y) + NUM_COLS
          BY <2>1, <2>5, Screen
        <4>2. QED
          BY <4>1, InRow, <1>1
      <3>2. CASE c.y = NUM_ROWS - 1
        <4>1. n.index = CELLS
          BY <3>1, <3>2, Screen
        <4>2. d = scroll_up(e)
          BY <2>2, <2>3, <4>1, Screen
        <4>3. Agrees(d) /\ d.index = LastRow /\ d.x = 0 /\ d.buf = c.buf + 1
          BY <2>1, <2>2, <2>4, <4>2, ScrollAgrees, ScrollFields
        <4>4. LastRow = c.index + 1 - NUM_COLS
          BY <2>1, <4>1, Screen
        <4>5. QED
          BY <2>5, <4>3, <4>4, Screen
      <3>3. CASE c.y # NUM_ROWS - 1
        <4>1. n.index < CELLS /\ c.y + 1 \in 0 .. (NUM_ROWS - 1) /\ n.index = Row(c.y + 1)
          <5>1. c.y < NUM_ROWS - 1 /\ c.y + 1 \in 0 .. (NUM_ROWS - 1)
            BY <3>3, Screen
          <5>2. Row(c.y) + NUM_COLS <= LastRow /\ Row(c.y + 1) = Row(c.y) + NUM_COLS
            BY <5>1
          <5>3. QED
            BY <3>1, <5>1, <5>2, Screen
        <4>2. d = e
          BY <2>1, <2>2, <2>3, <4>1, Screen
        <4>3. /\ d \in Ints /\ d.x = 0 /\ d.y = c.y + 1 /\ d.index = c.index + 1
              /\ d.buf = c.buf + 1
          BY <2>1, <2>2, <3>1, <4>2
        <4>4. Agrees(d)
          <5> DEFINE y == c.y + 1
          <5>1. y \in 0 .. (NUM_ROWS - 1) /\ d.y = y /\ d.index = Row(y) + d.x
            BY <2>1, <2>2, <4>1, <4>2, <4>3, Screen
          <5> HIDE DEF y
          <5>2. QED
            BY <2>1, <2>4, <4>3, <5>1, AtPlace, Screen
        <4>5. QED
          BY <2>5, <4>3, <4>4, Screen
      <3>4. QED
        BY <3>2, <3>3
    <2>6. CASE c.x + 1 < NUM_COLS
      <3>1. c.x + 1 \in 0 .. (NUM_COLS - 1)
        BY <1>1, <2>6, Screen
      <3>2. n.index = Row(c.y) + (c.x + 1)
        BY <2>1, Screen
      <3>3. n.index % NUM_COLS # 0 /\ (n.x + 1) % NUM_COLS = c.x + 1
        <4> DEFINE x == c.x + 1
                   y == c.y
        <4>1. x \in 0 .. (NUM_COLS - 1) /\ y \in 0 .. (NUM_ROWS - 1) /\ n.index = Row(y) + x
          BY <3>1, <3>2
        <4>2. x # 0 /\ n.x + 1 = x
          BY <2>1, <1>1, Screen
        <4> HIDE DEF x, y
        <4>3. (Row(y) + x) % NUM_COLS = x /\ x % NUM_COLS = x
          BY <4>1, InRow
        <4>4. n.index % NUM_COLS = x /\ (n.x + 1) % NUM_COLS = x
          BY <4>1, <4>2, <4>3
        <4>5. QED
          BY <4>2, <4>4 DEF x
      <3>4. n.index < CELLS
        BY <3>1, <3>2, Screen
      <3>5. d = e
        BY <2>1, <2>2, <2>3, <3>4, Screen
      <3>6. /\ d \in Ints /\ d.x = c.x + 1 /\ d.y = c.y /\ d.index = c.index + 1
            /\ d.buf = c.buf + 1
        BY <2>1, <2>2, <3>3, <3>5
      <3>7. Agrees(d)
        BY <2>1, <2>4, <3>1, <3>2, <3>6, AtPlace, Screen
      <3>8. QED
        BY <2>6, <3>6, <3>7, Screen
    <2>7. c.x + 1 = NUM_COLS \/ c.x + 1 < NUM_COLS
      BY <1>1, Screen
    <2>8. QED
      BY <2>5, <2>6, <2>7
  <1>4. QED
    BY <1>2, <1>3

(* terminal_putc of the Backspace: nothing is counted. *)
LEMMA ErasingFields ==
  ASSUME NEW a \in Ints, a.index < CELLS, a.index % NUM_COLS # 0,
         a.y \in 0 .. (NUM_ROWS - 1)
  PROVE  LET p == terminal_putc(a, TRUE)
         IN  /\ p \in Ints /\ p.index = a.index /\ p.y = a.y /\ p.buf = a.buf
             /\ p.x = IF HasRoom(a) THEN (a.x + 1) % NUM_COLS ELSE a.x
  <1> DEFINE e == Echoed(a)
             y == a.y
  <1>1. y % NUM_ROWS = y
    <2>1. y \in 0 .. (NUM_ROWS - 1)
      OBVIOUS
    <2> HIDE DEF y
    <2>2. QED
      BY <2>1, Rows
  <1>2. /\ e \in Ints /\ e.index = a.index /\ e.y = a.y /\ e.buf = a.buf
        /\ e.x = (a.x + 1) % NUM_COLS
    BY <1>1, EchoedInRow
  <1>3. terminal_putc(a, TRUE) =
          LET echoed == IF HasRoom(a) THEN e ELSE a
          IN  IF echoed.index >= CELLS THEN scroll_up(echoed) ELSE echoed
    BY DEF terminal_putc
  <1> HIDE DEF e, y
  <1>4. ~(a.index >= CELLS)
    BY Screen DEF Ints
  <1>5. CASE HasRoom(a)
    BY <1>2, <1>3, <1>4, <1>5
  <1>6. CASE ~HasRoom(a)
    BY <1>2, <1>3, <1>4, <1>6
  <1>7. QED
    BY <1>5, <1>6

(* Where the cursor is in its row. *)
LEMMA Column ==
  ASSUME NEW c, Agrees(c)
  PROVE  /\ c.x = NUM_COLS => c.index % NUM_COLS = 0
         /\ c.x # NUM_COLS => c.index % NUM_COLS = c.x /\ c.index < CELLS
  <1> DEFINE y == c.y
             x == c.x
  <1>1. /\ y \in 0 .. (NUM_ROWS - 1) /\ x \in 0 .. NUM_COLS
        /\ c.index = Row(y) + x
    BY Fields
  <1>2. 0 \in 0 .. (NUM_COLS - 1)
    BY Screen
  <1>3. Row(y) \in Nat /\ Row(y) + NUM_COLS <= CELLS
    BY Fields, Screen
  <1> HIDE DEF x, y
  <1>4. x = NUM_COLS => c.index % NUM_COLS = 0
    BY <1>1, <1>2, InRow
  <1>5. ASSUME x # NUM_COLS PROVE c.index % NUM_COLS = x /\ c.index < CELLS
    <2>1. x \in 0 .. (NUM_COLS - 1)
      BY <1>1, <1>5, Screen
    <2>2. QED
      BY <1>1, <1>3, <2>1, InRow, Screen
  <1>6. QED
    BY <1>4, <1>5 DEF x

LEMMA RowAbove ==
  ASSUME NEW y \in 0 .. (NUM_ROWS - 1), y # 0
  PROVE  y - 1 \in 0 .. (NUM_ROWS - 1) /\ y > 0
  BY Screen

LEMMA OverRowAgrees ==
  ASSUME NEW c, Agrees(c), c.index % NUM_COLS = 0, c.index # 0, c.buf # 0
  PROVE  LET d == BackOverRow(c)
         IN  Agrees(d) /\ d.index = c.index - 1 /\ d.buf = c.buf - 1
  <1>0. /\ c \in Ints /\ c.y \in 0 .. (NUM_ROWS - 1) /\ c.buf \in 0 .. (BUFFER_SIZE - 1)
        /\ c.x \in 0 .. NUM_COLS /\ c.index \in 0 .. CELLS
        /\ c.index = Row(c.y) + c.x /\ Row(c.y) \in Nat
        /\ Row(c.y - 1) = Row(c.y) - NUM_COLS
        /\ c.y = 0 => Row(c.y) = 0
        /\ c.x = NUM_COLS => c.buf = 0
    BY Fields
  <1>1. c.x = 0 /\ c.y > 0
    <2>1. c.x # NUM_COLS
      BY <1>0
    <2>2. c.x = 0
      BY <2>1, Column
    <2>3. c.y # 0
      BY <1>0, <2>2
    <2>4. c.y > 0
      BY <1>0, <2>3, RowAbove
    <2>5. QED
      BY <2>2, <2>4
  <1> DEFINE y == c.y - 1
             x == NUM_COLS - 1
             i == c.index - 1
             b == c.buf - 1
  <1>2. /\ y \in 0 .. (NUM_ROWS - 1) /\ x \in 0 .. (NUM_COLS - 1) /\ x # NUM_COLS
        /\ x # 0 /\ i = Row(y) + x /\ i < CELLS /\ i \in Int
        /\ b \in 0 .. (BUFFER_SIZE - 1)
    <2>1. y \in 0 .. (NUM_ROWS - 1)
      BY <1>0, <1>1, RowAbove
    <2>2. x \in 0 .. (NUM_COLS - 1) /\ x # NUM_COLS /\ x # 0
      BY Screen
    <2>3. i \in Int /\ i < CELLS /\ b \in 0 .. (BUFFER_SIZE - 1)
      BY <1>0, Screen
    <2>4. Row(y) = Row(c.y) - NUM_COLS /\ Row(c.y) \in Nat /\ c.index = Row(c.y)
      BY <1>0, <1>1
    <2> HIDE DEF y
    <2>5. i = Row(y) + x
      BY <2>4, Screen
    <2>6. QED
      BY <2>1, <2>2, <2>3, <2>5
  <1>3. Dec(c.index) = i /\ Dec(c.buf) = b
    <2>1. c.index \in Nat \ {0} /\ c.index <= CELLS
      BY <1>0
    <2>2. c.buf \in Nat \ {0} /\ c.buf < BUFFER_SIZE
      BY <1>0, Screen
    <2>3. QED
      BY <2>1, <2>2, DecIsMinusOne
  <1> DEFINE a == [c EXCEPT !.index = i, !.y = @ - 1, !.x = NUM_COLS - 1]
             p == terminal_putc(a, TRUE)
             d == AtEdge(p, b)
  <1>4. /\ a \in Ints /\ a.index = i /\ a.x = x /\ a.y = y /\ a.buf = c.buf
    BY <1>0, <1>2, UpFields
  <1>5. i % NUM_COLS # 0
    <2> HIDE DEF x, y, i
    <2>1. i % NUM_COLS = x
      BY <1>2, InRow
    <2>2. QED
      BY <1>2, <2>1
  <1>6. BackOverRow(c) = [p EXCEPT !.x = NUM_COLS - 1, !.buf = Dec(p.buf)]
    BY <1>3 DEF BackOverRow
  <1> HIDE DEF a
  <1>7. p \in Ints /\ p.index = i /\ p.y = y /\ p.buf = c.buf
    <2> HIDE DEF i, x, y
    <2>1. QED
      BY <1>2, <1>4, <1>5, ErasingFields
  <1> HIDE DEF p
  <1>8. BackOverRow(c) = d
    BY <1>3, <1>6, <1>7 DEF AtEdge
  <1>9. d \in Ints /\ d.index = i /\ d.x = x /\ d.y = y /\ d.buf = b
    <2> HIDE DEF b, i, y
    <2>1. b \in Int
      BY <1>2, Screen
    <2>2. d \in Ints /\ d.index = p.index /\ d.x = NUM_COLS - 1 /\ d.y = p.y /\ d.buf = b
      BY <1>7, <2>1, EdgeFields
    <2>3. QED
      BY <1>7, <2>2
  <1> HIDE DEF d, x, y, b
  <1>10. Agrees(d)
    BY <1>2, <1>9, AtPlace, Screen
  <1>11. QED
    BY <1>8, <1>9, <1>10 DEF b

LEMMA InLineAgrees ==
  ASSUME NEW c, Agrees(c), c.index % NUM_COLS # 0, c.buf \in 1 .. (BUFFER_SIZE - 2)
  PROVE  LET d == BackInLine(c)
         IN  Agrees(d) /\ d.index = c.index - 1 /\ d.buf = c.buf - 1
  <1> USE Fields
  <1>1. c.x \in 1 .. (NUM_COLS - 1) /\ c.index < CELLS /\ c.index # 0
    <2>1. c.x # NUM_COLS
      BY Column
    <2>2. c.index < CELLS /\ c.index % NUM_COLS = c.x
      BY <2>1, Column
    <2>3. QED
      BY <2>1, <2>2, Screen
  <1> DEFINE i == c.index - 1
             b == c.buf - 1
             y == c.y
  <1>2. Dec(c.index) = i /\ Dec(c.buf) = b
    <2>1. c.index \in Nat \ {0} /\ c.index <= CELLS
      BY <1>1
    <2>2. c.buf \in Nat \ {0} /\ c.buf < BUFFER_SIZE
      BY Screen
    <2>3. QED
      BY <2>1, <2>2, DecIsMinusOne
  <1> DEFINE a == [c EXCEPT !.x = @ - 1]
             p == terminal_putc(a, TRUE)
             d == Erased(p, i, b)
  <1>3. a \in Ints /\ a.index = c.index /\ a.x = c.x - 1 /\ a.y = y /\ a.buf = c.buf
    BY LeftFields
  <1>4. BackInLine(c) = [p EXCEPT !.x = @ - 1, !.index = Dec(p.index), !.buf = Dec(p.buf)]
    BY DEF BackInLine
  <1> HIDE DEF a
  <1>5. HasRoom(a)
    BY <1>1, <1>3, Screen DEF HasRoom
  <1>6. (a.x + 1) % NUM_COLS = c.x
    <2> DEFINE x == c.x
    <2>1. a.x + 1 = x /\ x \in 0 .. (NUM_COLS - 1) /\ y \in 0 .. (NUM_ROWS - 1)
      BY <1>1, <1>3
    <2> HIDE DEF x, y
    <2>2. x % NUM_COLS = x
      BY <2>1, InRow
    <2>3. QED
      BY <2>1, <2>2 DEF x
  <1>7. p \in Ints /\ p.index = c.index /\ p.y = y /\ p.buf = c.buf /\ p.x = c.x
    <2>1. a.index < CELLS /\ a.index % NUM_COLS # 0 /\ a.y \in 0 .. (NUM_ROWS - 1)
      BY <1>1, <1>3
    <2>2. QED
      BY <1>3, <1>5, <1>6, <2>1, ErasingFields
  <1> HIDE DEF p
  <1>8. BackInLine(c) = d
    BY <1>2, <1>4, <1>7 DEF Erased
  <1>9. i \in Int /\ b \in Int /\ b \in 0 .. (BUFFER_SIZE - 1)
    BY Screen
  <1>10. d \in Ints /\ d.index = i /\ d.x = c.x - 1 /\ d.y = y /\ d.buf = b
    <2> HIDE DEF i, b
    <2>1. d \in Ints /\ d.index = i /\ d.x = p.x - 1 /\ d.y = p.y /\ d.buf = b
      BY <1>7, <1>9, ErasedFields
    <2>2. QED
      BY <1>7, <2>1
  <1> HIDE DEF d
  <1>11. /\ d.index = Row(y) + d.x /\ d.x \in 0 .. NUM_COLS /\ d.x # NUM_COLS
         /\ y \in 0 .. (NUM_ROWS - 1)
    BY <1>1, <1>10, Screen
  <1> HIDE DEF y, b
  <1>12. Agrees(d)
    BY <1>9, <1>10, <1>11, AtPlace
  <1>13. QED
    BY <1>8, <1>10, <1>12 DEF b

LEMMA FromFullAgrees ==
  ASSUME NEW c, Agrees(c), ~SlipsBack(c),
         c.index % NUM_COLS # 0 \/ c.index = 0, c.buf = BUFFER_SIZE - 1
  PROVE  LET d == BackFromFull(c)
         IN  Agrees(d) /\ d.index = c.index - 1 /\ d.buf = c.buf - 1
  <1>0. /\ c \in Ints /\ c.y \in 0 .. (NUM_ROWS - 1) /\ c.buf \in 0 .. (BUFFER_SIZE - 1)
        /\ c.x \in 0 .. NUM_COLS /\ c.index \in 0 .. CELLS
        /\ c.index = Row(c.y) + c.x /\ Row(c.y) \in Nat
    BY Fields
  <1>1. c.x \in 2 .. (NUM_COLS - 1) /\ c.index < CELLS /\ c.index # 0 /\ c.buf # 0
    <2>1. c.index % NUM_COLS # 0 /\ c.index % NUM_COLS # 1 /\ c.index # 0
      BY DEF SlipsBack
    <2>2. c.x # NUM_COLS
      BY <2>1, Column
    <2>3. c.index < CELLS /\ c.index % NUM_COLS = c.x
      BY <2>2, Column
    <2>4. c.x # 0 /\ c.x # 1
      BY <2>1, <2>3
    <2>5. c.x \in 2 .. (NUM_COLS - 1) /\ c.buf # 0
      BY <1>0, <2>2, <2>4, Screen
    <2>6. QED
      BY <2>1, <2>3, <2>5
  <1> DEFINE i == c.index - 1
             b == c.buf - 1
             y == c.y
  <1>2. Dec(c.index) = i /\ Dec(c.buf) = b
    <2>1. c.index \in Nat \ {0} /\ c.index <= CELLS
      BY <1>0, <1>1
    <2>2. c.buf \in Nat \ {0} /\ c.buf < BUFFER_SIZE
      BY <1>0, <1>1, Screen
    <2>3. QED
      BY <2>1, <2>2, DecIsMinusOne
  <1> DEFINE a == Erased(c, i, b)
             p == terminal_putc(a, TRUE)
             d == [p EXCEPT !.x = @ - 1]
  <1>3. BackFromFull(c) = d
    BY <1>2 DEF BackFromFull, Erased
  <1>4. i \in Int /\ b \in Int /\ b \in 0 .. (BUFFER_SIZE - 1) /\ b < BUFFER_SIZE - 1 /\ i < CELLS
    BY <1>0, <1>1, Screen
  <1>5. a \in Ints /\ a.index = i /\ a.x = c.x - 1 /\ a.y = y /\ a.buf = b
    <2> HIDE DEF i, b
    <2>1. QED
      BY <1>0, <1>4, ErasedFields
  <1> HIDE DEF a
  <1>6. HasRoom(a)
    BY <1>4, <1>5, Screen DEF HasRoom
  <1>7. (a.x + 1) % NUM_COLS = c.x /\ i % NUM_COLS # 0
    <2> DEFINE x == c.x
               z == c.x - 1
    <2>1. /\ a.x + 1 = x /\ x \in 0 .. (NUM_COLS - 1) /\ y \in 0 .. (NUM_ROWS - 1)
          /\ z \in 0 .. (NUM_COLS - 1) /\ z # 0 /\ i = Row(y) + z
      BY <1>0, <1>1, <1>5, Screen
    <2> HIDE DEF x, y, z, i
    <2>2. x % NUM_COLS = x /\ (Row(y) + z) % NUM_COLS = z
      BY <2>1, InRow
    <2>3. QED
      BY <2>1, <2>2 DEF x
  <1>8. p \in Ints /\ p.index = i /\ p.y = y /\ p.buf = b /\ p.x = c.x
    <2> HIDE DEF i, b
    <2>1. a.index < CELLS /\ a.index % NUM_COLS # 0 /\ a.y \in 0 .. (NUM_ROWS - 1)
      BY <1>0, <1>4, <1>5, <1>7
    <2>2. QED
      BY <1>5, <1>6, <1>7, <2>1, ErasingFields
  <1> HIDE DEF p
  <1>9. d \in Ints /\ d.index = i /\ d.x = c.x - 1 /\ d.y = y /\ d.buf = b
    <2> HIDE DEF i, b, y
    <2>1. /\ d \in Ints /\ d.index = p.index /\ d.x = p.x - 1 /\ d.y = p.y /\ d.buf = p.buf
      BY <1>8, LeftFields
    <2>2. QED
      BY <1>8, <2>1
  <1> HIDE DEF d
  <1>10. /\ d.index = Row(y) + d.x /\ d.x \in 0 .. NUM_COLS /\ d.x # NUM_COLS
         /\ y \in 0 .. (NUM_ROWS - 1)
    BY <1>0, <1>1, <1>9, Screen
  <1> HIDE DEF y, b
  <1>11. Agrees(d)
    BY <1>4, <1>9, <1>10, AtPlace
  <1>12. QED
    BY <1>3, <1>9, <1>11 DEF b

(* A Backspace without a slip takes one letter from the line, wherever the  *)
(* cursor is.                                                               *)
LEMMA BackspaceAgrees ==
  ASSUME NEW c, Agrees(c), ~SlipsBack(c)
  PROVE  LET d == cursor_backspace(c)
         IN  /\ Agrees(d)
             /\ c.index # 0 /\ c.buf # 0 => d.index = c.index - 1 /\ d.buf = c.buf - 1
  <1>0. c.buf \in 0 .. (BUFFER_SIZE - 1) /\ c.index \in 0 .. CELLS
    BY Fields
  <1>1. CASE c.index % NUM_COLS = 0 /\ c.index # 0
    <2>1. cursor_backspace(c) = BackOverRow(c)
      BY <1>1 DEF cursor_backspace
    <2>2. c.buf # 0
      BY <1>1 DEF SlipsBack
    <2>3. QED
      BY <1>1, <2>1, <2>2, OverRowAgrees
  <1>2. CASE c.index % NUM_COLS # 0 /\ c.buf \in 1 .. (BUFFER_SIZE - 2)
    <2>1. c.buf # BUFFER_SIZE - 1
      BY <1>2, Screen
    <2>2. cursor_backspace(c) = BackInLine(c)
      BY <1>2, <2>1 DEF cursor_backspace
    <2>3. QED
      BY <1>2, <2>2, InLineAgrees
  <1>3. CASE (c.index % NUM_COLS # 0 \/ c.index = 0) /\ c.buf = BUFFER_SIZE - 1
    <2>1. c.buf \notin 1 .. (BUFFER_SIZE - 2)
      BY <1>3, Screen
    <2>2. cursor_backspace(c) = BackFromFull(c)
      BY <1>3, <2>1 DEF cursor_backspace
    <2>3. QED
      BY <1>3, <2>2, FromFullAgrees
  <1>4. CASE /\ ~(c.index % NUM_COLS = 0 /\ c.index # 0)
             /\ ~(c.index % NUM_COLS # 0 /\ c.buf \in 1 .. (BUFFER_SIZE - 2))
             /\ ~((c.index % NUM_COLS # 0 \/ c.index = 0) /\ c.buf = BUFFER_SIZE - 1)
    <2>1. cursor_backspace(c) = c
      BY <1>4 DEF cursor_backspace
    <2>2. c.index = 0 \/ c.buf = 0
      BY <1>0, <1>4, Screen
    <2>3. QED
      BY <2>1, <2>2
  <1>5. QED
    BY <1>1, <1>2, <1>3, <1>4

(* A letter and a Backspace: the letter that scrolls leaves the cursor at   *)
(* the start of the last row.                                               *)
LEMMA BackspaceAfterLetter ==
  ASSUME NEW c, Agrees(c), HasRoom(c), ~SlipsType(c)
  PROVE  LET e == terminal_putc(c, FALSE)
             d == cursor_backspace(e)
         IN  ~SlipsBack(e) => /\ d.buf = c.buf
                              /\ d.index = Place(d)
                              /\ d.index \in {c.index, c.index - NUM_COLS}
  <1> DEFINE e == terminal_putc(c, FALSE)
             d == cursor_backspace(e)
  <1> SUFFICES ASSUME ~SlipsBack(e)
               PROVE  /\ d.buf = c.buf
                      /\ d.index = Place(d)
                      /\ d.index \in {c.index, c.index - NUM_COLS}
    OBVIOUS
  <1>1. /\ Agrees(e) /\ e.buf = c.buf + 1
        /\ e.index = c.index + 1 \/ (e.index = c.index + 1 - NUM_COLS /\ e.index = LastRow)
    BY LetterAgrees
  <1>2. /\ c.index \in 0 .. CELLS /\ c.buf \in 0 .. (BUFFER_SIZE - 1)
        /\ c.index = Row(c.y) + c.x /\ c.x \in 0 .. NUM_COLS
    BY Fields
  <1> HIDE DEF e
  <1>3. e.index # 0
    <2>1. CASE e.index = c.index + 1
      BY <1>2, <2>1
    <2>2. CASE e.index = c.index + 1 - NUM_COLS /\ e.index = LastRow
      BY <2>2, Screen
    <2>3. QED
      BY <1>1, <2>1, <2>2
  <1>4. e.buf # 0
    BY <1>1, <1>2, Screen
  <1>5. Agrees(d) /\ d.index = e.index - 1 /\ d.buf = e.buf - 1
    BY <1>1, <1>3, <1>4, BackspaceAgrees
  <1>6. d.index = Place(d)
    BY <1>5 DEF Agrees
  <1> HIDE DEF d
  <1>7. d.buf = c.buf /\ d.index \in {c.index, c.index - NUM_COLS}
    BY <1>1, <1>2, <1>5, Screen
  <1>8. QED
    BY <1>6, <1>7

-----------------------------------------------------------------------------
(* Output. *)
LEMMA PlacedAgrees ==
  ASSUME NEW d \in Ints, d.y \in 0 .. (NUM_ROWS - 1), d.x \in 0 .. NUM_COLS, d.buf = 0
  PROVE  LET e == [d EXCEPT !.index = Place(d)]
         IN  Agrees(e) /\ e.buf = 0
  <1> DEFINE i == Place(d)
             e == [d EXCEPT !.index = i]
             y == d.y
  <1>1. Row(y) \in Nat /\ i = Row(y) + d.x /\ y \in 0 .. (NUM_ROWS - 1)
    <2>1. i = Row(y) + d.x
      BY DEF Place, Row
    <2>2. y \in 0 .. (NUM_ROWS - 1)
      OBVIOUS
    <2> HIDE DEF i, y
    <2>3. QED
      BY <2>1, <2>2, Rows
  <1>2. i \in Int
    <2> HIDE DEF i, y
    <2>1. QED
      BY <1>1, Screen
  <1>3. e \in Ints /\ e.index = i /\ e.x = d.x /\ e.y = y /\ e.buf = 0
    <2> HIDE DEF i
    <2>1. QED
      BY <1>2, PlacedFields
  <1> HIDE DEF e, i, y
  <1>4. Agrees(e)
    <2>1. e.index = Row(y) + e.x /\ e.x \in 0 .. NUM_COLS /\ e.buf \in 0 .. (BUFFER_SIZE - 1)
      BY <1>1, <1>3, Screen
    <2>2. QED
      BY <1>1, <1>3, <2>1, AtPlace
  <1>5. QED
    BY <1>3, <1>4 DEF e, i

LEMMA WrappedAgrees ==
  ASSUME NEW c, Agrees(c)
  PROVE  Agrees(Wrapped(c)) /\ Wrapped(c).x = 0 /\ Wrapped(c).buf = c.buf
  <1>0. /\ c \in Ints /\ c.y \in 0 .. (NUM_ROWS - 1) /\ c.buf \in 0 .. (BUFFER_SIZE - 1)
        /\ Row(c.y) \in Nat /\ Row(c.y + 1) = Row(c.y) + NUM_COLS
        /\ c.y = NUM_ROWS - 1 => Row(c.y) = LastRow
        /\ c.y < NUM_ROWS - 1 => Row(c.y) + NUM_COLS <= LastRow
    BY Fields
  <1> DEFINE d == NextLine(c)
  <1>1. d \in Ints /\ d.index = Row(c.y) + NUM_COLS /\ d.x = 0 /\ d.buf = c.buf
    BY <1>0, NextLineFields DEF Row
  <1>2. Wrapped(c) = IF d.index >= CELLS THEN scroll_up(d) ELSE d
    BY DEF Wrapped
  <1>3. CASE c.y = NUM_ROWS - 1
    <2> HIDE DEF d
    <2>1. Wrapped(c) = scroll_up(d)
      BY <1>0, <1>1, <1>2, <1>3, Screen
    <2>2. QED
      BY <1>0, <1>1, <2>1, ScrollAgrees, ScrollFields
  <1>4. CASE c.y # NUM_ROWS - 1
    <2>1. c.y \in 0 .. (NUM_ROWS - 2)
      BY <1>0, <1>4, Screen
    <2>2. Agrees(d)
      BY <1>0, <2>1, NextLineAgrees
    <2> HIDE DEF d
    <2>3. Wrapped(c) = d
      BY <1>0, <1>1, <1>2, <2>1, Screen
    <2>4. QED
      BY <1>1, <2>2, <2>3
  <1>5. QED
    BY <1>3, <1>4

LEMMA WrittenInScreen ==
  ASSUME NEW c, Agrees(c), c.x # NUM_COLS, c.buf = 0
  PROVE  LET d == Written(c)
         IN  /\ d \in Ints /\ d.buf = 0
             /\ d.x \in 0 .. NUM_COLS /\ d.y \in 0 .. (NUM_ROWS - 1)
  <1> DEFINE x == c.x + 1
             y == c.y
             q == x \div NUM_COLS
             d == Written(c)
  <1>0. /\ c \in Ints /\ y \in 0 .. (NUM_ROWS - 1) /\ x \in 1 .. NUM_COLS
    BY Fields, Screen
  <1>1. /\ d \in Ints /\ d.buf = 0 /\ d.x = x
        /\ d.y = IF y = NUM_ROWS - 1 THEN y ELSE (y + q) % NUM_ROWS
    BY <1>0, WrittenFields
  <1> HIDE DEF x, y, d
  <1>2. q \in {0, 1}
    <2>1. CASE x = NUM_COLS
      <3>1. 0 \in 0 .. (NUM_COLS - 1) /\ 0 \in 0 .. (NUM_ROWS - 1)
        BY Screen
      <3>2. QED
        BY <2>1, <3>1, InRow
    <2>2. CASE x # NUM_COLS
      <3>1. x \in 0 .. (NUM_COLS - 1) /\ 0 \in 0 .. (NUM_ROWS - 1)
        BY <1>0, <2>2, Screen
      <3>2. QED
        BY <3>1, InRow
    <2>3. QED
      BY <2>1, <2>2
  <1> HIDE DEF q
  <1>3. d.y \in 0 .. (NUM_ROWS - 1)
    <2>1. CASE y = NUM_ROWS - 1
      BY <1>0, <1>1, <2>1
    <2>2. CASE y # NUM_ROWS - 1
      <3> DEFINE z == y + q
      <3>1. z \in 0 .. (NUM_ROWS - 1)
        BY <1>0, <1>2, <2>2, Screen
      <3>2. d.y = z % NUM_ROWS
        BY <1>1, <2>2
      <3> HIDE DEF z
      <3>3. QED
        BY <3>1, <3>2, Rows
    <2>3. QED
      BY <2>1, <2>2
  <1>4. d.x \in 0 .. NUM_COLS
    BY <1>0, <1>1, Screen
  <1>5. QED
    BY <1>1, <1>3, <1>4 DEF d

LEMMA PutAgrees ==
  ASSUME NEW c, Agrees(c), c.buf = 0, NEW char \in {"char", "newline"}
  PROVE  Agrees(Put(c, char)) /\ Put(c, char).buf = 0
  <1> DEFINE d == CASE char = "newline" -> Wrapped(c)
                    [] char = "char" /\ c.x = NUM_COLS -> Written(Wrapped(c))
                    [] OTHER -> Written(c)
  <1>1. /\ d \in Ints /\ d.buf = 0
        /\ d.x \in 0 .. NUM_COLS /\ d.y \in 0 .. (NUM_ROWS - 1)
    <2>1. CASE char = "newline"
      <3>1. d = Wrapped(c)
        BY <2>1
      <3> HIDE DEF d
      <3>2. QED
        BY <3>1, WrappedAgrees, Fields
    <2>2. CASE char = "char" /\ c.x = NUM_COLS
      <3>1. d = Written(Wrapped(c))
        BY <2>2
      <3>2. Agrees(Wrapped(c)) /\ Wrapped(c).x # NUM_COLS /\ Wrapped(c).buf = 0
        BY WrappedAgrees, Screen
      <3> HIDE DEF d
      <3>3. QED
        BY <3>1, <3>2, WrittenInScreen
    <2>3. CASE char = "char" /\ c.x # NUM_COLS
      <3>1. d = Written(c)
        BY <2>3
      <3> HIDE DEF d
      <3>2. QED
        BY <2>3, <3>1, WrittenInScreen
    <2>4. QED
      BY <2>1, <2>2, <2>3
  <1>2. Put(c, char) = [d EXCEPT !.index = Place(d)]
    BY DEF Put
  <1> HIDE DEF d
  <1>3. QED
    BY <1>1, <1>2, PlacedAgrees

(* terminal_puts puts the characters one after the other. *)
LEMMA PutsAgree ==
  ASSUME NEW c, Agrees(c), c.buf = 0, NEW text \in Seq({"char", "newline"})
  PROVE  Agrees(terminal_puts(c, text)) /\ terminal_puts(c, text).buf = 0
  <1> DEFINE L == Len(text)
             Goes(a, k) == a = [n \in 0 .. k |-> IF n = 0 THEN c ELSE Put(a[n - 1], text[n])]
             after == CHOOSE a : Goes(a, L)
             Bad == {k \in 0 .. L : ~ \E a : Goes(a, k)}
  <1>1. L \in Nat
    OBVIOUS
  <1>2. terminal_puts(c, text) = after[L]
    BY DEF terminal_puts
  <1> HIDE DEF L
  <1>3. Bad = {}
    <2> SUFFICES ASSUME Bad # {} PROVE FALSE
      OBVIOUS
    <2>1. PICK m \in Bad : \A k \in Bad : m <= k
      <3>1. Bad \in SUBSET Nat
        BY <1>1
      <3> HIDE DEF Bad
      <3>2. QED
        BY <3>1, LeastNat
    <2>2. m \in 0 .. L /\ m \in Nat
      BY <1>1, <2>1
    <2>3. CASE m = 0
      <3> DEFINE a == [n \in 0 .. 0 |-> c]
      <3>1. Goes(a, 0)
        BY \A n \in 0 .. 0 : n = 0
      <3>2. QED
        BY <2>1, <2>3, <3>1
    <2>4. CASE m # 0
      <3>1. m - 1 \in 0 .. L /\ m - 1 \notin Bad
        <4>1. m - 1 \in 0 .. L /\ ~(m <= m - 1)
          BY <1>1, <2>2, <2>4
        <4> HIDE DEF Bad
        <4>2. QED
          BY <2>1, <4>1
      <3>2. PICK b : Goes(b, m - 1)
        BY <3>1
      <3> DEFINE a == [n \in 0 .. m |-> IF n = m THEN Put(b[m - 1], text[m]) ELSE b[n]]
      <3>3. ASSUME NEW n \in 0 .. m
            PROVE  a[n] = IF n = 0 THEN c ELSE Put(a[n - 1], text[n])
        <4>1. CASE n = m
          <5>1. a[n] = Put(b[m - 1], text[m]) /\ m - 1 \in 0 .. m /\ m - 1 # m
            BY <2>2, <2>4, <4>1
          <5>2. a[m - 1] = b[m - 1]
            BY <5>1
          <5>3. QED
            BY <2>4, <4>1, <5>1, <5>2
        <4>2. CASE n # m /\ n = 0
          <5>1. a[n] = b[n] /\ n \in 0 .. (m - 1)
            BY <2>2, <2>4, <4>2
          <5>2. b[n] = c
            BY <3>2, <4>2, <5>1
          <5>3. QED
            BY <4>2, <5>1, <5>2
        <4>3. CASE n # m /\ n # 0
          <5>1. /\ a[n] = b[n] /\ n \in 0 .. (m - 1)
                /\ n - 1 \in 0 .. m /\ n - 1 # m
            BY <2>2, <2>4, <4>3
          <5>2. b[n] = Put(b[n - 1], text[n])
            BY <3>2, <4>3, <5>1
          <5>3. a[n - 1] = b[n - 1]
            BY <5>1
          <5>4. QED
            BY <4>3, <5>1, <5>2, <5>3
        <4>4. QED
          BY <4>1, <4>2, <4>3
      <3>4. Goes(a, m)
        <4>1. a = [n \in 0 .. m |-> a[n]]
          OBVIOUS
        <4> HIDE DEF a
        <4>2. QED
          BY <3>3, <4>1
      <3>5. QED
        BY <2>1, <3>4
    <2>5. QED
      BY <2>3, <2>4
  <1>4. Goes(after, L)
    <2>1. L \in 0 .. L
      BY <1>1
    <2>2. \E a : Goes(a, L)
      BY <1>3, <2>1
    <2>3. QED
      BY <2>2
  <1> HIDE DEF after
  <1>5. /\ after[0] = c
        /\ \A n \in 1 .. L : after[n] = Put(after[n - 1], text[n])
    BY <1>1, <1>4
  <1> DEFINE Wrong == {k \in 0 .. L : ~(Agrees(after[k]) /\ after[k].buf = 0)}
  <1>6. Wrong = {}
    <2> SUFFICES ASSUME Wrong # {} PROVE FALSE
      OBVIOUS
    <2>1. PICK m \in Wrong : \A k \in Wrong : m <= k
      <3>1. Wrong \in SUBSET Nat
        BY <1>1
      <3> HIDE DEF Wrong
      <3>2. QED
        BY <3>1, LeastNat
    <2>2. m \in 0 .. L /\ m \in Nat
      BY <1>1, <2>1
    <2>3. m # 0
      BY <1>5, <2>1
    <2>4. m \in 1 .. L /\ m - 1 \in 0 .. L /\ m - 1 \notin Wrong
      BY <1>1, <2>1, <2>2, <2>3
    <2>5. text[m] \in {"char", "newline"}
      BY <1>1, <2>4 DEF L
    <2>6. Agrees(after[m - 1]) /\ after[m - 1].buf = 0
      BY <2>4
    <2>7. Agrees(after[m]) /\ after[m].buf = 0
      BY <1>5, <2>4, <2>5, <2>6, PutAgrees
    <2>8. QED
      BY <2>1, <2>7
  <1>7. L \in 0 .. L
    BY <1>1
  <1>8. QED
    BY <1>2, <1>6, <1>7

-----------------------------------------------------------------------------
LEMMA OriginAgrees == Agrees(Origin)
  <1> DEFINE c == Origin
             y == 0
  <1>1. c \in Ints /\ c.index = 0 /\ c.x = 0 /\ c.y = y /\ c.buf = 0
    BY DEF Origin, Ints
  <1>2. y \in 0 .. (NUM_ROWS - 1) /\ 0 \in 0 .. (BUFFER_SIZE - 1) /\ 0 \in 0 .. NUM_COLS
    BY Screen
  <1>3. Row(y) = 0
    BY <1>2, Rows
  <1> HIDE DEF c, y
  <1>4. Agrees(c)
    BY <1>1, <1>2, <1>3, AtPlace, Screen
  <1>5. QED
    BY <1>4 DEF c

LEMMA ClearAgrees ==
  ASSUME NEW c, Agrees(c)
  PROVE  Agrees(terminal_clear(c))
  <1> DEFINE d == terminal_clear(c)
             y == 0
  <1>1. d \in Ints /\ d.index = 0 /\ d.x = 0 /\ d.y = y /\ d.buf = c.buf
    BY Fields, ClearFields
  <1>2. /\ y \in 0 .. (NUM_ROWS - 1) /\ 0 \in 0 .. NUM_COLS
        /\ c.buf \in 0 .. (BUFFER_SIZE - 1)
    BY Fields, Screen
  <1>3. Row(y) = 0
    BY <1>2, Rows
  <1> HIDE DEF d, y
  <1>4. Agrees(d)
    BY <1>1, <1>2, <1>3, AtPlace, Screen
  <1>5. QED
    BY <1>4 DEF d

LEMMA BufferAgrees ==
  ASSUME NEW c, Agrees(c)
  PROVE  Agrees(clear_buffer(c)) /\ clear_buffer(c).buf = 0
  <1> DEFINE d == clear_buffer(c)
             y == c.y
  <1>1. d \in Ints /\ d.index = c.index /\ d.x = c.x /\ d.y = y /\ d.buf = 0
    BY Fields, BufferFields
  <1>2. /\ y \in 0 .. (NUM_ROWS - 1) /\ c.x \in 0 .. NUM_COLS
        /\ c.index = Row(y) + c.x /\ 0 \in 0 .. (BUFFER_SIZE - 1)
    BY Fields, Screen
  <1> HIDE DEF d, y
  <1>3. Agrees(d)
    BY <1>1, <1>2, AtPlace
  <1>4. QED
    BY <1>1, <1>3 DEF d

(* The copies but for the line, which a hidden process's output empties. *)
LEMMA BufferOnce ==
  ASSUME NEW c \in Cursors
  PROVE  clear_buffer(clear_buffer(c)) = clear_buffer(c)
  BY DEF clear_buffer, Cursors

LEMMA ClearTogether ==
  ASSUME NEW c \in Cursors, NEW d \in Cursors, clear_buffer(c) = clear_buffer(d)
  PROVE  clear_buffer(terminal_clear(c)) = clear_buffer(terminal_clear(d))
  BY DEF clear_buffer, terminal_clear, Cursors

LEMMA EditStep ==
  ASSUME EditorInv, NEW c, Agrees(c), Edit(c)
  PROVE  EditorInv'
  <1>1. c \in Cursors
    BY DEF Agrees
  <1>2. curr_terminal \in Terms /\ terminals \in [Terms -> Cursors]
    BY DEF EditorInv, TypeOK
  <1>3. /\ terminals' = [terminals EXCEPT ![curr_terminal] = c] /\ shadow' = c
        /\ curr_terminal' = curr_terminal /\ flags' = flags
    BY DEF Edit
  <1>4. terminals' \in [Terms -> Cursors] /\ terminals'[curr_terminal] = c
    BY <1>1, <1>2, <1>3
  <1>5. TypeOK'
    BY <1>1, <1>2, <1>3, <1>4 DEF EditorInv, TypeOK
  <1>6. \A t \in Terms : Agrees(terminals'[t])
    BY <1>2, <1>3 DEF EditorInv
  <1>7. ShadowIsCursor'
    BY <1>3, <1>4 DEF ShadowIsCursor, Displayed
  <1>8. Agrees(shadow')
    BY <1>3
  <1>9. QED
    BY <1>5, <1>6, <1>7, <1>8 DEF EditorInv, Agrees, Place

LEMMA SwitchStep ==
  ASSUME EditorInv, NEW t \in Terms, SwitchTerminal(t)
  PROVE  EditorInv'
  <1>1. /\ curr_terminal \in Terms /\ terminals \in [Terms -> Cursors]
        /\ shadow \in Cursors /\ Agrees(shadow)
    BY DEF EditorInv, TypeOK
  <1>2. /\ terminals' = [terminals EXCEPT ![curr_terminal] = shadow]
        /\ shadow' = terminals'[t] /\ curr_terminal' = t /\ flags' = flags
    BY DEF SwitchTerminal, Saved
  <1>3. terminals' \in [Terms -> Cursors]
    BY <1>1, <1>2
  <1>4. TypeOK'
    BY <1>2, <1>3 DEF EditorInv, TypeOK
  <1>5. \A u \in Terms : Agrees(terminals'[u])
    BY <1>1, <1>2 DEF EditorInv
  <1>6. ShadowIsCursor'
    BY <1>2 DEF ShadowIsCursor, Displayed
  <1>7. Agrees(shadow')
    BY <1>2, <1>5
  <1>8. QED
    BY <1>4, <1>5, <1>6, <1>7 DEF EditorInv, Agrees, Place

LEMMA ClearStep ==
  ASSUME EditorInv, PressCtrlL
  PROVE  EditorInv'
  <1>1. /\ curr_terminal \in Terms /\ terminals \in [Terms -> Cursors]
        /\ shadow \in Cursors /\ Agrees(shadow)
        /\ terminals[curr_terminal] \in Cursors
    BY DEF EditorInv, TypeOK
  <1>2. /\ terminals' = [terminals EXCEPT ![curr_terminal] = terminal_clear(@)]
        /\ shadow' = terminal_clear(shadow)
        /\ curr_terminal' = curr_terminal /\ flags' = flags
    BY DEF PressCtrlL
  <1>3. /\ Agrees(terminal_clear(terminals[curr_terminal]))
        /\ Agrees(terminal_clear(shadow))
    BY <1>1, ClearAgrees DEF EditorInv
  <1>4. /\ terminal_clear(terminals[curr_terminal]) \in Cursors
        /\ terminal_clear(shadow) \in Cursors
    BY <1>3 DEF Agrees
  <1>5. terminals' \in [Terms -> Cursors]
    BY <1>1, <1>2, <1>4
  <1>6. TypeOK'
    BY <1>2, <1>4, <1>5 DEF EditorInv, TypeOK
  <1>7. \A t \in Terms : Agrees(terminals'[t])
    BY <1>1, <1>2, <1>3 DEF EditorInv
  <1>8. terminals'[curr_terminal] = terminal_clear(terminals[curr_terminal])
    BY <1>1, <1>2
  <1>9. ShadowIsCursor'
    BY <1>1, <1>2, <1>8, ClearTogether DEF EditorInv, ShadowIsCursor, Displayed
  <1>10. Agrees(shadow')
    BY <1>2, <1>3
  <1>11. QED
    BY <1>6, <1>7, <1>9, <1>10 DEF EditorInv, Agrees, Place

LEMMA WriteStep ==
  ASSUME EditorInv, NEW t \in Terms, NEW text \in Texts, Write(t, text)
  PROVE  EditorInv'
  <1>1. /\ curr_terminal \in Terms /\ terminals \in [Terms -> Cursors]
        /\ shadow \in Cursors /\ Agrees(shadow) /\ Agrees(terminals[t])
    BY DEF EditorInv, TypeOK
  <1> DEFINE c == terminal_puts(clear_buffer(terminals[t]), text)
  <1>2. Agrees(c)
    <2>1. text \in Seq({"char", "newline"})
      BY LineEditorAssumption
    <2>2. /\ Agrees(clear_buffer(terminals[t]))
          /\ clear_buffer(terminals[t]).buf = 0
      BY <1>1, BufferAgrees
    <2>3. QED
      BY <2>1, <2>2, PutsAgree
  <1>3. /\ terminals' = [terminals EXCEPT ![t] = c]
        /\ shadow' = IF t = curr_terminal THEN c ELSE clear_buffer(shadow)
        /\ curr_terminal' = curr_terminal /\ flags' = flags
    BY DEF Write, Followed
  <1> HIDE DEF c
  <1>4. Agrees(shadow')
    BY <1>1, <1>2, <1>3, BufferAgrees
  <1>5. c \in Cursors /\ shadow' \in Cursors
    BY <1>2, <1>4 DEF Agrees
  <1>6. terminals' \in [Terms -> Cursors]
    BY <1>1, <1>3, <1>5
  <1>7. TypeOK'
    BY <1>3, <1>5, <1>6 DEF EditorInv, TypeOK
  <1>8. \A u \in Terms : Agrees(terminals'[u])
    BY <1>1, <1>2, <1>3 DEF EditorInv
  <1>9. ShadowIsCursor'
    <2>1. CASE t = curr_terminal
      BY <1>1, <1>3, <2>1 DEF ShadowIsCursor, Displayed
    <2>2. CASE t # curr_terminal
      <3>1. terminals'[curr_terminal] = terminals[curr_terminal]
        BY <1>1, <1>3, <2>2
      <3>2. clear_buffer(shadow') = clear_buffer(shadow)
        BY <1>1, <1>3, <2>2, BufferOnce
      <3>3. QED
        BY <1>3, <3>1, <3>2 DEF EditorInv, ShadowIsCursor, Displayed
    <2>3. QED
      BY <2>1, <2>2
  <1>10. QED
    BY <1>4, <1>7, <1>8, <1>9 DEF EditorInv, Agrees, Place

LEMMA EditorInit == Init => EditorInv
  <1> SUFFICES ASSUME Init PROVE EditorInv
    OBVIOUS
  <1>1. Agrees(Origin) /\ Origin \in Cursors
    BY OriginAgrees DEF Agrees
  <1>2. 0 \in Terms
    BY LineEditorAssumption DEF Terms
  <1>3. TypeOK
    BY <1>1, <1>2 DEF Init, TypeOK
  <1>4. ShadowIsCursor
    BY <1>2 DEF Init, ShadowIsCursor, Displayed
  <1>5. QED
    BY <1>1, <1>3, <1>4 DEF Init, EditorInv

LEMMA EditorNext ==
  ASSUME Careful, EditorInv, [Next]_vars
  PROVE  EditorInv'
  <1>1. Agrees(Displayed)
    BY DEF EditorInv, TypeOK, Displayed
  <1>2. ASSUME UNCHANGED vars PROVE EditorInv'
    BY <1>2 DEF vars, EditorInv, TypeOK, ShadowIsCursor, Displayed, Agrees, Place
  <1>3. ASSUME NEW m \in Modifiers, Modifier(m) PROVE EditorInv'
    <2>1. /\ flags' \subseteq Modifiers
          /\ UNCHANGED <<terminals, shadow, curr_terminal>>
      BY <1>3 DEF Modifier, EditorInv, TypeOK
    <2>2. QED
      BY <2>1 DEF EditorInv, TypeOK, ShadowIsCursor, Displayed, Agrees, Place
  <1>4. CASE PressLetter
    <2>1. ~SlipsType(Displayed)
      BY <1>4 DEF PressLetter
    <2>2. Agrees(terminal_putc(Displayed, FALSE))
      BY <1>1, <2>1, LetterAgrees
    <2>3. UNCHANGED vars \/ Edit(terminal_putc(Displayed, FALSE))
      BY <1>4 DEF PressLetter
    <2>4. QED
      BY <1>2, <2>2, <2>3, EditStep
  <1>5. CASE PressBackspace
    <2>1. ~SlipsBack(Displayed)
      BY <1>5 DEF PressBackspace
    <2>2. Agrees(cursor_backspace(Displayed))
      BY <1>1, <2>1, BackspaceAgrees
    <2>3. UNCHANGED vars \/ Edit(cursor_backspace(Displayed))
      BY <1>5 DEF PressBackspace
    <2>4. QED
      BY <1>2, <2>2, <2>3, EditStep
  <1>6. CASE PressEnter
    BY <1>1, <1>6, NewlineAgrees, EditStep DEF PressEnter
  <1>7. CASE PressCtrlL
    BY <1>7, ClearStep
  <1>8. ASSUME NEW t \in Terms, SwitchTerminal(t) PROVE EditorInv'
    BY <1>8, SwitchStep
  <1>9. ASSUME NEW t \in Terms, NEW text \in Texts, Write(t, text) PROVE EditorInv'
    BY <1>9, WriteStep
  <1>10. QED
    BY <1>2, <1>3, <1>4, <1>5, <1>6, <1>7, <1>8, <1>9 DEF Next

LEMMA EditorAlways == Careful => (Spec => []EditorInv)
  <1> SUFFICES ASSUME Careful PROVE Spec => []EditorInv
    OBVIOUS
  <1>1. Init => EditorInv
    BY EditorInit
  <1>2. EditorInv /\ [Next]_vars => EditorInv'
    BY EditorNext
  <1>3. QED
    BY <1>1, <1>2, PTL DEF Spec

(* On screens of every size, with lines of every length, every output and   *)
(* any mix of typing, erasing, clearing and switching, the cursor shown is  *)
(* where the text goes and the globals are the displayed terminal's: as     *)
(* long as the user avoids the slips (terminal.c).                          *)
THEOREM CursorsAlwaysAgree == Careful => (Spec => []CursorsAgree)
  <1> SUFFICES ASSUME Careful PROVE Spec => []CursorsAgree
    OBVIOUS
  <1>1. EditorInv => CursorsAgree
    BY DEF EditorInv, CursorsAgree, CursorIsWhereTextGoes, Agrees
  <1>2. QED
    BY <1>1, EditorAlways, PTL

(* Backspace undoes the letter before it, at the edge of a row and at the   *)
(* bottom of the screen too (terminal_putc, cursor_backspace).              *)
THEOREM LettersAreUndone == Careful => (Spec => []BackspaceUndoesALetter)
  <1> SUFFICES ASSUME Careful PROVE Spec => []BackspaceUndoesALetter
    OBVIOUS
  <1>1. EditorInv => BackspaceUndoesALetter
    <2> SUFFICES ASSUME EditorInv PROVE BackspaceUndoesALetter
      OBVIOUS
    <2>1. Agrees(Displayed)
      BY DEF EditorInv, TypeOK, Displayed
    <2>2. QED
      BY <2>1, BackspaceAfterLetter DEF BackspaceUndoesALetter
  <1>2. QED
    BY <1>1, EditorAlways, PTL
=============================================================================
