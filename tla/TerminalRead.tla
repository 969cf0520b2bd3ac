---------------------------- MODULE TerminalRead ----------------------------
(***************************************************************************)
(* terminal_read() and terminal_write() of empee3/student-distrib, called  *)
(* by one process per terminal, against the keyboard handler's Enter, keys *)
(* and Alt-Fn.  A reader polls three global flags, then compares the GLOBAL*)
(* pointer cur_task with the terminal displayed; a PIT tick may come       *)
(* between any two of these steps, and the next process, or the keyboard   *)
(* handler, assigns cur_task too.  The kernel is built without -O, so each *)
(* test of the loops reads memory.                                         *)
(*                                                                         *)
(* The edited line of a terminal is its length, in the 16 bits it has: the *)
(* properties never look at the characters.  Processes are named by        *)
(* their terminals (what Kernel proves of active_pid), schedule() is the   *)
(* round-robin it implements when every shell is up, and as in Kernel user *)
(* code runs with interrupts off and do_read / do_write with them on.      *)
(*                                                                         *)
(* Operators marked "faulty" are what a slip in the code would make of the *)
(* operator defined after them; no action uses them.                       *)
(***************************************************************************)
EXTENDS TerminalGlobals, FiniteSets

CONSTANTS WORD,            \* 2^16: the values of term_buf_index
          Readers,         \* terminals whose process reads
          Writers          \* terminals whose process writes

ASSUME TerminalReadAssumption ==
    /\ MAX_TERMS \in Nat \ {0}
    /\ WORD \in Nat
    /\ BUFFER_SIZE \in 2 .. WORD - 1
    /\ Readers \subseteq 0 .. MAX_TERMS - 1
    /\ Writers \subseteq 0 .. MAX_TERMS - 1

VARIABLES
    pc,             \* where each process is in its call
    cpu,            \* the process running
    cur_task,       \* the global pointer, as the terminal of its process
    enter_flag,     \* ENTER_FLAG, ENTER_FLAG_2, ENTER_FLAG_3, by terminal
    line,           \* terminals[t].term_buf_index
    shown_line,     \* buf_index: that of the terminal displayed
    answers,        \* history: reads that ended since Enter was last pressed
    typed,          \* history: the lines as keys and their own process left them
    wiped           \* history: another terminal's output fell on the line shown
lineVars == <<line, shown_line, typed, wiped>>
readVars == <<pc, cpu, cur_task, curr_terminal, enter_flag, lineVars, answers>>

Lengths == 0 .. WORD - 1
NoFlags == [t \in Terms |-> FALSE]
SomeEnter == \E t \in Terms : enter_flag[t]

ReadStages == {"enter",    \* do_read, before terminal_read sets cur_task
               "wait",     \* the loop on the three flags
               "test",     \* the loop's test of cur_task->on_term
               "own",      \* its body
               "lock"}     \* before cli()
Stages == {"program",      \* user code, interrupts off
           "io",           \* another do_read, do_write
           "count"}        \* after sti(), before the length is read
          \cup ReadStages
Reading(t) == pc[t] \in ReadStages

InterruptsOn == pc[cpu] # "program"

(* The last shell has just been launched from schedule(). *)
ReadInit ==
    /\ pc = [t \in Terms |-> IF t = MAX_TERMS - 1 THEN "program" ELSE "io"]
    /\ cpu = MAX_TERMS - 1
    /\ cur_task = 0
    /\ curr_terminal = 0
    /\ enter_flag = NoFlags
    /\ line = [t \in Terms |-> 0]
    /\ shown_line = 0
    /\ answers = 1
    /\ typed = line
    /\ wiped = FALSE

At(t, stage) == cpu = t /\ pc[t] = stage
Goto(t, stage) == pc' = [pc EXCEPT ![t] = stage]

-----------------------------------------------------------------------------
(* System calls other than a terminal read. *)
CallIo(t) ==
    /\ At(t, "program")
    /\ Goto(t, "io")
    /\ UNCHANGED <<cpu, cur_task, curr_terminal, enter_flag, lineVars, answers>>

LeaveIo(t) ==
    /\ At(t, "io")
    /\ Goto(t, "program")
    /\ UNCHANGED <<cpu, cur_task, curr_terminal, enter_flag, lineVars, answers>>

(* terminal_write(), in one piece under cli: clear_buffer() empties the    *)
(* line of the caller's terminal, and the shadow, whose line that may not  *)
(* be.  A background writer's output goes to its own back page.            *)
WriteLine(t) ==
    /\ t \in Writers
    /\ At(t, "io")
    /\ cur_task' = t
    /\ line' = [line EXCEPT ![t] = 0]
    /\ shown_line' = 0
    /\ typed' = [typed EXCEPT ![t] = 0]
    /\ wiped' = (t # curr_terminal)
    /\ UNCHANGED <<pc, cpu, curr_terminal, enter_flag, answers>>

-----------------------------------------------------------------------------
(* terminal_read() *)

CallRead(t) ==
    /\ t \in Readers
    /\ At(t, "program")
    /\ Goto(t, "enter")
    /\ UNCHANGED <<cpu, cur_task, curr_terminal, enter_flag, lineVars, answers>>

BeginRead(t) ==
    /\ At(t, "enter")
    /\ cur_task' = t
    /\ Goto(t, "wait")
    /\ UNCHANGED <<cpu, curr_terminal, enter_flag, lineVars, answers>>

SeeEnter(t) ==
    /\ At(t, "wait")
    /\ SomeEnter
    /\ Goto(t, "test")
    /\ UNCHANGED <<cpu, cur_task, curr_terminal, enter_flag, lineVars, answers>>

TestTerminal(t) ==
    /\ At(t, "test")
    /\ Goto(t, IF cur_task = curr_terminal THEN "lock" ELSE "own")
    /\ UNCHANGED <<cpu, cur_task, curr_terminal, enter_flag, lineVars, answers>>

Reclaimed_kept(t) == cur_task                                        \* faulty
Reclaimed(t) == t

OwnTask(t) ==
    /\ At(t, "own")
    /\ cur_task' = Reclaimed(t)
    /\ Goto(t, "test")
    /\ UNCHANGED <<cpu, curr_terminal, enter_flag, lineVars, answers>>

(* Interrupts off: the flags are tested again, cleared, and the line of    *)
(* the terminal displayed is copied.                                       *)
MayTake_unchecked == TRUE                                            \* faulty
MayTake == SomeEnter

ClearedFlags_own(t) == [enter_flag EXCEPT ![t] = FALSE]              \* faulty
ClearedFlags(t) == NoFlags

Retry(t) ==
    /\ At(t, "lock")
    /\ ~MayTake
    /\ Goto(t, "wait")
    /\ UNCHANGED <<cpu, cur_task, curr_terminal, enter_flag, lineVars, answers>>

TakeLine(t) ==
    /\ At(t, "lock")
    /\ MayTake
    /\ enter_flag' = ClearedFlags(t)
    /\ Goto(t, "count")
    /\ answers' = IF answers < 2 THEN answers + 1 ELSE answers
    /\ UNCHANGED <<cpu, cur_task, curr_terminal, lineVars>>

(* Interrupts on again: the length, which no property looks at, is read    *)
(* through the global cur_task.                                            *)
ReturnCount(t) ==
    /\ At(t, "count")
    /\ Goto(t, "program")
    /\ UNCHANGED <<cpu, cur_task, curr_terminal, enter_flag, lineVars, answers>>

-----------------------------------------------------------------------------
(* Interrupts, on the stack of the process running. *)

(* update_terminal(), which every edit of the line displayed ends in: it   *)
(* copies the line to the shadow.                                          *)
Updated_kept(lines) == shown_line                                    \* faulty
Updated(lines) == lines[curr_terminal]

Moved(len, by) == (len + by) % WORD

EditLine(by) ==
    /\ InterruptsOn
    /\ line' = [line EXCEPT ![curr_terminal] = Moved(@, by)]
    /\ shown_line' = Updated(line')
    /\ typed' = [typed EXCEPT ![curr_terminal] = Moved(@, by)]
    /\ wiped' = FALSE
    /\ UNCHANGED <<pc, cpu, cur_task, curr_terminal, enter_flag, answers>>

LineHasRoom == line[curr_terminal] < BUFFER_SIZE - 1

(* A plain letter is taken only while ENTER_FLAG, the flag of terminal 0,  *)
(* is down; a space or a shifted letter always is.                         *)
PressKey(plain) ==
    /\ plain => ~enter_flag[0]
    /\ LineHasRoom
    /\ EditLine(1)

(* cursor_backspace().  At the start of a row the index goes down without  *)
(* a look at it, below zero if the line is empty: the next letters are     *)
(* refused then.  In which column the cursor stands follows from output    *)
(* that is left out here (LineEditor has it).                              *)
EraseLast(rowStart) ==
    /\ rowStart \/ line[curr_terminal] \in 1 .. BUFFER_SIZE - 1
    /\ EditLine(-1)

(* terminal_newline(): one flag up, the others down.  The '\n' is not      *)
(* counted.                                                                *)
RaisedFlags(t) == [NoFlags EXCEPT ![t] = TRUE]

EndLine ==
    /\ InterruptsOn
    /\ cur_task' = cpu
    /\ enter_flag' = RaisedFlags(curr_terminal)
    /\ shown_line' = Updated(line)
    /\ wiped' = FALSE
    /\ answers' = 0
    /\ UNCHANGED <<pc, cpu, curr_terminal, line, typed>>

(* switch_terminal(): the shadow is saved into the terminal left, and the  *)
(* line of the one shown is loaded into it.  What is typed on a terminal   *)
(* whose shadow was wiped is given up when the user leaves it.             *)
Stored == [line EXCEPT ![curr_terminal] = shown_line]

ShowTerminal(dest) ==
    /\ InterruptsOn
    /\ cur_task' = cpu
    /\ line' = Stored
    /\ shown_line' = line'[dest]
    /\ curr_terminal' = dest
    /\ typed' = IF wiped THEN [typed EXCEPT ![curr_terminal] = 0] ELSE typed
    /\ wiped' = FALSE
    /\ UNCHANGED <<pc, cpu, enter_flag, answers>>

Tick ==
    /\ InterruptsOn
    /\ cpu' = (cpu + 1) % MAX_TERMS
    /\ UNCHANGED <<pc, cur_task, curr_terminal, enter_flag, lineVars, answers>>

Call(t) == CallIo(t) \/ CallRead(t)

ReadStep(t) ==
    \/ BeginRead(t) \/ SeeEnter(t) \/ TestTerminal(t) \/ OwnTask(t)
    \/ Retry(t) \/ TakeLine(t) \/ ReturnCount(t)

ReadNext ==
    \/ \E t \in Terms : Call(t) \/ LeaveIo(t) \/ WriteLine(t) \/ ReadStep(t)
    \/ \E plain \in BOOLEAN : PressKey(plain)
    \/ \E rowStart \in BOOLEAN : EraseLast(rowStart)
    \/ EndLine
    \/ \E t \in Terms : ShowTerminal(t)
    \/ Tick

ReadSpec == ReadInit /\ [][ReadNext]_readVars

-----------------------------------------------------------------------------
(* Fairness.  The PIC latches a tick that finds interrupts off (strong     *)
(* fairness), a program gets to its next call, and a process that is given *)
(* the CPU again and again gets on with its read.  A quantum of 10 ms holds*)
(* many turns of the own / test loop, so one whose test would succeed is   *)
(* not cut off by a tick every time.                                       *)
PassesTest(t) == TestTerminal(t) /\ cur_task = curr_terminal

FairReadSpec ==
    /\ ReadSpec
    /\ SF_readVars(Tick)
    /\ \A t \in Terms : WF_readVars(Call(t))
    /\ \A t \in Readers : SF_readVars(ReadStep(t)) /\ SF_readVars(PassesTest(t))

-----------------------------------------------------------------------------
ReadTypeOK ==
    /\ pc \in [Terms -> Stages]
    /\ cpu \in Terms
    /\ cur_task \in Terms
    /\ curr_terminal \in Terms
    /\ enter_flag \in [Terms -> BOOLEAN]
    /\ line \in [Terms -> Lengths]
    /\ shown_line \in Lengths
    /\ answers \in 0 .. 2
    /\ typed \in [Terms -> Lengths]
    /\ wiped \in BOOLEAN

(* Only the process on the CPU is in user code: it runs with interrupts    *)
(* off, so every process that waits for its turn waits inside a call.      *)
WaitersAreInCalls == \A t \in Terms : pc[t] = "program" => t = cpu

(* One Enter ends one read at most, although every reader polls the same   *)
(* flags and several may have seen them up.                                *)
OneReadPerEnter == answers <= 1

(* A flag is up exactly while the last Enter has ended no read, and only   *)
(* one of the three is: an Enter is neither forgotten nor left for the     *)
(* next read to find.                                                      *)
FlagsMatchEnters ==
    /\ SomeEnter <=> answers = 0
    /\ \A t, u \in Terms : enter_flag[t] /\ enter_flag[u] => t = u

(* If the user from some point on neither presses Enter nor switches, an   *)
(* Enter does not stay unanswered while the process of the terminal        *)
(* displayed reads, however the ticks fall, whoever else assigns cur_task, *)
(* whatever is typed and whoever pressed Enter where before.               *)
UserWaits == enter_flag' \in {enter_flag, NoFlags} /\ curr_terminal' = curr_terminal
EnterIsAnswered ==
    <>[][UserWaits]_<<enter_flag, curr_terminal, answers>> =>
        []<>~(SomeEnter /\ Reading(curr_terminal))

(* Each terminal has a line of its own, although all share one shadow that *)
(* every key, every process's output and every switch writes: a line is    *)
(* what its keys and the output of its own process made of it, however     *)
(* often the user has left it and come back.  The exception is output of   *)
(* another terminal's process, which empties the shadow: unless a key is   *)
(* pressed before the user leaves, the line is lost (typed gives it up).   *)
LinesAreTyped == line = typed

(* What makes it so: the shadow that switch_terminal() will store is what  *)
(* was typed on the terminal displayed, or empty since such an output.     *)
ShadowIsLine == shown_line = IF wiped THEN 0 ELSE typed[curr_terminal]

(* What the comments of switch_terminal() say without that exception       *)
(* ("Saving keyboard input buffer", terminal.c:257): a line that is half   *)
(* typed, and fits its buffer, is kept when the user leaves its terminal.  *)
(* The code does not keep this, so no run has it.                          *)
SwitchSavesLine ==
    [][curr_terminal' # curr_terminal /\ line[curr_terminal] < BUFFER_SIZE =>
          line'[curr_terminal] = line[curr_terminal]]_readVars

=============================================================================
