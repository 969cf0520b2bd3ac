# Models of the sp18 systems programming repository

The repository holds three programs of a systems programming course: `empee1`
(blinking characters drawn by a timer tasklet), `empee2` (a maze game on a
Mode X display with a driver for the Tux controller) and `empee3` (a small
operating system for 32-bit x86, `empee3/student-distrib`, with its user
programs). The development here models the parts whose correctness depends on
the order of events or on arithmetic at a boundary: of the kernel the process
layer, the terminals, the interrupt controller with the RTC, the files and the
library; of the game the three threads, the construction of mazes, the
scrolling display, and the Tux driver with its line discipline; and of `fish`,
the kernel's version of `empee1`, the list of blinking characters.

Everything was written from the source. Where the code does not do what a
comment of it says, the model follows the code (section 6).

## 1. The system

### 1.1 empee3: the kernel

| Component | State | Operations | Called by |
|---|---|---|---|
| Processes (`syscalls.c`, `process.h`, `syscalls_asm.S`) | `pid_arr`, one PCB per pid, the `kernel_stack[pid]` slots of `context_setup`, `isr_ret`, `tss.esp0`, page directory entry 32 | `do_execute`, `do_halt`, `context_setup`, `exec_return` | user programs through `int 0x80`, `schedule()`, exceptions, `entry()` |
| Scheduler (`schedule.c`, `pit.c`) | `term_counter`, `terminals[t].active_pid`, each PCB's `kernel_stack` | `schedule` | IRQ 0 |
| System call and interrupt entry (`linker.S`, `syscall_wrapper.S`) | the saved flags | wrappers | the processor |
| Exceptions (`idt.c`) | `isr_ret` | `isr0` ... `isr18` | the processor |
| Video pages (`syscalls.c`, `paging.c`, `terminal.c`) | `user_vidmem_page_table[0]`, `terminals[t].vid_map_flag` | `do_vidmap`, parts of `schedule` and `switch_terminal` | programs, IRQ 0, IRQ 1 |
| Terminals (`terminal.c`) | three `terminal_t` (line, index, cursor), one shadow of the one displayed, `ENTER_FLAG*`, `cur_task`, `curr_terminal` | `terminal_read`, `terminal_write`, `switch_terminal`, `terminal_putc`, `terminal_puts`, `terminal_newline`, `cursor_backspace`, `scroll_up` | `do_read`, `do_write`, keyboard |
| Keyboard (`keyboard.c`) | modifier flags | `keyboard_handler` | IRQ 1 |
| RTC (`rtc.c`) | `interrupt_happening`; in the device the register index, the rate, the interrupt flag | `RTC_open/read/write`, `RTC_handler` | descriptors, IRQ 8 |
| Files (`filesys.c`, `syscalls.c`) | the descriptor array of each PCB, the read-only boot module | `do_open/close/read/write`, `read_dentry_*`, `read_data`, `file_read`, `dir_read`, `program_load` | programs, `do_execute` |
| Interrupt controller (`i8259.c`) | two mask bytes; in the device the request, service and mask registers | `enable_irq`, `disable_irq`, `send_eoi` | every handler |
| Boot (`boot.S`, `kernel.c`, `x86_desc.*`, `paging*`) | descriptor and page tables | `entry` | the loader |
| Library (`lib.c`) | the console cursor, the direction flag | memory, string and console functions | everything |
| Tests (`tests.c`) | - | - | - |

How they interact. User programs run with interrupts **off**: `do_execute`
executes `cli` and `context_setup` pushes the flags it finds into the frame of
the new program. Interrupts are on only where the kernel says `sti()`: in the
`read` and `write` handlers, while the message of an exception or of a refused
`execute` is printed, and during boot. There, on the kernel stack of the
process that was interrupted, IRQ 0 calls `schedule()` (which may not return
for many ticks, or launches a shell from inside the interrupted process), IRQ 8
sets the flag that readers of the RTC poll, and IRQ 1 edits the line, raises
the Enter flags or switches terminals, and may itself be preempted. So the
hard behaviours are: a process preempted between any two statements of
`terminal_read` or of `RTC_write`; stacks abandoned by one `execute` and
resumed by the right `halt`, with three terminals' calls interleaved; globals
(`cur_task`, `isr_ret`, `curr_terminal`, `interrupt_happening`, the user video
page) that one actor sets and another reads a tick later; the process table
and the edited line when full; offsets at the boundary of a block, a row or an
aligned word.

What makes each component correct:

* processes: a terminal has exactly one process that can run, `active_pid`
  names it, every other process of it waits for a child in `execute`, and
  `halt` returns to that very call;
* scheduler: it loads only a stack that it saved, with that process's page and
  kernel stack, and gives every terminal its turn for ever;
* video pages: a program that uses `vidmap` writes the screen while its
  terminal is displayed and its back page otherwise;
* terminal read: one Enter, one read; the last Enter is answered, and a line
  keeps what was typed on it;
* line editor: the cursor shown is where the next character goes, and
  Backspace undoes a letter;
* interrupts: no line stays masked or in service, the RTC is acknowledged, a
  read of the RTC waits for an interrupt of its own time, a write of the rate
  that nothing disturbs counts;
* files: a descriptor delivers its file from the first byte to the last;
* library: copies are exact, `printf` prints what its arguments mean, names
  arrive whole and a program's argument as it was typed.

### 1.2 empee2: the maze game

| Component | State | Operations |
|---|---|---|
| Tux driver (`module/tuxctl-ioctl.c`) | button bytes, saved LEDs, `flag`, `ack`, `resend` | ioctls, `tuxctl_handle_packet` |
| Line discipline (`module/tuxctl-ld.c`) | a transmit and a receive ring, the bytes kept for the next packet | `tuxctl_ldisc_put`, `_get`, `_write_wakeup`, `_rcv_buf`, `_data_callback` |
| Game threads (`mazegame.c`) | `play_info`, `dir`, `button`, `pressed`, `winner`, a mutex and a condition variable | timer, keyboard and Tux threads, `main` |
| Maze (`maze.c`) | `maze[]`, the counters of fruit | `make_maze`, `mark_maze_area`, `unveil_space`, `check_for_fruit`, the `fill_*_buffer` |
| Mode X and text (`modex.c`, `text.c`, `blocks.s`) | the build buffer, the view window and the two display pages | `set_view_window`, `draw_*`, `mask`, `show_screen` |
| Input demo, assertions (`input.c`, `assert.c`) | - | - |

Hard: the threads signal a condition variable without the mutex and change the
predicate after the signal; the driver's flags and rings are shared by ioctls
and by packets that arrive in interrupt context; acknowledgements may be late
or lost and bytes lost or cut into any pieces; three threads store the
direction of one player between any two pixels of a move; the window slides
through a buffer and is copied onto itself at its edges; the loops of
`make_maze` end by a counter. Correct: the player stays in the corridors and in
view; a button press is not slept through; the threads see the end of the game;
an LED request that is accepted is displayed in the end; bytes leave a ring once
and in order; every maze is closed and in one piece; the screen shows the maze.

### 1.3 empee1 and fish: blinking characters

A singly linked list of characters with on and off times, under `add`,
`remove`, `find`, `sync` and a tasklet that counts the times down: once in
`empee1/mp1.S` for a Linux kernel module, once in `empee3/fish/blink.S` for a
user program, with `fish.c` providing the memory and reading two files of
characters into the list. Hard: pointer surgery in assembly, an array whose
entries are free when a field is 0, unsigned words compared as signed, two files
whose lines and ends need not agree. Correct: the list holds exactly the entries
of the array in use, each blink is on and off for its own times, the screen
shows it, and the list is the files when they are read.

## 2. Modules

| Module | What it is |
|---|---|
| `Kernel` | processes, scheduler, exceptions, vidmap: the process layer |
| `TerminalStacks` | what the process layer promises: one stack of programs per terminal |
| `KernelStacks` | the refinement mapping from `Kernel` to `TerminalStacks` |
| `TerminalRead` | `terminal_read` step by step, against writers, keys and ticks |
| `LineEditor` | the cursors of the terminals: what keys, output and switches do to them |
| `TerminalGlobals` | the constants and the global that these two share |
| `Interrupts` | the 8259s, the RTC, and the handlers of the PIT, the RTC and the keyboard |
| `Files` | the descriptor table, the file system and the loading of programs |
| `FileStreams` | what the descriptors promise: a stream each; `Files` maps itself to it |
| `Library` | `lib.c`, and the code that leans on the corners of its string functions |
| `MazeGame` | the three threads of the maze game, statement by statement where they share state |
| `MazeMap` | the array of the maze, shared by `MazeBuild` and `Display` |
| `MazeBuild` | `make_maze` |
| `Display` | the scrolling display and what the timer thread draws on it |
| `TuxProtocol` | `ack`, `resend` and `reset` of the Tux driver, against ioctls, packets and resets |
| `LineDiscipline` | the rings, the framing and the button bytes of the line discipline |
| `Fish` | the list of blinking characters, its array, and the reading of the frames |
| `Blinks` | what the list promises: a sequence of blinks; `Fish` maps itself to it |
| `*_proofs` | the theorems about the modules of one part (section 5) |
| `MC*` | the instances TLC runs |

### 2.1 Kernel

A pid is in one of eight modes. `free` and `used` are the two values of
`pid_arr`; the rest of the mode is where the process's kernel stack is:
`user` (in its program), `io` (in a handler with interrupts on), `refused`
(printing that no pid is left), `fault` (printing an exception), `exec`
(abandoned inside `do_execute`, waiting for the child). `boot` and `ready` are
`entry()` before and after it writes the tables.

| Action | Code |
|---|---|
| `BootTables`, `BootExecute` | end of `entry()`, `kernel.c` 155-166 |
| `EnterIo`, `LeaveIo` | a `read`, `write`, `open("rtc")`, `set_handler` or `sigreturn` call and its return |
| `Execute`, `ExecuteFails`, `ExecuteFull` | the three ends of `do_execute` |
| `Halt` | `do_halt`: a child returns to its parent's call, a shell is replaced |
| `Fault`, `FaultHalt` | an exception handler: it prints, then halts |
| `Vidmap` | `do_vidmap` |
| `Tick` | `pit_handler`, `schedule`: launch a missing shell or resume the next terminal |
| `SwitchTerminal` | Alt-Fn, as far as it touches the process layer |

A kernel stack is abstracted to what decides where the CPU goes: whether the
saved `kernel_stack` is a frame of `schedule()` that was not yet resumed
(`saved`), and which process's `do_execute` the slot of a pid points into
(`exec_frame`). `tss.esp0` is the process whose stack it points into, not how
deep. `cpu = Stray` says that the CPU was given a stack nobody saved; nothing
is modelled from there on.

`Allowed` lists what the passing runs assume a user does **not** do:
`early_execute` (a program before the third shell is up, 30 ms after boot),
`background_execute` (switch terminals between Enter and the shell's
`execute`), `background_vidmap` (`vidmap` while another terminal is displayed)
and `vidmap_execute` (`execute` after `vidmap`). The code excludes none of
them: section 6 describes what each costs. No guard of the code is left out on
their account.

### 2.2 TerminalRead and LineEditor

`TerminalRead` has one process per terminal (what `Kernel` shows), each in its
program, in a call, or at one of the steps of `terminal_read`: set `cur_task`;
loop until a flag is up (`wait`); loop until `cur_task` is on the terminal
displayed (`test`, `own`); `cli`, test the flags again, clear them, copy
(`lock`); `sti`, and compute the length through `cur_task` (`count`). Ticks,
keys, Enter, Backspace and Alt-Fn come between any two steps while the process
on the CPU is in a call. A line is its length, in the 16 bits of
`term_buf_index`: Backspace at the start of a row decrements it without a look
(`EraseLast(rowStart)`; in which column the cursor is follows from output that
`LineEditor` has). Of every terminal there is its `line`, and once for all the
shadow `shown_line`, which keys, output and switches write. `answers`, `typed`
(the lines as the keys and the terminal's own process left them) and `wiped`
(the shadow was emptied by another terminal's output since the last key) are
history variables: no action of the code reads them.

Taken as one step although the code has more: the test
`terminals[cur_task->on_term] == curr_terminal` (two loads), and each
interrupt handler (what the `sti` in the keyboard's handler lets in is the
subject of `Interrupts`). The kernel is compiled without optimisation, so the
loops read memory.

`LineEditor` is the same terminals with their arithmetic: the row and column of
the next character, the index of the cursor shown and the index in the line,
each counted on its own in the code, in 16 bits where the code's are. Every
function of `terminal.c` that moves the cursor is an operator on one terminal's
cursor under its own name, and the keyboard's and the programs' calls of it are
the actions. Characters are abstracted to `char` and `newline`. `SlipsBack` and
`SlipsType` name the three states in which the code loses the cursor (section
6); `Careful` keeps the user from pressing the key that does it.

### 2.3 Interrupts

The two 8259s are their request, service and mask registers, with the cascade
and fixed priorities; the kernel's own copy of the masks is `soft`. The RTC is
its register index, whether it interrupts, its rate, whether its divider is
running, and the flag that register C clears. Three kinds of devices raise
lines (`PitTick`, `RtcTick`, `PressKey`), `TakeTick`, `RTC_handler` and
`keyboard_handler` are the handlers, and the process running makes the steps of
`RTC_open`, `RTC_read` and `RTC_write`, the latter port access by port access.
`terminal_newline` and `switch_terminal` end with `sti()`: the rest of the
keyboard's handler (`EndKeyboard`) then runs in pieces in which any other
interrupt, and a switch to another process, may come.

Assumed of the hardware: a handler that runs with interrupts off is one step;
the PIT and the user are slow enough that the process interrupted runs between
two of their interrupts (`ran`); an access to the data port resets the index to
register D, as the code itself assumes (`rtc.c:25`). `heard` and `cut` are
history variables. Writers are unrestricted; the property about a write says
of itself which writes it covers.

### 2.4 Files and Library

`Files` is one process's descriptors over a file system given by constants:
dentries, inodes with their block lists, and the size of a block. A byte is the
block and offset it comes from, so that two bytes are equal only if they are
the same byte of the disk. `read_data` keeps the arithmetic of the code: the
first copy of `BLOCK_SIZE - offset` bytes, the loop over the next blocks, the
copies that run on into the block that follows. `Crossing = FALSE` keeps
programs from the one kind of read that it gets wrong (section 6). `FileStreams`
knows nothing of blocks: it has, per open descriptor, what is still to be read.
The RTC and the terminal answer what they like; what they do is in their own
modules.

`Library` has the functions of `lib.c` as operators under their own names and
one action per kind of call. Memory is a function from addresses to bytes, each
byte its own address; the double-word copies, the alignment at both ends and
the processor's direction flag are those of the assembly. The loops are recursive
functions of their turns, so that they can be reasoned about. Strings are buffers
with a NUL, so that what `strncpy` writes behind its count, and names without a
NUL, are seen. What `parse_args` keeps of a command line, what the PCB holds
behind it (stale bytes of the structure it was copied from) and what
`do_getargs` copies for a size of any sign (`Sizes`; the comparison is between
words without sign, `Unsigned`) are three steps of one family. `Arguments` is
what the comment of `parse_args` promises, `RunTogether` what is left when the
spaces between words go too. `printf`
is the loop over the format with its pointer into the arguments. A behaviour
stays in one of five families of functions, as no state is shared between them. A format
ends in a whole conversion, and callers pass buffers of the size that the code
writes.

### 2.5 MazeGame

Three threads, each with a program counter over the steps between its accesses
to shared state. Who holds `con_mtx` or `mtx` follows from the counters
(`RtcHoldsConMtx`, `TuxHoldsConMtx`, `ConMtxFree`, `MtxFree`), as the code locks
and unlocks in straight lines.

| Action | Code (`mazegame.c`) |
|---|---|
| `StartLevel`, `LeaveLevel`, `LeaveLevels`, `SetWinner` | the loop over levels of `rtc_thread`, 471-494, 511, 645-649 |
| `WaitTick`, `PollButton`, `LowerFlag`, `Press`, `Signal` | one tick: the timer read, and the button under `con_mtx`, 508-558 |
| `BetweenSquares`, `NewSquare`, `WinLevel` | one pixel of movement: turning back between squares, a new direction on one, 559-632 |
| `LastSignal` | the signal after the last level, 645 |
| `KeyboardLoop`, `QuitKey`, `EscapeKey`, `BracketKey`, `ArrowKey`, `OtherKey`, `StoreDir` | `keyboard_thread`, 342-390 |
| `TuxLoop`, `LockCon`, `TestPressed`, `Steer`, `ClearPressed` | `tux_thread`, 392-423 |
| `SpuriousWakeup` | what POSIX allows of `pthread_cond_wait` (external) |

A maze is its open squares, its exit and its fruit, as `MazeBuild` shows
`make_maze` to leave them: the border closed, (1,1) open. The view pans as
`move_up` ... `move_right` pan it. Left out: the clock and the LEDs, and the
drawing, which is in `Display`. `prepare_maze_level` cannot fail for the sizes
used.

### 2.6 MazeBuild and Display

`MazeMap` has the one-dimensional array of `maze.c`, in which column 0 of a row
is the right boundary of the row above. `MazeBuild` digs the worms (any weighted
choice may be taken, as every weight is positive), connects what they left
apart by scanning or by guessing, clears the marks, and places fruit and exit.
The queue of `mark_maze_area` is abstracted to the set its search reaches.

`Display` has the build buffer byte by byte, with the window that slides
through it (`set_view_window`), the lines and blocks drawn into it, the player
put in and taken out again, and the four planes of the page that is shown. A
pixel is the image of a block and its place in it. The moves are those of the
timer thread with any player's choice of direction; `MazeGame` has what the
other threads do to that choice. What it assumes of the constants holds of the
code's: a maze fills the window (`MAZE_MIN_X_DIM`, `MAZE_MIN_Y_DIM`), no window
shows the left boundary and the right one, whose cells are the same (320 pixels
against the 324 between them in the smallest maze), the view has room for both
borders in which it pans, and the open squares are those of a maze that
`make_maze` has built (`MakeMazeMakesMazes`, section 5).

### 2.7 TuxProtocol and LineDiscipline

In `TuxProtocol` an ioctl runs in a process and has two windows: after
`ack = 2` in `tuxctl_init`, and after the put in `tuxctl_set_led`, before
`reset = arg` and before `ack++` (`BeginInit`, `PutInit`; `BeginSetLed`,
`RecordReset`, `CountAck`). Packets (`HandleAck`, `HandleReset`) are handled in
interrupts, in one step, at any point of an ioctl: the locks that would forbid
it are commented out. Two history variables say what such a packet left behind:
`miscounted`, that it took away or set anew what the `ack++` to come will count
(until the next init or reset), and `outdated`, that it resent the value that the
ioctl was about to replace (until the next LED command). The
controller is external and modelled from `mtcp.h`: it executes commands in
order and acknowledges each (`ExecuteCommand`), and a reset loses a prefix of
the commands on their way, clears the LEDs and sends `MTCP_RESET`
(`ResetTux`). Left out: `flag`, which is 1 only inside the handler of a button
event, so that no ioctl finds it set; the segments of a digit.

`LineDiscipline` is below it: bytes rather than commands. A byte is the packet
or command it belongs to and its place in that. The scan of the callback is the
loop over the bytes with its index, as a recursive function. The serial driver's calls
(`rcv_buf`, `write_wakeup`) are interrupts; an ioctl's put, its question for
room, the taking and the writing are steps of their own, because the lock is
held only in the ring. The serial line may lose bytes.

### 2.8 Fish

The program is sequential: a call of `mp1_ioctl` or of the tasklet is a step
(`mp1_ioctl_add`, `mp1_ioctl_remove`, `mp1_ioctl_sync`, `mp1_rtc_tasklet`), and
so is a turn of the loop of `add_frames` (`ReadColumn`). `main` makes four
calls in a fixed order once the frames are read; here they come in any order.
The list is the `next` fields of the array and its head, an entry is free when
its location is 0 and the first free one is taken, and `Order` follows the
pointers. A countdown is a word, one of `WORD` values, that is decremented and then
compared as a signed one. A location is such a word too (`LocationOf`): the sum of
row, column and offset is stored in 16 bits, so that the check against the size
of the screen sees what is left of it. `LocationAssumption` keeps requests and
characters of files from location 0, which marks a free entry (section 6).
`doubtful` is a history variable: the locations that
another blink or a sync has drawn on since. Left out: the RTC's file (it is in
`Interrupts`) and `mp1_ioctl_find`, which changes nothing. `Blinks` knows
neither pointers nor words: it has a sequence of requests, each lit or not and
with a number of ticks to go.

## 3. Runs

`about` in `PROJECT.json` says what each run shows.

| Run | Instance | Checks |
|---|---|---|
| `Kernel` | 5 pids, 3 terminals, vidmap on terminal 1, fair | `OneProcessPerTerminal`, `RunningOwnsTheMachine`, `CallersWait`, `VidmapFollowsTerminal`, `ImplementsStacks`, `EveryTerminalRuns` |
| `Read` | 3 terminals, readers 0 and 1, writers 1 and 2, lines of 1, fair | `OneReadPerEnter`, `FlagsMatchEnters`, `LinesAreTyped`, `EnterIsAnswered` |
| `LineEditor` | 2 terminals of 3 rows by 4 columns, lines of 4 | `CursorsAgree`, `BackspaceUndoesALetter` |
| `Interrupts` | 2 processes, both read the RTC and set its rate, a good and a bad frequency, fair | `MaskedByItsHandler`, `AcknowledgeWillCome`, `ReadsAwaitAnInterrupt`, `UncutWritesCount`, `KeyboardComesBack`, `SomeReadReturns` |
| `Files` | 4 descriptors, 3 entries with data or names and the RTC, blocks of 4 bytes | `LoadedProgramIsWhole`, `ImplementsStreams` |
| `Library` | words of 4 binary digits, a console of 2 rows by 3 columns, names of 3 characters | `MemoryIsExact`, `ConsoleIsRight`, `NamesArrive` |
| `Fish` | 3 entries, a screen of 2 rows by 3 columns, words of 3 bits, all pairs of files of up to 3 characters and one that wraps | `ScreenShowsBlinks`, `ImplementsBlinks`, `FramesAreDrawn` |
| `Maze_play` | one level, keys one way and buttons two others, fair | `PlayerInCorridor`, `PlayerInView`, `PressWakesTux`, `ThreadsStop`, `HeldButtonSteers` |
| `Maze_build` | mazes of 2 by 2, 3 by 2 and 2 by 3 rooms | `BorderClosed`, `LoopsEnd`, `LevelIsWinnable` |
| `Display` | blocks of 2 pixels, a window of 8 by 6, two mazes | `WindowHolds`, `PictureIsTrue` |
| `Tux_resets` | 2 values, 2 resets, 4 commands and packets on their way, packets at any point of an ioctl | `AcksWillCome`, `LedsAreCurrent` |
| `LineDiscipline` | rings of 7 slots, 4 packets, 3 commands of 3 bytes, 2 bytes lost, a driver with room for 1 or 4 | `ReceivesInOrder`, `SendsInOrder` |

A property of a larger module is a conjunction of named parts, each with its
own comment: `ReceivesInOrder` is `OneLossOnePacket` and `ButtonsAreFresh`, for
instance, `ImplementsStreams` the refinement and `SlotsAreClean`. The type
invariants are in the conjunctions, or proved (section 5).

Bounds. Three terminals are the code's number. Five pids leave two for
programs: two children on two terminals, or a child of a child on one, and a
full table with both; what a third program would add is a longer chain, and
the theorems cover that. `Statuses = {200}` is above 127, where an 8-bit
status would change sign. `BUFFER_SIZE = 2` and `WORD = 3` in `Read` let a line be empty, full and, after
a Backspace below zero, out of its buffer. Two terminals are enough
for a hidden and a displayed cursor in `LineEditor`; the screen of three rows
scrolls, a line of four characters wraps at every column, and the outputs end
inside, at and past the right edge.

In `Interrupts` each process computes, reads or writes while the other does, so
that a read crosses a write and two writes cross. In `Files` the
blocks of the program lie apart on the disk, its last one is half full, and
reads of 3 and 5 bytes end inside, at and past a block; a second opening of a
slot with another type of file is included. In `Library` 9 addresses and 10
lengths contain every alignment at both ends with and without whole double
words; two pieces per format are enough for an argument to shift; command lines
have up to two words of arguments with spaces before, between and behind them,
and `Sizes` has the least and the largest signed word beside -1 and the lengths;
names go up to one character more than a dentry holds.

In `Maze_play` a block is 3 pixels wide (the code's are 12), so that a turn back can come at
every place between two squares; the maze is two rooms by two with the view
smaller than the maze, so that panning starts and stops; `MaxTicks` bounds the
ticks one read of the timer may report, where one or more is what the code
tells apart. One key and two buttons are enough to turn back, to turn a corner
and to run into a wall. `Maze_build` has mazes in which worms leave up to five
rooms apart, `ScanBelow` and `MaxTrials` small enough that guessing, scanning
after failed guesses and scanning the last rooms all happen, and levels of
other sizes in the array of the one before. In `Display` the buffer has four
bytes to spare, so that the window is copied both ways at nearly every move,
and both mazes scroll on both axes; the window is a multiple of four pixels wide as the
code's is. In `Tux_resets` a second reset may come before the first is handled,
and `MaxInFlight` lets both commands of an init, an LED command and a packet be
on their way together. In `LineDiscipline` the rings are short of room for
three commands, so that both overflow, wrap and drain in pieces; a command of
three bytes and a room of 1 let the driver refuse the end of a command while
its head is still in the hands of a process.

In `Fish` three entries let a node be removed from the front, the middle and the
end and the array be full; files of three characters have lines of unequal
length, empty lines, ends with and without a newline, and rows that run into
the next and past the screen; one more file has a character two rows below
the screen, whose location is on it again; lengths of 1, 2 and 5 in words of three bits are
on both sides of the sign.

Deadlock is checked except in `Maze_play`, where a game that is over has
stopped, and in `LineDiscipline`, where the bounded input ends.

## 4. Fairness

`Ticks` is strong fairness of `Tick`: the interrupt controller latches IRQ 0, so
a tick that arrives while interrupts are off is delivered when they come on,
and interrupts that come on again and again let it through. `Boots` is weak
fairness of straight-line boot code. `ProgramsDoIo` is an assumption on
programs, not on the kernel: they keep calling `read` or `write`, as the shell
and the repository's programs do. It cannot be
dropped: a program in a loop of its own starves the other terminals, although
the scheduler is meant to be preemptive (section 6).

In `TerminalRead`, `WF(Call)` is again the program's next call, `SF(ReadStep)`
says that a process that gets the CPU again and again moves on in its loop,
and `SF(PassesTest)` that a quantum of 10 ms holds many turns of the inner
loop, so that a test that succeeds within one turn is not cut off by the tick
every time. `EnterIsAnswered` assumes of the user that from some point on he
neither presses Enter nor switches terminals; what happened before is free.

In `Interrupts` the devices are weakly fair (the PIT never stops, the RTC does
not while its divider runs), interrupts that are due are taken (strongly fair
for the RTC, whose line is blocked while a keyboard handler is unfinished), and
the process that has the CPU runs. Nothing is assumed of keys.

In `MazeGame` each thread is strongly fair: the timer ticks for ever, the
mutexes are held for a few instructions, and the kernel schedules a thread
that is ready. Nothing is assumed of keys, nor of spurious wakeups, which may
never come. The other modules state safety only.

## 5. Proofs

The theorems hold for every value of the constants that the assumption of the
module allows. Each module of proofs has the same plan: the initial state has
the inductive invariant, one lemma or step per action shows that the action
keeps it, and the theorem follows from the two by temporal logic. The
inductive invariants were tried with TLC before they were proved.

What a loop computes for any number of turns is proved too, where a model
writes it as a recursive function: the library's induction theorems cannot be
used (they take an operator as a parameter), but that a set of naturals with a
member has a least one (`LeastNat`, from `WFMin`) can, and the least place
where a function fails to exist or to do its work contradicts the place before
it. Several modules repeat that fact, and the few they need on quotients.

`Kernel_proofs`. `KernelTypes` needs no assumption on the user. `KernelInvariant`
shows that the conjunction of the types, `OneProcessPerTerminal`, `Resumable`,
`RunningOwnsTheMachine`, `CallersWait` and `ShellsKeepTheirPids` is inductive,
under `CarefulUser` (neither `early_execute` nor `background_execute` in
`Allowed`). Except for the types none is inductive alone: what a halt uncovers was
waiting on that terminal because of `CallersWait`; `schedule()` finds a process
under an `active_pid` because of `ShellsKeepTheirPids`; the process it resumes
owns its stack because it was `Resumable`, and stays so until it runs because
only the process on the CPU can lose its frame. `ActivePidIsTheOne`,
`CpuIsNeverStray`, `WaitersAreResumable`, `HaltReturnsToCaller` and
`ShellPidsAreKept` are its conjuncts.

On top of it, `VidmapIsRight` proves `VidmapFollowsTerminal` from `VidmapInv`:
the page and the flags fit the terminal displayed, and a process that has the
page can run. It assumes `CarefulVidmap`, none of the four slips of section 2.1
and at most one terminal whose programs use `vidmap`; section 6 says what the
code does without. `ProcessesAreStacks` is the refinement `ImplementsStacks`,
under `CarefulUser`: `Execute` is a push, `Halt` a pop, the other actions turn
the clock or stutter. The refinement mapping is a recursive function over
parents, which exists because the parents lead to shells: the invariant
`Stacked` says that there is a function `s` that gives each process the chain of its
callers without repetition, and each action shows how to change that function.

`Terminal_proofs`, first about `TerminalRead`, for any number of terminals,
readers and writers and any size of the buffer: `ReadTypes`; `WaitersAreSafe`; `OneRead` and `FlagsMatch`,
from the invariant that ties the three flags to the Enter that raised one and
that flag to at most one answer; and `LinesAreKept`, which is the property
`LinesAreTyped`. It is inductive with `ShadowIsLine` only (`ShadowMatches`):
what a switch saves is the shadow, so that the line stays what was typed because
every edit ends in `update_terminal`, and output of a process of another terminal
sets `wiped` until it does.

Then about `LineEditor`, for every screen, line and output: `CursorsAlwaysAgree` and
`LettersAreUndone`, the two properties of the run, if the user is `Careful`.
`EditorInv` says of every cursor, displayed or not, that the index shown is the
place of its row and column (`Agrees`), and that a cursor past the right edge
has an empty line. One lemma per function of `terminal.c` (`terminal_putc`,
`terminal_newline`, `scroll_up`, the three branches of Backspace) shows that it
keeps them, and `PutsAgree` follows the loop of `terminal_puts`.

`Interrupts_proofs`, for any number of processes, readers and writers.
`InterruptsTypes`. `MasksAreRestored`: `Masks` strengthens the property by the
two facts that a switch inside a handler leans on, that the controller's masks and
the kernel's copy differ in the keyboard's line only, and that a handler about
to write the port has cleared its bit in the copy. `ClockIsAcknowledged`:
`ClockIsHeard` adds that only an RTC that interrupts has a flag to clear, and that
its line is unmasked from the first open on. `ReadsAreNotStale`. `UncutWrites`,
the action property, from `UncutIsSelected`: a write that is between its
selection of register A and its access, and not cut, finds A selected.

`Files_proofs`, on every disk, for every size of block, table and read.
`ProgramsLoadWhole` needs no assumption on the calls: the copies of a whole-file
read join to the file. `DescriptorsAreStreams` is the refinement
`ImplementsStreams`, with `SlotsAreClean`: `SlotsInv` keeps the position of a
slot inside its file and says what each kind of slot may hold; a read takes
from the stream of `FileStreams` what `read_data` copies. It assumes
`~Crossing`, as section 6 shows that the code fails otherwise.

`Tux_proofs`, first of `LineDiscipline`, for every size of ring, packet and command and any
room that the driver offers: `SendsAreInOrder` and `ReceivesAreInOrder`. Lemmas about the rings come
first: what `PutInto` adds behind the contents and `Rest` takes from their
front, wherever the ring wraps (`PutBytes`, `TakeFrom`). Then the account of
the bytes (`Accounts`): each byte of a command issued is in the ring, in the
process's hands, written, or lost, no two of these share one, and what is in
each place is whole commands until a byte is lost or doomed. Put, drain, take
and write move bytes in that account. `LeftoverIsShort` follows the scan of the
callback.

`Tux_proofs`, of `TuxProtocol`, for all LED values and any number of resets and commands.
All of them hold wherever packets come in an ioctl: `TuxTypes`, `ResendIsCaused`,
`AcksCome` and `LedsCurrent`. The last two rest on invariants about the queue:
how many acknowledgements it will cause, and which value its last LED command
leaves. What a packet inside an ioctl does to either is `miscounted` and
`outdated`, and the invariants say of both how long it lasts.

`Maze_proofs`, first of `MazeGame`, for every maze, block size and view. `PInv`
joins the types with the player's place in the corridors and in the view: a move
in mid-corridor keeps the line between two open squares, and the view moves by a
pixel exactly when the player comes within `PAN_BORDER` of its edge.
`GameTypes`, `NeverInAWall`, `ViewFollowsPlayer` and `StrayReadHasNoEffect`
follow. `CInv`, about the condition variable, gives `NoPressIsSleptThrough`.

Then of `MazeBuild`, for every size of maze, every walk of the worms and every
guess: `BoundaryHolds`, `LoopsOfMakeMaze` and `EveryLevelIsWinnable`, which are
the three properties of the run. Their invariant `BuildInv` has five parts: the
boundary is walls; each bit occurs only in the phases that use it; `remaining` is
the number of rooms without the mark; the marked rooms are the least set around
the start that no opening leads out of; fruit and exit lie in rooms, and are
counted. Three arguments carry it. Geometry: inside the boundary an index
belongs to one square only, although column 0 of a row is the right boundary of
the row above (`IndexUnique`). The search: `AreaFrom` ends, because the cells not
yet found become fewer with each pass (well-founded recursion on finite sets),
and what it returns is the least closed set. The scan: it visits
every room before it comes back (`ScanPassesAll`), and while a room is left, an
unmarked one lies next to a marked one (`SomeRoomJoins`). `MakeMazeMakesMazes`
composes the two modules: what `make_maze` returns is a maze as `MazeGame`
assumes it (`IsMaze`), so the assumption of the game's theorems is a theorem
about the code that makes its mazes.

`Display_proofs`, for every size of block, window, border and buffer, every set
of mazes and every walk: `WindowIsRight` and `PictureIsRight`, the two properties
of the run, from `DisplayInvariant`. The invariant `DisplayInv` says that the window
lies in the buffer and holds what drawing it anew would put there (`Sound`,
`Picture`); that the maze still has its walls, marks and count of fruit
(`MazeOk`); that the player is between two neighbouring open squares
(`Corridor`) and the view inside the maze and not within `PAN_BORDER` of the
player unless it is at an edge (`Follows`); and that until the player has moved
nothing has changed since the level was drawn (`Settled`), which is why the
code may leave the screen as it is while `need_redraw` is clear. Four arguments
carry it. Addresses: the four planes of a window do not overlap and no two
pixels of it share a byte (`InPlane`, `AddressUnique`), and the test of
`set_view_window` is exactly that the first and the last of them are in the
buffer (`FitsIs`, `WindowInBuffer`). The copy: read in the order of its direction,
a copying loop moves each byte before it is overwritten (`CopiedIs`), and the
stretch it copies has every pixel that both windows show (`SharedStretch`), so that after the line
at the edge is drawn the window is whole (`SetViewIs`, `PanIs`). Drawing: a line
or a block drawn is what the definition of the picture gives for its pixels
(`HorizLineIs`, `VertLineIs`, `DrawBlocksIs`), and unveiling or eating at one
square changes no image elsewhere in the window, because no changed cell is
shown at a second place (`OwnCells`). The player: as the window shows all of it,
`mask` does not clip (`NoClip`), what `draw_full_block` puts back is what `mask`
saved, and the planes of a page show each pixel in its place (`RedrawIs`).

`Fish_proofs`, for every size of array, screen and word, every pair of files and
every order of calls: the three properties of the run (`ScreenIsRight`,
`ListImplementsBlinks`, `FramesAreRight`) from `ListInvariant`. `FishInv` says
that the pointers form a list (`IsList`: a sequence of nodes without repetition
that begins at the head, follows `next` to `NULL`, and has exactly the entries in
use); that a free entry is zeroed; and that two blinks on one location have it
among the `doubtful`. `ListInvariant` has `ReadInv` beside it: what is still to be
read of a file begins at the row and column of the loop (`InPlace`), so that a
turn that draws draws a character of the file, whose location is not 0
(`CharHasLocation`). That the pointers pass through such a sequence makes the
walk of `Order` find it, and from then on a call is what it does to the sequence: an
`add` puts a node in front, a `remove` closes the gap, a `sync` or a tick moves
nothing. So each call is a step of `Blinks`, or a stutter when it is refused;
that a blink counts down in words of any width as `Blinks` counts to its
`Duration` is the one piece of arithmetic. A turn of the reading loop that draws
needs its request to be one of `Blinks`, hence `ReaderOK`. `FramesAreRight` has an
invariant of its own, `DrawInv`: the blinks there are, are one for each place
before the one the loop has come to in both files, whether a line is shorter
than the other's or a file has ended. The location of a place does not tell two places apart, as a
long row runs into the next and words begin again, so the argument goes by the order of the places and never
by location; a blink is only ever refused for want of entries or for a
location beyond the screen, and `FramesAreDrawn` speaks of the files for which there are entries.

The assumptions on users and programs (`CarefulUser`, `CarefulVidmap`,
`Careful`, `~Crossing`) are those of the runs, no stronger:
without each of them TLC finds a behaviour of the code that breaks the property.

`Files_proofs` has `Library` too, for every memory, word, screen, directory and
line: `MemoryMoves`, `ConsolePrints` and `NamesGoWhole`, the three properties of
the run, from `LibraryInvariant`. What carries over from call to call is little:
the direction flag, the cursor in a column of the screen (`Cursors`), and the
arguments of the last line in the PCB, run together, up to their NUL, over
whatever was there (`ArgumentsHeld`); that they are what `Arguments` promises
if they are one word is in `ArgumentsArrive`. The work is in the loops. Each is a recursive function
of its turns, and `LoopRuns` shows once that such a function exists and stays in
its set; one lemma per loop (`CopyLoop`, `FillLoop`, `JoinLoop`, `PlacesRun`,
`SwapLoop`, `ValueLoop`, `PowerLoop`, `PrintfRuns`, `PutsLoop`) gives its value
turn by turn. Memory: chunks that go upwards without a gap, whatever their widths
(`Upwards`), copy and fill exactly (`CopyUp`, `FillUp`); so does `memmove` downwards
(`CopyDown`). Numbers: `PlaceValues` writes the digits of a number from the
lowest on, `strrev` reverses in half as many swaps (`StrrevIs`), and the result is
the number's only numeral without zeros in front (`ItoaIs`), with no more digits
than a word has (`NumeralFits`). Formats: `Ready` is the state between two pieces;
a piece read from there prints what it means and takes its word (`ConversionRead`,
`SilenceRead`, `OutIs`), and the pieces lie in the format one behind the other
(`PartsAt`, `PiecesPrint`). Strings: the string of a text has one end (`TextFacts`),
`strncmp` is 0 exactly for strings equal up to their size or NUL (`StrncmpIs`),
and a name that fills its dentry is compared no further than its last character
(`FindsTheFile`). The proof needed one change of a property: the cases of `Means`
had overlapped for a plain `c` or `s` in a format, of which TLC takes the first
and the logic any.

Only model-checked, and why: `EveryTerminalRuns`, `EnterIsAnswered`,
`ThreadsStop`, `HeldButtonSteers`, `KeyboardComesBack` and `SomeReadReturns`,
because liveness under fairness is outside what the prover does.

## 6. Where the code does something else

Where a comment of the source says otherwise, or the code does what nobody can
have meant. The runs exclude these only where section 2 says so. Four claims of
comments are written down as properties that no run has, because the code does
not keep them: `SwitchSavesLine` (add it to `Read.cfg`), `ResetResendsLeds`
(`Tux_resets.cfg`), `OnlyLeadingSpacesGo` and `BufferIsNotSmaller`
(`Library.cfg`). TLC then shows how each fails.

Processes and scheduling:

* `execute` while another terminal is displayed records that one as the child's
  (`syscalls.c:164`): the terminal then has two processes that can run and
  the caller's has none. Add `background_execute` to `Allowed` to see
  `OneProcessPerTerminal` fail;
* a program executed before the third shell is up takes the first free pid,
  which `schedule()` believes to be a shell's (`schedule.c:3` and 18):
  `early_execute`;
* `isr_ret` is cleared by `execute` only (`syscalls.c:183`, against the comment
  at 180): after an exception of a program on another terminal, a program that
  halts normally reports 256;
* `execute` with every pid in use returns 0 (`syscalls.c:130`), where line 99
  promises -1 (`ExecuteFull`);
* `vidmap` while another terminal is displayed maps the screen
  (`syscalls.c:448`); the guard on `background_vidmap` in `Vidmap`;
* with `vidmap` in use on two terminals, `schedule()` sets the page of the
  process it switches out (`schedule.c:31-37`), so the next one writes the wrong
  terminal: `VidmapTerms = {0, 1}` in `Kernel.cfg` shows it, against the
  fixed bug of `BUG_LOG.txt:196`;
* `vid_map_flag` is cleared when a child halts even if its parent uses `vidmap`
  (`syscalls.c:81`), and never when a shell is replaced: `vidmap_execute`;
* user code runs with interrupts off (`syscalls_asm.S:34` pushes the flags after
  `cli`), so a program that makes no call keeps the CPU for ever, and the PIT's
  quantum (`pit.c:33`) means nothing to it;
* `do_halt` restores `tss.esp0` from `parent->kernel_stack` (`syscalls.c:72`),
  which `schedule.c:10` overwrote at the parent's last preemption: a shell's
  kernel stack may lose a frame with each command.

Terminals and keyboard:

* a read may end on an Enter pressed on another terminal: between the test of
  `cur_task` and `cli` (`terminal.c:42`, against the comment at 16) the user may
  switch and press Enter elsewhere;
* the length that `terminal_read` returns is computed after `sti()` through
  `cur_task` (`terminal.c:69`, against 20): a tick in between returns another
  terminal's;
* after a background process writes, `switch_terminal` stores an empty line
  over the one the user was typing (`terminal.c:334`, then 258, against the
  comment at 257), unless a key came in between. `SwitchSavesLine` is the
  comment's claim, and `LinesAreTyped` says that nothing else loses a line;
* an Enter that no read has ended is forgotten when Enter is pressed on another
  terminal (`terminal.c:548`): `FlagsMatchEnters` is about the last Enter;
* Backspace at the left edge with an empty line takes `term_buf_index` below
  zero, in 16 bits (`terminal.c:602`); further letters are then refused, and
  Enter writes its newline at index 65535. On a full line, with the cursor just
  after the left edge or after Ctrl+L, it takes the column below zero. A letter
  after output that ended at the right edge lands a row off. In `LineEditor`
  `SlipsBack` and `SlipsType` are these states: set `Careful = FALSE` to see them.
  `TerminalRead` has the index below zero;
* Shift, Ctrl and Caps toggle their flag on a press and on a release
  (`keyboard.c:95-128`), so typematic repeats of the key toggle it as well.

Interrupts and RTC:

* `RTC_write` runs with interrupts on (`rtc.c:207-210`): an RTC interrupt, or
  another process's call, between selecting register A and the access behind
  it loses the rate, or writes what another register held into the divider bits,
  after which the RTC may stop. `UncutWritesCount` is about the other writes, and
  says no more than it can: with two writers even a write that nobody cut
  stores divider bits it read before the other one stored its own, so that it
  may undo the repair of a damaged divider, or the damage;
* `RTC_open` resets the one rate for every program that has set its own
  (`rtc.c:107`), and readers take each other's interrupts (`rtc.c:135`, 141):
  `SomeReadReturns` says *some* read, because a given one may wait for ever.

Files and library:

* a read that starts behind the first block of a file and crosses a block
  boundary copies from the physically next block (`filesys.c:98`):
  `Crossing = TRUE` in `Files.cfg` violates `ImplementsStreams`;
* `fd > MAX_OPEN_FILES` lets descriptor 8 through (`syscalls.c:266`, 289, 376):
  the entry behind the array is the `kernel_stack` field of the PCB;
* `parse_args` removes every space of the arguments, not only the leading ones
  (`syscalls.c:245`, where `|| '\0'` has no effect, against the comment at 240):
  `OnlyLeadingSpacesGo` is the comment's claim;
* `do_getargs` compares a signed size with an unsigned length (`syscalls.c:416`,
  against the comment above it), so that it copies for every negative size:
  `BufferIsNotSmaller` is the comment's claim. With a size equal to the length
  it writes the NUL behind the buffer. `ArgumentsArrive` says all of this;
* `strncpy` writes `n + 1` bytes (`lib.c:468`). `dir_read` overruns its copy by
  one, but `do_execute` needs it for programs without arguments;
* `printf` with a format that ends in a percent sign runs past its NUL; `putc`
  wraps the column before it divides by it (`lib.c:186-187`), so that a long line
  overwrites its own row, and a newline in the last row puts the next character
  below the screen (`CursorReturns`);
* `memmove` leaves the direction flag set (`lib.c:403`); every function of the
  library that depends on it clears it first (`MovesAreExact`).

The maze game:

* the last signal to the Tux thread is sent before `winner = 1` and without the
  mutex (`mazegame.c:645-649`): the thread may sleep for ever, and `main` with
  it (against 393 and 725);
* `flag` is 0 for a moment at each tick while a button is held
  (`mazegame.c:549-552`): an arrow key that comes then is not refused;
* `copy_image` copies 16000 bytes of a window of 14560 (`modex.c`),
  `draw_vert_line` accepts the column behind the window's last, and
  `clear_mode_X` looks at 256 bytes on each side of the buffer only
  (`FenceHolds` is about every byte).

The Tux driver:

* `ack++` follows the put (`tuxctl-ioctl.c:134`, against 79 and 93-95), as does
  `reset = arg` (185), and `ack = 2` (151) precedes its put: a packet handled in
  between is counted wrongly, or a resend sends the previous value behind the
  new one. `ResetResendsLeds` is the claim of the comments at 94 and 95;
  `miscounted` and `outdated` in `AcksWillCome` and `LedsAreCurrent` are the extent
  of what happens instead;
* `write_wakeup` takes one byte more from the ring than the driver has room for
  (`n <= room`, `tuxctl-ld.c:179`) and loses it, and nobody looks at what the
  full ring or the driver refuses (`tuxctl-ioctl.c:184`): the conditions of
  `CommandsStayWhole`. Bytes taken by an ioctl and by an interrupt may be written
  in either order: the tail of a command may be sent by an interrupt while its
  head is in the hands of the ioctl, who is about to have a byte of it refused
  (`Doomed`), so that the controller gets the tail first, or without its head;
* `TUX_BUTTONS` may return the halves of two events (`ButtonsAreFresh`).

The blinking characters:

* `mp1_ioctl_sync` means to draw the character of the phase, but the `cmovl`
  behind a `testb` never moves (`blink.S:281-282`), so it always draws the
  `off_char`; the next change of the blink puts it right (`doubtful`);
* a blink at location 0 is accepted (`blink.S:132`) and then taken for a free
  entry (`fish.c:164`): the next `add` overwrites a linked node. `main` never
  asks for it; `LocationAssumption` says so;
* the location is stored in 16 bits (`fish.c:125`): characters of a file from
  row 818 on (the screen has 25) wrap and are drawn over the top of the screen
  instead of being refused; the one in row 818, column 56, counted from 0, gets
  location 0;
* a length of 0 or above 2^15 lasts one tick, as the countdown is compared as a
  signed word (`blink.S:65-66`): `Duration`;
* in `empee1` (not modelled) removing a node that is not the head writes the
  removed node instead of its predecessor (`mp1.S:237`), so that a freed node
  stays linked, and `add` leaves with a word too many on the stack when the
  memory or the position is refused (`mp1.S:171`).

## 7. Not modelled, and the plan

Not modelled: descriptor and page table set-up, the VGA registers, the palette
and the status bar, terminal settings, the table of scancodes (straight-line
code without state that another part reads); the programs of the repository
(they are the environment); the in-kernel tests, the input demo and the
assertions; how deep a kernel stack is.

`empee1`: its list, compiled into a kernel driver (`mp1.diff`) or a user program
(`mp1_userspace.c`), is that of `Fish` in other assembly; after the first removal of a
node that is not the head nothing can be promised of it (section 6).

Next:

1. the status a parent gets, and `vidmap` on several terminals, with the
   conditions under which they are right;
2. the Tux thread's end, with the signal repeated as spurious wakeups do;
3. the status line of the maze game, drawn below the display;
4. proofs: `VidmapFollowsTerminal` under the weaker conditions of
   point 1.
