------------------------------- MODULE Kernel -------------------------------
(***************************************************************************)
(* The process table, the round-robin scheduler and the execute / halt /   *)
(* vidmap system calls of the empee3 operating system (student-distrib/).  *)
(*                                                                         *)
(* Every kernel entry runs with interrupts off except where the code says  *)
(* sti(): the read and write handlers, opening the RTC and the message an  *)
(* exception or a refused execute prints.  Those stretches are the modes   *)
(* "io", "fault" and "refused", and only there (and while the kernel boots)*)
(* can a PIT tick or a keystroke arrive.  User code itself runs with       *)
(* IF = 0, because do_execute() clears it and context_setup pushes the     *)
(* flags it finds.  Everything else a system call does is one atomic step. *)
(*                                                                         *)
(* Operators marked "faulty" are what a slip in the code would make of the *)
(* operator defined after them; no action uses them.                       *)
(***************************************************************************)
EXTENDS Integers, FiniteSets

CONSTANTS MAX_RUNNING_PROCESSES,  \* process.h:7
          MAX_TERMS,              \* terminal.h:23
          Statuses,               \* the halt statuses programs use
          VidmapTerms,            \* terminals whose programs call vidmap
          Allowed                 \* calls a less than careful user makes

(* Calls the code does not refuse and the passing runs leave out.           *)
CallKinds == {"early_execute",       \* execute before every shell is up
              "background_execute",  \* execute on a terminal not displayed
              "background_vidmap",   \* vidmap on a terminal not displayed
              "vidmap_execute"}      \* execute after vidmap

ASSUME KernelAssumption ==
    /\ MAX_TERMS \in Nat \ {0, 1}
    /\ MAX_RUNNING_PROCESSES \in Nat
    /\ MAX_RUNNING_PROCESSES > MAX_TERMS
    /\ Statuses \subseteq 0 .. 255
    /\ VidmapTerms \subseteq 0 .. MAX_TERMS - 1
    /\ Allowed \subseteq CallKinds

Pids == 0 .. MAX_RUNNING_PROCESSES - 1
Terms == 0 .. MAX_TERMS - 1
BaseShells == Terms               \* pids 0 .. THIRD_SHELL belong to the shells
LaterShells == Terms \ {0}        \* SECOND_SHELL and THIRD_SHELL

Stray == -1                       \* the CPU runs on a stack nobody saved
EXCEP_RET == 256
Unmapped == -1                    \* pages of video memory, from VIDEO_MEMORY:
Screen == 0                       \* the one displayed,
BackPage(t) == t + 1              \* and the one that shadows terminal t

VARIABLES
    mode,          \* what each pid is doing; pid_arr[p] is NOT_USED in the two
                   \* modes "free" and "boot"
    parent,        \* pcb.parent, as a pid
    on_term,       \* pcb.on_term
    saved,         \* pcb.kernel_stack is a schedule() frame not yet resumed
    exec_frame,    \* kernel_stack[c]: the process whose do_execute() made c
    mapped,        \* the program holds the pointer vidmap returned
    active_pid,    \* terminals[t].active_pid
    vid_map_flag,  \* terminals[t].vid_map_flag
    cpu,           \* the process whose stack the CPU is on
    term_counter, curr_terminal,
    page32,        \* the program page_directory[32] maps
    esp0,          \* tss.esp0, as the process on whose stack it points
    isr_ret,
    eax,           \* what the last do_execute() to return gave its caller
    user_vidmem    \* the page user_vidmem_page_table[0] maps

pcbVars == <<parent, on_term, saved, exec_frame, mapped>>
termVars == <<active_pid, vid_map_flag, curr_terminal>>
vars == <<mode, pcbVars, termVars, cpu, term_counter, page32, esp0, isr_ret,
          eax, user_vidmem>>

Modes == {"free", "boot", "ready",       \* "ready": boot tables written
          "user", "io", "refused", "fault", "exec"}
Used(p) == mode[p] \notin {"free", "boot", "ready"}
Preemptible == {"boot", "ready", "io", "refused", "fault"}     \* IF = 1

Init ==
    /\ mode = [p \in Pids |-> IF p = 0 THEN "boot" ELSE "free"]
    /\ parent = [p \in Pids |-> 0]
    /\ on_term = [p \in Pids |-> 0]
    /\ saved = [p \in Pids |-> FALSE]
    /\ exec_frame = [p \in Pids |-> 0]
    /\ mapped = [p \in Pids |-> FALSE]
    /\ active_pid = [t \in Terms |-> 0]
    /\ vid_map_flag = [t \in Terms |-> FALSE]
    /\ cpu = 0
    /\ term_counter = 0
    /\ curr_terminal = 0
    /\ page32 = 0
    /\ esp0 = 0
    /\ isr_ret = 0
    /\ eax = 0
    /\ user_vidmem = Unmapped

-----------------------------------------------------------------------------
(* do_execute() of an executable by the context p: c takes the first free  *)
(* pid.  A pid up to THIRD_SHELL is a shell on the terminal of its number; *)
(* any other pid is a child of p on the terminal now DISPLAYED.            *)
FreePids == {q \in Pids : ~Used(q)}

IsFirstFree(c) == c \in FreePids /\ \A q \in FreePids : c <= q

StartsOn(c) == IF c \in BaseShells THEN c ELSE curr_terminal

(* context_setup stores p's do_execute() frame in the slot of c. *)
StoreFrame_shared(p, c) == [q \in Pids |-> p]                        \* faulty
StoreFrame(p, c) == [exec_frame EXCEPT ![c] = p]

(* What launching c writes, mode and saved apart: its callers differ there. *)
LaunchPcb(p, c) ==
    /\ page32' = c
    /\ parent' = IF c \in BaseShells THEN parent ELSE [parent EXCEPT ![c] = p]
    /\ on_term' = [on_term EXCEPT ![c] = StartsOn(c)]
    /\ active_pid' = [active_pid EXCEPT ![StartsOn(c)] = c]
    /\ esp0' = c
    /\ isr_ret' = 0
    /\ exec_frame' = StoreFrame(p, c)
    /\ mapped' = [mapped EXCEPT ![c] = FALSE]
    /\ cpu' = c
    /\ UNCHANGED <<curr_terminal, vid_map_flag, eax, user_vidmem>>

(* entry() writes the tables, with the PIT already running. *)
BootTables ==
    /\ mode[cpu] = "boot"
    /\ mode' = [p \in Pids |-> IF p = cpu THEN "ready" ELSE "free"]
    /\ active_pid' = [t \in Terms |-> t]
    /\ UNCHANGED <<pcbVars, vid_map_flag, curr_terminal, cpu, term_counter,
                   page32, esp0, isr_ret, eax, user_vidmem>>

(* ... and executes the first shell. *)
BootExecute ==
    /\ mode[cpu] = "ready"
    /\ \E c \in Pids :
         /\ IsFirstFree(c)
         /\ LaunchPcb(cpu, c)
         /\ mode' = [mode EXCEPT ![c] = "user"]
         /\ saved' = [saved EXCEPT ![c] = FALSE]
    /\ UNCHANGED term_counter

-----------------------------------------------------------------------------
(* System calls of the running process. *)
InUser(p) == cpu = p /\ mode[p] = "user"
ShellsUp == \A s \in LaterShells : Used(s)
May(call) == call \in Allowed

(* do_read, do_write, open("rtc"), set_handler, sigreturn: interrupts on.  *)
EnterIo(p) ==
    /\ InUser(p)
    /\ mode' = [mode EXCEPT ![p] = "io"]
    /\ UNCHANGED <<pcbVars, termVars, cpu, term_counter, page32, esp0,
                   isr_ret, eax, user_vidmem>>

(* popfl and iret in syscall_wrapper: back to user code, interrupts off. *)
LeaveIo(p) ==
    /\ cpu = p /\ mode[p] \in {"io", "refused"}
    /\ mode' = [mode EXCEPT ![p] = "user"]
    /\ UNCHANGED <<pcbVars, termVars, cpu, term_counter, page32, esp0,
                   isr_ret, eax, user_vidmem>>

(* do_execute() of something that is not an executable. *)
ExecuteFails(p) ==
    /\ InUser(p)
    /\ eax' = -1
    /\ UNCHANGED <<mode, pcbVars, termVars, cpu, term_counter, page32, esp0,
                   isr_ret, user_vidmem>>

(* do_execute() with every pid taken prints a message (interrupts on while *)
(* it does) and returns 0.                                                 *)
ExecuteFull(p) ==
    /\ InUser(p)
    /\ FreePids = {}
    /\ eax' = 0
    /\ mode' = [mode EXCEPT ![p] = "refused"]
    /\ UNCHANGED <<pcbVars, termVars, cpu, term_counter, page32, esp0,
                   isr_ret, user_vidmem>>

(* do_execute() that launches c; p waits in context_setup. *)
Execute(p, c) ==
    /\ InUser(p)
    /\ ShellsUp \/ May("early_execute")
    /\ on_term[p] = curr_terminal \/ May("background_execute")
    /\ ~mapped[p] \/ May("vidmap_execute")
    /\ IsFirstFree(c)
    /\ LaunchPcb(p, c)
    /\ mode' = [mode EXCEPT ![p] = "exec", ![c] = "user"]
    /\ saved' = [saved EXCEPT ![c] = FALSE]
    /\ UNCHANGED term_counter

(* What do_halt() of the child p restores: its terminal's active process,  *)
(* tss.esp0 (from the parent's kernel_stack), and the status as 32 bits.   *)
RestoredActive_kept(p) == active_pid                                 \* faulty
RestoredActive(p) == [active_pid EXCEPT ![on_term[p]] = parent[p]]

RestoredStack_kept(p) == esp0                                        \* faulty
RestoredStack(p) == parent[p]

Expand(status) == status % 256

(* do_halt() of a child: its parent becomes the process of its terminal,   *)
(* and exec_return pops the do_execute() frame stored under its pid.  The  *)
(* caller gets the status, or 256 while isr_ret still says EXCEP_RET.      *)
HaltChild(p, status, isr) ==
    /\ p \notin BaseShells
    /\ mode' = [mode EXCEPT ![p] = "free", ![exec_frame[p]] = "user"]
    /\ active_pid' = RestoredActive(p)
    /\ esp0' = RestoredStack(p)
    /\ page32' = parent[p]
    /\ vid_map_flag' = [vid_map_flag EXCEPT ![on_term[p]] = FALSE]
    /\ cpu' = exec_frame[p]
    /\ isr_ret' = isr
    /\ eax' = IF isr = EXCEP_RET THEN EXCEP_RET ELSE Expand(status)
    /\ mapped' = [mapped EXCEPT ![p] = FALSE]
    /\ UNCHANGED <<parent, on_term, saved, exec_frame, curr_terminal,
                   term_counter, user_vidmem>>

(* do_halt() of a shell frees the pid and executes a shell in its place.   *)
HaltShell(p) ==
    /\ p \in BaseShells
    /\ \E c \in FreePids \cup {p} :
         /\ \A q \in FreePids \cup {p} : c <= q
         /\ LaunchPcb(p, c)
         /\ mode' = [mode EXCEPT ![p] = "free", ![c] = "user"]
         /\ saved' = [saved EXCEPT ![c] = FALSE]
    /\ UNCHANGED term_counter

Halt(p, status) ==
    /\ InUser(p)
    /\ HaltChild(p, status, isr_ret) \/ HaltShell(p)

(* An exception in user code: the handler prints, interrupts on ...        *)
Fault(p) ==
    /\ InUser(p)
    /\ mode' = [mode EXCEPT ![p] = "fault"]
    /\ UNCHANGED <<pcbVars, termVars, cpu, term_counter, page32, esp0,
                   isr_ret, eax, user_vidmem>>

(* ... then sets isr_ret and halts the process with status 0. *)
FaultHalt(p) ==
    /\ cpu = p /\ mode[p] = "fault"
    /\ HaltChild(p, 0, EXCEP_RET) \/ HaltShell(p)

(* do_vidmap(): maps the screen, whichever terminal is displayed. *)
Vidmap(p) ==
    /\ InUser(p)
    /\ on_term[p] \in VidmapTerms
    /\ on_term[p] = curr_terminal \/ May("background_vidmap")
    /\ vid_map_flag' = [vid_map_flag EXCEPT ![on_term[p]] = TRUE]
    /\ user_vidmem' = Screen
    /\ mapped' = [mapped EXCEPT ![p] = TRUE]
    /\ UNCHANGED <<mode, parent, on_term, saved, exec_frame, active_pid,
                   curr_terminal, cpu, term_counter, page32, esp0, isr_ret,
                   eax>>

-----------------------------------------------------------------------------
(* Interrupts. *)

(* The user page schedule() leaves for a task of terminal t switched OUT. *)
OutgoingPage_screen(t) == IF vid_map_flag[t] THEN Screen ELSE user_vidmem  \* faulty
OutgoingPage(t) ==
    IF ~vid_map_flag[t] THEN user_vidmem
    ELSE IF t # curr_terminal THEN BackPage(t)
    ELSE Screen

NextTerminal_skipsLast(t) == (t + 1) % (MAX_TERMS - 1)               \* faulty
NextTerminal(t) == (t + 1) % MAX_TERMS

(* schedule() saves the frame of the task on the CPU in its PCB. *)
SaveFrame(p) == [saved EXCEPT ![p] = TRUE]

(* schedule() with p on the CPU, while a shell is still to be launched. *)
LaunchShell(p, c) ==
    /\ ~ShellsUp
    /\ IsFirstFree(c)
    /\ LaunchPcb(p, c)
    /\ mode' = [mode EXCEPT ![c] = "user"]
    /\ saved' = [SaveFrame(p) EXCEPT ![c] = FALSE]

(* schedule() otherwise: resume the process of the next terminal.  Its     *)
(* kernel_stack is worth resuming only if schedule() saved it.             *)
SwitchTo(p, next) ==
    /\ ShellsUp
    /\ page32' = next
    /\ user_vidmem' = OutgoingPage(on_term[p])
    /\ esp0' = next
    /\ cpu' = IF SaveFrame(p)[next] THEN next ELSE Stray
    /\ saved' = [SaveFrame(p) EXCEPT ![next] = FALSE]
    /\ UNCHANGED <<mode, parent, on_term, exec_frame, mapped, termVars,
                   isr_ret, eax>>

(* pit_handler(): one turn of the round-robin over the terminals. *)
Tick(p) ==
    /\ cpu = p /\ mode[p] \in Preemptible
    /\ term_counter' = NextTerminal(term_counter)
    /\ \/ \E c \in Pids : LaunchShell(p, c)
       \/ SwitchTo(p, active_pid[term_counter'])

(* switch_terminal(), from the keyboard handler. *)
SwitchTerminal(p, dest) ==
    /\ cpu = p /\ mode[p] \in Preemptible
    /\ curr_terminal' = dest
    /\ user_vidmem' =
         IF vid_map_flag[dest] THEN Screen
         ELSE IF vid_map_flag[curr_terminal] THEN BackPage(curr_terminal)
         ELSE user_vidmem
    /\ UNCHANGED <<mode, pcbVars, active_pid, vid_map_flag, cpu, term_counter,
                   page32, esp0, isr_ret, eax>>

Syscall(p) ==
    \/ EnterIo(p) \/ LeaveIo(p)
    \/ ExecuteFails(p) \/ ExecuteFull(p) \/ \E c \in Pids : Execute(p, c)
    \/ \E s \in Statuses : Halt(p, s)
    \/ Fault(p) \/ FaultHalt(p)
    \/ Vidmap(p)

Next ==
    \/ cpu # Stray /\ (BootTables \/ BootExecute)
    \/ \E p \in Pids : Syscall(p) \/ Tick(p) \/ \E t \in Terms : SwitchTerminal(p, t)

Spec == Init /\ [][Next]_vars

-----------------------------------------------------------------------------
(* Fairness.  The PIC latches IRQ0, so a tick that finds interrupts off is *)
(* delivered the next time they come on: strong fairness of the tick.      *)
Ticks == SF_vars(cpu # Stray /\ Tick(cpu))

(* What the scheduler needs of its programs, and the shells and programs   *)
(* of the repository do: each keeps reading or writing.                    *)
Boots == WF_vars(cpu # Stray /\ (BootTables \/ BootExecute))
ProgramsDoIo == SF_vars(cpu # Stray /\ EnterIo(cpu))

FairSpec == Spec /\ Ticks /\ Boots /\ ProgramsDoIo

-----------------------------------------------------------------------------
TypeOK ==
    /\ mode \in [Pids -> Modes]
    /\ parent \in [Pids -> Pids]
    /\ on_term \in [Pids -> Terms]
    /\ saved \in [Pids -> BOOLEAN]
    /\ exec_frame \in [Pids -> Pids]
    /\ mapped \in [Pids -> BOOLEAN]
    /\ active_pid \in [Terms -> Pids]
    /\ vid_map_flag \in [Terms -> BOOLEAN]
    /\ cpu \in Pids \cup {Stray}
    /\ term_counter \in Terms
    /\ curr_terminal \in Terms
    /\ page32 \in Pids
    /\ esp0 \in Pids
    /\ isr_ret \in {0, EXCEP_RET}
    /\ eax \in Statuses \cup {-1, 0, EXCEP_RET}
    /\ user_vidmem \in {Unmapped, Screen} \cup {BackPage(t) : t \in Terms}

Runnable(p) == Used(p) /\ mode[p] # "exec"

(* Each terminal whose shell is up has exactly one runnable process, the   *)
(* one active_pid names, so schedule() (which only ever looks at           *)
(* active_pid) reaches every process that can run and no other.            *)
OneProcessPerTerminal ==
    /\ \A t \in Terms : Used(t) =>
         /\ Runnable(active_pid[t])
         /\ on_term[active_pid[t]] = t
    /\ \A p \in Pids : Runnable(p) => active_pid[on_term[p]] = p

(* A process that waits for the CPU has a schedule() frame that was saved  *)
(* and not yet consumed: the one thing SwitchTo may load into esp.         *)
Resumable == \A p \in Pids : Runnable(p) /\ p # cpu => saved[p]

(* The CPU is never on a stack nobody saved, and the process it is on has  *)
(* its own program mapped at 128 MB and enters the kernel on its own stack.*)
RunningOwnsTheMachine ==
    /\ cpu # Stray /\ mode[cpu] # "free"
    /\ Used(cpu) => mode[cpu] # "exec" /\ page32 = cpu /\ esp0 = cpu

(* Each child has a parent that waits for it, and for it alone, in the     *)
(* do_execute() frame stored under the child's pid, on the same terminal:  *)
(* what exec_return will pop is the call that launched the child.          *)
Children == {c \in Pids \ BaseShells : Used(c)}

CallersWait ==
    /\ \A c \in Children :
         /\ mode[parent[c]] = "exec"
         /\ exec_frame[c] = parent[c]
         /\ on_term[c] = on_term[parent[c]]
    /\ \A c, d \in Children : parent[c] = parent[d] => c = d

(* The kernel boots alone on the stack of pid 0, the shells come up in the *)
(* order of their pids, each on its own terminal, and no program takes a   *)
(* pid before all of them have.                                            *)
ShellsKeepTheirPids ==
    /\ mode[0] # "free"
    /\ \A p \in Pids : mode[p] \in {"boot", "ready"} =>
         p = 0 /\ cpu = 0 /\ \A q \in Pids \ {0} : mode[q] = "free"
    /\ \A t \in Terms : Used(t) =>
         on_term[t] = t /\ \A u \in Terms : u < t => Used(u)
    /\ Children # {} => \A t \in Terms : Used(t)

(* A program that holds the vidmap pointer writes the screen while its     *)
(* terminal is displayed, and that terminal's back page while it is not.   *)
VidmapFollowsTerminal ==
    cpu # Stray /\ Used(cpu) /\ mapped[cpu] =>
        user_vidmem = IF on_term[cpu] = curr_terminal THEN Screen
                      ELSE BackPage(on_term[cpu])

(* No terminal is starved: each runs again and again. *)
EveryTerminalRuns ==
    \A t \in Terms : []<>(cpu # Stray /\ Used(cpu) /\ on_term[cpu] = t)
=============================================================================
