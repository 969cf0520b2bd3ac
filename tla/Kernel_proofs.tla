---------------------------- MODULE Kernel_proofs ---------------------------
(***************************************************************************)
(* The process layer keeps its invariants for every number of terminals,   *)
(* pids and statuses, as long as programs are executed from the terminal   *)
(* displayed and not before every shell is up.                             *)
(***************************************************************************)
EXTENDS KernelStacks, WellFoundedInduction, TLAPS

(* The inductive invariant.  OneProcessPerTerminal needs CallersWait (what *)
(* halt uncovers was waiting on that terminal) and ShellsKeepTheirPids     *)
(* (what schedule() finds under an active_pid is a process); the machine   *)
(* is owned by the process it runs because that process was Resumable.     *)
IInv ==
    /\ TypeOK
    /\ OneProcessPerTerminal
    /\ Resumable
    /\ RunningOwnsTheMachine
    /\ CallersWait
    /\ ShellsKeepTheirPids

(* The user's half of the contract. *)
CarefulUser == Allowed \cap {"early_execute", "background_execute"} = {}

LEMMA Constants ==
    /\ Terms \subseteq Pids
    /\ 0 \in Terms
    /\ 1 \in LaterShells
    /\ BaseShells = Terms
    /\ LaterShells \subseteq Terms
  BY KernelAssumption DEF Terms, Pids, BaseShells, LaterShells

LEMMA InitInv == Init => IInv
  <1> SUFFICES ASSUME Init PROVE IInv
    OBVIOUS
  <1> USE KernelAssumption, Constants DEF Init
  <1>1. \A p \in Pids : ~Used(p)
    BY DEF Used, Pids
  <1>2. TypeOK
    BY DEF TypeOK, Modes, Pids, Unmapped
  <1>3. OneProcessPerTerminal /\ Resumable /\ CallersWait
    BY <1>1 DEF OneProcessPerTerminal, Resumable, CallersWait, Children, Runnable
  <1>4. RunningOwnsTheMachine
    BY <1>1 DEF RunningOwnsTheMachine, Stray, Pids
  <1>5. ShellsKeepTheirPids
    BY <1>1 DEF ShellsKeepTheirPids, Children, Pids
  <1>6. QED
    BY <1>2, <1>3, <1>4, <1>5 DEF IInv

-----------------------------------------------------------------------------
(* Types. *)
(* What LaunchPcb writes has its type. *)
LEMMA LaunchPcbType ==
  ASSUME TypeOK, NEW p \in Pids, NEW c \in Pids, LaunchPcb(p, c)
  PROVE  /\ page32' \in Pids
         /\ parent' \in [Pids -> Pids]
         /\ on_term' \in [Pids -> Terms]
         /\ active_pid' \in [Terms -> Pids]
         /\ esp0' \in Pids
         /\ isr_ret' \in {0, EXCEP_RET}
         /\ exec_frame' \in [Pids -> Pids]
         /\ mapped' \in [Pids -> BOOLEAN]
         /\ cpu' \in Pids \cup {Stray}
         /\ vid_map_flag' \in [Terms -> BOOLEAN]
         /\ curr_terminal' \in Terms
         /\ eax' \in Statuses \cup {-1, 0, EXCEP_RET}
         /\ user_vidmem' \in {Unmapped, Screen} \cup {BackPage(t) : t \in Terms}
  <1>1. StartsOn(c) \in Terms
    BY DEF StartsOn, TypeOK, BaseShells
  <1>2. QED
    BY <1>1 DEF LaunchPcb, StoreFrame, TypeOK

(* Halting a child hands the machine to a process of the table. *)
LEMMA HaltChildType ==
  ASSUME TypeOK, NEW p \in Pids, NEW status \in Statuses \cup {0},
         NEW isr \in {0, EXCEP_RET}, HaltChild(p, status, isr)
  PROVE  TypeOK'
  <1>1. parent[p] \in Pids /\ exec_frame[p] \in Pids /\ on_term[p] \in Terms
    BY DEF TypeOK
  <1>2. mode' \in [Pids -> Modes]
    BY DEF TypeOK, HaltChild, Modes
  <1>3. esp0' \in Pids
    BY <1>1 DEF TypeOK, HaltChild, RestoredStack
  <1>4. eax' \in Statuses \cup {-1, 0, EXCEP_RET}
    BY KernelAssumption DEF HaltChild, Expand
  <1>5. QED
    BY <1>1, <1>2, <1>3, <1>4 DEF TypeOK, HaltChild, RestoredActive

LEMMA HaltShellType ==
  ASSUME TypeOK, NEW p \in Pids, HaltShell(p)
  PROVE  TypeOK'
  <1>1. PICK c \in Pids :
          /\ LaunchPcb(p, c)
          /\ mode' = [mode EXCEPT ![p] = "free", ![c] = "user"]
          /\ saved' = [saved EXCEPT ![c] = FALSE]
    BY DEF HaltShell, FreePids
  <1>2. mode' \in [Pids -> Modes]
    BY <1>1 DEF TypeOK, Modes
  <1>3. saved' \in [Pids -> BOOLEAN]
    BY <1>1 DEF TypeOK
  <1>4. term_counter' = term_counter
    BY DEF HaltShell
  <1>5. QED
    BY <1>1, <1>2, <1>3, <1>4, LaunchPcbType DEF TypeOK

LEMMA TickType ==
  ASSUME TypeOK, NEW p \in Pids, Tick(p)
  PROVE  TypeOK'
  <1> DEFINE next == active_pid[term_counter']
  <1>1. term_counter' \in Terms
    BY KernelAssumption DEF Tick, NextTerminal, TypeOK, Terms
  <1>2. ASSUME NEW c \in Pids, LaunchShell(p, c) PROVE TypeOK'
    <2>1. LaunchPcb(p, c) /\ mode' \in [Pids -> Modes]
      BY <1>2 DEF LaunchShell, TypeOK, Modes
    <2>2. saved' \in [Pids -> BOOLEAN]
      BY <1>2 DEF LaunchShell, SaveFrame, TypeOK
    <2>3. QED
      BY <1>1, <2>1, <2>2, LaunchPcbType DEF TypeOK
  <1>3. ASSUME SwitchTo(p, next) PROVE TypeOK'
    <2>1. next \in Pids
      BY <1>1 DEF TypeOK
    <2>2. esp0' \in Pids /\ page32' \in Pids
      BY <1>3, <2>1 DEF SwitchTo
    <2>3. user_vidmem' \in {Unmapped, Screen} \cup {BackPage(t) : t \in Terms}
      BY <1>3 DEF SwitchTo, OutgoingPage, TypeOK
    <2>4. saved' \in [Pids -> BOOLEAN] /\ cpu' \in Pids \cup {Stray}
      BY <1>3, <2>1 DEF SwitchTo, SaveFrame, TypeOK
    <2>5. QED
      BY <1>1, <1>3, <2>2, <2>3, <2>4 DEF SwitchTo, TypeOK, termVars
  <1>4. QED
    BY <1>2, <1>3 DEF Tick

LEMMA TypeStep ==
  ASSUME TypeOK, [Next]_vars
  PROVE  TypeOK'
  <1>1. CASE UNCHANGED vars
    BY <1>1 DEF vars, pcbVars, termVars, TypeOK
  <1>2. CASE cpu # Stray /\ BootTables
    BY <1>2, Constants DEF BootTables, TypeOK, Modes, pcbVars
  <1>3. CASE cpu # Stray /\ BootExecute
    <2>1. cpu \in Pids
      BY <1>3 DEF TypeOK
    <2>2. PICK c \in Pids :
            /\ LaunchPcb(cpu, c)
            /\ mode' = [mode EXCEPT ![c] = "user"]
            /\ saved' = [saved EXCEPT ![c] = FALSE]
      BY <1>3 DEF BootExecute
    <2>3. mode' \in [Pids -> Modes]
      BY <2>2 DEF TypeOK, Modes
    <2>4. saved' \in [Pids -> BOOLEAN]
      BY <2>2 DEF TypeOK
    <2>5. UNCHANGED term_counter
      BY <1>3 DEF BootExecute
    <2>6. QED
      BY <2>1, <2>2, <2>3, <2>4, <2>5, LaunchPcbType DEF TypeOK
  <1>4. ASSUME NEW p \in Pids, Syscall(p) PROVE TypeOK'
    <2>1. ASSUME EnterIo(p) \/ ExecuteFull(p) \/ Fault(p) PROVE TypeOK'
      <3>1. mode' \in [Pids -> Modes]
        BY <2>1 DEF EnterIo, ExecuteFull, Fault, TypeOK, Modes
      <3>2. eax' \in Statuses \cup {-1, 0, EXCEP_RET}
        BY <2>1 DEF EnterIo, ExecuteFull, Fault, TypeOK
      <3>3. QED
        BY <2>1, <3>1, <3>2 DEF EnterIo, ExecuteFull, Fault, TypeOK, pcbVars, termVars
    <2>2. ASSUME LeaveIo(p) PROVE TypeOK'
      <3>1. mode' \in [Pids -> Modes]
        BY <2>2 DEF LeaveIo, TypeOK, Modes
      <3>2. QED
        BY <2>2, <3>1 DEF LeaveIo, TypeOK, pcbVars, termVars
    <2>3. ASSUME ExecuteFails(p) PROVE TypeOK'
      BY <2>3 DEF ExecuteFails, TypeOK, pcbVars, termVars
    <2>4. ASSUME NEW c \in Pids, Execute(p, c) PROVE TypeOK'
      <3>1. LaunchPcb(p, c) /\ mode' \in [Pids -> Modes]
        BY <2>4 DEF Execute, TypeOK, Modes
      <3>2. saved' \in [Pids -> BOOLEAN]
        BY <2>4 DEF Execute, TypeOK
      <3>3. UNCHANGED term_counter
        BY <2>4 DEF Execute
      <3>4. QED
        BY <3>1, <3>2, <3>3, LaunchPcbType DEF TypeOK
    <2>5. ASSUME NEW s \in Statuses, Halt(p, s) PROVE TypeOK'
      <3>1. isr_ret \in {0, EXCEP_RET} /\ s \in Statuses \cup {0}
        BY DEF TypeOK
      <3>2. CASE HaltChild(p, s, isr_ret)
        BY <3>1, <3>2, HaltChildType
      <3>3. CASE HaltShell(p)
        BY <3>3, HaltShellType
      <3>4. QED
        BY <2>5, <3>2, <3>3 DEF Halt
    <2>6. ASSUME FaultHalt(p) PROVE TypeOK'
      BY <2>6, HaltChildType, HaltShellType DEF FaultHalt
    <2>7. ASSUME Vidmap(p) PROVE TypeOK'
      <3>1. mapped' \in [Pids -> BOOLEAN]
        BY <2>7 DEF Vidmap, TypeOK
      <3>2. vid_map_flag' \in [Terms -> BOOLEAN]
        BY <2>7 DEF Vidmap, TypeOK
      <3>3. QED
        BY <2>7, <3>1, <3>2 DEF Vidmap, TypeOK
    <2>8. QED
      BY <1>4, <2>1, <2>2, <2>3, <2>4, <2>5, <2>6, <2>7 DEF Syscall
  <1>5. ASSUME NEW p \in Pids, NEW t \in Terms, SwitchTerminal(p, t) PROVE TypeOK'
    BY <1>5 DEF SwitchTerminal, TypeOK, pcbVars
  <1>6. QED
    BY <1>1, <1>2, <1>3, <1>4, <1>5, TickType DEF Next

(* Every variable keeps its type, whatever the user is allowed. *)
THEOREM KernelTypes == Spec => []TypeOK
  <1>1. Init => TypeOK
    BY InitInv DEF IInv
  <1>2. TypeOK /\ [Next]_vars => TypeOK'
    BY TypeStep
  <1>3. QED
    BY <1>1, <1>2, PTL DEF Spec

-----------------------------------------------------------------------------
(* The steps, in the groups that disturb the same conjuncts. *)
Safe ==
    /\ OneProcessPerTerminal
    /\ Resumable
    /\ RunningOwnsTheMachine
    /\ CallersWait
    /\ ShellsKeepTheirPids

(* System calls and interrupts that keep the CPU where it is move the      *)
(* running process between the modes of a runnable one, at most.           *)
LEMMA QuietStep ==
  ASSUME TypeOK, Safe, NEW p \in Pids, cpu = p,
         NEW m \in {"user", "io", "refused", "fault"},
         \/ mode' = mode
         \/ mode[p] \in {"user", "io", "refused"} /\ mode' = [mode EXCEPT ![p] = m],
         UNCHANGED <<parent, on_term, saved, exec_frame, active_pid, cpu, page32>>,
         esp0' = esp0
  PROVE  Safe'
  <1>1. \A q \in Pids : Used(q)' = Used(q)
    BY DEF Used, TypeOK
  <1>2. \A q \in Pids : Runnable(q)' = Runnable(q)
    BY <1>1 DEF Runnable, Used, TypeOK
  <1>3. \A q \in Pids : (mode'[q] = "exec") = (mode[q] = "exec")
    BY DEF TypeOK
  <1>4. Children' = Children
    BY <1>1 DEF Children
  <1>5. OneProcessPerTerminal'
    BY <1>1, <1>2, Constants DEF Safe, OneProcessPerTerminal, TypeOK
  <1>6. Resumable'
    BY <1>2 DEF Safe, Resumable
  <1>7. RunningOwnsTheMachine'
    BY <1>1, <1>3 DEF Safe, RunningOwnsTheMachine, TypeOK
  <1>8. CallersWait'
    BY <1>3, <1>4 DEF Safe, CallersWait, Children, TypeOK
  <1>9. ShellsKeepTheirPids'
    BY <1>1, <1>4, Constants DEF Safe, ShellsKeepTheirPids, TypeOK
  <1>10. QED
    BY <1>5, <1>6, <1>7, <1>8, <1>9 DEF Safe

(* While the kernel boots no process exists yet. *)
LEMMA BootTablesStep ==
  ASSUME TypeOK, Safe, cpu # Stray, BootTables
  PROVE  Safe'
  <1>1. cpu = 0 /\ \A q \in Pids \ {0} : mode[q] = "free"
    BY DEF BootTables, Safe, ShellsKeepTheirPids, TypeOK
  <1>2. mode' = [p \in Pids |-> IF p = 0 THEN "ready" ELSE "free"] /\ cpu' = 0
    BY <1>1 DEF BootTables
  <1>3. \A q \in Pids : ~Used(q)'
    BY <1>2 DEF Used
  <1>4. 0 \in Pids
    BY Constants
  <1>5. OneProcessPerTerminal' /\ Resumable' /\ CallersWait'
    BY <1>3, Constants DEF OneProcessPerTerminal, Resumable, CallersWait, Children, Runnable
  <1>6. RunningOwnsTheMachine'
    BY <1>2, <1>3, <1>4 DEF RunningOwnsTheMachine, Stray
  <1>7. ShellsKeepTheirPids'
    BY <1>2, <1>3, <1>4, Constants DEF ShellsKeepTheirPids, Children
  <1>8. QED
    BY <1>5, <1>6, <1>7 DEF Safe

(* A child that ends gives its terminal and the CPU to the process that    *)
(* waits for it.                                                           *)
LEMMA HaltChildFacts ==
  ASSUME TypeOK, Safe, NEW p \in Pids, cpu = p, mode[p] \in {"user", "fault"},
         NEW status, NEW isr, HaltChild(p, status, isr), NEW q, q = parent[p]
  PROVE  /\ p \in Children /\ Runnable(p) /\ q \in Pids /\ p \notin Terms
         /\ mode[q] = "exec" /\ exec_frame[p] = q /\ on_term[p] = on_term[q]
         /\ q # p /\ Used(q) /\ on_term[q] \in Terms
         /\ active_pid[on_term[q]] = p
         /\ mode' = [mode EXCEPT ![p] = "free", ![q] = "user"]
         /\ active_pid' = [active_pid EXCEPT ![on_term[q]] = q]
         /\ cpu' = q /\ page32' = q /\ esp0' = q
         /\ UNCHANGED <<parent, on_term, saved, exec_frame, term_counter>>
         /\ \A r \in Pids : Used(r)' <=> Used(r) /\ r # p
         /\ \A r \in Pids : Runnable(r)' <=> r = q \/ (Runnable(r) /\ r # p)
         /\ Children' = Children \ {p}
  <1>1. p \in Children /\ Runnable(p) /\ q \in Pids /\ p \notin Terms
    BY Constants DEF HaltChild, Children, Used, Runnable, TypeOK
  <1>2. /\ mode[q] = "exec" /\ exec_frame[p] = q /\ on_term[p] = on_term[q]
        /\ q # p /\ Used(q) /\ on_term[q] \in Terms
    BY <1>1 DEF Safe, CallersWait, Used, TypeOK
  <1>3. /\ mode' = [mode EXCEPT ![p] = "free", ![q] = "user"]
        /\ active_pid' = [active_pid EXCEPT ![on_term[q]] = q]
        /\ cpu' = q /\ page32' = q
        /\ esp0' = q
        /\ UNCHANGED <<parent, on_term, saved, exec_frame, term_counter>>
    BY <1>2 DEF HaltChild, RestoredActive, RestoredStack
  <1>4. \A r \in Pids : Used(r)' <=> Used(r) /\ r # p
    BY <1>1, <1>2, <1>3 DEF Used, TypeOK
  <1>5. \A r \in Pids : Runnable(r)' <=> r = q \/ (Runnable(r) /\ r # p)
    BY <1>1, <1>2, <1>3, <1>4 DEF Runnable, TypeOK
  <1>6. active_pid[on_term[q]] = p
    BY <1>1, <1>2 DEF Safe, OneProcessPerTerminal
  <1>7. Children' = Children \ {p}
    BY <1>4 DEF Children
  <1>8. QED
    BY <1>1, <1>2, <1>3, <1>4, <1>5, <1>6, <1>7

LEMMA HaltChildStep ==
  ASSUME TypeOK, Safe, NEW p \in Pids, cpu = p, mode[p] \in {"user", "fault"},
         NEW status, NEW isr, HaltChild(p, status, isr)
  PROVE  Safe'
  <1> DEFINE q == parent[p]
  <1>1. p \in Children /\ Runnable(p) /\ q \in Pids /\ p \notin Terms
    BY HaltChildFacts
  <1>2. /\ mode[q] = "exec" /\ exec_frame[p] = q /\ on_term[p] = on_term[q]
        /\ q # p /\ Used(q) /\ on_term[q] \in Terms
    BY HaltChildFacts
  <1>3. /\ mode' = [mode EXCEPT ![p] = "free", ![q] = "user"]
        /\ active_pid' = [active_pid EXCEPT ![on_term[q]] = q]
        /\ cpu' = q /\ page32' = q
        /\ esp0' = q
        /\ UNCHANGED <<parent, on_term, saved, exec_frame>>
    BY HaltChildFacts
  <1>4. \A r \in Pids : Used(r)' <=> Used(r) /\ r # p
    BY HaltChildFacts
  <1>5. \A r \in Pids : Runnable(r)' <=> r = q \/ (Runnable(r) /\ r # p)
    BY HaltChildFacts
  <1>6. active_pid[on_term[q]] = p
    BY HaltChildFacts
  <1>7. OneProcessPerTerminal'
    <2>1. ASSUME NEW t \in Terms, Used(t)'
          PROVE  Runnable(active_pid[t])' /\ on_term'[active_pid'[t]] = t
      <3>1. Used(t) /\ t \in Pids
        BY <1>4, <2>1, Constants
      <3>2. Runnable(active_pid[t]) /\ on_term[active_pid[t]] = t /\ active_pid[t] \in Pids
        BY <3>1 DEF Safe, OneProcessPerTerminal, TypeOK
      <3>3. CASE t = on_term[q]
        <4>1. active_pid'[t] = q
          BY <3>3, <1>2, <1>3 DEF TypeOK
        <4>2. QED
          BY <4>1, <3>3, <1>1, <1>3, <1>5
      <3>4. CASE t # on_term[q]
        <4>1. active_pid'[t] = active_pid[t]
          BY <3>4, <1>3 DEF TypeOK
        <4>2. active_pid[t] # p
          BY <3>2, <3>4, <1>2
        <4>3. QED
          BY <4>1, <4>2, <3>2, <1>3, <1>5
      <3>5. QED
        BY <3>3, <3>4
    <2>2. ASSUME NEW r \in Pids, Runnable(r)'
          PROVE  active_pid'[on_term'[r]] = r
      <3>1. on_term[r] \in Terms
        BY DEF TypeOK
      <3>2. CASE r = q
        BY <3>1, <3>2, <1>3 DEF TypeOK
      <3>3. CASE r # q
        <4>1. Runnable(r) /\ r # p
          BY <2>2, <3>3, <1>5
        <4>2. active_pid[on_term[r]] = r
          BY <4>1 DEF Safe, OneProcessPerTerminal
        <4>3. on_term[r] # on_term[q]
          BY <4>1, <4>2, <1>6
        <4>4. QED
          BY <4>2, <4>3, <3>1, <1>3 DEF TypeOK
      <3>4. QED
        BY <3>2, <3>3
    <2>3. QED
      BY <2>1, <2>2 DEF OneProcessPerTerminal
  <1>8. Resumable'
    BY <1>3, <1>5 DEF Safe, Resumable
  <1>9. RunningOwnsTheMachine'
    BY <1>1, <1>2, <1>3 DEF RunningOwnsTheMachine, Stray, Pids, TypeOK
  <1>10. Children' = Children \ {p}
    BY HaltChildFacts
  <1>11. CallersWait'
    <2>1. \A c \in Children \ {p} : parent[c] # q /\ parent[c] # p
      BY <1>1, <1>2 DEF Safe, CallersWait, Children
    <2>2. \A c \in Children \ {p} : mode'[parent[c]] = "exec"
      BY <2>1, <1>3 DEF Safe, CallersWait, Children, TypeOK
    <2>3. QED
      BY <2>2, <1>3, <1>10 DEF Safe, CallersWait
  <1>12. ShellsKeepTheirPids'
    <2>1. \A t \in Terms : Used(t)
      BY <1>1 DEF Safe, ShellsKeepTheirPids
    <2>2. \A t \in Terms : t \in Pids /\ t # p /\ Used(t)'
      BY <2>1, <1>1, <1>4, Constants
    <2>3. \A r \in Pids : mode'[r] \notin {"boot", "ready"}
      BY <2>1, <1>3, Constants DEF Safe, ShellsKeepTheirPids, Used, TypeOK
    <2>4. mode'[0] # "free"
      BY <2>2, Constants DEF Used
    <2>5. QED
      BY <2>1, <2>2, <2>3, <2>4, <1>3 DEF Safe, ShellsKeepTheirPids
  <1>13. QED
    BY <1>7, <1>8, <1>9, <1>11, <1>12 DEF Safe

(* What every launch does to the tables it shares with the invariant. *)
LEMMA UsedAfterLaunch ==
  ASSUME TypeOK, NEW c \in Pids, ~Used(c),
         NEW p \in Pids, Used(p),
         mode' = [mode EXCEPT ![p] = "exec", ![c] = "user"]
  PROVE  /\ p # c
         /\ \A r \in Pids : Used(r)' <=> Used(r) \/ r = c
         /\ \A r \in Pids : Runnable(r)' <=> r = c \/ (Runnable(r) /\ r # p)
         /\ \A r \in Pids : mode'[r] = "exec" <=> r = p \/ (mode[r] = "exec" /\ r # c)
  BY DEF Used, Runnable, TypeOK

(* execute() of a program by a process of the terminal displayed: its      *)
(* child takes a pid no shell has, and the caller's terminal.              *)
LEMMA ExecuteFacts ==
  ASSUME TypeOK, Safe, CarefulUser, NEW p \in Pids, NEW c \in Pids, Execute(p, c)
  PROVE  /\ cpu = p /\ mode[p] = "user" /\ Used(p) /\ Runnable(p)
         /\ on_term[p] \in Terms /\ on_term[p] = curr_terminal
         /\ ~Used(c) /\ c \notin BaseShells /\ c \notin Terms /\ p # c
         /\ \A t \in Terms : Used(t)
         /\ mode' = [mode EXCEPT ![p] = "exec", ![c] = "user"]
         /\ parent' = [parent EXCEPT ![c] = p]
         /\ on_term' = [on_term EXCEPT ![c] = on_term[p]]
         /\ active_pid' = [active_pid EXCEPT ![on_term[p]] = c]
         /\ exec_frame' = [exec_frame EXCEPT ![c] = p]
         /\ saved' = [saved EXCEPT ![c] = FALSE]
         /\ cpu' = c /\ page32' = c /\ esp0' = c /\ term_counter' = term_counter
  <1> DEFINE t0 == on_term[p]
  <1>1. /\ cpu = p /\ mode[p] = "user" /\ Used(p) /\ Runnable(p) /\ t0 \in Terms
        /\ ~Used(c) /\ ShellsUp /\ t0 = curr_terminal
    BY DEF Execute, InUser, CarefulUser, May, Used, Runnable, IsFirstFree, FreePids, TypeOK
  <1>2. \A t \in Terms : Used(t)
    <2>1. Used(1) /\ 1 \in Terms
      BY <1>1, Constants DEF ShellsUp
    <2>2. Used(0)
      BY <2>1, Constants DEF Safe, ShellsKeepTheirPids
    <2>3. QED
      BY <1>1, <2>2 DEF ShellsUp, LaterShells
  <1>3. c \notin BaseShells /\ c \notin Terms
    BY <1>1, <1>2, Constants
  <1>4. QED
    BY <1>1, <1>2, <1>3 DEF Execute, LaunchPcb, StoreFrame, StartsOn

LEMMA ExecuteStep ==
  ASSUME TypeOK, Safe, CarefulUser, NEW p \in Pids, NEW c \in Pids, Execute(p, c)
  PROVE  Safe'
  <1> DEFINE t0 == on_term[p]
  <1>1. /\ cpu = p /\ mode[p] = "user" /\ Used(p) /\ Runnable(p) /\ t0 \in Terms
        /\ ~Used(c)
    BY ExecuteFacts
  <1>2. \A t \in Terms : Used(t)
    BY ExecuteFacts
  <1>3. c \notin BaseShells /\ c \notin Terms
    BY ExecuteFacts
  <1>4. /\ mode' = [mode EXCEPT ![p] = "exec", ![c] = "user"]
        /\ parent' = [parent EXCEPT ![c] = p]
        /\ on_term' = [on_term EXCEPT ![c] = t0]
        /\ active_pid' = [active_pid EXCEPT ![t0] = c]
        /\ exec_frame' = [exec_frame EXCEPT ![c] = p]
        /\ saved' = [saved EXCEPT ![c] = FALSE]
        /\ cpu' = c /\ page32' = c /\ esp0' = c
    BY ExecuteFacts
  <1>5. /\ p # c
        /\ \A r \in Pids : Used(r)' <=> Used(r) \/ r = c
        /\ \A r \in Pids : Runnable(r)' <=> r = c \/ (Runnable(r) /\ r # p)
        /\ \A r \in Pids : mode'[r] = "exec" <=> r = p \/ (mode[r] = "exec" /\ r # c)
    BY <1>1, <1>4, UsedAfterLaunch
  <1>6. active_pid[t0] = p
    BY <1>1 DEF Safe, OneProcessPerTerminal
  <1>7. OneProcessPerTerminal'
    <2>1. ASSUME NEW t \in Terms, Used(t)'
          PROVE  Runnable(active_pid[t])' /\ on_term'[active_pid'[t]] = t
      <3>1. Runnable(active_pid[t]) /\ on_term[active_pid[t]] = t /\ active_pid[t] \in Pids
        BY <1>2 DEF Safe, OneProcessPerTerminal, TypeOK
      <3>2. CASE t = t0
        <4>1. active_pid'[t] = c /\ on_term'[c] = t
          BY <3>2, <1>4 DEF TypeOK
        <4>2. QED
          BY <4>1, <1>5
      <3>3. CASE t # t0
        <4>1. active_pid'[t] = active_pid[t] /\ active_pid[t] # p /\ active_pid[t] # c
          BY <3>1, <3>3, <1>1, <1>4 DEF TypeOK, Runnable
        <4>2. on_term'[active_pid[t]] = t
          BY <4>1, <3>1, <1>4 DEF TypeOK
        <4>3. QED
          BY <4>1, <4>2, <3>1, <1>5
      <3>4. QED
        BY <3>2, <3>3
    <2>2. ASSUME NEW r \in Pids, Runnable(r)'
          PROVE  active_pid'[on_term'[r]] = r
      <3>1. CASE r = c
        BY <3>1, <1>1, <1>4 DEF TypeOK
      <3>2. CASE r # c
        <4>1. Runnable(r) /\ r # p /\ on_term'[r] = on_term[r] /\ on_term[r] \in Terms
          BY <2>2, <3>2, <1>4, <1>5 DEF TypeOK
        <4>2. active_pid[on_term[r]] = r
          BY <4>1 DEF Safe, OneProcessPerTerminal
        <4>3. on_term[r] # t0
          BY <4>1, <4>2, <1>6
        <4>4. QED
          BY <4>1, <4>2, <4>3, <1>4 DEF TypeOK
      <3>3. QED
        BY <3>1, <3>2
    <2>3. QED
      BY <2>1, <2>2 DEF OneProcessPerTerminal
  <1>8. Resumable'
    BY <1>1, <1>4, <1>5 DEF Safe, Resumable, TypeOK
  <1>9. RunningOwnsTheMachine'
    BY <1>4, <1>5 DEF RunningOwnsTheMachine, Stray, Pids, TypeOK
  <1>10. Children' = Children \cup {c}
    BY <1>3, <1>5 DEF Children
  <1>11. CallersWait'
    <2>1. c \notin Children /\ \A d \in Children : d # c /\ parent[d] \in Pids /\ parent[d] # p /\ parent[d] # c
      BY <1>1 DEF Safe, CallersWait, Children, Used, TypeOK
    <2>2. \A d \in Children : /\ parent'[d] = parent[d]
                              /\ exec_frame'[d] = exec_frame[d]
                              /\ on_term'[d] = on_term[d]
                              /\ on_term'[parent[d]] = on_term[parent[d]]
                              /\ mode'[parent[d]] = mode[parent[d]]
      BY <2>1, <1>4 DEF Children, TypeOK
    <2>3. parent'[c] = p /\ exec_frame'[c] = p /\ on_term'[c] = t0 /\ on_term'[p] = t0 /\ mode'[p] = "exec"
      BY <1>4, <1>5 DEF TypeOK
    <2>4. \A d \in Children' : /\ mode'[parent'[d]] = "exec"
                               /\ exec_frame'[d] = parent'[d]
                               /\ on_term'[d] = on_term'[parent'[d]]
      BY <2>2, <2>3, <1>10 DEF Safe, CallersWait
    <2>5. \A d, e \in Children' : parent'[d] = parent'[e] => d = e
      BY <2>1, <2>2, <2>3, <1>10 DEF Safe, CallersWait
    <2>6. QED
      BY <2>4, <2>5 DEF CallersWait
  <1>12. ShellsKeepTheirPids'
    <2>1. \A t \in Terms : t \in Pids /\ t # c /\ Used(t)' /\ on_term'[t] = t
      BY <1>2, <1>3, <1>4, <1>5, Constants DEF Safe, ShellsKeepTheirPids, TypeOK
    <2>2. \A r \in Pids : mode'[r] \notin {"boot", "ready"}
      BY <1>2, <1>4, Constants DEF Safe, ShellsKeepTheirPids, Used, TypeOK
    <2>3. mode'[0] # "free"
      BY <2>1, Constants DEF Used
    <2>4. QED
      BY <2>1, <2>2, <2>3 DEF ShellsKeepTheirPids
  <1>13. QED
    BY <1>7, <1>8, <1>9, <1>11, <1>12 DEF Safe

(* A shell launched while some terminal has none, by the booting kernel or *)
(* by schedule(), which has just saved the frame of the task it leaves.    *)
LEMMA ShellLaunchFacts ==
  ASSUME TypeOK, Safe, NEW p \in Pids, NEW c \in Pids,
         ~ShellsUp, IsFirstFree(c), LaunchPcb(p, c),
         mode' = [mode EXCEPT ![c] = "user"]
  PROVE  /\ Children = {} /\ Children' = {}
         /\ c \in Terms /\ c \in BaseShells /\ ~Used(c)
         /\ ~Used(MAX_TERMS - 1) /\ MAX_TERMS - 1 \in Terms
         /\ parent' = parent
         /\ on_term' = [on_term EXCEPT ![c] = c]
         /\ active_pid' = [active_pid EXCEPT ![c] = c]
         /\ cpu' = c /\ page32' = c /\ esp0' = c
         /\ \A r \in Pids : Used(r)' <=> Used(r) \/ r = c
         /\ \A r \in Pids : Runnable(r)' <=> Runnable(r) \/ r = c
         /\ \A r \in Pids : Runnable(r) => r \in Terms /\ r # c /\ on_term[r] = r /\ Used(r)
  <1>1. Children = {}
    BY Constants DEF ShellsUp, Safe, ShellsKeepTheirPids
  <1>2. PICK s \in LaterShells : ~Used(s)
    BY DEF ShellsUp
  <1>3. c \in Terms /\ c \in BaseShells /\ ~Used(c)
    BY <1>2, Constants, KernelAssumption
    DEF IsFirstFree, FreePids, Terms, Pids, BaseShells, LaterShells
  <1>4. /\ parent' = parent
        /\ on_term' = [on_term EXCEPT ![c] = c]
        /\ active_pid' = [active_pid EXCEPT ![c] = c]
        /\ cpu' = c /\ page32' = c /\ esp0' = c
    BY <1>3 DEF LaunchPcb, StartsOn
  <1>5. \A r \in Pids : Used(r)' <=> Used(r) \/ r = c
    BY DEF Used, TypeOK
  <1>6. \A r \in Pids : Runnable(r)' <=> Runnable(r) \/ r = c
    BY <1>5 DEF Runnable, TypeOK
  <1>7. Children' = {}
    BY <1>1, <1>3, <1>5 DEF Children
  <1>8. \A r \in Pids : Runnable(r) => r \in Terms /\ r # c /\ on_term[r] = r /\ Used(r)
    BY <1>1, <1>3, Constants DEF Children, Runnable, Safe, ShellsKeepTheirPids
  <1>9. ~Used(MAX_TERMS - 1) /\ MAX_TERMS - 1 \in Terms
    BY <1>2, KernelAssumption DEF Safe, ShellsKeepTheirPids, LaterShells, Terms
  <1>10. QED
    BY <1>1, <1>3, <1>4, <1>5, <1>6, <1>7, <1>8, <1>9

LEMMA ShellLaunchStep ==
  ASSUME TypeOK, Safe, NEW p \in Pids, NEW c \in Pids, cpu = p,
         ~ShellsUp, IsFirstFree(c), LaunchPcb(p, c),
         mode' = [mode EXCEPT ![c] = "user"],
         \A r \in Pids : r # c /\ saved[r] => saved'[r],
         Runnable(p) /\ p # c => saved'[p]
  PROVE  Safe'
  <1>1. Children = {}
    BY ShellLaunchFacts
  <1>3. c \in Terms /\ c \in BaseShells /\ ~Used(c)
    BY ShellLaunchFacts
  <1>4. /\ parent' = parent
        /\ on_term' = [on_term EXCEPT ![c] = c]
        /\ active_pid' = [active_pid EXCEPT ![c] = c]
        /\ cpu' = c /\ page32' = c /\ esp0' = c
    BY ShellLaunchFacts
  <1>5. \A r \in Pids : Used(r)' <=> Used(r) \/ r = c
    BY ShellLaunchFacts
  <1>6. \A r \in Pids : Runnable(r)' <=> Runnable(r) \/ r = c
    BY ShellLaunchFacts
  <1>7. Children' = {}
    BY ShellLaunchFacts
  <1>8. \A r \in Pids : Runnable(r) => r \in Terms /\ r # c /\ on_term[r] = r /\ Used(r)
    BY ShellLaunchFacts
  <1>9. OneProcessPerTerminal'
    <2>1. ASSUME NEW t \in Terms, Used(t)'
          PROVE  Runnable(active_pid[t])' /\ on_term'[active_pid'[t]] = t
      <3>1. CASE t = c
        BY <3>1, <1>3, <1>4, <1>6 DEF TypeOK
      <3>2. CASE t # c
        <4>1. Used(t)
          BY <2>1, <3>2, <1>5, Constants
        <4>2. Runnable(active_pid[t]) /\ on_term[active_pid[t]] = t /\ active_pid[t] \in Pids
          BY <4>1 DEF Safe, OneProcessPerTerminal, TypeOK
        <4>3. active_pid[t] # c /\ active_pid'[t] = active_pid[t]
          BY <3>2, <4>2, <1>4, <1>8 DEF TypeOK
        <4>4. QED
          BY <4>2, <4>3, <1>4, <1>6 DEF TypeOK
      <3>3. QED
        BY <3>1, <3>2
    <2>2. ASSUME NEW r \in Pids, Runnable(r)'
          PROVE  active_pid'[on_term'[r]] = r
      <3>1. CASE r = c
        BY <3>1, <1>3, <1>4 DEF TypeOK
      <3>2. CASE r # c
        <4>1. Runnable(r) /\ on_term[r] = r /\ r \in Terms
          BY <2>2, <3>2, <1>6, <1>8
        <4>2. active_pid[r] = r
          BY <4>1 DEF Safe, OneProcessPerTerminal
        <4>3. QED
          BY <3>2, <4>1, <4>2, <1>4 DEF TypeOK
      <3>3. QED
        BY <3>1, <3>2
    <2>3. QED
      BY <2>1, <2>2 DEF OneProcessPerTerminal
  <1>10. Resumable'
    <2>1. ASSUME NEW r \in Pids, Runnable(r)', r # c PROVE saved'[r]
      <3>1. Runnable(r)
        BY <2>1, <1>6
      <3>2. CASE r = p
        BY <2>1, <3>1, <3>2
      <3>3. CASE r # p
        <4>1. saved[r]
          BY <3>1, <3>3 DEF Safe, Resumable
        <4>2. QED
          BY <2>1, <4>1
      <3>4. QED
        BY <3>2, <3>3
    <2>2. QED
      BY <2>1, <1>4 DEF Resumable
  <1>11. RunningOwnsTheMachine'
    BY <1>4 DEF RunningOwnsTheMachine, Stray, Pids, TypeOK
  <1>12. CallersWait'
    BY <1>7 DEF CallersWait
  <1>13. ShellsKeepTheirPids'
    <2>1. ASSUME NEW r \in Pids, mode'[r] \in {"boot", "ready"} PROVE FALSE
      <3>1. r # c /\ mode[r] \in {"boot", "ready"}
        BY <2>1 DEF TypeOK
      <3>2. r = 0 /\ ~Used(0)
        BY <3>1 DEF Safe, ShellsKeepTheirPids, Used
      <3>3. c = 0
        BY <3>2, <1>3, Constants, KernelAssumption DEF IsFirstFree, FreePids, Pids
      <3>4. QED
        BY <3>1, <3>2, <3>3
    <2>2. mode'[0] # "free"
      BY Constants DEF Safe, ShellsKeepTheirPids, TypeOK
    <2>3. ASSUME NEW t \in Terms, Used(t)'
          PROVE  on_term'[t] = t /\ \A u \in Terms : u < t => Used(u)'
      <3>1. t \in Pids
        BY Constants
      <3>2. CASE t = c
        <4>1. \A u \in Terms : u < c => Used(u)
          BY <1>3, Constants DEF IsFirstFree, FreePids, Terms
        <4>2. QED
          BY <3>2, <4>1, <1>4, <1>5, Constants DEF TypeOK
      <3>3. CASE t # c
        <4>1. Used(t)
          BY <2>3, <3>1, <3>3, <1>5
        <4>2. QED
          BY <3>1, <3>3, <4>1, <1>4, <1>5, Constants DEF Safe, ShellsKeepTheirPids, TypeOK
      <3>4. QED
        BY <3>2, <3>3
    <2>4. QED
      BY <2>1, <2>2, <2>3, <1>7 DEF ShellsKeepTheirPids
  <1>14. QED
    BY <1>9, <1>10, <1>11, <1>12, <1>13 DEF Safe

(* A shell that ends is replaced by a shell under the same pid. *)
LEMMA HaltShellFacts ==
  ASSUME TypeOK, Safe, NEW p \in Pids, cpu = p, mode[p] \in {"user", "fault"},
         HaltShell(p)
  PROVE  /\ p \in Terms /\ p \in BaseShells /\ Used(p) /\ Runnable(p)
         /\ mode' = [mode EXCEPT ![p] = "user"]
         /\ parent' = parent
         /\ on_term' = on_term /\ active_pid' = active_pid
         /\ cpu' = p /\ page32' = p /\ esp0' = p
         /\ saved' = [saved EXCEPT ![p] = FALSE]
         /\ exec_frame' = [exec_frame EXCEPT ![p] = p]
         /\ term_counter' = term_counter
         /\ \A r \in Pids : /\ Used(r)' = Used(r)
                           /\ (mode'[r] = "exec") = (mode[r] = "exec")
                           /\ Runnable(r)' = Runnable(r)
         /\ Children' = Children /\ p \notin Children
  <1>1. p \in Terms /\ p \in BaseShells /\ Used(p) /\ Runnable(p)
    BY Constants DEF HaltShell, Used, Runnable
  <1>2. on_term[p] = p /\ active_pid[p] = p /\ \A u \in Terms : u < p => Used(u)
    BY <1>1 DEF Safe, ShellsKeepTheirPids, OneProcessPerTerminal
  <1>3. PICK c \in FreePids \cup {p} :
          /\ \A q \in FreePids \cup {p} : c <= q
          /\ LaunchPcb(p, c)
          /\ mode' = [mode EXCEPT ![p] = "free", ![c] = "user"]
          /\ saved' = [saved EXCEPT ![c] = FALSE]
    BY DEF HaltShell
  <1>4. c = p
    <2>1. c \in Int /\ p \in Int /\ c <= p
      BY <1>1, <1>3 DEF FreePids, Pids, Terms
    <2>2. ~(c < p)
      <3>1. ASSUME c < p PROVE FALSE
        <4>1. c \in FreePids
          BY <2>1, <3>1, <1>3
        <4>2. c \in Terms /\ ~Used(c)
          BY <2>1, <3>1, <4>1, <1>1, KernelAssumption DEF FreePids, Pids, Terms
        <4>3. QED
          BY <3>1, <4>2, <1>2
      <3>2. QED
        BY <3>1
    <2>3. QED
      BY <2>1, <2>2
  <1>5. /\ mode' = [mode EXCEPT ![p] = "user"]
        /\ parent' = parent
        /\ on_term' = on_term /\ active_pid' = active_pid
        /\ cpu' = p /\ page32' = p /\ esp0' = p
        /\ saved' = [saved EXCEPT ![p] = FALSE]
        /\ exec_frame' = [exec_frame EXCEPT ![p] = p]
    <2>1. LaunchPcb(p, p) /\ StartsOn(p) = p
      BY <1>1, <1>3, <1>4 DEF StartsOn
    <2>2. mode' = [mode EXCEPT ![p] = "user"] /\ saved' = [saved EXCEPT ![p] = FALSE]
      BY <1>3, <1>4 DEF TypeOK
    <2>3. [on_term EXCEPT ![p] = p] = on_term /\ [active_pid EXCEPT ![p] = p] = active_pid
      BY <1>2 DEF TypeOK
    <2>4. QED
      BY <1>1, <2>1, <2>2, <2>3 DEF LaunchPcb, StoreFrame
  <1>6. \A r \in Pids : /\ Used(r)' = Used(r)
                        /\ (mode'[r] = "exec") = (mode[r] = "exec")
                        /\ Runnable(r)' = Runnable(r)
    BY <1>1, <1>5 DEF Used, Runnable, TypeOK
  <1>7. Children' = Children /\ p \notin Children
    BY <1>1, <1>6 DEF Children
  <1>8. QED
    BY <1>1, <1>5, <1>6, <1>7 DEF HaltShell

LEMMA HaltShellStep ==
  ASSUME TypeOK, Safe, NEW p \in Pids, cpu = p, mode[p] \in {"user", "fault"},
         HaltShell(p)
  PROVE  Safe'
  <1>5. /\ mode' = [mode EXCEPT ![p] = "user"]
        /\ parent' = parent
        /\ on_term' = on_term /\ active_pid' = active_pid
        /\ cpu' = p /\ page32' = p /\ esp0' = p
        /\ saved' = [saved EXCEPT ![p] = FALSE]
        /\ exec_frame' = [exec_frame EXCEPT ![p] = p]
    BY HaltShellFacts
  <1>6. \A r \in Pids : /\ Used(r)' = Used(r)
                        /\ (mode'[r] = "exec") = (mode[r] = "exec")
                        /\ Runnable(r)' = Runnable(r)
    BY HaltShellFacts
  <1>7. Children' = Children /\ p \notin Children
    BY HaltShellFacts
  <1>8. OneProcessPerTerminal' /\ Resumable'
    BY <1>5, <1>6, Constants DEF Safe, OneProcessPerTerminal, Resumable, TypeOK
  <1>9. RunningOwnsTheMachine'
    BY <1>5 DEF RunningOwnsTheMachine, Stray, Pids, TypeOK
  <1>10. CallersWait'
    BY <1>5, <1>6, <1>7 DEF Safe, CallersWait, Children, TypeOK
  <1>11. ShellsKeepTheirPids'
    BY <1>5, <1>6, <1>7, Constants DEF Safe, ShellsKeepTheirPids, TypeOK
  <1>12. QED
    BY <1>8, <1>9, <1>10, <1>11 DEF Safe

(* schedule() among terminals that are all up. *)
LEMMA SwitchToFacts ==
  ASSUME TypeOK, Safe, NEW p \in Pids, cpu = p, NEW t \in Terms, NEW next,
         next = active_pid[t], SwitchTo(p, next)
  PROVE  /\ \A u \in Terms : Used(u)
         /\ Runnable(next) /\ next \in Pids
         /\ cpu' = next /\ page32' = next /\ esp0' = next
         /\ saved' = [[saved EXCEPT ![p] = TRUE] EXCEPT ![next] = FALSE]
         /\ UNCHANGED <<mode, parent, on_term, exec_frame, active_pid>>
         /\ \A r \in Pids : Used(r)' = Used(r) /\ Runnable(r)' = Runnable(r)
         /\ Children' = Children
  <1>1. \A u \in Terms : Used(u)
    <2>1. Used(1) /\ 1 \in Terms
      BY Constants DEF SwitchTo, ShellsUp
    <2>2. Used(0)
      BY <2>1, Constants DEF Safe, ShellsKeepTheirPids
    <2>3. QED
      BY <2>2 DEF SwitchTo, ShellsUp, LaterShells
  <1>2. Runnable(next) /\ next \in Pids
    BY <1>1 DEF Safe, OneProcessPerTerminal, TypeOK
  <1>3. [saved EXCEPT ![p] = TRUE][next]
    <2>1. saved \in [Pids -> BOOLEAN]
      BY DEF TypeOK
    <2>2. CASE next = p
      BY <2>1, <2>2
    <2>3. CASE next # p
      BY <2>1, <2>3, <1>2 DEF Safe, Resumable
    <2>4. QED
      BY <2>2, <2>3
  <1>4. /\ cpu' = next /\ page32' = next /\ esp0' = next
        /\ saved' = [[saved EXCEPT ![p] = TRUE] EXCEPT ![next] = FALSE]
        /\ UNCHANGED <<mode, parent, on_term, exec_frame, active_pid>>
    BY <1>3 DEF SwitchTo, SaveFrame, termVars
  <1>5. \A r \in Pids : Used(r)' = Used(r) /\ Runnable(r)' = Runnable(r)
    BY <1>4 DEF Used, Runnable
  <1>6. Children' = Children
    BY <1>5 DEF Children
  <1>7. QED
    BY <1>1, <1>2, <1>4, <1>5, <1>6

LEMMA SwitchToStep ==
  ASSUME TypeOK, Safe, NEW p \in Pids, cpu = p, NEW t \in Terms,
         SwitchTo(p, active_pid[t])
  PROVE  Safe'
  <1> DEFINE next == active_pid[t]
  <1>1. \A u \in Terms : Used(u)
    BY SwitchToFacts
  <1>2. Runnable(next) /\ next \in Pids
    BY SwitchToFacts
  <1>4. /\ cpu' = next /\ page32' = next /\ esp0' = next
        /\ saved' = [[saved EXCEPT ![p] = TRUE] EXCEPT ![next] = FALSE]
        /\ UNCHANGED <<mode, parent, on_term, exec_frame, active_pid>>
    BY SwitchToFacts
  <1>5. \A r \in Pids : Used(r)' = Used(r) /\ Runnable(r)' = Runnable(r)
    BY SwitchToFacts
  <1>6. Children' = Children
    BY SwitchToFacts
  <1>7. OneProcessPerTerminal'
    BY <1>4, <1>5, Constants DEF Safe, OneProcessPerTerminal, TypeOK
  <1>8. Resumable'
    <2>1. ASSUME NEW r \in Pids, Runnable(r), r # next PROVE saved'[r]
      BY <2>1, <1>2, <1>4 DEF Safe, Resumable, TypeOK
    <2>2. QED
      BY <2>1, <1>4, <1>5 DEF Resumable
  <1>9. RunningOwnsTheMachine'
    BY <1>2, <1>4 DEF RunningOwnsTheMachine, Runnable, Used, Stray, Pids
  <1>10. CallersWait'
    BY <1>4, <1>6 DEF Safe, CallersWait
  <1>11. ShellsKeepTheirPids'
    <2>1. \A r \in Pids : mode[r] \notin {"boot", "ready"}
      BY <1>1, Constants DEF Safe, ShellsKeepTheirPids, Used
    <2>2. QED
      BY <2>1, <1>4, <1>5, <1>6, Constants DEF Safe, ShellsKeepTheirPids
  <1>12. QED
    BY <1>7, <1>8, <1>9, <1>10, <1>11 DEF Safe

LEMMA SafeStep ==
  ASSUME TypeOK, Safe, CarefulUser, [Next]_vars
  PROVE  Safe'
  <1>1. cpu # Stray /\ (cpu \in Pids => mode[cpu] # "free")
    BY DEF Safe, RunningOwnsTheMachine
  <1>2. CASE UNCHANGED vars
    <2>1. UNCHANGED <<mode, parent, on_term, saved, exec_frame, active_pid, cpu, page32, esp0>>
      BY <1>2 DEF vars, pcbVars, termVars
    <2>2. cpu \in Pids
      BY <1>1 DEF TypeOK
    <2>3. QED
      BY <2>1, <2>2, QuietStep
  <1>3. CASE BootTables
    BY <1>1, <1>3, BootTablesStep
  <1>4. CASE BootExecute
    <2>1. PICK c \in Pids :
            /\ IsFirstFree(c)
            /\ LaunchPcb(cpu, c)
            /\ mode' = [mode EXCEPT ![c] = "user"]
            /\ saved' = [saved EXCEPT ![c] = FALSE]
      BY <1>4 DEF BootExecute
    <2>2. cpu \in Pids /\ ~Runnable(cpu)
      BY <1>1, <1>4 DEF BootExecute, Runnable, Used, TypeOK
    <2>3. ~ShellsUp
      <3>1. 1 \in Pids \ {0} /\ 1 \in LaterShells
        BY Constants
      <3>2. mode[1] = "free"
        BY <2>2, <3>1, <1>4 DEF BootExecute, Safe, ShellsKeepTheirPids
      <3>3. QED
        BY <3>1, <3>2 DEF ShellsUp, Used
    <2>4. \A r \in Pids : r # c /\ saved[r] => saved'[r]
      BY <2>1, <2>2 DEF TypeOK
    <2>5. QED
      BY <2>1, <2>2, <2>3, <2>4, ShellLaunchStep
  <1>5. ASSUME NEW p \in Pids, Syscall(p) PROVE Safe'
    <2>1. ASSUME EnterIo(p) \/ LeaveIo(p) \/ ExecuteFails(p) \/ ExecuteFull(p) \/ Fault(p) \/ Vidmap(p)
          PROVE  Safe'
      <3>1. /\ cpu = p /\ esp0' = esp0
            /\ UNCHANGED <<parent, on_term, saved, exec_frame, active_pid, cpu, page32>>
        BY <2>1 DEF EnterIo, LeaveIo, ExecuteFails, ExecuteFull, Fault, Vidmap, InUser,
                    pcbVars, termVars
      <3>2. \/ mode' = mode
            \/ /\ mode[p] \in {"user", "io", "refused"}
               /\ \E m \in {"user", "io", "refused", "fault"} : mode' = [mode EXCEPT ![p] = m]
        BY <2>1 DEF EnterIo, LeaveIo, ExecuteFails, ExecuteFull, Fault, Vidmap, InUser
      <3>3. QED
        BY <3>1, <3>2, QuietStep
    <2>2. ASSUME NEW c \in Pids, Execute(p, c) PROVE Safe'
      BY <2>2, ExecuteStep
    <2>3. ASSUME NEW s \in Statuses, Halt(p, s) PROVE Safe'
      BY <2>3, HaltChildStep, HaltShellStep DEF Halt, InUser
    <2>4. ASSUME FaultHalt(p) PROVE Safe'
      BY <2>4, HaltChildStep, HaltShellStep DEF FaultHalt
    <2>5. QED
      BY <1>5, <2>1, <2>2, <2>3, <2>4 DEF Syscall
  <1>6. ASSUME NEW p \in Pids, Tick(p) PROVE Safe'
    <2>1. cpu = p /\ term_counter' \in Terms
      BY <1>6, TickType DEF Tick, TypeOK
    <2>2. ASSUME NEW c \in Pids, LaunchShell(p, c) PROVE Safe'
      <3>1. \A r \in Pids : r # c /\ saved[r] => saved'[r]
        BY <2>2 DEF LaunchShell, SaveFrame, TypeOK
      <3>2. p # c => saved'[p]
        BY <2>2 DEF LaunchShell, SaveFrame, TypeOK
      <3>3. QED
        BY <2>1, <2>2, <3>1, <3>2, ShellLaunchStep DEF LaunchShell
    <2>3. ASSUME SwitchTo(p, active_pid[term_counter']) PROVE Safe'
      BY <2>1, <2>3, SwitchToStep
    <2>4. QED
      BY <1>6, <2>2, <2>3 DEF Tick
  <1>7. ASSUME NEW p \in Pids, NEW t \in Terms, SwitchTerminal(p, t) PROVE Safe'
    <2>1. /\ cpu = p /\ mode' = mode /\ esp0' = esp0
          /\ UNCHANGED <<parent, on_term, saved, exec_frame, active_pid, cpu, page32>>
      BY <1>7 DEF SwitchTerminal, pcbVars
    <2>2. QED
      BY <2>1, QuietStep
  <1>8. QED
    BY <1>2, <1>3, <1>4, <1>5, <1>6, <1>7 DEF Next

(* The invariant of the process layer, for a careful user: an execute that *)
(* CarefulUser rules out puts its child on a terminal its caller is not on.*)
THEOREM KernelInvariant == CarefulUser => (Spec => []IInv)
  <1> SUFFICES ASSUME CarefulUser PROVE Spec => []IInv
    OBVIOUS
  <1>1. Init => IInv
    BY InitInv
  <1>2. IInv /\ [Next]_vars => IInv'
    BY TypeStep, SafeStep DEF IInv, Safe
  <1>3. QED
    BY <1>1, <1>2, PTL DEF Spec

(* schedule() only looks at active_pid, and that is enough: it names the   *)
(* one runnable process of each terminal.                                  *)
THEOREM ActivePidIsTheOne == CarefulUser => (Spec => []OneProcessPerTerminal)
  <1>1. IInv => OneProcessPerTerminal
    BY DEF IInv
  <1>2. QED
    BY <1>1, KernelInvariant, PTL

(* The CPU never loads a stack pointer that schedule() did not save, and   *)
(* the process it runs has its own page and its own kernel stack.          *)
THEOREM CpuIsNeverStray == CarefulUser => (Spec => [](RunningOwnsTheMachine /\ Resumable))
  <1>1. IInv => RunningOwnsTheMachine /\ Resumable
    BY DEF IInv
  <1>2. QED
    BY <1>1, KernelInvariant, PTL

(* Whoever waits for the CPU, now or later, waits in a frame that schedule()*)
(* saved and that nobody has resumed since.                                *)
THEOREM WaitersAreResumable == CarefulUser => (Spec => []Resumable)
  <1>1. IInv => Resumable
    BY DEF IInv
  <1>2. QED
    BY <1>1, KernelInvariant, PTL

(* Every child has one caller that waits for it, in the frame halt pops.   *)
THEOREM HaltReturnsToCaller == CarefulUser => (Spec => []CallersWait)
  <1>1. IInv => CallersWait
    BY DEF IInv
  <1>2. QED
    BY <1>1, KernelInvariant, PTL

(* No program takes a pid that schedule() counts on for a shell.           *)
THEOREM ShellPidsAreKept == CarefulUser => (Spec => []ShellsKeepTheirPids)
  <1>1. IInv => ShellsKeepTheirPids
    BY DEF IInv
  <1>2. QED
    BY <1>1, KernelInvariant, PTL

-----------------------------------------------------------------------------
(* The user video page. *)

PageOf(t) == IF t = curr_terminal THEN Screen ELSE BackPage(t)

(* A terminal's flag stands for a page table entry that is right for it,   *)
(* and a process holds the pointer only while its terminal has the flag.   *)
PagesFollow ==
    \A t \in Terms : vid_map_flag[t] => t \in VidmapTerms /\ user_vidmem = PageOf(t)
HoldersRun ==
    \A p \in Pids : mapped[p] => Runnable(p) /\ vid_map_flag[on_term[p]]
VidmapInv == PagesFollow /\ HoldersRun

(* The page table has one entry for all terminals, and schedule() sets it  *)
(* for the terminal it leaves: it is right for one terminal at most, and   *)
(* only while a program that was given it neither executes another nor     *)
(* asks for it behind the user's back.                                     *)
CarefulVidmap ==
    /\ Allowed = {}
    /\ \A t, u \in VidmapTerms : t = u

(* A step that leaves the page, the flags and the pointers alone. *)
LEMMA VidmapQuiet ==
  ASSUME VidmapInv, \A r \in Pids : Runnable(r) => Runnable(r)',
         UNCHANGED <<vid_map_flag, user_vidmem, curr_terminal, mapped, on_term>>
  PROVE  VidmapInv'
  BY DEF VidmapInv, PagesFollow, HoldersRun, PageOf

LEMMA VidmapLaunch ==
  ASSUME TypeOK, VidmapInv, NEW p \in Pids, NEW c \in Pids, LaunchPcb(p, c),
         \A r \in Pids \ {c} : mapped[r] => Runnable(r)'
  PROVE  VidmapInv'
  <1>1. PagesFollow'
    BY DEF LaunchPcb, VidmapInv, PagesFollow, PageOf
  <1>2. ASSUME NEW r \in Pids, mapped'[r]
        PROVE  Runnable(r)' /\ vid_map_flag'[on_term'[r]]
    <2>1. r # c /\ mapped[r] /\ on_term'[r] = on_term[r]
      BY <1>2 DEF LaunchPcb, TypeOK
    <2>2. vid_map_flag' = vid_map_flag
      BY DEF LaunchPcb
    <2>3. QED
      BY <2>1, <2>2 DEF VidmapInv, HoldersRun
  <1>3. QED
    BY <1>1, <1>2 DEF VidmapInv, HoldersRun

(* The child that ends was the only runnable process of its terminal, so   *)
(* nobody there still holds the pointer.                                   *)
LEMMA VidmapHaltChild ==
  ASSUME TypeOK, Safe, VidmapInv, NEW p \in Pids, Runnable(p), mode[p] # "exec",
         NEW status, NEW isr, HaltChild(p, status, isr)
  PROVE  VidmapInv'
  <1>1. /\ vid_map_flag' = [vid_map_flag EXCEPT ![on_term[p]] = FALSE]
        /\ mapped' = [mapped EXCEPT ![p] = FALSE]
        /\ UNCHANGED <<user_vidmem, curr_terminal, on_term>>
        /\ mode' = [mode EXCEPT ![p] = "free", ![exec_frame[p]] = "user"]
    BY DEF HaltChild
  <1>2. PagesFollow'
    BY <1>1 DEF VidmapInv, PagesFollow, PageOf, TypeOK
  <1>3. ASSUME NEW r \in Pids, mapped'[r]
        PROVE  Runnable(r)' /\ vid_map_flag'[on_term[r]]
    <2>1. r # p /\ mapped[r] /\ Runnable(r) /\ vid_map_flag[on_term[r]]
      BY <1>1, <1>3 DEF VidmapInv, HoldersRun, TypeOK
    <2>2. on_term[r] # on_term[p]
      BY <2>1 DEF Safe, OneProcessPerTerminal
    <2>3. mode'[r] = mode[r] \/ mode'[r] = "user"
      BY <1>1, <2>1 DEF TypeOK
    <2>4. QED
      BY <1>1, <2>1, <2>2, <2>3 DEF Runnable, Used, TypeOK
  <1>4. QED
    BY <1>1, <1>2, <1>3 DEF VidmapInv, HoldersRun

(* A shell that ends is replaced under its own pid, or its pid is free. *)
LEMMA VidmapHaltShell ==
  ASSUME TypeOK, VidmapInv, NEW p \in Pids, HaltShell(p), Safe, cpu = p,
         mode[p] \in {"user", "fault"}
  PROVE  VidmapInv'
  <1>1. PICK c \in Pids :
          /\ LaunchPcb(p, c)
          /\ \A q \in FreePids \cup {p} : c <= q
          /\ c \in FreePids \cup {p}
          /\ mode' = [mode EXCEPT ![p] = "free", ![c] = "user"]
    BY DEF HaltShell, FreePids
  <1>2. c = p
    <2>1. p \in Terms /\ Used(p) /\ \A u \in Terms : u < p => Used(u)
      BY Constants DEF HaltShell, Used, Safe, ShellsKeepTheirPids
    <2>2. c \in Int /\ p \in Int /\ c <= p
      BY <1>1 DEF Pids
    <2>3. ASSUME c < p PROVE FALSE
      <3>1. c \in FreePids
        BY <1>1, <2>2, <2>3
      <3>2. c \in Terms
        BY <2>1, <2>2, <2>3, KernelAssumption DEF Pids, Terms
      <3>3. QED
        BY <2>1, <2>3, <3>1, <3>2 DEF FreePids
    <2>4. QED
      BY <2>2, <2>3
  <1>3. \A r \in Pids \ {c} : mapped[r] => Runnable(r)'
    BY <1>1, <1>2 DEF VidmapInv, HoldersRun, Runnable, Used, TypeOK
  <1>4. QED
    BY <1>1, <1>3, VidmapLaunch

(* vidmap gives the screen to a program of the terminal displayed, the one *)
(* terminal that has the flag from then on.                                *)
LEMMA VidmapCall ==
  ASSUME TypeOK, Safe, VidmapInv, CarefulVidmap, NEW p \in Pids, Vidmap(p)
  PROVE  VidmapInv'
  <1>1. /\ on_term[p] \in VidmapTerms /\ on_term[p] = curr_terminal /\ Runnable(p)
        /\ vid_map_flag' = [vid_map_flag EXCEPT ![on_term[p]] = TRUE]
        /\ user_vidmem' = Screen
        /\ mapped' = [mapped EXCEPT ![p] = TRUE]
        /\ UNCHANGED <<mode, on_term, curr_terminal>>
    BY DEF Vidmap, CarefulVidmap, May, InUser, Runnable, Used
  <1>2. ASSUME NEW t \in Terms, vid_map_flag'[t]
        PROVE  t \in VidmapTerms /\ t = curr_terminal
    BY <1>1, <1>2 DEF VidmapInv, PagesFollow, CarefulVidmap, TypeOK
  <1>3. PagesFollow'
    BY <1>1, <1>2 DEF PagesFollow, PageOf
  <1>4. HoldersRun'
    BY <1>1 DEF VidmapInv, HoldersRun, Runnable, Used, TypeOK
  <1>5. QED
    BY <1>3, <1>4 DEF VidmapInv

(* schedule() and switch_terminal() rewrite the entry for the terminal     *)
(* that has the flag, whichever they leave and show.                       *)
LEMMA VidmapSwitchTo ==
  ASSUME TypeOK, VidmapInv, CarefulVidmap, NEW p \in Pids, NEW next, SwitchTo(p, next)
  PROVE  VidmapInv'
  <1>1. /\ user_vidmem' = OutgoingPage(on_term[p]) /\ on_term[p] \in Terms
        /\ UNCHANGED <<mode, vid_map_flag, curr_terminal, mapped, on_term>>
    BY DEF SwitchTo, termVars, TypeOK
  <1>2. ASSUME NEW t \in Terms, vid_map_flag[t] PROVE user_vidmem' = PageOf(t)
    <2>1. t \in VidmapTerms /\ user_vidmem = PageOf(t)
      BY <1>2 DEF VidmapInv, PagesFollow
    <2>2. vid_map_flag[on_term[p]] => on_term[p] = t
      BY <1>1, <2>1 DEF VidmapInv, PagesFollow, CarefulVidmap
    <2>3. QED
      BY <1>1, <1>2, <2>1, <2>2 DEF OutgoingPage, PageOf
  <1>3. PagesFollow'
    BY <1>1, <1>2 DEF VidmapInv, PagesFollow, PageOf
  <1>4. HoldersRun'
    BY <1>1 DEF VidmapInv, HoldersRun, Runnable, Used
  <1>5. QED
    BY <1>3, <1>4 DEF VidmapInv

LEMMA VidmapSwitchTerminal ==
  ASSUME TypeOK, VidmapInv, CarefulVidmap, NEW p \in Pids, NEW dest \in Terms,
         SwitchTerminal(p, dest)
  PROVE  VidmapInv'
  <1>1. /\ curr_terminal' = dest
        /\ user_vidmem' = IF vid_map_flag[dest] THEN Screen
                          ELSE IF vid_map_flag[curr_terminal] THEN BackPage(curr_terminal)
                          ELSE user_vidmem
        /\ UNCHANGED <<mode, vid_map_flag, mapped, on_term>>
    BY DEF SwitchTerminal, pcbVars
  <1>2. ASSUME NEW t \in Terms, vid_map_flag[t]
        PROVE  user_vidmem' = IF t = dest THEN Screen ELSE BackPage(t)
    <2>1. t \in VidmapTerms /\ user_vidmem = PageOf(t) /\ curr_terminal \in Terms
      BY <1>2 DEF VidmapInv, PagesFollow, TypeOK
    <2>2. /\ vid_map_flag[dest] => dest = t
          /\ vid_map_flag[curr_terminal] => curr_terminal = t
      BY <2>1 DEF VidmapInv, PagesFollow, CarefulVidmap
    <2>3. QED
      BY <1>1, <1>2, <2>1, <2>2 DEF PageOf
  <1>3. PagesFollow'
    BY <1>1, <1>2 DEF VidmapInv, PagesFollow, PageOf
  <1>4. HoldersRun'
    BY <1>1 DEF VidmapInv, HoldersRun, Runnable, Used
  <1>5. QED
    BY <1>3, <1>4 DEF VidmapInv

LEMMA VidmapStep ==
  ASSUME IInv, VidmapInv, CarefulVidmap, [Next]_vars
  PROVE  VidmapInv'
  <1>0. TypeOK /\ Safe
    BY DEF IInv, Safe
  <1> USE <1>0
  <1>1. CASE UNCHANGED vars
    BY <1>1, VidmapQuiet DEF vars, pcbVars, termVars, Runnable, Used
  <1>2. CASE cpu # Stray /\ BootTables
    <2>1. \A r \in Pids : ~Runnable(r)
      BY <1>2 DEF BootTables, Safe, ShellsKeepTheirPids, Runnable, Used, TypeOK
    <2>2. QED
      BY <1>2, <2>1, VidmapQuiet DEF BootTables, pcbVars
  <1>3. CASE cpu # Stray /\ BootExecute
    <2>1. PICK c \in Pids : LaunchPcb(cpu, c) /\ mode' = [mode EXCEPT ![c] = "user"]
      BY <1>3 DEF BootExecute
    <2>2. cpu \in Pids
      BY <1>3 DEF TypeOK
    <2>3. \A r \in Pids \ {c} : mapped[r] => Runnable(r)'
      BY <2>1 DEF VidmapInv, HoldersRun, Runnable, Used, TypeOK
    <2>4. QED
      BY <2>1, <2>2, <2>3, VidmapLaunch
  <1>4. ASSUME NEW p \in Pids,
               EnterIo(p) \/ LeaveIo(p) \/ ExecuteFails(p) \/ ExecuteFull(p) \/ Fault(p)
        PROVE  VidmapInv'
    <2>1. UNCHANGED <<vid_map_flag, user_vidmem, curr_terminal, mapped, on_term>>
      BY <1>4 DEF EnterIo, LeaveIo, ExecuteFails, ExecuteFull, Fault, pcbVars, termVars
    <2>2. \A r \in Pids : Runnable(r) => Runnable(r)'
      BY <1>4 DEF EnterIo, LeaveIo, ExecuteFails, ExecuteFull, Fault, Runnable, Used, TypeOK
    <2>3. QED
      BY <2>1, <2>2, VidmapQuiet
  <1>5. ASSUME NEW p \in Pids, NEW c \in Pids, Execute(p, c) PROVE VidmapInv'
    <2>1. /\ LaunchPcb(p, c) /\ ~mapped[p] /\ ~Used(c)
          /\ mode' = [mode EXCEPT ![p] = "exec", ![c] = "user"]
      BY <1>5 DEF Execute, CarefulVidmap, May, IsFirstFree, FreePids
    <2>2. \A r \in Pids \ {c} : mapped[r] => Runnable(r)'
      BY <2>1 DEF VidmapInv, HoldersRun, Runnable, Used, TypeOK
    <2>3. QED
      BY <2>1, <2>2, VidmapLaunch
  <1>6. ASSUME NEW p \in Pids, (\E s \in Statuses : Halt(p, s)) \/ FaultHalt(p)
        PROVE  VidmapInv'
    <2>1. /\ cpu = p /\ mode[p] \in {"user", "fault"} /\ Runnable(p)
          /\ (\E s, isr : HaltChild(p, s, isr)) \/ HaltShell(p)
      BY <1>6 DEF Halt, FaultHalt, InUser, Runnable, Used
    <2>2. QED
      BY <2>1, VidmapHaltChild, VidmapHaltShell
  <1>7. ASSUME NEW p \in Pids, Vidmap(p) PROVE VidmapInv'
    BY <1>7, VidmapCall
  <1>8. ASSUME NEW p \in Pids, Tick(p) PROVE VidmapInv'
    <2>1. ASSUME NEW c \in Pids, LaunchShell(p, c) PROVE VidmapInv'
      <3>1. LaunchPcb(p, c) /\ mode' = [mode EXCEPT ![c] = "user"]
        BY <2>1 DEF LaunchShell
      <3>2. \A r \in Pids \ {c} : mapped[r] => Runnable(r)'
        BY <3>1 DEF VidmapInv, HoldersRun, Runnable, Used, TypeOK
      <3>3. QED
        BY <3>1, <3>2, VidmapLaunch
    <2>2. QED
      BY <1>8, <2>1, VidmapSwitchTo DEF Tick
  <1>9. ASSUME NEW p \in Pids, NEW t \in Terms, SwitchTerminal(p, t) PROVE VidmapInv'
    BY <1>9, VidmapSwitchTerminal
  <1>10. QED
    BY <1>1, <1>2, <1>3, <1>4, <1>5, <1>6, <1>7, <1>8, <1>9 DEF Next, Syscall

(* With one terminal whose programs call vidmap, from that terminal while  *)
(* it is displayed, the pointer always reaches the right page, however the *)
(* user switches terminals and wherever ticks, halts and faults fall.      *)
THEOREM VidmapIsRight == CarefulVidmap => (Spec => []VidmapFollowsTerminal)
  <1> SUFFICES ASSUME CarefulVidmap PROVE Spec => []VidmapFollowsTerminal
    OBVIOUS
  <1>1. CarefulUser
    BY DEF CarefulVidmap, CarefulUser
  <1>2. Init => VidmapInv
    BY DEF Init, VidmapInv, PagesFollow, HoldersRun
  <1>3. IInv /\ VidmapInv /\ [Next]_vars => VidmapInv'
    BY VidmapStep
  <1>4. IInv /\ VidmapInv => VidmapFollowsTerminal
    BY DEF IInv, TypeOK, VidmapInv, PagesFollow, HoldersRun, VidmapFollowsTerminal, PageOf
  <1>5. Spec => []IInv
    BY <1>1, KernelInvariant
  <1>6. QED
    BY <1>2, <1>3, <1>4, <1>5, PTL DEF Spec

-----------------------------------------------------------------------------
(* The terminals as stacks. *)

(* A set of naturals with a member has a least one. *)
LEMMA LeastNat ==
  ASSUME NEW T \in SUBSET Nat, T # {}
  PROVE  \E m \in T : \A k \in T : m <= k
  <1> DEFINE R == {p \in Nat \X Nat : p[1] < p[2]}
  <1>1. IsWellFoundedOn(R, Nat)
    BY NatLessThanWellFounded DEF OpToRel
  <1> HIDE DEF R
  <1>2. \E x \in T : \A y \in T : ~ (<<y, x>> \in R)
    BY <1>1, WFMin
  <1>3. ASSUME NEW x \in T, NEW y \in T, ~ (<<y, x>> \in R) PROVE x <= y
    <2>1. x \in Nat /\ y \in Nat /\ ~(y < x)
      BY <1>3 DEF R
    <2>2. QED
      BY <2>1
  <1>4. QED
    BY <1>2, <1>3

(* s solves the equation Chains defines its value by. *)
IsChains(s, children, caller) ==
    /\ s \in [Pids -> Seq(Pids)]
    /\ \A p \in Pids :
         /\ p \in children => caller[p] \in Pids /\ s[p] = Append(s[caller[p]], p)
         /\ p \notin children => s[p] = <<p>>

(* A solution is the solution: a disagreement at p is one at its caller,   *)
(* whose chain is shorter.                                                 *)
LEMMA ChainsAreUnique ==
  ASSUME NEW children, NEW caller, NEW s, IsChains(s, children, caller)
  PROVE  Chains(children, caller) = s
  <1> DEFINE Eqn(f) == f = [p \in Pids |-> IF p \in children THEN Append(f[caller[p]], p) ELSE <<p>>]
  <1> DEFINE c == CHOOSE f : Eqn(f)
  <1>1. Chains(children, caller) = c
    BY DEF Chains
  <1>2. Eqn(s)
    BY DEF IsChains
  <1>3. Eqn(c)
    BY <1>2, Zenon
  <1> HIDE DEF c
  <1> DEFINE Bad == {p \in Pids : c[p] # s[p]}
  <1>4. ASSUME NEW p \in Bad PROVE \E q \in Bad : Len(s[q]) < Len(s[p])
    <2>1. p \in Pids /\ c[p] # s[p]
      OBVIOUS
    <2>2. c[p] = IF p \in children THEN Append(c[caller[p]], p) ELSE <<p>>
      BY <1>3, <2>1
    <2>3. p \in children
      BY <2>1, <2>2 DEF IsChains
    <2>4. caller[p] \in Pids /\ s[p] = Append(s[caller[p]], p) /\ s[caller[p]] \in Seq(Pids)
      BY <2>1, <2>3 DEF IsChains
    <2>5. c[caller[p]] # s[caller[p]]
      BY <2>1, <2>2, <2>3, <2>4
    <2>6. Len(s[caller[p]]) < Len(s[p])
      BY <2>1, <2>4
    <2>7. QED
      BY <2>4, <2>5, <2>6
  <1>5. Bad = {}
    <2> SUFFICES ASSUME Bad # {} PROVE FALSE
      OBVIOUS
    <2> DEFINE Lens == {Len(s[p]) : p \in Bad}
    <2>1. Lens \in SUBSET Nat /\ Lens # {}
      <3>1. \A p \in Bad : Len(s[p]) \in Nat
        BY DEF IsChains
      <3> HIDE DEF Bad
      <3>2. QED
        BY <3>1
    <2>2. PICK m \in Lens : \A k \in Lens : m <= k
      BY <2>1, LeastNat
    <2>3. PICK p \in Bad : m = Len(s[p])
      OBVIOUS
    <2>4. PICK q \in Bad : Len(s[q]) < Len(s[p])
      BY <1>4
    <2>5. Len(s[q]) \in Lens /\ Len(s[q]) \in Nat /\ m \in Nat
      BY <2>1
    <2> HIDE DEF Lens, Bad
    <2>6. QED
      BY <2>2, <2>3, <2>4, <2>5
  <1>6. c = s
    <2>1. c = [p \in Pids |-> c[p]] /\ s = [p \in Pids |-> s[p]]
      BY <1>2, <1>3
    <2>2. \A p \in Pids : c[p] = s[p]
      BY <1>5
    <2>3. QED
      BY <2>1, <2>2
  <1>7. QED
    BY <1>1, <1>6


(* The chains s of the process table: the chain of a process holds, under  *)
(* it, only processes of its terminal that wait in execute, each with a    *)
(* shorter chain; and the chain of active_pid holds the whole terminal.    *)
WellStacked(s) ==
    /\ IsChains(s, Children, parent)
    /\ \A x \in Pids : Used(x) =>
         /\ x \in ToSet(s[active_pid[on_term[x]]])
         /\ \A y \in ToSet(s[x]) :
              /\ y \in Pids /\ Used(y) /\ on_term[y] = on_term[x]
              /\ y # x => mode[y] = "exec" /\ Len(s[y]) < Len(s[x])

Stacked == \E s : WellStacked(s)

LEMMA ChainEnds ==
  ASSUME TypeOK, NEW s, WellStacked(s), NEW p \in Pids
  PROVE  s[p] \in Seq(Pids) /\ s[p] # <<>> /\ p \in ToSet(s[p]) /\ Len(s[p]) >= 1
  <1>1. CASE p \in Children
    <2>1. s[p] = Append(s[parent[p]], p) /\ s[parent[p]] \in Seq(Pids)
      BY <1>1 DEF WellStacked, IsChains
    <2>2. s[p][Len(s[p])] = p /\ Len(s[p]) >= 1 /\ s[p] \in Seq(Pids)
      BY <2>1
    <2>3. QED
      BY <2>2 DEF ToSet
  <1>2. CASE p \notin Children
    <2>1. s[p] = <<p>>
      BY <1>2 DEF WellStacked, IsChains
    <2>2. QED
      BY <2>1 DEF ToSet
  <1>3. QED
    BY <1>1, <1>2

LEMMA AppendSet ==
  ASSUME NEW S, NEW q \in Seq(S), NEW e \in S
  PROVE  ToSet(Append(q, e)) = ToSet(q) \cup {e}
  <1>1. /\ Len(Append(q, e)) = Len(q) + 1 /\ Len(q) \in Nat
        /\ DOMAIN q = 1 .. Len(q) /\ DOMAIN Append(q, e) = 1 .. Len(q) + 1
        /\ \A i \in 1 .. Len(q) : Append(q, e)[i] = q[i]
        /\ Append(q, e)[Len(q) + 1] = e
    OBVIOUS
  <1>2. ASSUME NEW x \in ToSet(Append(q, e)) PROVE x \in ToSet(q) \cup {e}
    BY <1>1 DEF ToSet
  <1>3. ASSUME NEW x \in ToSet(q) PROVE x \in ToSet(Append(q, e))
    <2>1. PICK i \in 1 .. Len(q) : x = q[i]
      BY <1>1 DEF ToSet
    <2>2. i \in 1 .. Len(q) + 1 /\ Append(q, e)[i] = x
      BY <1>1, <2>1
    <2>3. QED
      BY <1>1, <2>2 DEF ToSet
  <1>4. e \in ToSet(Append(q, e))
    <2>1. Len(q) + 1 \in 1 .. Len(q) + 1
      BY <1>1
    <2>2. QED
      BY <1>1, <2>1 DEF ToSet
  <1>5. QED
    BY <1>2, <1>3, <1>4

LEMMA AppendFront ==
  ASSUME NEW S, NEW q \in Seq(S), NEW e \in S
  PROVE  Front(Append(q, e)) = q
  <1>1. /\ Len(Append(q, e)) = Len(q) + 1 /\ Len(q) \in Nat
        /\ \A i \in 1 .. Len(q) : Append(q, e)[i] = q[i]
        /\ Append(q, e) \in Seq(S)
    OBVIOUS
  <1>2. Front(Append(q, e)) = SubSeq(Append(q, e), 1, Len(q))
    BY <1>1 DEF Front
  <1>3. QED
    BY <1>1, <1>2

(* What StackOf says, in terms of the chains. *)
LEMMA StackIsChain ==
  ASSUME NEW s, WellStacked(s), NEW t
  PROVE  StackOf(t) = IF Used(t) THEN s[active_pid[t]] ELSE <<>>
  <1>1. Chains(Children, parent) = s
    BY ChainsAreUnique DEF WellStacked
  <1>2. QED
    BY <1>1 DEF StackOf

(* The processes in use are those of the stacks. *)
LEMMA StacksAreAll ==
  ASSUME IInv, Stacked
  PROVE  StacksHoldAllProcesses
  <1>1. PICK s : WellStacked(s)
    BY DEF Stacked
  <1>2. ASSUME NEW x \in Pids, Used(x)
        PROVE  \E t \in Terms : x \in ToSet(StackOf(t))
    <2>1. on_term[x] \in Terms /\ x \in ToSet(s[active_pid[on_term[x]]])
      BY <1>1, <1>2 DEF WellStacked, IInv, TypeOK
    <2>2. Used(on_term[x])
      <3>1. CASE x \in Children
        BY <2>1, <3>1 DEF IInv, ShellsKeepTheirPids
      <3>2. CASE x \notin Children
        BY <1>2, <3>2, Constants DEF IInv, ShellsKeepTheirPids, Children
      <3>3. QED
        BY <3>1, <3>2
    <2>3. QED
      BY <1>1, <2>1, <2>2, StackIsChain
  <1>3. ASSUME NEW t \in Terms, NEW x \in ToSet(StackOf(t))
        PROVE  x \in Pids /\ Used(x)
    <2>1. Used(t)
      BY <1>1, <1>3, StackIsChain DEF ToSet
    <2>2. StackOf(t) = s[active_pid[t]]
      BY <1>1, <2>1, StackIsChain
    <2>3. active_pid[t] \in Pids /\ Used(active_pid[t])
      BY <2>1 DEF IInv, TypeOK, OneProcessPerTerminal, Runnable
    <2>4. QED
      BY <1>1, <1>3, <2>2, <2>3 DEF WellStacked
  <1>4. QED
    BY <1>2, <1>3 DEF StacksHoldAllProcesses


(* What Kernel stands for in TerminalStacks. *)
Stk == [t \in Terms |-> StackOf(t)]
Run == IF Used(cpu) THEN on_term[cpu] ELSE 0
UsedStk == UNION {ToSet(Stk[t]) : t \in Terms}
AllUpStk == Stk[MAX_TERMS - 1] # <<>>

LEMMA StkTerms ==
  Stacks!Terminals = Terms /\ Stacks!InUse = UsedStk /\ Stacks!AllUp = AllUpStk
  BY DEF Stacks!Terminals, Terms, Stacks!InUse, UsedStk, Stacks!AllUp, AllUpStk,
         ToSet, Stacks!ToSet, Stk

(* execute() pushes. *)
LEMMA PushStep ==
  ASSUME TypeOK, Safe, CarefulUser, NEW s, WellStacked(s),
         NEW p \in Pids, NEW c \in Pids, Execute(p, c)
  PROVE  Stacked' /\ Stacks!Push
  <1> DEFINE t0 == on_term[p]
             s2 == [s EXCEPT ![c] = Append(s[p], c)]
  <1>1. /\ cpu = p /\ Used(p) /\ Runnable(p) /\ t0 \in Terms
        /\ ~Used(c) /\ c \notin Terms /\ p # c
        /\ \A t \in Terms : Used(t)
        /\ mode' = [mode EXCEPT ![p] = "exec", ![c] = "user"]
        /\ parent' = [parent EXCEPT ![c] = p]
        /\ on_term' = [on_term EXCEPT ![c] = t0]
        /\ active_pid' = [active_pid EXCEPT ![t0] = c]
        /\ cpu' = c /\ term_counter' = term_counter
    BY ExecuteFacts
  <1>2. /\ \A r \in Pids : Used(r)' <=> Used(r) \/ r = c
        /\ \A r \in Pids : mode'[r] = "exec" <=> r = p \/ (mode[r] = "exec" /\ r # c)
    BY <1>1, UsedAfterLaunch
  <1>3. Children' = Children \cup {c} /\ c \notin Children
    BY <1>1, <1>2, Constants DEF Children
  <1>4. active_pid[t0] = p
    BY <1>1 DEF Safe, OneProcessPerTerminal
  <1>5. /\ s \in [Pids -> Seq(Pids)] /\ s2 \in [Pids -> Seq(Pids)]
        /\ s2[c] = Append(s[p], c) /\ \A r \in Pids \ {c} : s2[r] = s[r]
    <2>1. s \in [Pids -> Seq(Pids)]
      BY DEF WellStacked, IsChains
    <2>2. QED
      BY <2>1
  <1> HIDE DEF s2
  <1>6. IsChains(s2, Children', parent')
    <2>1. ASSUME NEW r \in Pids, r \in Children'
          PROVE  parent'[r] \in Pids /\ s2[r] = Append(s2[parent'[r]], r)
      <3>1. CASE r = c
        BY <3>1, <1>1, <1>5 DEF TypeOK
      <3>2. CASE r # c
        <4>1. r \in Children /\ parent'[r] = parent[r] /\ parent[r] \in Pids
          BY <2>1, <3>2, <1>1, <1>3 DEF TypeOK
        <4>2. parent[r] # c
          BY <4>1, <1>1 DEF Safe, CallersWait, Used
        <4>3. s[r] = Append(s[parent[r]], r)
          BY <4>1 DEF WellStacked, IsChains
        <4>4. QED
          BY <3>2, <4>1, <4>2, <4>3, <1>5
      <3>3. QED
        BY <3>1, <3>2
    <2>2. ASSUME NEW r \in Pids, r \notin Children' PROVE s2[r] = <<r>>
      BY <2>2, <1>3, <1>5 DEF WellStacked, IsChains
    <2>3. QED
      BY <2>1, <2>2, <1>5 DEF IsChains
  <1>7. /\ s[p] \in Seq(Pids) /\ p \in ToSet(s[p]) /\ s[p] # <<>>
        /\ ToSet(s2[c]) = ToSet(s[p]) \cup {c} /\ Len(s2[c]) = Len(s[p]) + 1
        /\ \A r \in Pids : Len(s[r]) \in Nat
    <2>1. s[p] \in Seq(Pids) /\ p \in ToSet(s[p]) /\ s[p] # <<>>
      BY ChainEnds
    <2>2. ToSet(Append(s[p], c)) = ToSet(s[p]) \cup {c}
      BY <2>1, AppendSet
    <2>3. \A r \in Pids : Len(s[r]) \in Nat
      BY <1>5
    <2>4. QED
      BY <2>1, <2>2, <2>3, <1>5
  <1>8. ASSUME NEW x \in Pids, Used(x)'
        PROVE  /\ x \in ToSet(s2[active_pid'[on_term'[x]]])
               /\ \A y \in ToSet(s2[x]) :
                    /\ y \in Pids /\ Used(y)' /\ on_term'[y] = on_term'[x]
                    /\ y # x => mode'[y] = "exec" /\ Len(s2[y]) < Len(s2[x])
    <2>1. CASE x = c
      <3>1. active_pid'[on_term'[x]] = c
        BY <2>1, <1>1 DEF TypeOK
      <3>2. ASSUME NEW y \in ToSet(s[p])
            PROVE  /\ y \in Pids /\ Used(y) /\ y # c /\ on_term'[y] = t0
                   /\ mode'[y] = "exec" /\ Len(s2[y]) < Len(s2[c])
        <4>1. y \in Pids /\ Used(y) /\ on_term[y] = t0
          BY <1>1 DEF WellStacked
        <4>2. y # c /\ on_term'[y] = t0 /\ s2[y] = s[y]
          BY <4>1, <1>1, <1>5 DEF TypeOK
        <4>3. y = p \/ (mode[y] = "exec" /\ Len(s[y]) < Len(s[p]))
          BY <1>1 DEF WellStacked
        <4>4. mode'[y] = "exec"
          BY <4>1, <4>2, <4>3, <1>2
        <4>5. Len(s[y]) \in Nat /\ Len(s[p]) \in Nat /\ Len(s2[c]) = Len(s[p]) + 1
          BY <4>1, <1>7
        <4>6. Len(s2[y]) < Len(s2[c])
          BY <4>2, <4>3, <4>5
        <4>7. QED
          BY <4>1, <4>2, <4>4, <4>6
      <3>3. on_term'[c] = t0
        BY <1>1 DEF TypeOK
      <3>4. QED
        BY <2>1, <3>1, <3>2, <3>3, <1>2, <1>7
    <2>2. CASE x # c
      <3>1. Used(x) /\ s2[x] = s[x] /\ on_term'[x] = on_term[x] /\ on_term[x] \in Terms
        BY <1>8, <2>2, <1>1, <1>2, <1>5 DEF TypeOK
      <3>2. x \in ToSet(s2[active_pid'[on_term[x]]])
        <4>1. x \in ToSet(s[active_pid[on_term[x]]])
          BY <3>1 DEF WellStacked
        <4>2. CASE on_term[x] = t0
          BY <4>1, <4>2, <1>1, <1>4, <1>7 DEF TypeOK
        <4>3. CASE on_term[x] # t0
          <5>1. active_pid'[on_term[x]] = active_pid[on_term[x]]
            BY <3>1, <4>3, <1>1 DEF TypeOK
          <5>2. active_pid[on_term[x]] \in Pids /\ active_pid[on_term[x]] # c
            BY <3>1, <1>1 DEF Safe, OneProcessPerTerminal, Runnable, TypeOK
          <5>3. QED
            BY <4>1, <5>1, <5>2, <1>5
        <4>4. QED
          BY <4>2, <4>3
      <3>3. ASSUME NEW y \in ToSet(s[x])
            PROVE  /\ y \in Pids /\ Used(y)' /\ on_term'[y] = on_term[x]
                   /\ y # x => mode'[y] = "exec" /\ Len(s2[y]) < Len(s[x])
        <4>1. /\ y \in Pids /\ Used(y) /\ on_term[y] = on_term[x]
              /\ y # x => mode[y] = "exec" /\ Len(s[y]) < Len(s[x])
          BY <3>1 DEF WellStacked
        <4>2. y # c
          BY <4>1, <1>1
        <4>3. Used(y)' /\ (mode[y] = "exec" => mode'[y] = "exec") /\ s2[y] = s[y]
          BY <4>1, <4>2, <1>2, <1>5, Zenon
        <4>4. on_term'[y] = on_term[y]
          BY <4>1, <4>2, <1>1 DEF TypeOK
        <4>5. QED
          BY <4>1, <4>3, <4>4, Zenon
      <3>4. QED
        BY <3>1, <3>2, <3>3
    <2>3. QED
      BY <2>1, <2>2
  <1>9. Stacked'
    <2>1. WellStacked(s2)'
      BY <1>6, <1>8 DEF WellStacked
    <2>2. QED
      BY <2>1 DEF Stacked
  <1>10. /\ \A t \in Terms : StackOf(t) = s[active_pid[t]]
         /\ \A t \in Terms : StackOf(t)' = s2[active_pid'[t]]
    <2>1. Chains(Children', parent') = s2
      BY <1>6, ChainsAreUnique
    <2>2. \A t \in Terms : Used(t)'
      BY <1>1, <1>2, Constants
    <2>3. QED
      BY <1>1, <2>1, <2>2, StackIsChain DEF StackOf
  <1>11. /\ StackOf(t0) = s[p]
         /\ \A t \in Terms : StackOf(t)' = IF t = t0 THEN Append(s[p], c) ELSE StackOf(t)
    <2>1. StackOf(t0) = s[p] /\ \A t \in Terms : t = t0 => StackOf(t)' = s2[c]
      BY <1>1, <1>4, <1>10 DEF TypeOK
    <2>2. ASSUME NEW t \in Terms, t # t0 PROVE StackOf(t)' = StackOf(t)
      <3>1. active_pid'[t] = active_pid[t]
        BY <2>2, <1>1 DEF TypeOK
      <3>2. active_pid[t] \in Pids /\ active_pid[t] # c
        BY <1>1 DEF Safe, OneProcessPerTerminal, Runnable, TypeOK
      <3>3. QED
        BY <3>1, <3>2, <1>5, <1>10
    <2>3. QED
      BY <2>1, <2>2, <1>5
  <1>12. Stk' = [Stk EXCEPT ![t0] = Append(@, c)]
    <2>1. Stk' = [t \in Terms |-> StackOf(t)']
      BY DEF Stk
    <2>2. [Stk EXCEPT ![t0] = Append(@, c)]
            = [t \in Terms |-> IF t = t0 THEN Append(StackOf(t0), c) ELSE StackOf(t)]
      BY <1>1 DEF Stk
    <2>3. QED
      BY <2>1, <2>2, <1>11
  <1>13. Run = t0 /\ Run' = t0
    BY <1>1, <1>2 DEF Run, TypeOK
  <1>14. c \notin UNION {ToSet(Stk[t]) : t \in Terms}
    <2>1. ASSUME NEW t \in Terms PROVE c \notin ToSet(Stk[t])
      <3>1. Stk[t] = s[active_pid[t]] /\ Used(active_pid[t]) /\ active_pid[t] \in Pids
        BY <1>1, <1>10 DEF Safe, OneProcessPerTerminal, Runnable, TypeOK, Stk
      <3>2. QED
        BY <3>1, <1>1 DEF WellStacked
    <2>2. QED
      BY <2>1
  <1>15. Stk[MAX_TERMS - 1] # <<>>
    <2>1. MAX_TERMS - 1 \in Terms
      BY KernelAssumption DEF Terms
    <2>2. Stk[MAX_TERMS - 1] = s[active_pid[MAX_TERMS - 1]]
      BY <2>1, <1>10 DEF Stk
    <2>3. QED
      BY <2>1, <2>2, ChainEnds DEF TypeOK
  <1>16. Len(Stk'[Run]) = Len(Stk[Run]) + 1
    <2>1. Stk[Run] = s[p] /\ Stk'[Run] = Append(s[p], c)
      BY <1>1, <1>11, <1>12, <1>13 DEF Stk
    <2>2. QED
      BY <2>1, <1>7
  <1>17. Stacks!Push
    <2>1. AllUpStk /\ UNCHANGED <<term_counter, Run>>
      BY <1>1, <1>13, <1>15 DEF AllUpStk
    <2>2. \E q \in Pids \ UsedStk : Stk' = [Stk EXCEPT ![Run] = Append(@, q)]
      BY <1>12, <1>13, <1>14 DEF UsedStk
    <2>3. QED
      BY <2>1, <2>2, <1>16, StkTerms DEF Stacks!Push, Stk, Run
  <1>18. QED
    BY <1>9, <1>17


(* halt() of a child pops: nobody waits on the child, so it is under no    *)
(* other process, and what was under it is its caller's chain.             *)
LEMMA PopStep ==
  ASSUME TypeOK, Safe, NEW s, WellStacked(s), NEW p \in Pids, cpu = p,
         mode[p] \in {"user", "fault"}, NEW status, NEW isr, HaltChild(p, status, isr)
  PROVE  Stacked' /\ Stacks!Pop
  <1> DEFINE q == parent[p]
             s2 == [s EXCEPT ![p] = <<p>>]
  <1>1. /\ p \in Children /\ Runnable(p) /\ q \in Pids /\ p \notin Terms
        /\ on_term[p] = on_term[q] /\ q # p /\ Used(q) /\ on_term[q] \in Terms
        /\ active_pid[on_term[q]] = p
        /\ mode' = [mode EXCEPT ![p] = "free", ![q] = "user"]
        /\ active_pid' = [active_pid EXCEPT ![on_term[q]] = q]
        /\ cpu' = q
        /\ UNCHANGED <<parent, on_term, term_counter>>
        /\ \A r \in Pids : Used(r)' <=> Used(r) /\ r # p
        /\ Children' = Children \ {p}
    BY HaltChildFacts
  <1>2. /\ s \in [Pids -> Seq(Pids)] /\ s2 \in [Pids -> Seq(Pids)]
        /\ s2[p] = <<p>> /\ \A r \in Pids \ {p} : s2[r] = s[r]
    <2>1. s \in [Pids -> Seq(Pids)]
      BY DEF WellStacked, IsChains
    <2>2. QED
      BY <2>1
  <1> HIDE DEF s2
  <1>3. IsChains(s2, Children', parent')
    <2>1. ASSUME NEW r \in Pids, r \in Children'
          PROVE  parent'[r] \in Pids /\ s2[r] = Append(s2[parent'[r]], r)
      <3>1. /\ r \in Children /\ r # p /\ parent'[r] = parent[r] /\ parent[r] \in Pids
            /\ s[r] = Append(s[parent[r]], r)
        BY <2>1, <1>1 DEF TypeOK, WellStacked, IsChains
      <3>2. parent[r] # p
        BY <3>1, <1>1 DEF Safe, CallersWait, Runnable
      <3>3. QED
        BY <3>1, <3>2, <1>2
    <2>2. ASSUME NEW r \in Pids, r \notin Children' PROVE s2[r] = <<r>>
      BY <2>2, <1>1, <1>2 DEF WellStacked, IsChains
    <2>3. QED
      BY <2>1, <2>2, <1>2 DEF IsChains
  <1>4. /\ s[q] \in Seq(Pids) /\ s[q] # <<>> /\ s[p] = Append(s[q], p) /\ Len(s[q]) >= 1
        /\ ToSet(s[p]) = ToSet(s[q]) \cup {p} /\ q \in ToSet(s[q])
        /\ \A r \in Pids : Len(s[r]) \in Nat
    <2>1. s[q] \in Seq(Pids) /\ s[q] # <<>> /\ q \in ToSet(s[q]) /\ Len(s[q]) >= 1
      BY <1>1, ChainEnds
    <2>2. s[p] = Append(s[q], p)
      BY <1>1 DEF WellStacked, IsChains
    <2>3. ToSet(Append(s[q], p)) = ToSet(s[q]) \cup {p}
      BY <2>1, AppendSet
    <2>4. \A r \in Pids : Len(s[r]) \in Nat
      BY <1>2
    <2>5. QED
      BY <2>1, <2>2, <2>3, <2>4
  <1>5. ASSUME NEW x \in Pids, Used(x), x # p
        PROVE  x \in ToSet(s2[active_pid'[on_term[x]]])
    <2>1. x \in ToSet(s[active_pid[on_term[x]]]) /\ on_term[x] \in Terms
      BY <1>5 DEF WellStacked, TypeOK
    <2>2. CASE on_term[x] = on_term[q]
      <3>1. x \in ToSet(s[q])
        BY <2>1, <2>2, <1>1, <1>4, <1>5
      <3>2. active_pid'[on_term[x]] = q
        BY <2>2, <1>1 DEF TypeOK
      <3>3. QED
        BY <3>1, <3>2, <1>1, <1>2
    <2>3. CASE on_term[x] # on_term[q]
      <3>1. active_pid'[on_term[x]] = active_pid[on_term[x]] /\ active_pid[on_term[x]] \in Pids
        BY <2>1, <2>3, <1>1 DEF TypeOK
      <3>2. on_term[active_pid[on_term[x]]] = on_term[x]
        <4>1. \A t \in Terms : Used(t)
          BY <1>1 DEF Safe, ShellsKeepTheirPids
        <4>2. QED
          BY <2>1, <4>1 DEF Safe, OneProcessPerTerminal
      <3>3. active_pid[on_term[x]] # p
        BY <2>3, <3>2, <1>1
      <3>4. QED
        BY <2>1, <3>1, <3>3, <1>2
    <2>4. QED
      BY <2>2, <2>3
  <1>6. ASSUME NEW x \in Pids, Used(x), x # p, NEW y \in ToSet(s[x])
        PROVE  /\ y \in Pids /\ Used(y) /\ y # p /\ on_term[y] = on_term[x]
               /\ y # x => mode'[y] = "exec" /\ Len(s[y]) < Len(s[x])
    <2>1. /\ y \in Pids /\ Used(y) /\ on_term[y] = on_term[x]
          /\ y # x => mode[y] = "exec" /\ Len(s[y]) < Len(s[x])
      BY <1>6 DEF WellStacked
    <2>2. y # p
      BY <2>1, <1>1, <1>6 DEF Runnable
    <2>3. ASSUME y # x PROVE y # q
      <3> SUFFICES ASSUME y = q PROVE FALSE
        OBVIOUS
      <3>1. x \in ToSet(s[active_pid[on_term[x]]])
        BY <1>6 DEF WellStacked
      <3>2. x \in ToSet(s[q])
        BY <3>1, <2>1, <1>1, <1>4, <1>6
      <3>3. Len(s[x]) < Len(s[q])
        BY <3>2, <2>3, <1>1 DEF WellStacked
      <3>4. Len(s[q]) < Len(s[x])
        BY <2>1, <2>3
      <3>5. QED
        BY <3>3, <3>4, <1>1, <1>4
    <2>4. y # x => mode'[y] = "exec"
      BY <2>1, <2>2, <2>3, <1>1 DEF TypeOK
    <2>5. QED
      BY <2>1, <2>2, <2>4
  <1>7. Stacked'
    <2>1. ASSUME NEW x \in Pids, Used(x)'
          PROVE  /\ x \in ToSet(s2[active_pid'[on_term'[x]]])
                 /\ \A y \in ToSet(s2[x]) :
                      /\ y \in Pids /\ Used(y)' /\ on_term'[y] = on_term'[x]
                      /\ y # x => mode'[y] = "exec" /\ Len(s2[y]) < Len(s2[x])
      <3>1. Used(x) /\ x # p /\ s2[x] = s[x]
        BY <2>1, <1>1, <1>2
      <3>2. \A y \in ToSet(s[x]) : y \in Pids /\ y # p /\ s2[y] = s[y]
        BY <3>1, <1>2, <1>6
      <3>3. on_term'[x] = on_term[x] /\ \A r \in Pids : on_term'[r] = on_term[r]
        BY <1>1
      <3>4. x \in ToSet(s2[active_pid'[on_term[x]]])
        BY <2>1, <3>1, <1>5, Zenon
      <3>5. ASSUME NEW y \in ToSet(s2[x])
            PROVE  /\ y \in Pids /\ Used(y)' /\ on_term'[y] = on_term[x]
                   /\ y # x => mode'[y] = "exec" /\ Len(s2[y]) < Len(s2[x])
        <4>1. y \in ToSet(s[x]) /\ s2[x] = s[x]
          BY <3>1, <3>5
        <4>2. /\ y \in Pids /\ Used(y) /\ y # p /\ on_term[y] = on_term[x]
              /\ y # x => mode'[y] = "exec" /\ Len(s[y]) < Len(s[x])
          BY <3>1, <4>1, <1>6, Zenon
        <4>3. s2[y] = s[y] /\ on_term'[y] = on_term[y] /\ Used(y)'
          BY <3>2, <3>3, <4>1, <4>2, <1>1
        <4>4. QED
          BY <4>1, <4>2, <4>3, Zenon
      <3>6. QED
        BY <3>3, <3>4, <3>5, Zenon
    <2>2. WellStacked(s2)'
      BY <2>1, <1>3 DEF WellStacked
    <2>3. QED
      BY <2>2 DEF Stacked
  <1>8. /\ \A t \in Terms : StackOf(t) = s[active_pid[t]]
        /\ \A t \in Terms : StackOf(t)' = s2[active_pid'[t]]
    <2>1. Chains(Children', parent') = s2
      BY <1>3, ChainsAreUnique
    <2>2. \A t \in Terms : t \in Pids /\ t # p /\ Used(t)
      BY <1>1, Constants DEF Safe, ShellsKeepTheirPids
    <2>3. \A t \in Terms : Used(t)'
      BY <1>1, <2>2
    <2>4. QED
      BY <2>1, <2>2, <2>3, StackIsChain DEF StackOf
  <1>9. \A t \in Terms : StackOf(t)' = IF t = on_term[q] THEN s[q] ELSE StackOf(t)
    <2>1. ASSUME NEW t \in Terms, t # on_term[q] PROVE StackOf(t)' = StackOf(t)
      <3>1. active_pid'[t] = active_pid[t] /\ active_pid[t] \in Pids
        BY <2>1, <1>1 DEF TypeOK
      <3>2. Used(t)
        BY <1>1 DEF Safe, ShellsKeepTheirPids
      <3>3. active_pid[t] # p
        BY <2>1, <3>2, <1>1 DEF Safe, OneProcessPerTerminal
      <3>4. QED
        BY <3>1, <3>3, <1>2, <1>8
    <2>2. \A t \in Terms : t = on_term[q] => StackOf(t)' = s[q]
      BY <1>1, <1>2, <1>8 DEF TypeOK
    <2>3. QED
      BY <2>1, <2>2
  <1>10. Run = on_term[q] /\ Run' = on_term[q]
    BY <1>1 DEF Run, Runnable
  <1>11. Stk[Run] = s[p] /\ Len(s[p]) > 1 /\ Front(s[p]) = s[q]
    <2>1. Stk[Run] = s[p]
      BY <1>1, <1>8, <1>10 DEF Stk
    <2>2. Len(Append(s[q], p)) = Len(s[q]) + 1
      BY <1>4
    <2>3. QED
      BY <2>1, <2>2, <1>1, <1>4, AppendFront
  <1>12. Stk' = [Stk EXCEPT ![Run] = Front(@)]
    <2>1. Stk' = [t \in Terms |-> StackOf(t)']
      BY DEF Stk
    <2>2. [Stk EXCEPT ![Run] = Front(@)]
            = [t \in Terms |-> IF t = Run THEN Front(Stk[Run]) ELSE StackOf(t)]
      BY <1>1, <1>10 DEF Stk
    <2>3. QED
      BY <2>1, <2>2, <1>9, <1>10, <1>11
  <1>13. Stacks!Pop
    <2>1. \A z : Stacks!Front(z) = Front(z)
      BY DEF Front, Stacks!Front
    <2>2. QED
      BY <2>1, <1>1, <1>10, <1>11, <1>12 DEF Stacks!Pop, Stk, Run
  <1>14. QED
    BY <1>7, <1>13


(* A launch while shells are missing starts the first missing shell: no    *)
(* program runs yet, so every stack is empty or its shell alone.           *)
LEMMA StartShellStep ==
  ASSUME TypeOK, Safe, NEW s, WellStacked(s), NEW p \in Pids, NEW c \in Pids,
         ~ShellsUp, IsFirstFree(c), LaunchPcb(p, c),
         mode' = [mode EXCEPT ![c] = "user"],
         \/ term_counter' = NextTerminal(term_counter)
         \/ c = 0 /\ term_counter' = term_counter
  PROVE  Stacked' /\ Stacks!StartShell
  <1>1. /\ Children = {} /\ Children' = {}
        /\ c \in Terms /\ ~Used(c)
        /\ ~Used(MAX_TERMS - 1) /\ MAX_TERMS - 1 \in Terms
        /\ parent' = parent
        /\ on_term' = [on_term EXCEPT ![c] = c]
        /\ active_pid' = [active_pid EXCEPT ![c] = c]
        /\ cpu' = c
        /\ \A r \in Pids : Used(r)' <=> Used(r) \/ r = c
    BY ShellLaunchFacts
  <1>2. \A x \in Pids : s[x] = <<x>> /\ ToSet(s[x]) = {x}
    <2>1. \A x \in Pids : s[x] = <<x>>
      BY <1>1 DEF WellStacked, IsChains
    <2>2. \A x : ToSet(<<x>>) = {x}
      BY DEF ToSet
    <2>3. QED
      BY <2>1, <2>2
  <1>3. ASSUME NEW x \in Pids, Used(x)
        PROVE  x \in Terms /\ on_term[x] = x /\ active_pid[x] = x
    <2>1. x \in Terms /\ on_term[x] = x
      BY <1>1, <1>3, Constants DEF Children, Safe, ShellsKeepTheirPids
    <2>2. x \in ToSet(s[active_pid[x]]) /\ active_pid[x] \in Pids
      BY <1>3, <2>1 DEF WellStacked, TypeOK
    <2>3. QED
      BY <2>1, <2>2, <1>2
  <1>4. ASSUME NEW x \in Pids, Used(x)'
        PROVE  x \in Terms /\ on_term'[x] = x /\ active_pid'[x] = x
    <2>1. CASE x = c
      BY <2>1, <1>1 DEF TypeOK
    <2>2. CASE x # c
      <3>1. x \in Terms /\ on_term[x] = x /\ active_pid[x] = x
        BY <2>2, <1>1, <1>3, <1>4
      <3>2. QED
        BY <2>2, <3>1, <1>1 DEF TypeOK
    <2>3. QED
      BY <2>1, <2>2
  <1>5. IsChains(s, Children', parent')
    BY <1>1 DEF WellStacked, IsChains
  <1>6. Stacked'
    <2>1. ASSUME NEW x \in Pids, Used(x)'
          PROVE  /\ x \in ToSet(s[active_pid'[on_term'[x]]])
                 /\ \A y \in ToSet(s[x]) : y = x
      <3>1. on_term'[x] = x /\ active_pid'[x] = x
        BY <2>1, <1>4
      <3>2. ToSet(s[x]) = {x}
        BY <1>2
      <3>3. active_pid'[on_term'[x]] = x
        BY <3>1, Zenon
      <3>4. QED
        BY <3>2, <3>3, Zenon
    <2>2. ASSUME NEW x \in Pids, Used(x)'
          PROVE  /\ x \in ToSet(s[active_pid'[on_term'[x]]])
                 /\ \A y \in ToSet(s[x]) :
                      /\ y \in Pids /\ Used(y)' /\ on_term'[y] = on_term'[x]
                      /\ y # x => mode'[y] = "exec" /\ Len(s[y]) < Len(s[x])
      <3>1. \A y \in ToSet(s[x]) : y = x
        BY <2>1, <2>2, Zenon
      <3>2. x \in ToSet(s[active_pid'[on_term'[x]]])
        BY <2>1, <2>2, Zenon
      <3>3. QED
        BY <2>2, <3>1, <3>2, Zenon
    <2>3. WellStacked(s)'
      BY <2>2, <1>5, Zenon DEF WellStacked
    <2>4. QED
      BY <2>3, Zenon DEF Stacked
  <1>7. /\ \A t \in Terms : StackOf(t) = IF Used(t) THEN <<t>> ELSE <<>>
        /\ \A t \in Terms : StackOf(t)' = IF t = c THEN <<t>> ELSE StackOf(t)
    <2>1. Chains(Children, parent) = s /\ Chains(Children', parent') = s
      BY <1>5, ChainsAreUnique DEF WellStacked
    <2>2. \A t \in Terms : t \in Pids /\ (Used(t)' <=> Used(t) \/ t = c)
      BY <1>1, Constants
    <2>3. ASSUME NEW t \in Terms PROVE StackOf(t) = IF Used(t) THEN <<t>> ELSE <<>>
      BY <2>1, <2>2, <1>2, <1>3 DEF StackOf
    <2>4. ASSUME NEW t \in Terms PROVE StackOf(t)' = IF Used(t)' THEN <<t>> ELSE <<>>
      BY <2>1, <2>2, <1>2, <1>4 DEF StackOf
    <2>5. QED
      BY <2>2, <2>3, <2>4
  <1>8. \A u \in Terms : (Stk[u] = <<>>) <=> u >= c
    <2>1. \A u \in Terms : Used(u) <=> u < c
      BY <1>1, Constants DEF IsFirstFree, FreePids, Safe, ShellsKeepTheirPids, Terms
    <2>2. \A u \in Terms : (Stk[u] = <<>>) <=> ~Used(u)
      BY <1>7 DEF Stk
    <2>3. QED
      BY <2>1, <2>2, <1>1 DEF Terms
  <1>9. Stk' = [Stk EXCEPT ![c] = <<c>>] /\ Run' = c
    <2>1. Stk' = [t \in Terms |-> StackOf(t)']
      BY DEF Stk
    <2>2. [Stk EXCEPT ![c] = <<c>>] = [t \in Terms |-> IF t = c THEN <<c>> ELSE StackOf(t)]
      BY <1>1 DEF Stk
    <2>3. Stk' = [Stk EXCEPT ![c] = <<c>>]
      BY <2>1, <2>2, <1>7
    <2>4. Run' = c
      BY <1>1 DEF Run, TypeOK
    <2>5. QED
      BY <2>3, <2>4
  <1>10. ~AllUpStk
    BY <1>1, <1>7 DEF AllUpStk, Stk
  <1>11. Stacks!StartShell
    BY <1>1, <1>8, <1>9, <1>10, StkTerms DEF Stacks!StartShell, NextTerminal, Stk, Run
  <1>12. QED
    BY <1>6, <1>11

(* A step that keeps the tables, who is used and who waits in execute      *)
(* keeps the stacks.                                                       *)
LEMMA SameStacks ==
  ASSUME TypeOK, NEW s, WellStacked(s),
         UNCHANGED <<parent, on_term, active_pid>>,
         \A r \in Pids : Used(r)' = Used(r) /\ (mode'[r] = "exec") = (mode[r] = "exec")
  PROVE  Stacked' /\ Stk' = Stk
  <1>1. Children' = Children
    BY DEF Children
  <1>2. WellStacked(s)'
    BY <1>1 DEF WellStacked
  <1>3. \A t \in Terms : StackOf(t)' = StackOf(t)
    BY <1>1, Constants DEF StackOf
  <1>4. Stk' = Stk
    BY <1>3 DEF Stk
  <1>5. QED
    BY <1>2, <1>4 DEF Stacked

(* schedule() passes the CPU to the top of the next terminal. *)
LEMMA TurnStep ==
  ASSUME TypeOK, Safe, NEW s, WellStacked(s), NEW p \in Pids, cpu = p,
         term_counter' = NextTerminal(term_counter), term_counter' \in Terms,
         SwitchTo(p, active_pid[term_counter'])
  PROVE  Stacked' /\ Stacks!Turn
  <1> DEFINE t == term_counter'
             next == active_pid[t]
  <1>1. /\ \A u \in Terms : Used(u)
        /\ Runnable(next) /\ next \in Pids
        /\ cpu' = next
        /\ UNCHANGED <<mode, parent, on_term, active_pid>>
        /\ \A r \in Pids : Used(r)' = Used(r)
    BY SwitchToFacts
  <1>2. Stacked' /\ Stk' = Stk
    BY <1>1, SameStacks
  <1>3. on_term[next] = t
    BY <1>1 DEF Safe, OneProcessPerTerminal
  <1>4. Run' = t
    BY <1>1, <1>3 DEF Run, Runnable
  <1>5. AllUpStk
    <2>1. MAX_TERMS - 1 \in Terms
      BY KernelAssumption DEF Terms
    <2>2. Stk[MAX_TERMS - 1] = s[active_pid[MAX_TERMS - 1]]
      BY <2>1, <1>1, StackIsChain DEF Stk
    <2>3. QED
      BY <2>1, <2>2, ChainEnds DEF AllUpStk, TypeOK
  <1>6. Stacks!Turn
    BY <1>2, <1>4, <1>5, StkTerms DEF Stacks!Turn, NextTerminal, Stk, Run
  <1>7. QED
    BY <1>2, <1>6


(* Every other step leaves the stacks, the turn and the CPU's terminal.    *)
LEMMA StacksStep ==
  ASSUME IInv, Stacked, CarefulUser, [Next]_vars
  PROVE  Stacked' /\ [Stacks!Next]_(Stacks!vars)
  <1> PICK s : WellStacked(s)
    BY DEF Stacked
  <1>0. TypeOK /\ Safe /\ cpu \in Pids /\ mode[cpu] # "free"
    BY DEF IInv, Safe, RunningOwnsTheMachine, TypeOK
  <1> USE <1>0
  <1> DEFINE Stutters == Stk' = Stk /\ Run' = Run /\ term_counter' = term_counter
  <1>1. Stutters => [Stacks!Next]_(Stacks!vars)
    BY DEF Stacks!vars, Stk, Run
  <1>2. ASSUME UNCHANGED <<parent, on_term, active_pid, cpu, term_counter>>,
               \A r \in Pids : Used(r)' = Used(r) /\ (mode'[r] = "exec") = (mode[r] = "exec")
        PROVE  Stacked' /\ Stutters
    <2>1. Stacked' /\ Stk' = Stk
      BY <1>2, SameStacks
    <2>2. Run' = Run
      BY <1>2 DEF Run
    <2>3. QED
      BY <2>1, <2>2, <1>2
  <1> HIDE DEF Stutters
  <1>3. CASE UNCHANGED vars
    BY <1>1, <1>2, <1>3 DEF vars, pcbVars, termVars, Used
  <1>4. CASE BootTables
    <2>1. \A q \in Pids : ~Used(q) /\ q \notin Children
      BY <1>4 DEF BootTables, Safe, ShellsKeepTheirPids, Used, Children
    <2>2. mode' = [p \in Pids |-> IF p = cpu THEN "ready" ELSE "free"]
      BY <1>4 DEF BootTables
    <2>3. \A q \in Pids : ~Used(q)' /\ q \notin Children'
      BY <2>2 DEF Used, Children
    <2>4. cpu' = cpu /\ term_counter' = term_counter /\ UNCHANGED parent
      BY <1>4 DEF BootTables, pcbVars
    <2>5. IsChains(s, Children', parent')
      <3>1. Children' = Children
        BY <2>1, <2>3 DEF Children
      <3>2. QED
        BY <3>1, <2>4 DEF WellStacked
    <2>6. Stacked'
      BY <2>3, <2>5 DEF Stacked, WellStacked
    <2>7. Stk' = Stk
      <3>1. \A t \in Terms : StackOf(t) = <<>> /\ StackOf(t)' = <<>>
        BY <2>1, <2>3, Constants DEF StackOf
      <3>2. QED
        BY <3>1 DEF Stk
    <2>8. Run' = Run
      BY <2>1, <2>3, <2>4 DEF Run
    <2>9. QED
      BY <2>4, <2>6, <2>7, <2>8, <1>1 DEF Stutters
  <1>5. CASE BootExecute
    <2>1. PICK c \in Pids :
            IsFirstFree(c) /\ LaunchPcb(cpu, c) /\ mode' = [mode EXCEPT ![c] = "user"]
      BY <1>5 DEF BootExecute
    <2>2. cpu = 0 /\ \A q \in Pids : ~Used(q)
      BY <1>5 DEF BootExecute, Safe, ShellsKeepTheirPids, Used
    <2>3. ~ShellsUp
      BY <2>2, Constants DEF ShellsUp
    <2>4. c = 0
      BY <2>1, <2>2, Constants DEF IsFirstFree, FreePids, Pids
    <2>5. term_counter' = term_counter
      BY <1>5 DEF BootExecute
    <2>6. QED
      BY <2>1, <2>3, <2>4, <2>5, StartShellStep DEF Stacks!Next
  <1>6. ASSUME NEW p \in Pids,
               EnterIo(p) \/ LeaveIo(p) \/ ExecuteFails(p) \/ ExecuteFull(p) \/ Fault(p) \/ Vidmap(p)
        PROVE  Stacked' /\ [Stacks!Next]_(Stacks!vars)
    <2>1. UNCHANGED <<parent, on_term, active_pid, cpu, term_counter>>
      BY <1>6 DEF EnterIo, LeaveIo, ExecuteFails, ExecuteFull, Fault, Vidmap, pcbVars, termVars
    <2>2. \/ mode' = mode
          \/ /\ mode[p] \in {"user", "io", "refused"}
             /\ \E m \in {"user", "io", "refused", "fault"} : mode' = [mode EXCEPT ![p] = m]
      BY <1>6 DEF EnterIo, LeaveIo, ExecuteFails, ExecuteFull, Fault, Vidmap, InUser
    <2>3. \A r \in Pids : Used(r)' = Used(r) /\ (mode'[r] = "exec") = (mode[r] = "exec")
      BY <2>2 DEF Used, TypeOK
    <2>4. QED
      BY <2>1, <2>3, <1>1, <1>2
  <1>7. ASSUME NEW p \in Pids, NEW c \in Pids, Execute(p, c)
        PROVE  Stacked' /\ [Stacks!Next]_(Stacks!vars)
    BY <1>7, PushStep DEF Stacks!Next
  <1>8. ASSUME NEW p \in Pids, (\E st \in Statuses : Halt(p, st)) \/ FaultHalt(p)
        PROVE  Stacked' /\ [Stacks!Next]_(Stacks!vars)
    <2>1. cpu = p /\ mode[p] \in {"user", "fault"}
      BY <1>8 DEF Halt, FaultHalt, InUser
    <2>2. ASSUME NEW st, NEW isr, HaltChild(p, st, isr)
          PROVE  Stacked' /\ [Stacks!Next]_(Stacks!vars)
      BY <2>1, <2>2, PopStep DEF Stacks!Next
    <2>3. ASSUME HaltShell(p) PROVE Stacked' /\ [Stacks!Next]_(Stacks!vars)
      <3>1. /\ UNCHANGED <<parent, on_term, active_pid, term_counter>> /\ cpu' = cpu
            /\ \A r \in Pids : Used(r)' = Used(r) /\ (mode'[r] = "exec") = (mode[r] = "exec")
        BY <2>1, <2>3, HaltShellFacts
      <3>2. QED
        BY <3>1, <1>1, <1>2
    <2>4. QED
      BY <1>8, <2>2, <2>3 DEF Halt, FaultHalt
  <1>9. ASSUME NEW p \in Pids, Tick(p)
        PROVE  Stacked' /\ [Stacks!Next]_(Stacks!vars)
    <2>1. /\ cpu = p /\ term_counter' = NextTerminal(term_counter)
          /\ term_counter' \in Terms
      BY <1>9, TickType DEF Tick, TypeOK
    <2>2. ASSUME NEW c \in Pids, LaunchShell(p, c)
          PROVE  Stacked' /\ [Stacks!Next]_(Stacks!vars)
      BY <2>1, <2>2, StartShellStep DEF LaunchShell, Stacks!Next
    <2>3. ASSUME SwitchTo(p, active_pid[term_counter'])
          PROVE  Stacked' /\ [Stacks!Next]_(Stacks!vars)
      BY <2>1, <2>3, TurnStep DEF Stacks!Next
    <2>4. QED
      BY <1>9, <2>2, <2>3 DEF Tick
  <1>10. ASSUME NEW p \in Pids, NEW t \in Terms, SwitchTerminal(p, t)
         PROVE  Stacked' /\ [Stacks!Next]_(Stacks!vars)
    BY <1>1, <1>2, <1>10 DEF SwitchTerminal, pcbVars, Used
  <1>11. QED
    BY <1>3, <1>4, <1>5, <1>6, <1>7, <1>8, <1>9, <1>10 DEF Next, Syscall

(* The table starts with no process: its stacks are empty. *)
LEMMA InitStacks ==
  ASSUME Init
  PROVE  Stacked /\ Stacks!Init
  <1>1. \A p \in Pids : ~Used(p)
    BY DEF Init, Used, Pids
  <1>2. Children = {} /\ ~Used(cpu)
    BY <1>1, Constants DEF Children, Init
  <1> DEFINE s == [p \in Pids |-> <<p>>]
  <1>3. WellStacked(s)
    BY <1>1, <1>2 DEF WellStacked, IsChains
  <1>4. \A t \in Terms : StackOf(t) = <<>>
    BY <1>1, Constants DEF StackOf
  <1>5. Stk = [t \in Terms |-> <<>>] /\ Run = 0
    BY <1>2, <1>4 DEF Stk, Run
  <1>6. QED
    BY <1>3, <1>5, StkTerms DEF Stacked, Stacks!Init, Stk, Run, Init

(* The process layer implements the terminal stacks, and the stacks are    *)
(* all the processes there are, for a careful user: execute pushes, halt   *)
(* pops, the clock turns, and nothing else disturbs a stack.               *)
THEOREM ProcessesAreStacks == CarefulUser => (Spec => ImplementsStacks)
  <1> SUFFICES ASSUME CarefulUser PROVE Spec => ImplementsStacks
    OBVIOUS
  <1>1. Spec => []IInv
    BY KernelInvariant
  <1>2. Init => Stacked /\ Stacks!Init
    BY InitStacks
  <1>3. IInv /\ Stacked /\ [Next]_vars => Stacked' /\ [Stacks!Next]_(Stacks!vars)
    BY StacksStep
  <1>4. IInv /\ Stacked => StacksHoldAllProcesses
    BY StacksAreAll
  <1>5. QED
    BY <1>1, <1>2, <1>3, <1>4, PTL DEF Spec, ImplementsStacks, Stacks!Spec
=============================================================================
