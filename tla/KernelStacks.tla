---------------------------- MODULE KernelStacks ----------------------------
(***************************************************************************)
(* Kernel implements TerminalStacks: the stack of a terminal is the chain  *)
(* of parent pointers from its active_pid down to its shell.               *)
(***************************************************************************)
EXTENDS Kernel, SequencesExt

(* Each process on top of its callers, from the shell up. *)
Chains(children, caller) ==
    LET chain[p \in Pids] ==
            IF p \in children THEN Append(chain[caller[p]], p) ELSE <<p>>
    IN  chain

StackOf(t) == IF Used(t) THEN Chains(Children, parent)[active_pid[t]] ELSE <<>>

Stacks == INSTANCE TerminalStacks WITH
    NumTerms <- MAX_TERMS,
    Processes <- Pids,
    stacks <- [t \in Terms |-> StackOf(t)],
    turn <- term_counter,
    running <- IF Used(cpu) THEN on_term[cpu] ELSE 0

(* No pid leaks into a cycle or under a parent that is gone.               *)
StacksHoldAllProcesses ==
    {p \in Pids : Used(p)} = UNION {ToSet(StackOf(t)) : t \in Terms}

(* execute() and halt() treat each terminal as a stack of processes whose  *)
(* bottom is its shell, and only the top of a stack ever gets the CPU; the *)
(* stacks are all the processes there are.                                 *)
ImplementsStacks == Stacks!Spec /\ []StacksHoldAllProcesses
=============================================================================
