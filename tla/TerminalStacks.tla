--------------------------- MODULE TerminalStacks ---------------------------
(***************************************************************************)
(* What the process layer of the empee3 kernel promises: every terminal is *)
(* a stack of processes.  A program runs on top of the one that executed   *)
(* it, and its end uncovers that one; the tops take turns on the CPU, one  *)
(* terminal after the other; a shell at the bottom never goes away.        *)
(***************************************************************************)
EXTENDS Integers, Sequences, SequencesExt

CONSTANTS NumTerms, Processes

Terminals == 0 .. NumTerms - 1

VARIABLES stacks,    \* the processes of each terminal, its shell first
          turn,      \* where the round-robin has come to
          running    \* the terminal whose top process has the CPU

vars == <<stacks, turn, running>>

Init ==
    /\ stacks = [t \in Terminals |-> <<>>]
    /\ turn = 0
    /\ running = 0

InUse == UNION {ToSet(stacks[t]) : t \in Terminals}
AllUp == stacks[NumTerms - 1] # <<>>

(* A terminal comes up with its shell, the process of the same number; the *)
(* first one may come up before the first tick.                            *)
StartShell ==
    /\ ~AllUp
    /\ \E t \in Terminals :
         /\ \A u \in Terminals : (stacks[u] = <<>>) <=> (u >= t)
         /\ stacks' = [stacks EXCEPT ![t] = <<t>>]
         /\ running' = t
         /\ \/ turn' = (turn + 1) % NumTerms
            \/ t = 0 /\ turn' = turn

(* The running process executes a program and waits under it. *)
Push ==
    /\ AllUp
    /\ UNCHANGED <<turn, running>>
    /\ Len(stacks'[running]) = Len(stacks[running]) + 1
    /\ \E p \in Processes \ InUse :
         stacks' = [stacks EXCEPT ![running] = Append(@, p)]

(* The running program ends and the process that executed it runs again. *)
Pop ==
    /\ UNCHANGED <<turn, running>>
    /\ Len(stacks[running]) > 1
    /\ stacks' = [stacks EXCEPT ![running] = Front(@)]

(* The clock passes the CPU to the top of the next terminal. *)
Turn ==
    /\ AllUp
    /\ turn' = (turn + 1) % NumTerms
    /\ running' = turn'
    /\ UNCHANGED stacks

Next == StartShell \/ Push \/ Pop \/ Turn

Spec == Init /\ [][Next]_vars
=============================================================================
