-------------------------- MODULE TerminalGlobals --------------------------
(* What TerminalRead and LineEditor share of terminal.h and terminal.c: the *)
(* terminals, the size of a keyboard buffer, the terminal displayed.        *)
EXTENDS Integers

CONSTANTS MAX_TERMS,       \* 3, terminal.h:23
          BUFFER_SIZE      \* 128, terminal.h:15

VARIABLE curr_terminal     \* the terminal displayed

Terms == 0 .. MAX_TERMS - 1
=============================================================================
