--------------------------- MODULE MCTerminalRead ---------------------------
(* TerminalRead on three terminals: one process reads, one writes, one does *)
(* both.                                                                    *)
EXTENDS TerminalRead
=============================================================================
