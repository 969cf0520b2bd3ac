-------------------------- MODULE MCLineDiscipline --------------------------
(* LineDiscipline with rings of seven slots, short of room for three three- *)
(* byte commands, a driver whose room may end inside a command, and four    *)
(* packets of which a byte or two may be lost.                              *)
EXTENDS LineDiscipline
=============================================================================
