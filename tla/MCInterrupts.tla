---------------------------- MODULE MCInterrupts ----------------------------
(* Interrupts with two processes that both read the RTC and set its         *)
(* frequency.                                                               *)
EXTENDS Interrupts
=============================================================================
