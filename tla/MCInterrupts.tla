---------------------------- MODULE MCInterrupts ----------------------------
(* An instance of Interrupts for TLC. *)
EXTENDS Interrupts
=============================================================================
