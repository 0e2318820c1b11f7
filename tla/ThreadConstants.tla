-------------------------- MODULE ThreadConstants --------------------------
(* The threads of the program, which the components of one run share. *)
CONSTANT Threads
=============================================================================
