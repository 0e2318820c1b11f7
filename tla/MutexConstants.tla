--------------------------- MODULE MutexConstants ---------------------------
(* Who holds a mutex: one of the threads, or none. *)
EXTENDS ThreadConstants

CONSTANT NoThread

ASSUME ThreadAssumption == NoThread \notin Threads
=============================================================================
