----------------------------- MODULE MCNotifier -----------------------------
(* Instances of Notifier for TLC. *)
EXTENDS Notifier, TLC

Symmetry == Permutations(Threads) \cup Permutations(Notifiers)

\* The state without the fields of a cleaned notifier that no call refers to,
\* which no step reads again.
InUse(n) == obj[n] # "freed" \/ \E t \in Threads : arg[t].n = n

LiveState ==
  <<hardware, obj, locking, threading, pc, arg, nt, callback,
    [n \in Notifiers |->
       IF InUse(n) THEN <<triggerTime[n], triggeredTime[n], active[n]>> ELSE <<>>]>>
=============================================================================
