---------------------------- MODULE AlarmService ----------------------------
(***************************************************************************)
(* What hal/Notifier promises its callers, without threads, locks or an    *)
(* alarm register: every open notifier has a deadline and a report; a      *)
(* deadline that has passed is reported, once, with a time after it, and   *)
(* only while it is still set.                                             *)
(***************************************************************************)
EXTENDS Integers

CONSTANTS Notifiers, MaxTime

Never == MaxTime + 1

VARIABLES clock, status, deadline, report, active, halted

vars == <<clock, status, deadline, report, active, halted>>

Init ==
  /\ clock = 0
  /\ status = [n \in Notifiers |-> "new"]
  /\ deadline = [n \in Notifiers |-> Never]
  /\ report = [n \in Notifiers |-> Never]
  /\ active = [n \in Notifiers |-> TRUE]
  /\ halted = FALSE

Tick ==
  /\ clock < MaxTime
  /\ clock' = clock + 1
  /\ UNCHANGED <<status, deadline, report, active, halted>>

Open(n) ==
  /\ status[n] = "new"
  /\ status' = [status EXCEPT ![n] = "open"]
  /\ UNCHANGED <<clock, deadline, report, active, halted>>

Close(n) ==
  /\ status[n] = "open"
  /\ status' = [status EXCEPT ![n] = "closed"]
  /\ UNCHANGED <<clock, deadline, report, active, halted>>

\* A call that found its notifier open may finish after the notifier is closed.
Arm(n, time) ==
  /\ status[n] # "new"
  /\ deadline' = [deadline EXCEPT ![n] = time]
  /\ report' = [report EXCEPT ![n] = Never]
  /\ UNCHANGED <<clock, status, active, halted>>

Cancel(n) ==
  /\ status[n] # "new"
  /\ deadline' = [deadline EXCEPT ![n] = Never]
  /\ UNCHANGED <<clock, status, report, active, halted>>

Stop(n) ==
  /\ status[n] # "new"
  /\ deadline' = [deadline EXCEPT ![n] = Never]
  /\ report' = [report EXCEPT ![n] = 0]
  /\ active' = [active EXCEPT ![n] = FALSE]
  /\ UNCHANGED <<clock, status, halted>>

Fire(n) ==
  /\ status[n] = "open"
  /\ \E time \in 0 .. clock :
       /\ deadline[n] < time
       /\ report' = [report EXCEPT ![n] = time]
  /\ deadline' = [deadline EXCEPT ![n] = Never]
  /\ UNCHANGED <<clock, status, active, halted>>

Halt ==
  /\ halted' = TRUE
  /\ UNCHANGED <<clock, status, deadline, report, active>>

Next ==
  /\ ~halted
  /\ \/ Tick \/ Halt
     \/ \E n \in Notifiers :
          \/ Open(n) \/ Close(n) \/ Cancel(n) \/ Stop(n) \/ Fire(n)
          \/ \E time \in 0 .. Never : Arm(n, time)

Spec == Init /\ [][Next]_vars

FairSpec == Spec /\ \A n \in Notifiers : WF_vars(~halted /\ Fire(n))
=============================================================================
