---------------------------- MODULE ProgramLock ----------------------------
(***************************************************************************)
(* cpp/HAL.cpp, killExistingProgram: a robot program that starts kills the *)
(* one whose process id is in /var/lock/frc.pid and leaves its own there.  *)
(* Programs may crash at any time and leave the file behind, and the       *)
(* system may give their process ids to new programs.                      *)
(***************************************************************************)
EXTENDS Integers

CONSTANTS
  Programs,   \* every program ever started
  Pids,       \* the process ids they get: not 1, init, nor 0, what an empty file gives
  Foreign,    \* programs of another user, which kill() may not touch
  Overlap     \* whether a program may start while another one does

ASSUME ProgramAssumption ==
  Pids \subseteq Nat \ {0, 1} /\ Foreign \subseteq Programs /\ Overlap \in BOOLEAN

VARIABLES
  frcPid,     \* the id in the file, 0 if it is missing or empty
  programPc,         \* each program's next step
  pid,        \* its process id, 0 if it has not started
  target,     \* the local pid of killExistingProgram
  victims,    \* ghost: who sent SIGTERM or SIGKILL to a program
  previous    \* ghost: the programs that ran when it read the file

lockVars == <<frcPid, programPc, pid, target, victims, previous>>

LockSteps == {"new", "open", "term", "check", "truncate", "write", "running", "dead"}

Alive(p) == programPc[p] \notin {"new", "dead"}
Starting(p) == programPc[p] \in {"open", "term", "check", "truncate", "write"}

\* kill(id, 0) == 0
Around(id) == \E q \in Programs \ Foreign : Alive(q) /\ pid[q] = id

LockInit ==
  /\ frcPid = 0
  /\ programPc = [p \in Programs |-> "new"]
  /\ pid = [p \in Programs |-> 0]
  /\ target = [p \in Programs |-> 0]
  /\ victims = [p \in Programs |-> {}]
  /\ previous = [p \in Programs |-> {}]

Start(p) ==
  /\ programPc[p] = "new"
  /\ Overlap \/ ~\E q \in Programs : Starting(q)
  /\ \E id \in Pids :
       /\ ~\E q \in Programs : Alive(q) /\ pid[q] = id
       /\ pid' = [pid EXCEPT ![p] = id]
  /\ programPc' = [programPc EXCEPT ![p] = "open"]
  /\ UNCHANGED <<frcPid, target, victims, previous>>

\* A crash, a SIGTERM that works late, the end of a match.
Die(p) ==
  /\ Alive(p)
  /\ programPc' = [programPc EXCEPT ![p] = "dead"]
  /\ UNCHANGED <<frcPid, pid, target, victims, previous>>

\* Mutated form: a reused id may be our own.
NotInit(p, id) == id >= 2

\* "we don't want to mess with init id=1, or ourselves"
Existing(p, id) == id >= 2 /\ id # pid[p]

\* fs >> pid, kill(pid, 0)
ReadPid(p) ==
  /\ programPc[p] = "open"
  /\ target' = [target EXCEPT ![p] = frcPid]
  /\ previous' = [previous EXCEPT ![p] = {q \in Programs : programPc[q] = "running"}]
  /\ programPc' = [programPc EXCEPT ![p] =
       IF Existing(p, frcPid) /\ Around(frcPid) THEN "term" ELSE "truncate"]
  /\ UNCHANGED <<frcPid, pid, victims>>

\* Whoever has the id now is sent a signal: the id may have changed hands.
Signalled(p) == {q \in Programs \ Foreign : Alive(q) /\ pid[q] = target[p]}

Signal(p) == victims' = [q \in Programs |-> IF q \in Signalled(p) THEN victims[q] \cup {p}
                                                                  ELSE victims[q]]

\* SIGTERM, and a sleep in which the program may die or not
Terminate(p) ==
  /\ programPc[p] = "term"
  /\ Signal(p)
  /\ programPc' = [programPc EXCEPT ![p] = "check"]
  /\ UNCHANGED <<frcPid, pid, target, previous>>

\* Mutated form: nobody is killed.
Spared(p) == {}

\* SIGKILL kills what it may, within the 250 ms that follow.
Killed(p) == Signalled(p)

ForceKill(p) ==
  /\ programPc[p] = "check"
  /\ IF Around(target[p]) THEN Signal(p) ELSE UNCHANGED victims
  /\ programPc' = [q \in Programs |->
              IF q \in Killed(p) THEN "dead" ELSE IF q = p THEN "truncate" ELSE programPc[q]]
  /\ UNCHANGED <<frcPid, pid, target, previous>>

Truncate(p) ==
  /\ programPc[p] = "truncate"
  /\ frcPid' = 0
  /\ programPc' = [programPc EXCEPT ![p] = "write"]
  /\ UNCHANGED <<pid, target, victims, previous>>

\* fs << getpid(); return true
WritePid(p) ==
  /\ programPc[p] = "write"
  /\ frcPid' = pid[p]
  /\ programPc' = [programPc EXCEPT ![p] = "running"]
  /\ UNCHANGED <<pid, target, victims, previous>>

LockNext == \E p \in Programs :
  \/ Start(p) \/ Die(p) \/ ReadPid(p) \/ Terminate(p) \/ ForceKill(p)
  \/ Truncate(p) \/ WritePid(p)

LockSpec == LockInit /\ [][LockNext]_lockVars

-----------------------------------------------------------------------------
\* "Kill any previous robot programs": once a program runs, no program that ran
\* before it does, whatever crashed on the way and left its id in the file.
KillsPrevious ==
  \A p \in Programs : programPc[p] = "running" => \A q \in previous[p] : programPc[q] = "dead"

\* However process ids are reused, no program sends a signal to itself.
NeverKillsItself == \A p \in Programs : p \notin victims[p]

=============================================================================
