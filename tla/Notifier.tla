------------------------------ MODULE Notifier ------------------------------
(***************************************************************************)
(* cpp/Notifier.cpp: the API threads that start, re-arm, cancel, stop and  *)
(* wait for notifiers, the one notifier thread that serves them all, and   *)
(* the single FPGA alarm they share.                                       *)
(*                                                                         *)
(* A critical section that takes one lock and blocks on nothing is one     *)
(* step; the two sections of HAL_UpdateNotifierAlarm, the two registers an *)
(* arming writes, and every visit of alarmCallback's ForEach are steps of  *)
(* their own.  The only unlocked read, triggerTime in alarmCallback, races *)
(* with locked 64-bit writes; a torn value differs from UINT64_MAX and is  *)
(* read again under the lock, so old-or-new covers every outcome.          *)
(***************************************************************************)
EXTENDS Integers

CONSTANTS
  Threads,         \* the threads that call the HAL
  Notifiers,       \* every Notifier object make_shared ever returns
  NotifierThread,  \* the std::thread of HAL_InitializeNotifier
  None,            \* the holder of a free mutex, the notifier of no call
  MaxTime,         \* the clock's bound: the largest time below UINT64_MAX
  Wrap,            \* the width of the alarm register, 2^32 in the FPGA
  ExitAllowed      \* whether a thread may call exit()

ASSUME ConstantsAssumption ==
  /\ MaxTime \in Nat
  /\ Wrap \in Nat \ {0}
  /\ ExitAllowed \in BOOLEAN
  /\ NotifierThread \notin Threads
  /\ None \notin Threads \cup Notifiers \cup {NotifierThread}

Never == MaxTime + 1            \* UINT64_MAX
Times == 0 .. Never

VARIABLES
  clock, alarm, irq,                    \* the FPGA: time, alarm, Irq_28
  obj,                                  \* where each object is in its life
  triggerTime, triggeredTime, active,   \* the fields of each Notifier
  notifierMutex, closestTrigger, runNotifierThread, notifierRefCount,
  pc, arg,       \* each API thread's next step, and what it is about
  nt,            \* the notifier thread's next step
  currentTime,   \* alarmCallback's local
  todo, cur      \* what a ForEach has not visited, and what it is visiting

hardware == <<clock, alarm, irq>>
fields == <<triggerTime, triggeredTime, active>>
locking == <<notifierMutex, closestTrigger>>
threading == <<runNotifierThread, notifierRefCount>>
callback == <<currentTime, todo, cur>>
vars == <<hardware, obj, fields, locking, threading, pc, arg, nt, callback>>

ForEachSteps == {"scan", "visit", "notify"}
ThreadSteps == {"idle", "create", "allocate", "stop", "clean", "notify",
                "cleanNotify", "update", "updateLock", "moveTime",
                "writeTime", "writeEnable", "cancel", "wait", "blocked",
                "join", "destroy", "terminated", "exited"}
ServiceSteps == ForEachSteps \cup {"none", "check", "wait", "woken", "lock",
                                   "armEnable", "done"}

\* Every variable holds a value of its C++ type, every step is one of the code's.
TypeOK ==
  /\ clock \in 0 .. MaxTime
  /\ alarm \in [time : 0 .. Wrap - 1, enabled : BOOLEAN]
  /\ irq \in BOOLEAN
  /\ obj \in [Notifiers -> {"fresh", "claimed", "live", "freed"}]
  /\ triggerTime \in [Notifiers -> Times]
  /\ triggeredTime \in [Notifiers -> Times]
  /\ active \in [Notifiers -> BOOLEAN]
  /\ notifierMutex \in Threads \cup {NotifierThread, None}
  /\ closestTrigger \in Times
  /\ runNotifierThread \in BOOLEAN
  /\ notifierRefCount \in Int
  /\ pc \in [Threads -> ThreadSteps]
  /\ arg \in [Threads -> [n : Notifiers \cup {None}, time : Times]]
  /\ nt \in ServiceSteps
  /\ currentTime \in 0 .. MaxTime
  /\ todo \subseteq Notifiers
  /\ cur \in Notifiers \cup {None}

NoArg == [n |-> None, time |-> 0]

Init ==
  /\ clock = 0
  /\ alarm = [time |-> 0, enabled |-> FALSE]
  /\ irq = FALSE
  /\ obj = [n \in Notifiers |-> "fresh"]
  /\ triggerTime = [n \in Notifiers |-> Never]
  /\ triggeredTime = [n \in Notifiers |-> Never]
  /\ active = [n \in Notifiers |-> TRUE]
  /\ notifierMutex = None
  /\ closestTrigger = Never
  /\ runNotifierThread = FALSE
  /\ notifierRefCount = 0
  /\ pc = [t \in Threads |-> "idle"]
  /\ arg = [t \in Threads |-> NoArg]
  /\ nt = "none"
  /\ currentTime = 0
  /\ todo = {}
  /\ cur = None

-----------------------------------------------------------------------------
(* The FPGA.  Its alarm compares the low bits of the time and disables     *)
(* itself when it fires; a trigger that has just passed fires too, which   *)
(* alarmCallback relies on when it re-arms a time the clock has reached.   *)

\* Mutated form: the time is not truncated.
WholeTime(t) == t

\* "Simply truncate the hardware trigger time to 32-bit."
HardwareTime(t) == t % Wrap

Reached(now, t) == 2 * ((now - t) % Wrap) < Wrap

Tick ==
  /\ clock < MaxTime
  /\ clock' = clock + 1
  /\ UNCHANGED <<alarm, irq, obj, fields, locking, threading, pc, arg, nt, callback>>

AlarmFires ==
  /\ alarm.enabled
  /\ Reached(clock, alarm.time)
  /\ alarm' = [alarm EXCEPT !.enabled = FALSE]
  /\ irq' = TRUE
  /\ UNCHANGED <<clock, obj, fields, locking, threading, pc, arg, nt, callback>>

-----------------------------------------------------------------------------
(* The handle table, UnlimitedHandleResource: its lock is held for the     *)
(* whole of a ForEach, so Get, Allocate and Free wait for one to end.      *)

\* Mutated form: the table is not locked.
HandleTableUnlocked == TRUE

HandleTableFree == nt \notin ForEachSteps /\ \A t \in Threads : pc[t] # "destroy"

\* The next step of thread t; a call that returns loses its locals.
Goto(t, step) == pc' = [pc EXCEPT ![t] = step]
Drop(t) == arg' = [arg EXCEPT ![t] = NoArg]
Return(t) == Goto(t, "idle") /\ Drop(t)

\* HAL_X(handle, ...): Get the notifier and go on to X's first section.
Call(t, n, step, time) ==
  /\ pc[t] = "idle" /\ Goto(t, step)
  /\ HandleTableFree
  /\ obj[n] = "live"
  /\ arg' = [arg EXCEPT ![t] = [n |-> n, time |-> time]]
  /\ UNCHANGED <<hardware, obj, fields, locking, threading, nt, callback>>

\* Any call on a notifier that was cleaned: Get or Free finds none, early return.
CallStale(t, n) ==
  /\ pc[t] = "idle"
  /\ HandleTableFree
  /\ obj[n] = "freed"
  /\ UNCHANGED vars

CallUpdate(t, n) == \E time \in Times : Call(t, n, "update", time)
CallStop(t, n) == Call(t, n, "stop", 0)
CallCancel(t, n) == Call(t, n, "cancel", 0)
CallWait(t, n) == Call(t, n, "wait", 0)

\* Mutated form: notify_one.
NotifyOne(n, p) ==
  LET asleep == {t \in Threads : p[t] = "blocked" /\ arg[t].n = n}
  IN  [t \in Threads |->
         IF asleep # {} /\ t = (CHOOSE u \in asleep : TRUE) THEN "wait" ELSE p[t]]

\* notify_all: every thread blocked on n's condition looks again.
NotifyAll(n, p) ==
  [t \in Threads |-> IF p[t] = "blocked" /\ arg[t].n = n THEN "wait" ELSE p[t]]

\* triggerTime = UINT64_MAX; triggeredTime = 0; active = false
Deactivate(n) ==
  /\ triggerTime' = [triggerTime EXCEPT ![n] = Never]
  /\ triggeredTime' = [triggeredTime EXCEPT ![n] = 0]
  /\ active' = [active EXCEPT ![n] = FALSE]

-----------------------------------------------------------------------------
(* HAL_InitializeNotifier: atexit and fetch_add, the thread, the handle *)

AtexitRegistered == \E n \in Notifiers : obj[n] # "fresh"

InitializeCount(t, n) ==
  /\ pc[t] = "idle" /\ Goto(t, IF notifierRefCount = 0 THEN "create" ELSE "allocate")
  /\ obj[n] = "fresh"
  /\ obj' = [obj EXCEPT ![n] = "claimed"]
  /\ notifierRefCount' = notifierRefCount + 1
  /\ arg' = [arg EXCEPT ![t] = [n |-> n, time |-> 0]]
  /\ UNCHANGED <<hardware, fields, locking, runNotifierThread, nt, callback>>

\* notifierThreadCreated is never set, so the thread is always created; the
\* assignment to a std::thread that is still joinable is std::terminate.
InitializeCreate(t) ==
  /\ pc[t] = "create"
  /\ notifierMutex = None
  /\ runNotifierThread' = TRUE
  /\ IF nt = "none" THEN nt' = "check" /\ Goto(t, "allocate")
                    ELSE UNCHANGED nt /\ Goto(t, "terminated")
  /\ UNCHANGED <<hardware, obj, fields, locking, notifierRefCount, arg, callback>>

InitializeAllocate(t) ==
  /\ pc[t] = "allocate" /\ Return(t)
  /\ HandleTableFree
  /\ obj' = [obj EXCEPT ![arg[t].n] = "live"]
  /\ UNCHANGED <<hardware, fields, locking, threading, nt, callback>>

(* HAL_StopNotifier, and HAL_CleanNotifier, whose last step is fetch_sub *)

CallClean(t, n) ==
  /\ pc[t] = "idle" /\ Goto(t, "clean")
  /\ HandleTableFree
  /\ obj[n] = "live"
  /\ obj' = [obj EXCEPT ![n] = "freed"]
  /\ arg' = [arg EXCEPT ![t] = [n |-> n, time |-> 0]]
  /\ UNCHANGED <<hardware, fields, locking, threading, nt, callback>>

StopSection(t) ==
  /\ \/ pc[t] = "stop" /\ Goto(t, "notify")
     \/ pc[t] = "clean" /\ Goto(t, "cleanNotify")
  /\ Deactivate(arg[t].n)
  /\ UNCHANGED <<hardware, obj, locking, threading, arg, nt, callback>>

StopNotify(t) ==
  /\ pc[t] \in {"notify", "cleanNotify"}
  /\ pc' = [NotifyAll(arg[t].n, pc) EXCEPT ![t] = "idle"] /\ Drop(t)
  /\ notifierRefCount' = notifierRefCount - (IF pc[t] = "notify" THEN 0 ELSE 1)
  /\ UNCHANGED <<hardware, obj, fields, locking, runNotifierThread, nt, callback>>

(* HAL_UpdateNotifierAlarm *)

UpdateFields(t) ==
  /\ pc[t] = "update" /\ Goto(t, "updateLock")
  /\ triggerTime' = [triggerTime EXCEPT ![arg[t].n] = arg[t].time]
  /\ triggeredTime' = [triggeredTime EXCEPT ![arg[t].n] = Never]
  /\ UNCHANGED <<hardware, obj, active, locking, threading, arg, nt, callback>>

UpdateFurther(t) ==
  /\ pc[t] = "updateLock" /\ Return(t)
  /\ notifierMutex = None
  /\ arg[t].time >= closestTrigger
  /\ UNCHANGED <<hardware, obj, fields, locking, threading, nt, callback>>

\* Mutated form: the alarm is taken to be enabled.
AlwaysActive == TRUE

WasActive == closestTrigger # Never

UpdateCloser(t) ==
  /\ pc[t] = "updateLock" /\ Drop(t)
  /\ notifierMutex = None
  /\ arg[t].time < closestTrigger
  /\ notifierMutex' = t
  /\ closestTrigger' = arg[t].time
  /\ Goto(t, IF WasActive THEN "moveTime" ELSE "writeTime")
  /\ UNCHANGED <<hardware, obj, fields, threading, nt, callback>>

UpdateWriteTime(t) ==
  /\ alarm' = [alarm EXCEPT !.time = HardwareTime(closestTrigger)]
  /\ \/ /\ pc[t] = "moveTime" /\ Goto(t, "idle")
        /\ notifierMutex' = None
     \/ /\ pc[t] = "writeTime" /\ Goto(t, "writeEnable")
        /\ UNCHANGED notifierMutex
  /\ UNCHANGED <<clock, irq, obj, fields, closestTrigger, threading, arg, nt, callback>>

UpdateWriteEnable(t) ==
  /\ pc[t] = "writeEnable" /\ Goto(t, "idle")
  /\ alarm' = [alarm EXCEPT !.enabled = TRUE]
  /\ notifierMutex' = None
  /\ UNCHANGED <<clock, irq, obj, fields, closestTrigger, threading, arg, nt, callback>>

(* HAL_CancelNotifierAlarm *)

Cancel(t) ==
  /\ pc[t] = "cancel" /\ Return(t)
  /\ triggerTime' = [triggerTime EXCEPT ![arg[t].n] = Never]
  /\ UNCHANGED <<hardware, obj, triggeredTime, active, locking, threading,
                 nt, callback>>

(* HAL_WaitForNotifierAlarm: a condition variable may also wake on its own *)

AlarmSeen(n) == ~active[n] \/ triggeredTime[n] # Never

Wait(t) ==
  /\ pc[t] = "wait"
  /\ IF AlarmSeen(arg[t].n) THEN Return(t) ELSE Goto(t, "blocked") /\ UNCHANGED arg
  /\ UNCHANGED <<hardware, obj, fields, locking, threading, nt, callback>>

SpuriousWakeup(t) ==
  /\ pc[t] = "blocked" /\ Goto(t, "wait")
  /\ UNCHANGED <<hardware, obj, fields, locking, threading, arg, nt, callback>>

(* exit(): cleanupNotifierAtExit, then the container's destructor *)

Exit(t) ==
  /\ ExitAllowed
  /\ pc[t] = "idle"
  /\ \A u \in Threads : pc[u] \notin {"join", "destroy"}
  /\ IF AtexitRegistered
       THEN Goto(t, "join") /\ runNotifierThread' = FALSE /\ UNCHANGED todo
       ELSE /\ nt \notin ForEachSteps
            /\ Goto(t, "destroy") /\ todo' = Notifiers
            /\ UNCHANGED runNotifierThread
  /\ UNCHANGED <<hardware, obj, fields, locking, notifierRefCount, arg, nt,
                 currentTime, cur>>

\* Joining a thread that was never started throws in an exit handler.
ExitJoin(t) ==
  /\ pc[t] = "join"
  /\ \/ nt = "none" /\ Goto(t, "terminated") /\ UNCHANGED todo
     \/ nt = "done" /\ Goto(t, "destroy") /\ todo' = Notifiers
  /\ UNCHANGED <<hardware, obj, fields, locking, threading, arg, nt, currentTime, cur>>

ExitDestroy(t, n) ==
  /\ pc[t] = "destroy"
  /\ n \in todo
  /\ todo' = todo \ {n}
  /\ IF obj[n] = "live" THEN Deactivate(n) /\ pc' = NotifyAll(n, pc)
                        ELSE UNCHANGED <<fields, pc>>
  /\ UNCHANGED <<hardware, obj, locking, threading, arg, nt, currentTime, cur>>

ExitDone(t) ==
  /\ pc[t] = "destroy" /\ Goto(t, "exited")
  /\ todo = {}
  /\ UNCHANGED <<hardware, obj, fields, locking, threading, arg, nt, callback>>

-----------------------------------------------------------------------------
(* The notifier thread's loop.  NiFpga_WaitOnIrqs has no timeout; nothing  *)
(* here acknowledges Irq_28 or says whether it then stays asserted, so it  *)
(* may or may not.                                                         *)

ServiceCheck ==
  /\ nt = "check"
  /\ nt' = IF runNotifierThread THEN "wait" ELSE "done"
  /\ UNCHANGED <<hardware, obj, fields, locking, threading, pc, arg, callback>>

ServiceWaitOnIrqs ==
  /\ nt = "wait" /\ nt' = "woken"
  /\ irq
  /\ irq' \in BOOLEAN
  /\ UNCHANGED <<clock, alarm, obj, fields, locking, threading, pc, arg, callback>>

ServiceWoken ==
  /\ nt = "woken"
  /\ nt' = IF runNotifierThread THEN "lock" ELSE "done"
  /\ UNCHANGED <<hardware, obj, fields, locking, threading, pc, arg, callback>>

(* alarmCallback *)

CallbackLock ==
  /\ nt = "lock" /\ nt' = "scan"
  /\ notifierMutex = None
  /\ HandleTableFree
  /\ notifierMutex' = NotifierThread
  /\ closestTrigger' = Never
  /\ todo' = Notifiers
  /\ UNCHANGED <<hardware, obj, fields, threading, pc, arg, currentTime, cur>>

CallbackSkip(n) ==
  /\ nt = "scan"
  /\ n \in todo
  /\ obj[n] # "live" \/ triggerTime[n] = Never
  /\ todo' = todo \ {n}
  /\ UNCHANGED <<hardware, obj, fields, locking, threading, pc, arg, nt,
                 currentTime, cur>>

CallbackPeek(n) ==
  /\ nt = "scan" /\ nt' = "visit"
  /\ n \in todo
  /\ obj[n] = "live" /\ triggerTime[n] # Never
  /\ todo' = todo \ {n}
  /\ cur' = n
  /\ currentTime' = IF currentTime = 0 THEN clock ELSE currentTime
  /\ UNCHANGED <<hardware, obj, fields, locking, threading, pc, arg>>

CallbackFire ==
  /\ nt = "visit" /\ nt' = "notify"
  /\ triggerTime[cur] < currentTime
  /\ triggerTime' = [triggerTime EXCEPT ![cur] = Never]
  /\ triggeredTime' = [triggeredTime EXCEPT ![cur] = currentTime]
  /\ UNCHANGED <<hardware, obj, active, locking, threading, pc, arg, callback>>

CallbackClosest ==
  /\ nt = "visit" /\ nt' = "scan"
  /\ triggerTime[cur] >= currentTime
  /\ closestTrigger' = IF triggerTime[cur] < closestTrigger
                         THEN triggerTime[cur] ELSE closestTrigger
  /\ cur' = None
  /\ UNCHANGED <<hardware, obj, fields, notifierMutex, threading, pc, arg,
                 currentTime, todo>>

CallbackNotify ==
  /\ nt = "notify" /\ nt' = "scan"
  /\ pc' = NotifyAll(cur, pc)
  /\ cur' = None
  /\ UNCHANGED <<hardware, obj, fields, locking, threading, arg, currentTime, todo>>

CallbackWriteTime ==
  /\ nt = "scan" /\ todo = {}
  /\ closestTrigger # Never
  /\ alarm' = [alarm EXCEPT !.time = HardwareTime(closestTrigger)]
  /\ nt' = "armEnable"
  /\ UNCHANGED <<clock, irq, obj, fields, locking, threading, pc, arg, callback>>

CallbackWriteEnable ==
  /\ nt = "armEnable" /\ nt' = "check"
  /\ alarm' = [alarm EXCEPT !.enabled = TRUE]
  /\ notifierMutex' = None
  /\ currentTime' = 0
  /\ UNCHANGED <<clock, irq, obj, fields, closestTrigger, threading, pc, arg,
                 todo, cur>>

CallbackNothingLeft ==
  /\ nt = "scan" /\ todo = {} /\ nt' = "check"
  /\ closestTrigger = Never
  /\ notifierMutex' = None
  /\ currentTime' = 0
  /\ UNCHANGED <<hardware, obj, fields, closestTrigger, threading, pc, arg, todo, cur>>

-----------------------------------------------------------------------------
Service ==
  \/ ServiceCheck \/ ServiceWaitOnIrqs \/ ServiceWoken \/ CallbackLock
  \/ \E n \in Notifiers : CallbackSkip(n) \/ CallbackPeek(n)
  \/ CallbackFire \/ CallbackClosest \/ CallbackNotify
  \/ CallbackWriteTime \/ CallbackWriteEnable \/ CallbackNothingLeft

\* What a thread that is in no call may start.
Start(t) ==
  \/ \E n \in Notifiers :
       \/ InitializeCount(t, n) \/ CallStop(t, n) \/ CallClean(t, n)
       \/ CallUpdate(t, n) \/ CallCancel(t, n) \/ CallWait(t, n)
       \/ CallStale(t, n)
  \/ Exit(t)

\* What a thread that is inside a call does next.
Continue(t) ==
  \/ InitializeCreate(t) \/ InitializeAllocate(t) \/ StopSection(t) \/ StopNotify(t)
  \/ UpdateFields(t) \/ UpdateFurther(t) \/ UpdateCloser(t)
  \/ UpdateWriteTime(t) \/ UpdateWriteEnable(t) \/ Cancel(t) \/ Wait(t)
  \/ ExitJoin(t) \/ (\E n \in Notifiers : ExitDestroy(t, n)) \/ ExitDone(t)

Terminated == \E t \in Threads : pc[t] = "terminated"
Exited == \E t \in Threads : pc[t] = "exited"
Running == ~Terminated /\ ~Exited

Next ==
  \/ /\ Running
     /\ \/ Tick \/ AlarmFires \/ Service
        \/ \E t \in Threads : Start(t) \/ Continue(t) \/ SpuriousWakeup(t)
  \/ ~Running /\ UNCHANGED vars

Spec == Init /\ [][Next]_vars

\* The scheduler runs every thread that can run and the FPGA's clock and alarm
\* do not stop.  Strong fairness says one thing more than weak: a thread that
\* finds a mutex free again and again gets it in the end; every other wait of a
\* thread, once over, stays over.  Nobody has to start a call.
Fairness ==
  /\ WF_vars(Running /\ Tick) /\ WF_vars(Running /\ AlarmFires)
  /\ SF_vars(Running /\ Service)
  /\ \A t \in Threads : SF_vars(Running /\ Continue(t))

FairSpec == Spec /\ Fairness

-----------------------------------------------------------------------------
(* Safety *)

\* Nobody is between the two halves of an update and no callback is due.
Quiescent ==
  /\ notifierMutex = None
  /\ ~irq
  /\ nt \in {"none", "check", "wait"}
  /\ \A t \in Threads : pc[t] # "updateLock"

\* No alarm is lost: whatever the interleaving of updates, cancels and
\* callbacks was, once they settle the hardware is armed for the low bits of a
\* time no later than that of any notifier that still expects an alarm, though
\* an update writes the enable register only when it saw none before it.
NoLostAlarm ==
  Quiescent => \A n \in Notifiers :
    obj[n] = "live" /\ triggerTime[n] # Never =>
      /\ closestTrigger <= triggerTime[n]
      /\ alarm = [time |-> HardwareTime(closestTrigger), enabled |-> TRUE]

NotifyPending(n) ==
  \/ nt = "notify" /\ cur = n
  \/ \E t \in Threads : pc[t] \in {"notify", "cleanNotify"} /\ arg[t].n = n

\* No wake-up is lost: a thread asleep in HAL_WaitForNotifierAlarm whose alarm
\* has fired, or whose notifier was stopped, is about to be notified, although
\* every notify_all is called after the lock is released.
NoLostWakeup ==
  \A t \in Threads :
    pc[t] = "blocked" /\ AlarmSeen(arg[t].n) => NotifyPending(arg[t].n)

(* What the comments claim and the code does not do *)

\* "create manager and alarm if not already created": a process that creates
\* and cleans notifiers is not terminated.
CreatedOnlyIfNotCreated == ~Terminated

-----------------------------------------------------------------------------
(* Refinement: the fields are what the callers see, all else is hidden *)

Status == [n \in Notifiers |-> CASE obj[n] \in {"fresh", "claimed"} -> "new"
                                 [] obj[n] = "live" -> "open"
                                 [] obj[n] = "freed" -> "closed"]

Promise == INSTANCE AlarmService WITH
  deadline <- triggerTime,
  report <- triggeredTime,
  status <- Status,
  halted <- ~Running

\* Every step of the threads and the callback is one of the service's or none:
\* in particular a fire is of a deadline still set, by a time read after it.
ImplementsAlarmService == Promise!Spec

\* With fair threads, a deadline that has passed is reported.
ImplementsFairAlarmService == Promise!FairSpec

-----------------------------------------------------------------------------
(* Liveness *)

\* A sleeper with something to see gets up, unless a re-arm took it away.
SleeperWakes ==
  \A t \in Threads : pc[t] = "blocked" /\ AlarmSeen(arg[t].n)
                       ~> pc[t] # "blocked" \/ ~AlarmSeen(arg[t].n) \/ ~Running
=============================================================================
