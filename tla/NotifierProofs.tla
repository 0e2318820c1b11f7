--------------------------- MODULE NotifierProofs ---------------------------
(***************************************************************************)
(* For every number of threads and notifiers, every clock and every width  *)
(* of the alarm register: no alarm and no wake-up is lost, and Notifier    *)
(* implements AlarmService.                                                *)
(***************************************************************************)
EXTENDS Notifier, TLAPS

\* A callback that visits a notifier visits one.
TypeInv == TypeOK /\ (nt \in {"visit", "notify"} => cur \in Notifiers)

\* Stopping a notifier keeps its fields in range.
LEMMA DeactivateTypes ==
  ASSUME TypeOK, NEW n \in Notifiers, Deactivate(n)
  PROVE  /\ triggerTime' \in [Notifiers -> Times]
         /\ triggeredTime' \in [Notifiers -> Times]
         /\ active' \in [Notifiers -> BOOLEAN]
<1>1. Never \in Times /\ 0 \in Times
  BY ConstantsAssumption DEF Never, Times
<1> QED BY <1>1 DEF Deactivate, TypeOK

\* The initial state is well typed.
LEMMA TypeInit == Init => TypeInv
<1>1. 0 \in 0 .. MaxTime /\ 0 \in 0 .. Wrap - 1 /\ 0 \in Times /\ Never \in Times
  BY ConstantsAssumption DEF Times, Never
<1>2. "idle" \in ThreadSteps /\ "none" \in ServiceSteps
  BY DEF ThreadSteps, ServiceSteps
<1>3. Init => arg \in [Threads -> [n : Notifiers \cup {None}, time : Times]]
  BY <1>1 DEF Init, NoArg
<1>4. Init => alarm \in [time : 0 .. Wrap - 1, enabled : BOOLEAN]
  BY <1>1 DEF Init
<1>5. Init => active \in [Notifiers -> BOOLEAN]
  BY DEF Init
<1>6. Init => /\ obj \in [Notifiers -> {"fresh", "claimed", "live", "freed"}]
              /\ triggerTime \in [Notifiers -> Times]
              /\ triggeredTime \in [Notifiers -> Times]
              /\ pc \in [Threads -> ThreadSteps]
  BY <1>1, <1>2 DEF Init
<1>7. Init => irq \in BOOLEAN /\ runNotifierThread \in BOOLEAN
  BY DEF Init
<1>8. Init => /\ clock \in 0 .. MaxTime /\ currentTime \in 0 .. MaxTime
              /\ notifierMutex \in Threads \cup {NotifierThread, None}
              /\ closestTrigger \in Times /\ notifierRefCount \in Int
              /\ nt \in ServiceSteps /\ nt \notin {"visit", "notify"}
              /\ todo \subseteq Notifiers /\ cur \in Notifiers \cup {None}
  BY <1>1, <1>2 DEF Init
<1> QED BY <1>3, <1>4, <1>5, <1>6, <1>7, <1>8 DEF TypeInv, TypeOK

\* Every step keeps every variable in its range.
LEMMA TypeSteps == TypeInv /\ [Next]_vars => TypeInv'
<1> SUFFICES ASSUME TypeInv, [Next]_vars PROVE TypeInv'
  OBVIOUS
<1> USE ConstantsAssumption DEF TypeInv, TypeOK, Goto, Drop, Return, Call,
        Deactivate, NotifyAll, NoArg, ThreadSteps, ServiceSteps, ForEachSteps,
        hardware, fields, locking, threading, callback
<1>0. Never \in Times /\ 0 \in Times /\ 0 .. MaxTime \subseteq Times /\ 0 \in 0 .. MaxTime
  BY DEF Never, Times
<1>1. CASE Tick
  BY <1>1 DEF Tick
<1>2. CASE AlarmFires
  BY <1>2 DEF AlarmFires
<1>3. CASE Service
  <2>1. CASE ServiceCheck \/ ServiceWaitOnIrqs \/ ServiceWoken
    BY <2>1 DEF ServiceCheck, ServiceWaitOnIrqs, ServiceWoken
  <2>2. CASE CallbackLock
    BY <1>0, <2>2 DEF CallbackLock
  <2>3. ASSUME NEW n \in Notifiers,
      CallbackSkip(n) \/ CallbackPeek(n) PROVE TypeInv'
    BY <2>3 DEF CallbackSkip, CallbackPeek
  <2>4. CASE CallbackFire
    BY <1>0, <2>4 DEF CallbackFire
  <2>5. CASE CallbackClosest
    <3>1. closestTrigger' \in Times
      BY <2>5 DEF CallbackClosest, Times
    <3> QED BY <2>5, <3>1 DEF CallbackClosest
  <2>6. CASE CallbackNotify
    BY <2>6 DEF CallbackNotify
  <2>7. CASE CallbackWriteTime
    <3>1. HardwareTime(closestTrigger) \in 0 .. Wrap - 1
      BY DEF HardwareTime, Times, Never
    <3> QED BY <2>7, <3>1 DEF CallbackWriteTime
  <2>8. CASE CallbackWriteEnable
    BY <1>0, <2>8 DEF CallbackWriteEnable
  <2>9. CASE CallbackNothingLeft
    BY <1>0, <2>9 DEF CallbackNothingLeft
  <2> QED BY <1>3, <2>1, <2>2, <2>3, <2>4, <2>5, <2>6, <2>7, <2>8, <2>9 DEF Service
<1>4. ASSUME NEW t \in Threads, Start(t) PROVE TypeInv'
  <2>1. ASSUME NEW n \in Notifiers, InitializeCount(t, n) PROVE TypeInv'
    BY <1>0, <2>1 DEF InitializeCount
  <2>2. ASSUME NEW n \in Notifiers, NEW step \in {"stop", "cancel", "wait"},
               Call(t, n, step, 0)
        PROVE TypeInv'
    BY <1>0, <2>2
  <2>3. ASSUME NEW n \in Notifiers, CallClean(t, n) PROVE TypeInv'
    BY <1>0, <2>3 DEF CallClean
  <2>4. ASSUME NEW n \in Notifiers, CallUpdate(t, n) PROVE TypeInv'
    BY <1>0, <2>4 DEF CallUpdate
  <2>5. ASSUME NEW n \in Notifiers, CallStale(t, n) PROVE TypeInv'
    BY <2>5 DEF CallStale, vars
  <2>6. CASE Exit(t)
    BY <2>6 DEF Exit
  <2> QED BY <1>4, <2>1, <2>2, <2>3, <2>4, <2>5, <2>6 DEF Start, CallStop,
             CallCancel, CallWait
<1>5. ASSUME NEW t \in Threads, Continue(t) PROVE TypeInv'
  <2>1. CASE InitializeCreate(t)
    BY <2>1 DEF InitializeCreate
  <2>2. CASE InitializeAllocate(t)
    BY <1>0, <2>2 DEF InitializeAllocate
  <2>3. CASE StopSection(t)
    <3>1. pc' \in [Threads -> ThreadSteps]
      BY <2>3 DEF StopSection
    <3>2. /\ triggerTime' \in [Notifiers -> Times]
          /\ triggeredTime' \in [Notifiers -> Times]
          /\ active' \in [Notifiers -> BOOLEAN]
      BY <1>0, <2>3 DEF StopSection
    <3> QED BY <2>3, <3>1, <3>2 DEF StopSection
  <2>4. CASE StopNotify(t)
    BY <1>0, <2>4 DEF StopNotify
  <2>5. CASE UpdateFields(t)
    BY <1>0, <2>5 DEF UpdateFields
  <2>6. CASE UpdateFurther(t)
    BY <1>0, <2>6 DEF UpdateFurther
  <2>7. CASE UpdateCloser(t)
    BY <1>0, <2>7 DEF UpdateCloser
  <2>8. CASE UpdateWriteTime(t)
    <3>1. HardwareTime(closestTrigger) \in 0 .. Wrap - 1
      BY DEF HardwareTime, Times, Never
    <3> QED BY <2>8, <3>1 DEF UpdateWriteTime
  <2>9. CASE UpdateWriteEnable(t)
    BY <2>9 DEF UpdateWriteEnable
  <2>10. CASE Cancel(t)
    BY <1>0, <2>10 DEF Cancel
  <2>11. CASE Wait(t)
    BY <1>0, <2>11 DEF Wait
  <2>12. CASE ExitJoin(t) \/ ExitDone(t)
    BY <2>12 DEF ExitJoin, ExitDone
  <2>13. ASSUME NEW n \in Notifiers, ExitDestroy(t, n) PROVE TypeInv'
    <3>1. CASE obj[n] = "live"
      <4>1. pc' \in [Threads -> ThreadSteps]
        BY <2>13, <3>1 DEF ExitDestroy
      <4>2. Deactivate(n)
        BY <2>13, <3>1 DEF ExitDestroy
      <4>3. /\ triggerTime' \in [Notifiers -> Times]
            /\ triggeredTime' \in [Notifiers -> Times]
            /\ active' \in [Notifiers -> BOOLEAN]
        BY <4>2, DeactivateTypes
      <4> QED BY <2>13, <4>1, <4>3 DEF ExitDestroy
    <3>2. CASE obj[n] # "live"
      BY <2>13, <3>2 DEF ExitDestroy
    <3> QED BY <3>1, <3>2
  <2> QED BY <1>5, <2>1, <2>2, <2>3, <2>4, <2>5, <2>6, <2>7, <2>8, <2>9, <2>10,
             <2>11, <2>12, <2>13 DEF Continue
<1>6. ASSUME NEW t \in Threads, SpuriousWakeup(t) PROVE TypeInv'
  BY <1>6 DEF SpuriousWakeup
<1>7. CASE UNCHANGED vars
  BY <1>7 DEF vars
<1> QED BY <1>1, <1>2, <1>3, <1>4, <1>5, <1>6, <1>7 DEF Next

\* Every variable is in its range, for all values of the constants.
THEOREM Typing == Spec => []TypeOK
<1>1. TypeInv => TypeOK
  BY DEF TypeInv
<1> QED BY <1>1, TypeInit, TypeSteps, PTL DEF Spec

-----------------------------------------------------------------------------
(* The inductive invariant *)

CallbackHolds == ForEachSteps \cup {"armEnable"}
UpdateHolds == {"moveTime", "writeTime", "writeEnable"}
Creating == {"create", "allocate"}
InCall == {"stop", "clean", "notify", "cleanNotify", "update", "updateLock",
           "cancel", "wait", "blocked"}

\* notifierMutex is held exactly in the sections that lock_guard it, and the
\* container's destructor never runs during a ForEach.
LockInv ==
  /\ notifierMutex = NotifierThread <=> nt \in CallbackHolds
  /\ \A t \in Threads : notifierMutex = t <=> pc[t] \in UpdateHolds
  /\ \A t \in Threads : pc[t] = "destroy" => nt \notin ForEachSteps

\* A notifier being created belongs to the one thread that creates it.
ClaimInv ==
  /\ \A t \in Threads :
       pc[t] \in Creating => arg[t].n \in Notifiers /\ obj[arg[t].n] = "claimed"
  /\ \A t, u \in Threads :
       pc[t] \in Creating /\ pc[u] \in Creating /\ arg[t].n = arg[u].n => t = u

\* A call is about a notifier whose handle once existed.
CallInv ==
  \A t \in Threads :
    pc[t] \in InCall => arg[t].n \in Notifiers /\ obj[arg[t].n] \in {"live",
        "freed"}

\* No alarm is set before there is a handle; a ForEach visits live notifiers, and
\* the time it compares with was read from the clock.
VisitInv ==
  /\ \A n \in Notifiers : obj[n] \in {"fresh", "claimed"} => triggerTime[n] = Never
  /\ nt = "visit" => obj[cur] = "live"
  /\ currentTime <= clock

\* What closestTrigger promises of the registers: outside the sections the time
\* register holds it, and the alarm is enabled, or has fired and the callback is
\* still to come, or is about to be enabled.
HardwareInv ==
  /\ closestTrigger # Never /\ notifierMutex = None =>
       alarm.time = HardwareTime(closestTrigger)
  /\ nt = "armEnable" \/ (\E t \in Threads : pc[t] = "writeEnable") =>
       alarm.time = HardwareTime(closestTrigger)
  /\ closestTrigger # Never =>
       \/ alarm.enabled \/ irq
       \/ nt \in CallbackHolds \cup {"woken", "lock", "done"}
       \/ \E t \in Threads : pc[t] \in {"writeTime", "writeEnable"}

Updating(t, n) ==
  pc[t] = "updateLock" /\ arg[t].n = n /\ arg[t].time = triggerTime[n]

\* Who takes care of n's alarm: closestTrigger, the ForEach that has yet to look
\* at n, or the update that has yet to look at closestTrigger.
Covered(n) ==
  \/ closestTrigger <= triggerTime[n]
  \/ nt \in ForEachSteps /\ n \in todo
  \/ nt = "visit" /\ n = cur
  \/ \E t \in Threads : Updating(t, n)

CoveredInv == \A n \in Notifiers : obj[n] = "live" /\ triggerTime[n] # Never => Covered(n)

IInv == /\ TypeInv /\ LockInv /\ ClaimInv /\ CallInv /\ VisitInv
        /\ HardwareInv /\ CoveredInv /\ NoLostWakeup

\* Every step keeps the mutex with the section that took it.
LEMMA LockSteps ==
  TypeInv /\ TypeInv' /\ LockInv /\ [Next]_vars => LockInv'
<1> SUFFICES ASSUME TypeInv, TypeInv', LockInv, [Next]_vars PROVE LockInv'
  OBVIOUS
<1> USE ConstantsAssumption DEF TypeInv, TypeOK, Goto, Drop, Return, NotifyAll,
        HandleTableFree, ForEachSteps, hardware, fields, locking, threading,
        callback, LockInv, CallbackHolds, UpdateHolds
<1>1. CASE Tick \/ AlarmFires \/ UNCHANGED vars
  BY <1>1 DEF Tick, AlarmFires, vars
<1>2. CASE Service
  BY <1>2 DEF Service, ServiceCheck, ServiceWaitOnIrqs, ServiceWoken, CallbackLock,
     CallbackSkip, CallbackPeek, CallbackFire, CallbackClosest, CallbackNotify,
     CallbackWriteTime, CallbackWriteEnable, CallbackNothingLeft
<1>3. ASSUME NEW t \in Threads, Start(t) \/ SpuriousWakeup(t) PROVE LockInv'
  BY <1>3 DEF Start, InitializeCount, CallStop, CallClean, CallUpdate, CallCancel,
     CallWait, CallStale, Call, Exit, SpuriousWakeup, vars
<1>4. ASSUME NEW t \in Threads, Continue(t) PROVE LockInv'
  <2>1. CASE InitializeCreate(t)
    BY <2>1 DEF InitializeCreate
  <2>2. CASE StopSection(t)
    BY <2>2 DEF StopSection
  <2>3. CASE StopNotify(t)
    BY <2>3 DEF StopNotify
  <2>4. CASE UpdateFields(t)
    BY <2>4 DEF UpdateFields
  <2>5. CASE UpdateFurther(t)
    BY <2>5 DEF UpdateFurther
  <2>6. CASE UpdateCloser(t)
    BY <2>6 DEF UpdateCloser
  <2>7. CASE UpdateWriteTime(t)
    BY <2>7 DEF UpdateWriteTime
  <2>8. CASE UpdateWriteEnable(t)
    BY <2>8 DEF UpdateWriteEnable
  <2>9. CASE Cancel(t) \/ Wait(t) \/ ExitJoin(t)
    BY <2>9 DEF Cancel, Wait, ExitJoin
  <2>10. ASSUME NEW n \in Notifiers, ExitDestroy(t, n) PROVE LockInv'
    BY <2>10 DEF ExitDestroy
  <2> QED BY <1>4, <2>1, <2>2, <2>3, <2>4, <2>5, <2>6, <2>7, <2>8, <2>9,
      <2>10 DEF Continue,
          InitializeAllocate, ExitDone
<1> QED BY <1>1, <1>2, <1>3, <1>4 DEF Next

\* Every step keeps a claimed notifier with its creator.
LEMMA ClaimSteps ==
  TypeInv /\ TypeInv' /\ ClaimInv /\ [Next]_vars => ClaimInv'
<1> SUFFICES ASSUME TypeInv, TypeInv', ClaimInv, [Next]_vars PROVE ClaimInv'
  OBVIOUS
<1> USE ConstantsAssumption DEF TypeInv, TypeOK, Goto, Drop, Return, NotifyAll,
        HandleTableFree, ForEachSteps, hardware, fields, locking, threading,
        callback, ClaimInv, Creating
<1>1. CASE Tick \/ AlarmFires \/ UNCHANGED vars
  BY <1>1 DEF Tick, AlarmFires, vars
<1>2. CASE Service
  BY <1>2 DEF Service, ServiceCheck, ServiceWaitOnIrqs, ServiceWoken, CallbackLock,
     CallbackSkip, CallbackPeek, CallbackFire, CallbackClosest, CallbackNotify,
     CallbackWriteTime, CallbackWriteEnable, CallbackNothingLeft
<1>3. ASSUME NEW t \in Threads, Start(t) \/ SpuriousWakeup(t) PROVE ClaimInv'
  <2>1. ASSUME NEW n \in Notifiers, InitializeCount(t, n) PROVE ClaimInv'
    BY <2>1 DEF InitializeCount
  <2>2. ASSUME NEW n \in Notifiers,
               NEW step \in {"stop", "cancel", "wait", "update"},
               NEW time \in Times, Call(t, n, step, time)
        PROVE  ClaimInv'
    BY <2>2 DEF Call
  <2>3. ASSUME NEW n \in Notifiers, CallClean(t, n) PROVE ClaimInv'
    BY <2>3 DEF CallClean
  <2>4. 0 \in Times
    BY ConstantsAssumption DEF Times, Never
  <2> QED BY <1>3, <2>1, <2>2, <2>3, <2>4 DEF Start, CallStop, CallUpdate,
             CallCancel, CallWait, CallStale, Exit, SpuriousWakeup, vars
<1>4. ASSUME NEW t \in Threads, Continue(t) PROVE ClaimInv'
  <2>1. CASE InitializeAllocate(t)
    BY <2>1 DEF InitializeAllocate
  <2>2. CASE StopSection(t)
    BY <2>2 DEF StopSection
  <2>3. CASE StopNotify(t)
    BY <2>3 DEF StopNotify
  <2>4. CASE UpdateFields(t)
    BY <2>4 DEF UpdateFields
  <2>5. CASE UpdateFurther(t)
    BY <2>5 DEF UpdateFurther
  <2>6. CASE UpdateCloser(t)
    BY <2>6 DEF UpdateCloser
  <2>7. CASE UpdateWriteTime(t)
    BY <2>7 DEF UpdateWriteTime
  <2>8. CASE UpdateWriteEnable(t)
    BY <2>8 DEF UpdateWriteEnable
  <2>9. CASE Cancel(t)
    BY <2>9 DEF Cancel
  <2>10. CASE Wait(t)
    <3>1. CASE AlarmSeen(arg[t].n)
      <4>1. /\ pc' = [pc EXCEPT ![t] = "idle"]
            /\ arg' = [arg EXCEPT ![t] = NoArg]
        BY <2>10, <3>1 DEF Wait
      <4> QED BY <2>10, <4>1 DEF Wait
    <3>2. CASE ~AlarmSeen(arg[t].n)
      BY <2>10, <3>2 DEF Wait
    <3> QED BY <3>1, <3>2
  <2>11. ASSUME NEW n \in Notifiers, ExitDestroy(t, n) PROVE ClaimInv'
    BY <2>11 DEF ExitDestroy
  <2> QED BY <1>4, <2>1, <2>2, <2>3, <2>4, <2>5, <2>6, <2>7, <2>8, <2>9, <2>10, <2>11
          DEF Continue, InitializeCreate, ExitJoin, ExitDone
<1> QED BY <1>1, <1>2, <1>3, <1>4 DEF Next

\* Every step keeps calls on notifiers that had a handle.
LEMMA CallSteps ==
  TypeInv /\ TypeInv' /\ ClaimInv /\ CallInv /\ [Next]_vars => CallInv'
<1> SUFFICES ASSUME TypeInv, TypeInv', ClaimInv, CallInv, [Next]_vars PROVE CallInv'
  OBVIOUS
<1> USE ConstantsAssumption DEF TypeInv, TypeOK, Goto, Drop, Return, NotifyAll,
        HandleTableFree, ForEachSteps, hardware, fields, locking, threading,
        callback, CallInv, InCall, ClaimInv, Creating
<1>1. CASE Tick \/ AlarmFires \/ UNCHANGED vars
  BY <1>1 DEF Tick, AlarmFires, vars
<1>2. CASE Service
  BY <1>2 DEF Service, ServiceCheck, ServiceWaitOnIrqs, ServiceWoken, CallbackLock,
     CallbackSkip, CallbackPeek, CallbackFire, CallbackClosest, CallbackNotify,
     CallbackWriteTime, CallbackWriteEnable, CallbackNothingLeft
<1>3. ASSUME NEW t \in Threads, Start(t) \/ SpuriousWakeup(t) PROVE CallInv'
  <2>1. ASSUME NEW n \in Notifiers, InitializeCount(t, n) PROVE CallInv'
    BY <2>1 DEF InitializeCount
  <2>2. ASSUME NEW n \in Notifiers,
               NEW step \in {"stop", "cancel", "wait", "update"},
               NEW time \in Times, Call(t, n, step, time)
        PROVE  CallInv'
    BY <2>2 DEF Call
  <2>3. ASSUME NEW n \in Notifiers, CallClean(t, n) PROVE CallInv'
    BY <2>3 DEF CallClean
  <2>4. 0 \in Times
    BY ConstantsAssumption DEF Times, Never
  <2> QED BY <1>3, <2>1, <2>2, <2>3, <2>4 DEF Start, CallStop, CallUpdate,
             CallCancel, CallWait, CallStale, Exit, SpuriousWakeup, vars
<1>4. ASSUME NEW t \in Threads, Continue(t) PROVE CallInv'
  <2>1. CASE InitializeAllocate(t)
    BY <2>1 DEF InitializeAllocate
  <2>2. CASE StopNotify(t)
    BY <2>2 DEF StopNotify
  <2>3. ASSUME NEW n \in Notifiers, ExitDestroy(t, n) PROVE CallInv'
    BY <2>3 DEF ExitDestroy
  <2> QED BY <1>4, <2>1, <2>2, <2>3 DEF Continue, InitializeCreate, StopSection,
             UpdateFields, UpdateFurther, UpdateCloser, UpdateWriteTime,
             UpdateWriteEnable, Cancel, Wait, ExitJoin, ExitDone
<1> QED BY <1>1, <1>2, <1>3, <1>4 DEF Next

\* Every step keeps the visits on live notifiers, by a time that has come.
LEMMA VisitSteps ==
  /\ TypeInv /\ TypeInv' /\ ClaimInv /\ CallInv /\ LockInv /\ VisitInv
  /\ [Next]_vars
  => VisitInv'
<1> SUFFICES ASSUME TypeInv, TypeInv', ClaimInv, CallInv, LockInv, VisitInv,
                    [Next]_vars
             PROVE  VisitInv'
  OBVIOUS
<1> USE ConstantsAssumption DEF TypeInv, TypeOK, Goto, Drop, Return, NotifyAll,
        HandleTableFree, ForEachSteps, hardware, fields, locking, threading,
        callback, VisitInv, CallInv, InCall, ClaimInv, LockInv, CallbackHolds,
        UpdateHolds, Deactivate
<1>1. CASE Tick \/ AlarmFires \/ UNCHANGED vars
  BY <1>1 DEF Tick, AlarmFires, vars
<1>2. CASE Service
  BY <1>2 DEF Service, ServiceCheck, ServiceWaitOnIrqs, ServiceWoken, CallbackLock,
     CallbackSkip, CallbackPeek, CallbackFire, CallbackClosest, CallbackNotify,
     CallbackWriteTime, CallbackWriteEnable, CallbackNothingLeft
<1>3. ASSUME NEW t \in Threads, Start(t) \/ SpuriousWakeup(t) PROVE VisitInv'
  <2>1. ASSUME NEW n \in Notifiers, InitializeCount(t, n) PROVE VisitInv'
    BY <2>1 DEF InitializeCount
  <2>2. ASSUME NEW n \in Notifiers,
               NEW step \in {"stop", "cancel", "wait", "update"},
               NEW time \in Times, Call(t, n, step, time)
        PROVE  VisitInv'
    BY <2>2 DEF Call
  <2>3. ASSUME NEW n \in Notifiers, CallClean(t, n) PROVE VisitInv'
    BY <2>3 DEF CallClean
  <2>4. 0 \in Times
    BY ConstantsAssumption DEF Times, Never
  <2> QED BY <1>3, <2>1, <2>2, <2>3, <2>4 DEF Start, CallStop, CallUpdate,
             CallCancel, CallWait, CallStale, Exit, SpuriousWakeup, vars
<1>4. ASSUME NEW t \in Threads, Continue(t) PROVE VisitInv'
  <2>1. CASE UpdateFields(t)
    BY <2>1 DEF UpdateFields
  <2>2. CASE StopNotify(t)
    BY <2>2 DEF StopNotify
  <2>3. ASSUME NEW n \in Notifiers, ExitDestroy(t, n) PROVE VisitInv'
    BY <2>3 DEF ExitDestroy
  <2> QED BY <1>4, <2>1, <2>2, <2>3 DEF Continue, InitializeCreate,
             InitializeAllocate, StopSection, UpdateFurther, UpdateCloser,
             UpdateWriteTime, UpdateWriteEnable, Cancel, Wait, ExitJoin, ExitDone
<1> QED BY <1>1, <1>2, <1>3, <1>4 DEF Next

\* Every step keeps the registers what closestTrigger promises.
LEMMA HardwareSteps ==
  TypeInv /\ TypeInv' /\ LockInv /\ HardwareInv /\ [Next]_vars => HardwareInv'
<1> SUFFICES ASSUME TypeInv, TypeInv', LockInv, HardwareInv,
    [Next]_vars PROVE HardwareInv'
  OBVIOUS
<1> USE ConstantsAssumption DEF TypeInv, TypeOK, Goto, Drop, Return, NotifyAll,
        HandleTableFree, ForEachSteps, hardware, fields, locking, threading,
        callback, LockInv, CallbackHolds, UpdateHolds, HardwareInv, WasActive
<1>1. CASE Tick \/ AlarmFires \/ UNCHANGED vars
  BY <1>1 DEF Tick, AlarmFires, vars
<1>2. CASE Service
  <2>1. CASE CallbackLock
    BY <2>1 DEF CallbackLock
  <2>2. ASSUME NEW n \in Notifiers, CallbackPeek(n) PROVE HardwareInv'
    BY <2>2 DEF CallbackPeek
  <2>3. CASE CallbackFire
    BY <2>3 DEF CallbackFire
  <2>4. CASE CallbackClosest
    BY <2>4 DEF CallbackClosest
  <2>5. CASE CallbackNotify
    BY <2>5 DEF CallbackNotify
  <2>6. CASE CallbackWriteTime
    BY <2>6 DEF CallbackWriteTime
  <2>7. CASE CallbackWriteEnable
    BY <2>7 DEF CallbackWriteEnable
  <2>8. CASE CallbackNothingLeft
    BY <2>8 DEF CallbackNothingLeft
  <2> QED BY <1>2, <2>1, <2>2, <2>3, <2>4, <2>5, <2>6, <2>7, <2>8 DEF Service,
             ServiceCheck, ServiceWaitOnIrqs, ServiceWoken, CallbackSkip
<1>3. ASSUME NEW t \in Threads, Start(t) \/ SpuriousWakeup(t) PROVE HardwareInv'
  <2>1. ASSUME NEW n \in Notifiers, InitializeCount(t, n) PROVE HardwareInv'
    BY <2>1 DEF InitializeCount
  <2>2. ASSUME NEW n \in Notifiers,
               NEW step \in {"stop", "cancel", "wait", "update"},
               NEW time \in Times, Call(t, n, step, time)
        PROVE  HardwareInv'
    BY <2>2 DEF Call
  <2>3. ASSUME NEW n \in Notifiers, CallClean(t, n) PROVE HardwareInv'
    BY <2>3 DEF CallClean
  <2>4. 0 \in Times
    BY ConstantsAssumption DEF Times, Never
  <2> QED BY <1>3, <2>1, <2>2, <2>3, <2>4 DEF Start, CallStop, CallUpdate,
             CallCancel, CallWait, CallStale, Exit, SpuriousWakeup, vars
<1>4. ASSUME NEW t \in Threads, Continue(t) PROVE HardwareInv'
  <2>1. CASE InitializeCreate(t) \/ InitializeAllocate(t)
    BY <2>1 DEF InitializeCreate, InitializeAllocate
  <2>2. CASE StopSection(t)
    BY <2>2 DEF StopSection
  <2>3. CASE StopNotify(t)
    BY <2>3 DEF StopNotify
  <2>4. CASE UpdateFields(t)
    BY <2>4 DEF UpdateFields
  <2>5. CASE UpdateFurther(t)
    BY <2>5 DEF UpdateFurther
  <2>6. CASE UpdateCloser(t)
    BY <2>6 DEF UpdateCloser
  <2>7. CASE UpdateWriteTime(t)
    BY <2>7 DEF UpdateWriteTime
  <2>8. CASE UpdateWriteEnable(t)
    BY <2>8 DEF UpdateWriteEnable
  <2>9. CASE Cancel(t)
    BY <2>9 DEF Cancel
  <2>10. CASE Wait(t)
    <3>1. CASE AlarmSeen(arg[t].n)
      <4>1. /\ pc' = [pc EXCEPT ![t] = "idle"]
            /\ arg' = [arg EXCEPT ![t] = NoArg]
        BY <2>10, <3>1 DEF Wait
      <4> QED BY <2>10, <4>1 DEF Wait
    <3>2. CASE ~AlarmSeen(arg[t].n)
      BY <2>10, <3>2 DEF Wait
    <3> QED BY <3>1, <3>2
  <2>11. CASE ExitJoin(t) \/ ExitDone(t)
    BY <2>11 DEF ExitJoin, ExitDone
  <2>12. ASSUME NEW n \in Notifiers, ExitDestroy(t, n) PROVE HardwareInv'
    BY <2>12 DEF ExitDestroy
  <2> QED BY <1>4, <2>1, <2>2, <2>3, <2>4, <2>5, <2>6, <2>7, <2>8, <2>9, <2>10,
             <2>11, <2>12 DEF Continue
<1> QED BY <1>1, <1>2, <1>3, <1>4 DEF Next

\* Every step leaves somebody in charge of every alarm that is set.
LEMMA CoveredSteps ==
  /\ TypeInv /\ TypeInv' /\ LockInv /\ ClaimInv /\ VisitInv /\ CoveredInv
  /\ [Next]_vars
  => CoveredInv'
<1> SUFFICES ASSUME TypeInv, TypeInv', LockInv, ClaimInv, VisitInv, CoveredInv,
    [Next]_vars PROVE CoveredInv'
  OBVIOUS
<1> USE ConstantsAssumption DEF TypeInv, TypeOK, Goto, Drop, Return, NotifyAll,
        HandleTableFree, ForEachSteps, hardware, fields, locking, threading,
        callback, LockInv, CallbackHolds, UpdateHolds, ClaimInv, Creating, VisitInv,
        CoveredInv, Covered, Updating, Deactivate, Times, Never
<1>1. CASE Tick \/ AlarmFires \/ UNCHANGED vars
  BY <1>1 DEF Tick, AlarmFires, vars
<1>2. CASE Service
  <2>1. CASE CallbackLock
    BY <2>1 DEF CallbackLock
  <2>2. ASSUME NEW n \in Notifiers, CallbackSkip(n) PROVE CoveredInv'
    BY <2>2 DEF CallbackSkip
  <2>3. ASSUME NEW n \in Notifiers, CallbackPeek(n) PROVE CoveredInv'
    BY <2>3 DEF CallbackPeek
  <2>4. CASE CallbackFire
    BY <2>4 DEF CallbackFire
  <2>5. CASE CallbackClosest
    BY <2>5 DEF CallbackClosest
  <2>6. CASE CallbackNotify
    BY <2>6 DEF CallbackNotify
  <2>7. CASE CallbackWriteTime
    BY <2>7 DEF CallbackWriteTime
  <2>8. CASE CallbackWriteEnable
    BY <2>8 DEF CallbackWriteEnable
  <2>9. CASE CallbackNothingLeft
    BY <2>9 DEF CallbackNothingLeft
  <2> QED BY <1>2, <2>1, <2>2, <2>3, <2>4, <2>5, <2>6, <2>7, <2>8,
      <2>9 DEF Service, ServiceCheck, ServiceWaitOnIrqs, ServiceWoken
<1>3. ASSUME NEW t \in Threads, Start(t) \/ SpuriousWakeup(t) PROVE CoveredInv'
  <2>1. ASSUME NEW n \in Notifiers, InitializeCount(t, n) PROVE CoveredInv'
    BY <2>1 DEF InitializeCount
  <2>2. ASSUME NEW n \in Notifiers,
               NEW step \in {"stop", "cancel", "wait", "update"},
               NEW time \in Times, Call(t, n, step, time)
        PROVE  CoveredInv'
    BY <2>2 DEF Call
  <2>3. ASSUME NEW n \in Notifiers, CallClean(t, n) PROVE CoveredInv'
    BY <2>3 DEF CallClean
  <2>4. 0 \in Times
    BY ConstantsAssumption DEF Times, Never
  <2> QED BY <1>3, <2>1, <2>2, <2>3, <2>4 DEF Start, CallStop, CallUpdate,
             CallCancel, CallWait, CallStale, Exit, SpuriousWakeup, vars
<1>4. ASSUME NEW t \in Threads, Continue(t) PROVE CoveredInv'
  <2>1. CASE InitializeCreate(t) \/ InitializeAllocate(t)
    BY <2>1 DEF InitializeCreate, InitializeAllocate
  <2>2. CASE StopSection(t)
    BY <2>2 DEF StopSection
  <2>3. CASE StopNotify(t)
    BY <2>3 DEF StopNotify
  <2>4. CASE UpdateFields(t)
    BY <2>4 DEF UpdateFields
  <2>5. CASE UpdateFurther(t)
    BY <2>5 DEF UpdateFurther
  <2>6. CASE UpdateCloser(t)
    BY <2>6 DEF UpdateCloser
  <2>7. CASE UpdateWriteTime(t)
    BY <2>7 DEF UpdateWriteTime
  <2>8. CASE UpdateWriteEnable(t)
    BY <2>8 DEF UpdateWriteEnable
  <2>9. CASE Cancel(t)
    BY <2>9 DEF Cancel
  <2>10. CASE Wait(t)
    <3>1. CASE AlarmSeen(arg[t].n)
      <4>1. /\ pc' = [pc EXCEPT ![t] = "idle"]
            /\ arg' = [arg EXCEPT ![t] = NoArg]
        BY <2>10, <3>1 DEF Wait
      <4> QED BY <2>10, <4>1 DEF Wait
    <3>2. CASE ~AlarmSeen(arg[t].n)
      BY <2>10, <3>2 DEF Wait
    <3> QED BY <3>1, <3>2
  <2>11. CASE ExitJoin(t) \/ ExitDone(t)
    BY <2>11 DEF ExitJoin, ExitDone
  <2>12. ASSUME NEW n \in Notifiers, ExitDestroy(t, n) PROVE CoveredInv'
    BY <2>12 DEF ExitDestroy
  <2> QED BY <1>4, <2>1, <2>2, <2>3, <2>4, <2>5, <2>6, <2>7, <2>8, <2>9, <2>10,
             <2>11, <2>12 DEF Continue
<1> QED BY <1>1, <1>2, <1>3, <1>4 DEF Next

\* Every step that lets a sleeper see its alarm is followed by its notify_all.
LEMMA WakeupSteps ==
  TypeInv /\ TypeInv' /\ CallInv /\ NoLostWakeup /\ [Next]_vars => NoLostWakeup'
<1> SUFFICES ASSUME TypeInv, TypeInv', CallInv, NoLostWakeup,
    [Next]_vars PROVE NoLostWakeup'
  OBVIOUS
<1> USE ConstantsAssumption DEF TypeInv, TypeOK, Goto, Drop, Return, NotifyAll,
        HandleTableFree, ForEachSteps, hardware, fields, locking, threading,
        callback, CallInv, InCall, NoLostWakeup, AlarmSeen, NotifyPending,
        Deactivate
<1>1. CASE Tick \/ AlarmFires \/ UNCHANGED vars
  BY <1>1 DEF Tick, AlarmFires, vars
<1>2. CASE Service
  <2>1. ASSUME NEW n \in Notifiers, CallbackPeek(n) PROVE NoLostWakeup'
    BY <2>1 DEF CallbackPeek
  <2>2. CASE CallbackFire
    BY <2>2 DEF CallbackFire
  <2>3. CASE CallbackClosest
    BY <2>3 DEF CallbackClosest
  <2>4. CASE CallbackNotify
    BY <2>4 DEF CallbackNotify
  <2>5. CASE CallbackWriteTime
    BY <2>5 DEF CallbackWriteTime
  <2> QED BY <1>2, <2>1, <2>2, <2>3, <2>4, <2>5 DEF Service, ServiceCheck,
             ServiceWaitOnIrqs, ServiceWoken, CallbackLock, CallbackSkip,
             CallbackWriteEnable, CallbackNothingLeft
<1>3. ASSUME NEW t \in Threads, Start(t) \/ SpuriousWakeup(t) PROVE NoLostWakeup'
  <2>1. ASSUME NEW n \in Notifiers, InitializeCount(t, n) PROVE NoLostWakeup'
    BY <2>1 DEF InitializeCount
  <2>2. ASSUME NEW n \in Notifiers,
               NEW step \in {"stop", "cancel", "wait", "update"},
               NEW time \in Times, Call(t, n, step, time)
        PROVE  NoLostWakeup'
    BY <2>2 DEF Call
  <2>3. ASSUME NEW n \in Notifiers, CallClean(t, n) PROVE NoLostWakeup'
    BY <2>3 DEF CallClean
  <2>4. 0 \in Times
    BY ConstantsAssumption DEF Times, Never
  <2> QED BY <1>3, <2>1, <2>2, <2>3, <2>4 DEF Start, CallStop, CallUpdate,
             CallCancel, CallWait, CallStale, Exit, SpuriousWakeup, vars
<1>4. ASSUME NEW t \in Threads, Continue(t) PROVE NoLostWakeup'
  <2>1. CASE InitializeCreate(t) \/ InitializeAllocate(t)
    BY <2>1 DEF InitializeCreate, InitializeAllocate
  <2>2. CASE StopSection(t)
    BY <2>2 DEF StopSection
  <2>3. CASE StopNotify(t)
    <3>1. SUFFICES ASSUME NEW u \in Threads, pc'[u] = "blocked", AlarmSeen(arg[u].n)
                   PROVE  NotifyPending(arg[u].n)'
      BY <2>3, <3>1 DEF StopNotify
    <3>2. u # t /\ pc[u] = "blocked" /\ arg[u].n # arg[t].n /\ arg'[u] = arg[u]
      BY <2>3, <3>1 DEF StopNotify
    <3>3. NotifyPending(arg[u].n)
      BY <3>1, <3>2
    <3> QED BY <2>3, <3>2, <3>3 DEF StopNotify
  <2>4. CASE UpdateFields(t)
    BY <2>4 DEF UpdateFields
  <2>5. CASE UpdateFurther(t)
    BY <2>5 DEF UpdateFurther
  <2>6. CASE UpdateCloser(t)
    BY <2>6 DEF UpdateCloser
  <2>7. CASE UpdateWriteTime(t)
    BY <2>7 DEF UpdateWriteTime
  <2>8. CASE UpdateWriteEnable(t)
    BY <2>8 DEF UpdateWriteEnable
  <2>9. CASE Cancel(t)
    BY <2>9 DEF Cancel
  <2>10. CASE Wait(t)
    <3>1. CASE AlarmSeen(arg[t].n)
      <4>1. /\ pc' = [pc EXCEPT ![t] = "idle"]
            /\ arg' = [arg EXCEPT ![t] = NoArg]
        BY <2>10, <3>1 DEF Wait
      <4> QED BY <2>10, <4>1 DEF Wait
    <3>2. CASE ~AlarmSeen(arg[t].n)
      BY <2>10, <3>2 DEF Wait
    <3> QED BY <3>1, <3>2
  <2>11. CASE ExitJoin(t) \/ ExitDone(t)
    BY <2>11 DEF ExitJoin, ExitDone
  <2>12. ASSUME NEW n \in Notifiers, ExitDestroy(t, n) PROVE NoLostWakeup'
    BY <2>12 DEF ExitDestroy
  <2> QED BY <1>4, <2>1, <2>2, <2>3, <2>4, <2>5, <2>6, <2>7, <2>8, <2>9, <2>10,
             <2>11, <2>12 DEF Continue
<1> QED BY <1>1, <1>2, <1>3, <1>4 DEF Next

\* The invariant is inductive.
LEMMA Invariance == Spec => []IInv
<1>1. Init => IInv
  <2>1. TypeInv /\ Init => LockInv /\ ClaimInv /\ CallInv
    BY ConstantsAssumption DEF Init, TypeInv, TypeOK, LockInv, ClaimInv, CallInv,
       CallbackHolds, UpdateHolds, Creating, InCall, ForEachSteps
  <2>2. TypeInv /\ Init => VisitInv /\ HardwareInv /\ CoveredInv
    BY ConstantsAssumption DEF Init, TypeInv, TypeOK, VisitInv, HardwareInv,
       CoveredInv
  <2>3. TypeInv /\ Init => NoLostWakeup
    BY DEF Init, NoLostWakeup
  <2>4. Init => TypeInv
    BY TypeInit
  <2> QED BY <2>1, <2>2, <2>3, <2>4 DEF IInv
<1>2. IInv /\ [Next]_vars => IInv'
  <2>1. TypeInv /\ [Next]_vars => TypeInv'
    BY TypeSteps
  <2> QED BY <2>1, LockSteps, ClaimSteps, CallSteps, VisitSteps, HardwareSteps,
             CoveredSteps, WakeupSteps DEF IInv
<1> QED BY <1>1, <1>2, PTL DEF Spec

\* No alarm is lost, for any threads, notifiers, clock and width of the register:
\* when updates and callbacks have settled, the hardware is armed for a time no
\* later than that of any live notifier still waiting for its alarm.
THEOREM NoAlarmIsLost == Spec => []NoLostAlarm
<1>1. IInv => NoLostAlarm
  <2> SUFFICES ASSUME IInv, Quiescent, NEW n \in Notifiers,
                      obj[n] = "live", triggerTime[n] # Never
               PROVE  /\ closestTrigger <= triggerTime[n]
                      /\ alarm = [time |-> HardwareTime(closestTrigger),
                          enabled |-> TRUE]
    BY DEF NoLostAlarm
  <2>1. closestTrigger <= triggerTime[n]
    BY ConstantsAssumption DEF IInv, CoveredInv, Covered, Quiescent, ForEachSteps,
       Updating
  <2>2. closestTrigger # Never
    BY <2>1, ConstantsAssumption DEF IInv, TypeInv, TypeOK, Times, Never
  <2>3. alarm.time = HardwareTime(closestTrigger)
    BY <2>2 DEF IInv, HardwareInv, Quiescent
  <2>4. alarm.enabled
    <3>1. \A t \in Threads : notifierMutex # t
      BY ConstantsAssumption DEF Quiescent
    <3>2. \A t \in Threads : pc[t] \notin {"writeTime", "writeEnable"}
      BY <3>1 DEF IInv, LockInv, UpdateHolds
    <3> QED BY <2>2, <3>2 DEF IInv, HardwareInv, Quiescent, CallbackHolds,
               ForEachSteps
  <2>5. alarm \in [time : 0 .. Wrap - 1, enabled : BOOLEAN]
    BY DEF IInv, TypeInv, TypeOK
  <2>6. alarm.enabled = TRUE
    BY <2>4, <2>5
  <2> QED BY <2>1, <2>3, <2>5, <2>6
<1> QED BY <1>1, Invariance, PTL

\* No wake-up is lost, for any threads and notifiers: a thread asleep on an alarm
\* that fired or a notifier that was stopped is about to be notified.
THEOREM NoWakeupIsLost == Spec => []NoLostWakeup
<1>1. IInv => NoLostWakeup
  BY DEF IInv
<1> QED BY <1>1, Invariance, PTL

-----------------------------------------------------------------------------
\* The process runs on when no thread's step ended it.
LEMMA StaysRunning ==
  ASSUME Running, TypeInv', \A t \in Threads : pc'[t] \notin {"terminated",
      "exited"}
  PROVE  Running'
BY DEF Running, Terminated, Exited

\* Every step of Notifier is a step of AlarmService, or none of its variables
\* changes.
LEMMA RefinementStep ==
  ASSUME IInv, IInv', [Next]_vars
  PROVE  [Promise!Next]_Promise!vars
<1> USE ConstantsAssumption DEF hardware, fields, locking, threading, callback,
        Goto, Drop, Return, NotifyAll
<1>0. TypeInv /\ TypeInv' /\ ClaimInv /\ CallInv /\ VisitInv
  BY DEF IInv
<1>a. /\ \A t \in Threads : pc[t] \in InCall =>
           arg[t].n \in Notifiers /\ obj[arg[t].n] \in {"live", "freed"}
      /\ \A t \in Threads : pc[t] \in Creating =>
           arg[t].n \in Notifiers /\ obj[arg[t].n] = "claimed"
  BY <1>0 DEF CallInv, ClaimInv
<1>b. Running => \A t \in Threads : pc[t] \notin {"terminated", "exited"}
  BY DEF Running, Terminated, Exited
<1>c. ASSUME obj' = obj PROVE Status' = Status
  BY <1>c DEF Status
<1>d. ASSUME NEW t \in Threads, UNCHANGED <<clock, obj, fields>>,
    pc'[t] \in {"terminated", "exited"}, Running
      PROVE Promise!Next
  <2>1. ~Running'
    BY <1>d DEF Running, Terminated, Exited
  <2>2. Status' = Status
    BY <1>d, <1>c
  <2> QED BY <1>d, <2>1, <2>2 DEF Promise!Next, Promise!Halt
<1>e. ASSUME Running, Running', UNCHANGED <<clock, obj, fields>>
      PROVE UNCHANGED Promise!vars
  <2>1. Status' = Status
    BY <1>e, <1>c
  <2> QED BY <1>e, <2>1 DEF Promise!vars
<1>1. CASE ~Running /\ UNCHANGED vars
  <2>1. pc' = pc /\ UNCHANGED <<clock, obj, fields>>
    BY <1>1 DEF vars
  <2>2. ~Running'
    BY <1>1, <2>1 DEF Running, Terminated, Exited
  <2>3. Status' = Status
    BY <2>1, <1>c
  <2> QED BY <1>1, <2>1, <2>2, <2>3 DEF Promise!vars
<1>2. CASE Running /\ Tick
  <2>1. Running'
    BY <1>0, <1>b, <1>2, StaysRunning DEF Tick
  <2>2. Promise!Tick
    <3>1. Status' = Status
      BY <1>2, <1>c DEF Tick
    <3> QED BY <1>2, <2>1, <3>1 DEF Tick, Promise!Tick
  <2> QED BY <1>2, <2>2 DEF Promise!Next
<1>3. CASE Running /\ AlarmFires
  <2>1. Running'
    BY <1>0, <1>b, <1>3, StaysRunning DEF AlarmFires
  <2> QED BY <1>3, <2>1, <1>e DEF AlarmFires
<1>4. CASE Running /\ Service
  <2>1. Running'
    BY <1>0, <1>b, <1>4, StaysRunning DEF Service, TypeInv, TypeOK, ServiceCheck,
       ServiceWaitOnIrqs, ServiceWoken, CallbackLock, CallbackSkip, CallbackPeek,
       CallbackFire, CallbackClosest, CallbackNotify, CallbackWriteTime,
       CallbackWriteEnable, CallbackNothingLeft
  <2>2. CASE CallbackFire
    <3>1. cur \in Notifiers /\ obj[cur] = "live" /\ currentTime \in 0 .. clock
      BY <1>0, <2>2 DEF CallbackFire, TypeInv, TypeOK, VisitInv
    <3>2. Promise!Fire(cur)
      <4>1. Status[cur] = "open" /\ Status' = Status
        BY <2>2, <3>1, <1>c DEF CallbackFire, Status
      <4>2. \E time \in 0 .. clock : /\ triggerTime[cur] < time
                                     /\ triggeredTime' = [triggeredTime EXCEPT ![cur] = time]
        BY <2>2, <3>1 DEF CallbackFire
      <4>3. triggerTime' = [triggerTime EXCEPT ![cur] = MaxTime + 1] /\ UNCHANGED <<clock, active>>
        BY <2>2 DEF CallbackFire, Never
      <4> QED BY <1>4, <2>1, <4>1, <4>2, <4>3 DEF Promise!Fire, Promise!Never
    <3> QED BY <1>4, <3>1, <3>2 DEF Promise!Next
  <2>3. CASE ~CallbackFire
    BY <1>4, <1>e, <2>1, <2>3 DEF Service, ServiceCheck, ServiceWaitOnIrqs,
       ServiceWoken, CallbackLock, CallbackSkip, CallbackPeek, CallbackClosest,
       CallbackNotify, CallbackWriteTime, CallbackWriteEnable, CallbackNothingLeft
  <2> QED BY <2>2, <2>3
<1>5. ASSUME Running, NEW t \in Threads,
    Start(t) \/ SpuriousWakeup(t) PROVE [Promise!Next]_Promise!vars
  <2>1. Running'
    BY <1>0, <1>b, <1>5, StaysRunning DEF TypeInv, TypeOK, Start, InitializeCount,
       CallStop, CallClean, CallUpdate, CallCancel, CallWait, CallStale, Call, Exit,
       SpuriousWakeup, vars
  <2>2. ASSUME NEW n \in Notifiers, InitializeCount(t,
      n) PROVE UNCHANGED Promise!vars
    <3>1. Status' = Status
      BY <1>0, <2>2 DEF InitializeCount, Status, TypeInv, TypeOK
    <3> QED BY <1>5, <2>1, <2>2, <3>1 DEF InitializeCount, Promise!vars
  <2>3. ASSUME NEW n \in Notifiers, CallClean(t, n) PROVE Promise!Next
    <3>1. Status[n] = "open" /\ Status' = [Status EXCEPT ![n] = "closed"]
      BY <1>0, <2>3 DEF CallClean, Status, TypeInv, TypeOK
    <3>2. Promise!Close(n)
      BY <1>5, <2>1, <2>3, <3>1 DEF CallClean, Promise!Close
    <3> QED BY <1>5, <3>2 DEF Promise!Next
  <2> QED BY <1>5, <1>e, <2>1, <2>2, <2>3 DEF Start, CallStop, CallUpdate,
             CallCancel, CallWait, CallStale, Call, Exit, SpuriousWakeup, vars
<1>6. ASSUME Running, NEW t \in Threads,
    Continue(t) PROVE [Promise!Next]_Promise!vars
  <2>1. CASE InitializeCreate(t) \/ ExitJoin(t) \/ ExitDone(t)
    <3>1. UNCHANGED <<clock, obj,
        fields>> /\ \A u \in Threads : u # t => pc'[u] = pc[u]
      BY <1>0, <2>1 DEF InitializeCreate, ExitJoin, ExitDone, TypeInv, TypeOK
    <3>2. CASE pc'[t] \in {"terminated", "exited"}
      BY <1>6, <1>d, <3>1, <3>2
    <3>3. CASE pc'[t] \notin {"terminated", "exited"}
      BY <1>0, <1>6, <1>b, <1>e, <3>1, <3>3, StaysRunning
    <3> QED BY <3>2, <3>3
  <2>2. CASE ~(InitializeCreate(t) \/ ExitJoin(t) \/ ExitDone(t))
    <3>1. Running'
      <4>1. CASE Wait(t)
        <5>1. pc' = [pc EXCEPT ![t] = "idle"] \/ pc' = [pc EXCEPT ![t] = "blocked"]
          BY <4>1 DEF Wait
        <5> QED BY <1>0, <1>b, <1>6, <5>1, StaysRunning DEF TypeInv, TypeOK
      <4>2. CASE UpdateCloser(t)
        <5>1. pc' = [pc EXCEPT ![t] = "moveTime"] \/ pc' = [pc EXCEPT ![t] = "writeTime"]
          BY <4>2 DEF UpdateCloser
        <5> QED BY <1>0, <1>b, <1>6, <5>1, StaysRunning DEF TypeInv, TypeOK
      <4>3. ASSUME NEW n \in Notifiers, ExitDestroy(t, n) PROVE Running'
        <5>1. pc' = pc \/ pc' = NotifyAll(n, pc)
          BY <4>3 DEF ExitDestroy
        <5> QED BY <1>0, <1>b, <1>6, <5>1, StaysRunning DEF TypeInv, TypeOK
      <4>4. CASE StopNotify(t)
        <5>1. pc' = [NotifyAll(arg[t].n, pc) EXCEPT ![t] = "idle"]
          BY <4>4 DEF StopNotify
        <5> QED BY <1>0, <1>b, <1>6, <5>1, StaysRunning DEF TypeInv, TypeOK
      <4>5. CASE \/ InitializeAllocate(t) \/ StopSection(t) \/ UpdateFields(t) \/ Cancel(t)
                 \/ UpdateFurther(t) \/ UpdateWriteTime(t) \/ UpdateWriteEnable(t)
        BY <1>0, <1>b, <1>6, <4>5, StaysRunning DEF TypeInv, TypeOK,
           InitializeAllocate, StopSection, UpdateFields, UpdateFurther,
           UpdateWriteTime, UpdateWriteEnable, Cancel
      <4> QED BY <1>6, <2>2, <4>1, <4>2, <4>3, <4>4, <4>5 DEF Continue
    <3>2. CASE InitializeAllocate(t)
      <4>1. /\ arg[t].n \in Notifiers /\ Status[arg[t].n] = "new"
            /\ Status' = [Status EXCEPT ![arg[t].n] = "open"]
        BY <1>0, <1>a, <3>2 DEF InitializeAllocate, Status, Creating, TypeInv,
           TypeOK
      <4>2. Promise!Open(arg[t].n)
        <5>1. UNCHANGED <<clock, triggerTime, triggeredTime, active>>
          BY <3>2 DEF InitializeAllocate
        <5> QED BY <1>6, <3>1, <4>1, <5>1 DEF Promise!Open
      <4> QED BY <1>6, <4>1, <4>2 DEF Promise!Next
    <3>3. CASE StopSection(t)
      <4>1. arg[t].n \in Notifiers /\ Status[arg[t].n] # "new"
        BY <1>0, <1>a, <3>3 DEF StopSection, Status, InCall, TypeInv, TypeOK
      <4>2. Promise!Stop(arg[t].n)
        <5>1. /\ triggerTime' = [triggerTime EXCEPT ![arg[t].n] = MaxTime + 1]
              /\ triggeredTime' = [triggeredTime EXCEPT ![arg[t].n] = 0]
              /\ active' = [active EXCEPT ![arg[t].n] = FALSE]
              /\ UNCHANGED <<clock, obj>>
          BY <3>3 DEF StopSection, Deactivate, Never
        <5>2. Status' = Status
          BY <5>1, <1>c
        <5> QED BY <1>6, <3>1, <4>1, <5>1, <5>2 DEF Promise!Stop, Promise!Never
      <4> QED BY <1>6, <4>1, <4>2 DEF Promise!Next
    <3>4. CASE UpdateFields(t)
      <4>1. arg[t].n \in Notifiers /\ Status[arg[t].n] # "new" /\ arg[t].time \in 0 .. Promise!Never
        BY <1>0, <1>a, <3>4 DEF UpdateFields, Status, InCall, TypeInv, TypeOK,
           Times, Never, Promise!Never
      <4>2. Promise!Arm(arg[t].n, arg[t].time)
        <5>1. /\ triggerTime' = [triggerTime EXCEPT ![arg[t].n] = arg[t].time]
              /\ triggeredTime' = [triggeredTime EXCEPT ![arg[t].n] = MaxTime + 1]
              /\ UNCHANGED <<clock, obj, active>>
          BY <3>4 DEF UpdateFields, Deactivate, Never
        <5>2. Status' = Status
          BY <5>1, <1>c
        <5> QED BY <1>6, <3>1, <4>1, <5>1, <5>2 DEF Promise!Arm, Promise!Never
      <4> QED BY <1>6, <4>1, <4>2 DEF Promise!Next
    <3>5. CASE Cancel(t)
      <4>1. arg[t].n \in Notifiers /\ Status[arg[t].n] # "new"
        BY <1>0, <1>a, <3>5 DEF Cancel, Status, InCall, TypeInv, TypeOK
      <4>2. Promise!Cancel(arg[t].n)
        <5>1. /\ triggerTime' = [triggerTime EXCEPT ![arg[t].n] = MaxTime + 1]
              /\ UNCHANGED <<clock, obj, triggeredTime, active>>
          BY <3>5 DEF Cancel, Deactivate, Never
        <5>2. Status' = Status
          BY <5>1, <1>c
        <5> QED BY <1>6, <3>1, <4>1, <5>1, <5>2 DEF Promise!Cancel, Promise!Never
      <4> QED BY <1>6, <4>1, <4>2 DEF Promise!Next
    <3>6. ASSUME NEW n \in Notifiers, ExitDestroy(t,
        n) PROVE [Promise!Next]_Promise!vars
      <4>1. CASE obj[n] = "live"
        <5>1. Status[n] = "open"
          BY <4>1 DEF Status
        <5>2. Promise!Stop(n)
          <6>1. /\ triggerTime' = [triggerTime EXCEPT ![n] = MaxTime + 1]
                /\ triggeredTime' = [triggeredTime EXCEPT ![n] = 0]
                /\ active' = [active EXCEPT ![n] = FALSE]
                /\ UNCHANGED <<clock, obj>>
            BY <3>6, <4>1 DEF ExitDestroy, Deactivate, Never
          <6>2. Status' = Status
            BY <6>1, <1>c
          <6> QED BY <1>6, <3>1, <5>1, <6>1, <6>2 DEF Promise!Stop, Promise!Never
        <5> QED BY <1>6, <5>2 DEF Promise!Next
      <4>2. CASE obj[n] # "live"
        BY <1>6, <1>e, <3>1, <3>6, <4>2 DEF ExitDestroy
      <4> QED BY <4>1, <4>2
    <3>7. CASE \/ StopNotify(t) \/ UpdateFurther(t) \/ UpdateCloser(t) \/ Wait(t)
               \/ UpdateWriteTime(t) \/ UpdateWriteEnable(t)
      BY <1>6, <1>e, <3>1, <3>7 DEF StopNotify, UpdateFurther, UpdateCloser,
         UpdateWriteTime, UpdateWriteEnable, Wait
    <3> QED BY <1>6, <2>2, <3>2, <3>3, <3>4, <3>5, <3>6, <3>7 DEF Continue
  <2> QED BY <2>1, <2>2
<1>7. CASE UNCHANGED vars
  <2>1. pc' = pc /\ UNCHANGED <<clock, obj, fields>>
    BY <1>7 DEF vars
  <2>2. Running <=> Running'
    BY <2>1 DEF Running, Terminated, Exited
  <2>3. Status' = Status
    BY <2>1, <1>c
  <2> QED BY <2>1, <2>2, <2>3 DEF Promise!vars
<1> QED BY <1>1, <1>2, <1>3, <1>4, <1>5, <1>6, <1>7 DEF Next

\* Every behaviour of the threads, the callback and the alarm is one of the
\* service: nothing fires before its deadline, or after it was cancelled.
THEOREM Refinement == Spec => ImplementsAlarmService
<1>1. Init => Promise!Init
  <2>1. Init => Running
    BY DEF Init, Running, Terminated, Exited
  <2>2. Init => Status = [n \in Notifiers |-> "new"]
    BY DEF Init, Status
  <2> QED BY <2>1, <2>2 DEF Init, Promise!Init, Promise!Never, Never
<1>2. IInv /\ IInv' /\ [Next]_vars => [Promise!Next]_Promise!vars
  BY RefinementStep
<1> QED BY <1>1, <1>2, Invariance, PTL DEF Spec, ImplementsAlarmService,
           Promise!Spec
=============================================================================
