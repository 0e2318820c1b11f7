------------------------------ MODULE HALInit ------------------------------
(***************************************************************************)
(* cpp/HAL.cpp and cpp/HALInitializer.h: any thread may call               *)
(* HAL_Initialize, or an API function, whose CheckInit initializes the HAL *)
(* on the way and ignores how it went.  What InitializeHAL does is         *)
(* abstracted to creating the handle tables and to InitializeCAN, the one  *)
(* part of it that cannot be done twice.                                   *)
(***************************************************************************)
EXTENDS MutexConstants, Integers

CONSTANT MaxFailures   \* bounds failed opens

ASSUME InitAssumption == MaxFailures \in Nat

VARIABLES
  initialized,         \* HAL_Initialize's static flag
  HAL_IsInitialized,   \* what CheckInit looks at
  initializeMutex,
  tables,              \* InitializeHAL has set the handle tables
  canThreads,          \* periodicThread and receiveThread are joinable
  session,             \* FPGASession is open
  nowImpl,             \* wpi::Now is the FPGA's time
  failures,            \* failed attempts to initialize
  terminated,
  pc,
  inAPI,               \* the thread came by CheckInit
  result               \* what a thread's last HAL_Initialize returned

flags == <<initialized, HAL_IsInitialized>>
system == <<tables, canThreads, session, nowImpl>>
vars == <<flags, initializeMutex, system, failures, terminated, pc, inAPI, result>>

Steps == {"idle", "lock", "tables", "store", "open", "now", "finish", "using"}

TypeOK ==
  /\ initialized \in BOOLEAN /\ HAL_IsInitialized \in BOOLEAN
  /\ initializeMutex \in Threads \cup {NoThread}
  /\ tables \in BOOLEAN /\ canThreads \in BOOLEAN
  /\ session \in BOOLEAN /\ nowImpl \in BOOLEAN
  /\ failures \in 0 .. MaxFailures
  /\ terminated \in BOOLEAN
  /\ pc \in [Threads -> Steps]
  /\ inAPI \in [Threads -> BOOLEAN]
  /\ result \in [Threads -> BOOLEAN]

Init ==
  /\ initialized = FALSE /\ HAL_IsInitialized = FALSE
  /\ initializeMutex = NoThread
  /\ tables = FALSE /\ canThreads = FALSE /\ session = FALSE /\ nowImpl = FALSE
  /\ failures = 0
  /\ terminated = FALSE
  /\ pc = [t \in Threads |-> "idle"]
  /\ inAPI = [t \in Threads |-> FALSE]
  /\ result = [t \in Threads |-> FALSE]

Goto(t, step) == pc' = [pc EXCEPT ![t] = step]

\* HAL_Initialize returns to its caller, or to the API function behind CheckInit.
Return(t, r) ==
  /\ Goto(t, IF inAPI[t] THEN "using" ELSE "idle")
  /\ result' = [result EXCEPT ![t] = r]

\* The first, unlocked check of HAL_Initialize.
FirstCheck(t) ==
  IF initialized THEN Return(t, TRUE) ELSE Goto(t, "lock") /\ UNCHANGED result

Initialize(t) ==
  /\ pc[t] = "idle"
  /\ ~inAPI[t] /\ FirstCheck(t)
  /\ UNCHANGED <<flags, initializeMutex, system, failures, terminated, inAPI>>

\* An API function: CheckInit
CheckInit(t) ==
  /\ pc[t] = "idle" /\ ~inAPI[t]
  /\ inAPI' = [inAPI EXCEPT ![t] = TRUE]
  /\ Goto(t, IF HAL_IsInitialized \/ initialized THEN "using" ELSE "lock")
  /\ UNCHANGED <<flags, initializeMutex, system, failures, terminated, result>>

\* The API function does its work and returns.
Use(t) ==
  /\ pc[t] = "using" /\ Goto(t, "idle")
  /\ inAPI' = [inAPI EXCEPT ![t] = FALSE]
  /\ UNCHANGED <<flags, initializeMutex, system, failures, terminated, result>>

\* Mutated form: there is no second check.
NeverFinished == FALSE

\* "Second check in case another thread was waiting"
FinishedByAnother == initialized

Lock(t) ==
  /\ pc[t] = "lock"
  /\ initializeMutex = NoThread
  /\ IF FinishedByAnother
       THEN Return(t, TRUE) /\ UNCHANGED initializeMutex
       ELSE Goto(t, "tables") /\ initializeMutex' = t /\ UNCHANGED result
  /\ UNCHANGED <<flags, system, failures, terminated, inAPI>>

\* InitializeHAL.  Without a CAN session InitializeCAN starts no threads; with
\* one it assigns two, and assigning to a joinable std::thread terminates.
InitializeHAL(t) ==
  /\ pc[t] = "tables"
  /\ tables' = TRUE
  /\ \E opened \in BOOLEAN :
       /\ canThreads' = (canThreads \/ opened)
       /\ terminated' = (canThreads /\ opened)
  /\ Goto(t, "store")
  /\ UNCHANGED <<flags, initializeMutex, session, nowImpl, failures, inAPI, result>>

\* killExistingProgram, which follows, never returns false (see ProgramLock).
StoreIsInitialized(t) ==
  /\ pc[t] = "store" /\ Goto(t, "open")
  /\ HAL_IsInitialized' = TRUE
  /\ UNCHANGED <<initialized, initializeMutex, system, failures, terminated, inAPI, result>>

Open(t) ==
  /\ pc[t] = "open" /\ Goto(t, "now")
  /\ session' = TRUE
  /\ UNCHANGED <<flags, initializeMutex, tables, canThreads, nowImpl, failures,
                 terminated, inAPI, result>>

\* Mutated form: the lock outlives the early return.
StillLocked(t) == initializeMutex' = t

Unlock(t) == initializeMutex' = NoThread

OpenFails(t) ==
  /\ pc[t] = "open"
  /\ failures < MaxFailures
  /\ failures' = failures + 1
  /\ Unlock(t)
  /\ Return(t, FALSE)
  /\ UNCHANGED <<flags, system, terminated, inAPI>>

SetNowImpl(t) ==
  /\ pc[t] = "now" /\ Goto(t, "finish")
  /\ nowImpl' = TRUE
  /\ UNCHANGED <<flags, initializeMutex, tables, canThreads, session, failures,
                 terminated, inAPI, result>>

\* Mutated form: the flag is set without waiting for wpi::SetNowImpl.
FinishEarly(t) ==
  /\ pc[t] = "now"
  /\ initialized' = TRUE
  /\ Unlock(t)
  /\ Return(t, TRUE)
  /\ UNCHANGED <<HAL_IsInitialized, system, failures, terminated, inAPI>>

Finish(t) ==
  /\ pc[t] = "finish"
  /\ initialized' = TRUE
  /\ Unlock(t)
  /\ Return(t, TRUE)
  /\ UNCHANGED <<HAL_IsInitialized, system, failures, terminated, inAPI>>

Continue(t) ==
  \/ Lock(t) \/ InitializeHAL(t) \/ StoreIsInitialized(t) \/ Open(t) \/ OpenFails(t)
  \/ SetNowImpl(t) \/ Finish(t) \/ Use(t)

\* Behaviours end only with std::terminate.
Next ==
  /\ ~terminated
  /\ \E t \in Threads : Initialize(t) \/ CheckInit(t) \/ Continue(t)

Spec == Init /\ [][Next]_vars

\* A thread inside a call goes on, and gets a mutex it finds free again and again.
FairSpec == Spec /\ \A t \in Threads : SF_vars(~terminated /\ Continue(t))

-----------------------------------------------------------------------------
\* "Initial check, as if it's true initialization has finished": whoever was told
\* true, by whichever check, has the tables, an open session and the FPGA's time,
\* and the thread that initializes is not there any more.
TrueMeansFinished ==
  \A t \in Threads : result[t] =>
    /\ tables /\ session /\ nowImpl /\ HAL_IsInitialized
    /\ \A u \in Threads : pc[u] \notin {"tables", "store", "open", "now", "finish"}

\* Calls from many threads at once initialize the HAL once: only a new attempt
\* after a failed one assigns the CAN threads twice and ends the process.
TerminatedOnlyByRetry == terminated => failures > 0

\* No call of HAL_Initialize, by hand or through CheckInit, waits for ever.
CallReturns == \A t \in Threads : pc[t] = "lock" ~> pc[t] \in {"idle", "using"} \/ terminated
=============================================================================
