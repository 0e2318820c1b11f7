---------------------------- MODULE WaitsProofs ----------------------------
(***************************************************************************)
(* For any number of threads and of failed attempts: HAL_Initialize tells  *)
(* the truth, and its first attempt never ends the process.  For any       *)
(* number of messages and of slots: HAL_SendError repeats only what is old *)
(* or forgotten.                                                           *)
(***************************************************************************)
EXTENDS HALInit, DriverStation, FiniteSetTheorems, WellFoundedInduction, NaturalsInduction,
        TLAPS

\* The steps of a thread that initializes, with the mutex in its hands.
Initializing == {"tables", "store", "open", "now", "finish"}

\* What a thread has done when it is at a step.
Done(t) ==
  /\ pc[t] \in {"store", "open", "now", "finish"} => tables
  /\ pc[t] \in {"open", "now", "finish"} => HAL_IsInitialized
  /\ pc[t] \in {"now", "finish"} => session
  /\ pc[t] = "finish" => nowImpl

Exclusion == \A t \in Threads : pc[t] \in Initializing <=> initializeMutex = t

\* The flag means that all is done, and that nobody does it again.
Finished ==
  initialized => /\ tables /\ session /\ nowImpl /\ HAL_IsInitialized
                 /\ initializeMutex = NoThread

\* The CAN threads that exist are of this attempt, of a failed or of the last one.
CanThreads ==
  canThreads => \/ failures > 0 \/ initialized
                \/ \E t \in Threads : pc[t] \in {"store", "open", "now", "finish"}

Told == \A t \in Threads : result[t] => initialized

IInv ==
  /\ TypeOK /\ Exclusion /\ Finished /\ CanThreads /\ Told
  /\ TerminatedOnlyByRetry
  /\ \A t \in Threads : Done(t)

LEMMA InitEstablishes == Init => IInv
<1> SUFFICES ASSUME Init PROVE IInv
  OBVIOUS
<1> USE InitAssumption, ThreadAssumption DEF Init
<1>1. TypeOK
  <2>1. initializeMutex \in Threads \cup {NoThread} /\ failures \in 0 .. MaxFailures
    OBVIOUS
  <2>2. /\ pc \in [Threads -> Steps]
        /\ inAPI \in [Threads -> BOOLEAN] /\ result \in [Threads -> BOOLEAN]
    BY DEF Steps
  <2> QED BY <2>1, <2>2 DEF TypeOK
<1>2. Exclusion /\ \A t \in Threads : Done(t)
  BY DEF Exclusion, Initializing, Done
<1>3. Finished /\ CanThreads /\ Told /\ TerminatedOnlyByRetry
  BY DEF Finished, CanThreads, Told, TerminatedOnlyByRetry
<1> QED BY <1>1, <1>2, <1>3 DEF IInv

\* Each step preserves the invariant: the holder of the mutex is the only one that
\* initializes, and finds the flag unset.
LEMMA StepPreserves == IInv /\ [Next]_vars => IInv'
<1> SUFFICES ASSUME IInv, [Next]_vars PROVE IInv'
  OBVIOUS
<1> USE InitAssumption, ThreadAssumption
    DEF IInv, TypeOK, Steps, Exclusion, Initializing, Finished, CanThreads, Told,
        TerminatedOnlyByRetry, Done
<1>1. CASE UNCHANGED vars
  BY <1>1 DEF vars, flags, system
<1>2. ASSUME NEW t \in Threads, Initialize(t) \/ CheckInit(t) \/ Continue(t) PROVE IInv'
  <2>1. CASE Initialize(t)
    BY <2>1 DEF Initialize, FirstCheck, Return, Goto, flags, system
  <2>2. CASE CheckInit(t)
    BY <2>2 DEF CheckInit, Goto, flags, system
  <2>3. CASE Lock(t)
    <3>1. CASE initialized
      BY <2>3, <3>1 DEF Lock, FinishedByAnother, Return, Goto, flags, system
    <3>2. CASE ~initialized
      BY <2>3, <3>2 DEF Lock, FinishedByAnother, Return, Goto, flags, system
    <3> QED BY <3>1, <3>2
  <2>4. CASE InitializeHAL(t)
    BY <2>4 DEF InitializeHAL, Goto, flags
  <2>5. CASE StoreIsInitialized(t)
    BY <2>5 DEF StoreIsInitialized, Goto, system
  <2>6. CASE Open(t)
    BY <2>6 DEF Open, Goto, flags
  <2>7. CASE OpenFails(t)
    BY <2>7 DEF OpenFails, Unlock, Return, Goto, flags, system
  <2>8. CASE SetNowImpl(t)
    BY <2>8 DEF SetNowImpl, Goto, flags
  <2>9. CASE Finish(t)
    BY <2>9 DEF Finish, Unlock, Return, Goto, system
  <2>10. CASE Use(t)
    BY <2>10 DEF Use, Goto, flags, system
  <2> QED
    BY <1>2, <2>1, <2>2, <2>3, <2>4, <2>5, <2>6, <2>7, <2>8, <2>9, <2>10 DEF Continue
<1> QED BY <1>1, <1>2 DEF Next

\* In every state of the system the invariant holds.
THEOREM Invariance == Spec => []IInv
BY InitEstablishes, StepPreserves, PTL DEF Spec

\* Type correctness of HALInit.
THEOREM Typing == Spec => []TypeOK
<1>1. IInv => TypeOK
  BY DEF IInv
<1> QED BY <1>1, Invariance, PTL

\* Whoever was told true by HAL_Initialize has the tables, an open session and the
\* FPGA's time, and nobody initializes any more.
THEOREM TrueIsFinished == Spec => []TrueMeansFinished
<1>1. IInv => TrueMeansFinished
  BY InitAssumption, ThreadAssumption DEF IInv, TypeOK, Exclusion, Initializing, Finished, Told, TrueMeansFinished
<1> QED BY <1>1, Invariance, PTL

\* Many threads that initialize at once do not assign the CAN threads twice: only an
\* attempt after a failed one does.
THEOREM FirstAttemptIsSafe == Spec => []TerminatedOnlyByRetry
<1>1. IInv => TerminatedOnlyByRetry
  BY DEF IInv
<1> QED BY <1>1, Invariance, PTL

-----------------------------------------------------------------------------
ErrorSpec == ErrorInit /\ [][ErrorNext]_errorVars

Holds(i) == slots[i].msg # NoMessage

ErrorTypes ==
  /\ now \in Nat
  /\ slots \in [Slots -> [msg : Messages \cup {NoMessage}, time : Int]]
  /\ told \in [Messages -> [time : Int, others : SUBSET Messages]]
  /\ \A m \in Messages : IsFiniteSet(told[m].others)

\* A slot in use has its message and when it was last sent.
Remembered ==
  \A i \in Slots :
    /\ ~Holds(i) => slots[i].time = Never
    /\ Holds(i) => slots[i].time \in 0 .. now - 1 /\ told[slots[i].msg].time = slots[i].time

\* Two slots in use have two messages, of two times; and the later was sent since the
\* other was.
InOrder ==
  \A i, j \in Slots : i # j /\ Holds(i) /\ Holds(j) =>
    /\ slots[i].time # slots[j].time /\ slots[i].msg # slots[j].msg
    /\ slots[i].time < slots[j].time => slots[j].msg \in told[slots[i].msg].others

\* A message that was sent and is in no slot: all that are were sent since.
Forgotten(m) == told[m].time # Never /\ \A i \in Slots : slots[i].msg # m
ForgottenForOthers ==
  \A m \in Messages : Forgotten(m) => \A i \in Slots : slots[i].msg \in told[m].others

ErrorInv == ErrorTypes /\ Remembered /\ InOrder /\ ForgottenForOthers

\* A set of integers with a lower bound has a least element: the one Min chooses.
LEMMA LeastIs ==
  ASSUME NEW S, S # {}, NEW b \in Int, \A x \in S : x \in Int /\ b <= x
  PROVE  Min(S) \in S /\ \A y \in S : Min(S) <= y
<1> DEFINE R == {ss \in Nat \X Nat : ss[1] < ss[2]}
           T == {x - b : x \in S}
<1>1. R = OpToRel(<, Nat)
  BY Zenon DEF OpToRel
<1>2. T \subseteq Nat /\ T # {}
  OBVIOUS
<1>3. PICK t \in T : \A y \in T : <<y, t>> \notin R
  <2> HIDE DEF R, T
  <2> QED BY <1>1, <1>2, NatLessThanWellFounded, WFMin, Zenon
<1>4. PICK x \in S : t = x - b
  BY <1>3
<1>5. ASSUME NEW y \in S PROVE x <= y
  <2>1. y - b \in T /\ y - b \in Nat /\ t \in Nat
    BY <1>2, <1>3
  <2>2. ~(y - b < t)
    BY <1>3, <2>1
  <2> QED BY <1>4, <2>1, <2>2
<1> QED BY <1>4, <1>5 DEF Min

\* "replace the oldest one"
LEMMA OldestIs ==
  ASSUME ErrorInv
  PROVE  OldestSlot \in Slots /\ \A i \in Slots : slots[OldestSlot].time <= slots[i].time
<1> DEFINE times == {slots[i].time : i \in Slots}
           oldest == Min(times)
           at == {i \in Slots : slots[i].time = oldest}
<1>1. Never \in Int /\ Never < 0 /\ 0 \in Slots /\ Slots \subseteq Nat
  BY ErrorAssumption DEF Never, Slots
<1>2. \A i \in Slots : slots[i].time \in Int /\ Never <= slots[i].time
  BY <1>1 DEF ErrorInv, ErrorTypes, Remembered, Holds
<1>3. oldest \in times /\ \A i \in Slots : oldest <= slots[i].time
  <2>1. times # {} /\ \A x \in times : x \in Int /\ Never <= x
    BY <1>1, <1>2
  <2>2. \A i \in Slots : slots[i].time \in times
    OBVIOUS
  <2> HIDE DEF times
  <2> QED BY <1>1, <2>1, <2>2, LeastIs
<1> HIDE DEF oldest
<1>4. Min(at) \in at
  <2>1. at # {} /\ \A i \in at : i \in Int /\ 0 <= i
    BY <1>1, <1>3
  <2> HIDE DEF at
  <2> QED BY <2>1, LeastIs
<1>5. OldestSlot = Min(at)
  BY DEF OldestSlot, oldest
<1> QED BY <1>3, <1>4, <1>5

\* The slots are in use, each with a message of its own: so there are that many others.
LEMMA ForgottenForMany ==
  ASSUME ErrorInv, NEW m \in Messages, Forgotten(m)
  PROVE  Cardinality(told[m].others) >= KEEP_MSGS
<1> DEFINE held == {slots[i].msg : i \in Slots}
           f == [i \in Slots |-> slots[i].msg]
<1>1. /\ held \subseteq told[m].others /\ told[m].others \subseteq Messages
      /\ IsFiniteSet(told[m].others)
  BY DEF ErrorInv, ErrorTypes, ForgottenForOthers
<1>2. \A i \in Slots : Holds(i)
  BY <1>1, ErrorAssumption DEF Holds
<1>3. f \in Bijection(Slots, held)
  <2>1. \A i, j \in Slots : i # j => slots[i].msg # slots[j].msg
    BY <1>2 DEF ErrorInv, InOrder
  <2> QED BY <2>1, Zenon DEF Bijection, Injection, Surjection, IsInjective
<1>4. ExistsBijection(Slots, held)
  BY <1>3 DEF ExistsBijection
<1>5. IsFiniteSet(Slots) /\ Cardinality(Slots) = KEEP_MSGS
  BY FS_Interval, ErrorAssumption DEF Slots
<1>6. IsFiniteSet(held) /\ Cardinality(held) = KEEP_MSGS
  BY <1>4, <1>5, FS_Bijection
<1> HIDE DEF held
<1>7. Cardinality(held) <= Cardinality(told[m].others)
  BY <1>1, FS_Subset
<1>8. Cardinality(told[m].others) \in Nat
  BY <1>1, FS_CardinalityType
<1> QED BY <1>6, <1>7, <1>8, ErrorAssumption

\* What a call of HAL_SendError that sends does.
LEMMA SendIs ==
  ASSUME ErrorInv, NEW m \in Messages, SendError(m)
  PROVE  \E s \in Slots :
           /\ slots' = [slots EXCEPT ![s] = [msg |-> m, time |-> now]]
           /\ \/ slots[s].msg = m /\ now - slots[s].time >= Second
              \/ /\ \A i \in Slots : slots[i].msg # m
                 /\ \A i \in Slots : slots[s].time <= slots[i].time
<1> DEFINE kept == {i \in Slots : slots[i].msg = m}
           slot == IF kept = {} THEN OldestSlot ELSE Min(kept)
<1>1. /\ kept = {} \/ now - slots[slot].time >= Second
      /\ slots' = [slots EXCEPT ![slot] = [msg |-> m, time |-> now]]
  BY DEF SendError
<1>2. CASE kept = {}
  <2>1. slot = OldestSlot /\ \A i \in Slots : slots[i].msg # m
    BY <1>2
  <2> QED BY <1>1, <2>1, OldestIs
<1>3. CASE kept # {}
  <2>1. \A i \in kept : i \in Int /\ 0 <= i
    BY ErrorAssumption DEF Slots
  <2>2. slot \in kept
    <3> HIDE DEF kept
    <3> QED BY <1>3, <2>1, LeastIs
  <2>3. slot \in Slots /\ slots[slot].msg = m
    BY <2>2
  <2> HIDE DEF slot
  <2> QED BY <1>1, <1>3, <2>3
<1> QED BY <1>2, <1>3

LEMMA ErrorStart == ErrorInit => ErrorInv
<1> SUFFICES ASSUME ErrorInit PROVE ErrorInv
  OBVIOUS
<1>1. ErrorTypes
  <2>1. ASSUME NEW m \in Messages PROVE IsFiniteSet(told[m].others)
    <3>1. told[m].others = {}
      BY DEF ErrorInit
    <3> QED BY <3>1, FS_EmptySet, Zenon
  <2>2. /\ now \in Nat
        /\ slots \in [Slots -> [msg : Messages \cup {NoMessage}, time : Int]]
        /\ told \in [Messages -> [time : Int, others : SUBSET Messages]]
    BY ErrorAssumption DEF ErrorInit, Never
  <2> QED BY <2>1, <2>2 DEF ErrorTypes
<1>2. Remembered /\ InOrder /\ ForgottenForOthers
  BY DEF ErrorInit, Remembered, InOrder, ForgottenForOthers, Holds, Forgotten
<1> QED BY <1>1, <1>2 DEF ErrorInv

LEMMA ErrorStep == ErrorInv /\ [ErrorNext]_errorVars => ErrorInv'
<1> SUFFICES ASSUME ErrorInv, [ErrorNext]_errorVars PROVE ErrorInv'
  OBVIOUS
<1>0. Never < 0 /\ Never \in Int
  BY ErrorAssumption DEF Never
<1>1. CASE UNCHANGED <<slots, told>> /\ now' \in {now, now + 1}
  <2> USE <1>1
  <2>1. ErrorTypes'
    BY DEF ErrorInv, ErrorTypes
  <2>2. Remembered'
    BY DEF ErrorInv, ErrorTypes, Remembered, Holds
  <2>3. InOrder' /\ ForgottenForOthers'
    BY DEF ErrorInv, InOrder, ForgottenForOthers, Forgotten, Holds
  <2> QED BY <2>1, <2>2, <2>3 DEF ErrorInv
<1>2. ASSUME NEW m \in Messages, SendError(m) PROVE ErrorInv'
  <2>1. PICK s \in Slots :
          /\ slots' = [slots EXCEPT ![s] = [msg |-> m, time |-> now]]
          /\ \/ slots[s].msg = m /\ now - slots[s].time >= Second
             \/ /\ \A i \in Slots : slots[i].msg # m
                /\ \A i \in Slots : slots[s].time <= slots[i].time
    BY <1>2, SendIs
  <2>2. /\ now' = now + 1 /\ now \in Nat /\ now' \in Nat
        /\ told' \in [Messages -> [time : Int, others : SUBSET Messages]]
        /\ told'[m] = [time |-> now, others |-> {}]
        /\ \A n \in Messages \ {m} : /\ told'[n].time = told[n].time
                                     /\ told'[n].others = told[n].others \cup {m}
    BY <1>2 DEF SendError, ErrorInv, ErrorTypes
  <2>3. /\ slots' \in [Slots -> [msg : Messages \cup {NoMessage}, time : Int]]
        /\ slots'[s].msg = m /\ slots'[s].time = now
        /\ \A i \in Slots \ {s} : slots'[i] = slots[i]
    BY <2>1, <2>2 DEF ErrorInv, ErrorTypes
  <2>4. ErrorTypes'
    <3>1. ASSUME NEW n \in Messages PROVE IsFiniteSet(told'[n].others)
      <4>1. IsFiniteSet(told[n].others)
        BY DEF ErrorInv, ErrorTypes
      <4>2. CASE n = m
        <5>1. told'[n].others = {}
          BY <2>2, <4>2
        <5> QED BY <5>1, FS_EmptySet, Zenon
      <4>3. CASE n # m
        <5>1. told'[n].others = told[n].others \cup {m}
          BY <2>2, <4>3
        <5>2. IsFiniteSet(told[n].others \cup {m})
          BY <4>1, FS_AddElement, Zenon
        <5> QED BY <5>1, <5>2, Zenon
      <4> QED BY <4>2, <4>3
    <3> QED BY <2>2, <2>3, <3>1 DEF ErrorTypes
  \* m is in no slot but s: where it was, it is once.
  <2>5. \A i \in Slots \ {s} : slots[i].msg # m
    <3>1. CASE slots[s].msg = m
      BY <3>1, ErrorAssumption DEF ErrorInv, InOrder, Holds
    <3> QED BY <2>1, <3>1
  <2>6. \A i \in Slots : slots[i].msg \in Messages \cup {NoMessage} /\ slots[i].time \in Int
    BY DEF ErrorInv, ErrorTypes
  <2>7. ASSUME NEW i \in Slots \ {s}
        PROVE  /\ slots'[i] = slots[i] /\ Holds(i)' = Holds(i)
               /\ Holds(i) => /\ slots[i].msg \in Messages \ {m}
                              /\ slots[i].time \in 0 .. now - 1
                              /\ told'[slots[i].msg].time = slots[i].time
                              /\ m \in told'[slots[i].msg].others
                              /\ told[slots[i].msg].others \subseteq told'[slots[i].msg].others
    <3>1. slots'[i] = slots[i] /\ Holds(i)' = Holds(i)
      BY <2>3 DEF Holds
    <3>2. ASSUME Holds(i)
          PROVE  /\ slots[i].msg \in Messages \ {m}
                 /\ slots[i].time \in 0 .. now - 1
                 /\ told[slots[i].msg].time = slots[i].time
      BY <2>5, <2>6, <3>2 DEF ErrorInv, Remembered, Holds
    <3>3. ASSUME Holds(i)
          PROVE  /\ told'[slots[i].msg].time = slots[i].time
                 /\ m \in told'[slots[i].msg].others
                 /\ told[slots[i].msg].others \subseteq told'[slots[i].msg].others
      BY <2>2, <3>2, <3>3
    <3> QED BY <3>1, <3>2, <3>3
  <2>8. Holds(s)' /\ slots'[s].time = now /\ slots'[s].msg = m
    BY <2>3, ErrorAssumption DEF Holds
  <2>9. Remembered'
    <3>1. ASSUME NEW i \in Slots
          PROVE  /\ ~Holds(i)' => slots'[i].time = Never
                 /\ Holds(i)' => /\ slots'[i].time \in 0 .. now' - 1
                                 /\ told'[slots'[i].msg].time = slots'[i].time
      <4>1. CASE i = s
        BY <2>2, <2>8, <4>1
      <4>2. CASE i # s
        BY <2>2, <2>7, <4>2 DEF ErrorInv, Remembered
      <4> QED BY <4>1, <4>2
    <3> QED BY <3>1 DEF Remembered, Never
  <2>10. InOrder'
    <3>1. ASSUME NEW i \in Slots, NEW j \in Slots, i # j, Holds(i)', Holds(j)'
          PROVE  /\ slots'[i].time # slots'[j].time /\ slots'[i].msg # slots'[j].msg
                 /\ slots'[i].time < slots'[j].time =>
                      slots'[j].msg \in told'[slots'[i].msg].others
      <4>1. CASE i = s
        BY <2>2, <2>7, <2>8, <3>1, <4>1
      <4>2. CASE j = s
        BY <2>2, <2>7, <2>8, <3>1, <4>2
      <4>3. CASE i # s /\ j # s
        BY <2>7, <3>1, <4>3 DEF ErrorInv, InOrder
      <4> QED BY <4>1, <4>2, <4>3
    <3> QED BY <3>1 DEF InOrder
  <2>11. ForgottenForOthers'
    <3>1. ASSUME NEW n \in Messages, Forgotten(n)', NEW i \in Slots
          PROVE  slots'[i].msg \in told'[n].others
      <4>1. n # m /\ told[n].time # Never
            /\ told'[n].others = told[n].others \cup {m}
            /\ \A j \in Slots \ {s} : slots[j].msg # n
        BY <2>2, <2>3, <2>8, <3>1 DEF Forgotten, Never
      <4>2. CASE i = s
        BY <2>8, <4>1, <4>2
      \* n was in no slot before, ...
      <4>3. CASE i # s /\ slots[s].msg # n
        <5>1. Forgotten(n)
          BY <4>1, <4>3 DEF Forgotten
        <5> QED BY <2>3, <4>1, <4>3, <5>1 DEF ErrorInv, ForgottenForOthers
      \* ... or it was the oldest, which m has replaced.
      <4>4. CASE i # s /\ slots[s].msg = n
        <5>1. Holds(s) /\ slots[s].time \in 0 .. now - 1
          BY <4>4, ErrorAssumption DEF Holds, ErrorInv, Remembered
        <5>2. slots[s].time <= slots[i].time
          BY <2>1, <4>1, <4>4
        <5>3. Holds(i)
          BY <1>0, <5>1, <5>2 DEF ErrorInv, Remembered
        <5>4. slots[i].msg \in told[n].others
          BY <2>6, <4>4, <5>1, <5>2, <5>3 DEF ErrorInv, InOrder
        <5> QED BY <2>3, <4>1, <4>4, <5>4
      <4> QED BY <4>2, <4>3, <4>4
    <3> QED BY <3>1 DEF ForgottenForOthers
  <2> QED BY <2>4, <2>9, <2>10, <2>11 DEF ErrorInv
<1>3. CASE UNCHANGED errorVars
  BY <1>1, <1>3 DEF errorVars
<1>4. CASE Clock
  BY <1>1, <1>4 DEF Clock
<1> QED BY <1>2, <1>3, <1>4 DEF ErrorNext

\* For any number of messages and of slots: HAL_SendError repeats a message within a
\* second only after as many others as it remembers.
THEOREM RepeatsAreOfForgotten == ErrorSpec => RepeatsOnlyForgotten
<1> DEFINE Repeats ==
      \A m \in Messages : told'[m] # told[m] /\ told'[m].others = {}
        => now - told[m].time >= Second \/ Cardinality(told[m].others) >= KEEP_MSGS
<1>1. ErrorInv /\ [ErrorNext]_errorVars => [Repeats]_errorVars
  <2> SUFFICES ASSUME ErrorInv, ErrorNext PROVE Repeats
    OBVIOUS
  <2> SUFFICES ASSUME NEW m \in Messages, told'[m] # told[m], told'[m].others = {}
               PROVE  now - told[m].time >= Second \/ Cardinality(told[m].others) >= KEEP_MSGS
    OBVIOUS
  <2>1. SendError(m)
    <3>1. PICK n \in Messages : SendError(n)
      BY DEF ErrorNext, Clock
    <3>2. n # m => told'[m].others = told[m].others \cup {n}
      BY <3>1 DEF SendError, ErrorInv, ErrorTypes
    <3> QED BY <3>1, <3>2
  <2>2. now \in Nat /\ told[m].time \in Int
    BY DEF ErrorInv, ErrorTypes
  <2>3. CASE told[m].time = Never
    BY <2>2, <2>3, ErrorAssumption DEF Never
  <2>4. CASE Forgotten(m)
    BY <2>4, ForgottenForMany
  <2>5. CASE told[m].time # Never /\ ~Forgotten(m)
    <3>1. PICK i \in Slots : slots[i].msg = m
      BY <2>5 DEF Forgotten
    <3>2. PICK s \in Slots : slots[s].msg = m /\ now - slots[s].time >= Second
      BY <2>1, <3>1, SendIs
    <3>3. told[m].time = slots[s].time
      BY <3>2, ErrorAssumption DEF ErrorInv, Remembered, Holds
    <3> QED BY <3>2, <3>3
  <2> QED BY <2>3, <2>4, <2>5
<1> QED BY <1>1, ErrorStart, ErrorStep, PTL DEF ErrorSpec, RepeatsOnlyForgotten
=============================================================================
