---------------------------- MODULE CtreCanNode ----------------------------
(***************************************************************************)
(* The receiving half of ctre/CtreCanNode.cpp, as the status calls of      *)
(* ctre/PCM.cpp use it: a frame is polled from the vendor's session, then  *)
(* stored with the time of the store, under _lck.  A call without a new    *)
(* frame gets the stored one, and CTR_RxTimeout when that is old.  Only    *)
(* differences of times matter: age is what line 109 computes, and the     *)
(* system clock it is computed with may be set.  One arbitration id; a     *)
(* frame is a number, later ones are higher.                               *)
(***************************************************************************)
EXTENDS ThreadConstants, Integers

CONSTANTS
  Limit,       \* EXPECTED_RESPONSE_TIMEOUT_MS, in ticks; ages past it are not told apart
  MaxFrame,    \* bound on the frames the module sends
  MaxBack,     \* how far the system clock is set back at once, at most
  MaxBacks     \* bound on how often it is set back

ASSUME NodeAssumption == Limit \in Nat

VARIABLES
  mailbox,    \* the session's unread frame, 0 if none; a newer one replaces it
  lastFrame,  \* the last frame the module sent
  rxEvent,    \* the frame stored, 0 before the first one
  age,        \* the system clock, less the time stored with it
  call,       \* per caller: Outside, or the frame its poll was given, 0 if none
  answer,     \* per caller: "new", "stored" or "timeout" once GetRx has returned
  backs

nodeVars == <<mailbox, lastFrame, rxEvent, age, call, answer, backs>>

Outside == -1   \* a caller that is not in GetRx

NodeInit ==
  /\ mailbox = 0 /\ lastFrame = 0 /\ rxEvent = 0 /\ backs = 0
  /\ age = 0
  /\ call = [c \in Threads |-> Outside] /\ answer = [c \in Threads |-> "none"]

Broadcast ==
  /\ lastFrame < MaxFrame
  /\ lastFrame' = lastFrame + 1 /\ mailbox' = lastFrame + 1
  /\ UNCHANGED <<rxEvent, age, call, answer, backs>>

Advance ==
  /\ rxEvent # 0 /\ age <= Limit /\ age' = age + 1
  /\ UNCHANGED <<mailbox, lastFrame, rxEvent, call, answer, backs>>

SetBack ==
  /\ rxEvent # 0 /\ backs < MaxBacks /\ backs' = backs + 1
  /\ \E d \in 1 .. MaxBack : age' = age - d
  /\ UNCHANGED <<mailbox, lastFrame, rxEvent, call, answer>>

\* GetRx up to the session's answer, which comes before the lock.
Poll(c) ==
  /\ call[c] = Outside
  /\ call' = [call EXCEPT ![c] = mailbox] /\ mailbox' = 0
  /\ answer' = [answer EXCEPT ![c] = "none"]
  /\ UNCHANGED <<lastFrame, rxEvent, age, backs>>

\* Mutated form: the time is taken for a frame that was stored before, too.
StoresAlways(c) ==
  /\ call[c] # Outside /\ call' = [call EXCEPT ![c] = Outside]
  /\ rxEvent' = IF call[c] = 0 THEN rxEvent ELSE call[c]
  /\ age' = 0
  /\ answer' = [answer EXCEPT ![c] =
                  IF call[c] # 0 THEN "new" ELSE IF rxEvent = 0 \/ age > Limit THEN "timeout" ELSE "stored"]
  /\ UNCHANGED <<mailbox, lastFrame, backs>>

\* The rest, under the lock: a new frame is stored and given to the caller; without one
\* there are zeros and CTR_RxTimeout before the first, else the stored bytes, with
\* CTR_RxTimeout when they are old.
GetRx(c) ==
  /\ call[c] # Outside /\ call' = [call EXCEPT ![c] = Outside]
  /\ IF call[c] # 0
     THEN rxEvent' = call[c] /\ age' = 0
     ELSE UNCHANGED <<rxEvent, age>>
  /\ answer' = [answer EXCEPT ![c] =
                  IF call[c] # 0 THEN "new" ELSE IF rxEvent = 0 \/ age > Limit THEN "timeout" ELSE "stored"]
  /\ UNCHANGED <<mailbox, lastFrame, backs>>

\* Every status call of the PCM is one GetRx, and picks its field from the bytes: those
\* of the module's status, and those of its supply, faults and counters.
GetStatus(c) == Poll(c)
GetFaults(c) == Poll(c)

NodeNext == Broadcast \/ Advance \/ SetBack
            \/ \E c \in Threads : GetStatus(c) \/ GetFaults(c) \/ GetRx(c)

\* Time passes; nobody has to call.
NodeSpec == NodeInit /\ [][NodeNext]_nodeVars /\ WF_nodeVars(Advance)

-----------------------------------------------------------------------------
\* When the module has fallen silent, callers are told: from some time on every call
\* that returns is a timeout, however the last frames were polled and stored and although
\* the clock was set back, as long as it is not set back for ever.
SilenceIsTold == <>[][\A c \in Threads : GetRx(c) => answer'[c] = "timeout"]_nodeVars
=============================================================================
