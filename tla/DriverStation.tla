--------------------------- MODULE DriverStation ---------------------------
(***************************************************************************)
(* cpphalbackup/FRCDriverStation.cpp: threads that wait for the next       *)
(* packet of the driver station, on a condition variable whose counter is  *)
(* changed and notified without its mutex; and error messages, repeated at *)
(* most once a second.                                                     *)
(***************************************************************************)
EXTENDS Integers, FiniteSets, FiniteSetsExt

CONSTANTS
  Readers,      \* robot threads
  MaxCount,     \* the counter wraps after it: an int, with 20 ms between packets
  Endless,      \* whether packets keep coming; otherwise the last is HAL_ReleaseDSMutex's
  Messages, KEEP_MSGS,
  Second,       \* ticks of a second; a call of HAL_SendError takes one
  MaxTime       \* bound on the ticks for which messages are sent

VARIABLES
  count,        \* newDSDataAvailableCounter
  released,     \* HAL_ReleaseDSMutex was called
  dsPc,
  current,      \* currentCount of each thread's call
  timed,        \* whether the call has a timeout
  lastCount,    \* thread_local lastCount of HAL_WaitForCachedControlData
  slots,        \* prevMsg and prevMsgTime, by index
  now,          \* the clock of HAL_SendError
  told          \* ghost: per message, when it was last sent and who was sent since

dsVars == <<count, released, dsPc, current, timed, lastCount>>
errorVars == <<slots, now, told>>

Never == -Second
NoMessage == "none"
Slots == 0 .. KEEP_MSGS - 1

ASSUME ErrorAssumption ==
  KEEP_MSGS \in Nat \ {0} /\ Second \in Nat \ {0} /\ NoMessage \notin Messages

DSInit ==
  /\ count = 0 /\ released = FALSE
  /\ dsPc = [r \in Readers |-> "idle"] /\ current = [r \in Readers |-> 0]
  /\ timed = [r \in Readers |-> FALSE] /\ lastCount = [r \in Readers |-> -1]
ErrorInit ==
  /\ slots = [i \in Slots |-> [msg |-> NoMessage, time |-> Never]] /\ now = 0
  /\ told = [m \in Messages |-> [time |-> Never, others |-> {}]]

Go(r, step) == dsPc' = [dsPc EXCEPT ![r] = step]

\* HAL_WaitForDSDataTimeout: the counter first, ...
WaitForDSData(r) ==
  /\ dsPc[r] = "idle" /\ ~released
  /\ \E timeout \in BOOLEAN : timed' = [timed EXCEPT ![r] = timeout]
  /\ current' = [current EXCEPT ![r] = count]
  /\ Go(r, "check")
  /\ UNCHANGED <<count, released, lastCount>>

\* HAL_WaitForCachedControlDataTimeout: nothing to wait for if a packet came since the
\* last call that asked; a call that did wait leaves lastCount as it was.
WaitForCachedControlData(r) ==
  /\ dsPc[r] = "idle" /\ lastCount[r] = count /\ ~released
  /\ \E timeout \in BOOLEAN : timed' = [timed EXCEPT ![r] = timeout]
  /\ current' = [current EXCEPT ![r] = count]
  /\ Go(r, "check")
  /\ UNCHANGED <<count, released, lastCount>>

\* Or there is something new: also what HAL_IsNewControlData does.
IsNewControlData(r) ==
  /\ dsPc[r] = "idle" /\ lastCount[r] # count /\ ~released
  /\ lastCount' = [lastCount EXCEPT ![r] = count]
  /\ UNCHANGED <<count, released, dsPc, current, timed>>

\* ... then, with the mutex, the loop: look at the counter, ...
Check(r) ==
  /\ dsPc[r] \in {"check", "woken"}
  /\ Go(r, IF count # current[r] THEN "idle" ELSE "wait")
  /\ UNCHANGED <<count, released, current, timed, lastCount>>

\* ... and only then wait for a notification.
Wait(r) ==
  /\ dsPc[r] = "wait" /\ Go(r, "waiting")
  /\ UNCHANGED <<count, released, current, timed, lastCount>>

Timeout(r) ==
  /\ dsPc[r] = "waiting" /\ timed[r] /\ Go(r, "idle")
  /\ UNCHANGED <<count, released, current, timed, lastCount>>

\* Mutated form: notify_one.
NotifiedOne == LET all == {r \in Readers : dsPc[r] = "waiting"}
               IN  IF all = {} THEN {} ELSE {CHOOSE r \in all : TRUE}

\* notify_all
Notified == {r \in Readers : dsPc[r] = "waiting"}

\* newDataOccur adds one and notifies; nobody locks, so a thread between its look at the
\* counter and its wait is not woken.  "at a 20ms rate" no thread that can run is
\* overtaken by so many packets that the counter comes round to what it read.
newDataOccur ==
  /\ \A r \in Readers, n \in {1, 2} :
       dsPc[r] \in {"check", "wait", "woken"} => current[r] # (count + n) % (MaxCount + 1)
  /\ count' = (count + 1) % (MaxCount + 1)
  /\ dsPc' = [r \in Readers |-> IF r \in Notified THEN "woken" ELSE dsPc[r]]
  /\ UNCHANGED <<current, timed, lastCount>>

Packet == (Endless \/ count < MaxCount - 1) /\ ~released /\ newDataOccur /\ UNCHANGED released

\* "to allow proper shutdown of any threads that are waiting on it": no call begins after it
ReleaseDSMutex == ~Endless /\ ~released /\ released' = TRUE /\ newDataOccur

ContinueWait(r) == Check(r) \/ Wait(r) \/ Timeout(r)

DSNext ==
  \/ \E r \in Readers : \/ WaitForDSData(r) \/ WaitForCachedControlData(r)
                        \/ IsNewControlData(r) \/ ContinueWait(r)
  \/ Packet \/ ReleaseDSMutex

\* A thread in a call goes on; packets, or the release, come.
DSFair == /\ \A r \in Readers : WF_dsVars(ContinueWait(r))
          /\ WF_dsVars(Packet \/ ReleaseDSMutex)

Clock == now < MaxTime /\ now' = now + 1 /\ UNCHANGED <<slots, told>>

\* Mutated form: a new message takes the first slot, whatever is in it.
FirstSlot == 0

\* "replace the oldest one"
OldestSlot ==
  LET oldest == Min({slots[i].time : i \in Slots})
  IN  Min({i \in Slots : slots[i].time = oldest})

\* HAL_SendError: "only printing again if they're longer than 1 second old".
SendError(m) ==
  LET kept == {i \in Slots : slots[i].msg = m}
      slot == IF kept = {} THEN OldestSlot ELSE Min(kept)
  IN  /\ now < MaxTime /\ now' = now + 1
      /\ kept = {} \/ now - slots[slot].time >= Second
      /\ slots' = [slots EXCEPT ![slot] = [msg |-> m, time |-> now]]
      /\ told' = [n \in Messages |-> IF n = m THEN [time |-> now, others |-> {}]
                                     ELSE [told[n] EXCEPT !.others = @ \cup {m}]]

ErrorNext == Clock \/ \E m \in Messages : SendError(m)

-----------------------------------------------------------------------------
\* While packets come, no thread waits for ever, with or without a timeout: a wake-up
\* that is missed between the look at the counter and the wait is made good by the next.
WaitEnds == \A r \in Readers : dsPc[r] # "idle" ~> dsPc[r] = "idle"

\* "to allow proper shutdown of any threads that are waiting on it": after
\* HAL_ReleaseDSMutex every thread that waits returns.
ReleaseEndsWaits == \A r \in Readers : released ~> dsPc[r] = "idle"

\* A message is sent again within a second only if as many others were sent since as
\* are remembered.
RepeatsOnlyForgotten ==
  [][\A m \in Messages : told'[m] # told[m] /\ told'[m].others = {}
       => now - told[m].time >= Second \/ Cardinality(told[m].others) >= KEEP_MSGS]_errorVars
=============================================================================
